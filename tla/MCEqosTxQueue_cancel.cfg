SPECIFICATION Spec
CONSTANTS
  DescCount = 4
  PktCount = 3
  FragCount = 3
  LengthMax = 4
  HeaderLength = 1
  VlanId = 0
  HwTags = {0}
  HwSizes = {0}
  Packets <- ContextPackets
INVARIANTS CancelLeavesNoDescriptors
