SPECIFICATION MCSpec
CONSTANTS
  DescCount = 4
  PktCount = 3
  FragCount = 4
  TxDescCount = 8
  TxPktCount = 3
  LengthMax = 4
  HeaderLength = 1
  VlanId = 0
  HwTags = {0}
  HwSizes = {0}
  Packets <- RingPackets
INVARIANTS RxKeepsBuffersInUse
PROPERTIES RxOnlyGoodFrames RxGoesOn EveryPacketReturned
