SPECIFICATION MCSpec
CONSTANTS
  DescCount = 4
  PktCount = 3
  FragCount = 3
  LengthMax = 4
  HeaderLength = 1
  VlanId = 0
  HwTags = {0, 5}
  HwSizes = {0, 7}
  Packets <- ContextPackets
  MacAddrCount = 3
  Groups = {"g1", "g2"}
  Filters <- MCFilters
  Jumbos = {0, 2000, 2041, 20000}
  FifoSizes = {3, 8}
  Resets = {"done", "timeout"}
  Devices = {"d1", "d2"}
  Sets = {"mac", "debug"}
  Methods <- MCMethods
  Keys = {"k1", "k2"}
INVARIANTS DeviceFindsOwnDescriptors TransmitsAsAsked NoReturnWhileInUse AddressKept ReceivesAsAskedAndWhole CallbackFindsDevices MethodsReadAndFreed
PROPERTIES DriverLeavesDeviceDescriptors
