SPECIFICATION DevicesSpec
CONSTANTS
  Streams = {playing, recording}
  Overlap = FALSE
  DmacSlow = FALSE
  DmaRequests <- Boundaries
  Descriptors <- Targets
  SpiRequests <- Transfers
  FIFO_DEPTH = 2
  HwDepth = 2
  MAX_FRAMES = 4
  InputClock = 100
  DefaultSpeed = 10
  BAUDR_MIN = 2
  BAUDR_MAX = 20
  Queues = {"Rx"}
  Conditions = {"Rx", "Error", "Link"}
  Dpcs = {1, 2}
  Workers = {1, 2}
INVARIANTS NoChannelLeaked ActiveExecutes PeriodsMoved SpiTransfersAsAsked ArmedNotLost NoLinkChangeLost
PROPERTIES WaitsEnd QueuesAndLinkServed
