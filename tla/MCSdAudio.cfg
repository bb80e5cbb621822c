SPECIFICATION SdAudioSpec
CONSTANTS
  Requests <- MCRequests
  FifoBlocks = 2
  MshcRequests <- MCMshcRequests
  FifoChunks = 2
  Removable = TRUE
  ParentHz <- MCParentHz
  DivMax = 64
  Frequencies <- MCFrequencies
  MaxFrequency = 200000
  NumPhases = 6
  BadPhasesToSkip = 2
  SamplePhaseDefault = 0
  Threshold = 2
  Parent400M = 400000
  Parent24M = 24000
  DllFrom = 100000
  SdhcFrequencies <- MCSdhcFrequencies
  UhsModes <- MCUhsModes
  Widths <- MCWidths
  Voltages <- MCVoltages
  Lists <- MCLists
  MaxLength = 3
  Slots = 6
  Streams = {s1, s2}
  MaxSystemStreams = 1
  PinFormats <- MCPinFormats
  Proposals <- MCProposals
  ContentIds = {0, 1}
  Topologies = {"i2s-jack", "hdmi", "dp"}
  MaxIdle = 3
INVARIANTS EventsComeOnceOnEither PioFindsPart NeitherTooFast EngineFollowsList StreamsAccounted MixOwned TransfersOwnBuffer PositionOfOwnChannel AllOrNothing ReadyInD0
PROPERTIES HostsImplementSdRequest BusChangesGated TunedInTheMiddle
SYMMETRY Symmetry
