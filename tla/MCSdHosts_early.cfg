SPECIFICATION HostSpec
CONSTANTS
  Requests <- OneRead
  FifoBlocks = 2
  MshcRequests <- OneMshcRead
  FifoChunks = 2
  Removable = FALSE
INVARIANTS EarlyEventsKept
