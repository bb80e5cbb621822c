SPECIFICATION MCSpec
CONSTANTS
  Requests <- MCRequests
  BaseClocks <- MCBaseClocks
  Buffer = 3
  MaxLate = 1
  Garbage <- MCGarbage
  MaxFailures = 1
  Pins = {"lower", "upper"}
  UpperPins = {"upper"}
  Configs <- MCConfigs
INVARIANTS TransfersAsAskedInTime WaitIsServed TimingsMeetSpec CodecComesBack ConfiguredAsAsked NoGlitch EdgesServedOnce
