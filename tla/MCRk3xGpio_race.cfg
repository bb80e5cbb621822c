SPECIFICATION MCSpec
CONSTANTS
  Pins = {"lower", "upper"}
  UpperPins = {"upper"}
  Configs <- MCConfigs
  Overlap = TRUE
INVARIANTS ConfiguredAsAsked
