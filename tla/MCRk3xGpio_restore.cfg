SPECIFICATION MCSpec
CONSTANTS
  Pins = {"lower"}
  UpperPins = {}
  Configs <- OneConfig
  Overlap = FALSE
INVARIANTS NoStrayInterrupt
