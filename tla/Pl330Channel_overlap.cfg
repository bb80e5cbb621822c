SPECIFICATION Spec
CONSTANTS
  Streams = {tx, rx}
  Overlap = TRUE
  DmacSlow = FALSE
INVARIANT ActiveInterrupts
