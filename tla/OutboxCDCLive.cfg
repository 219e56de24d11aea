SPECIFICATION Spec
CONSTANTS
  NumKeys = 2
  Batch = 1
  Page = 1
  Chunk = 1
  MaxParked = 1
  Retries = 2
  MaxWrites = 1
  Faults = {"bad", "loss", "error", "disable", "truncate", "step", "install", "resync", "day"}
  MaxFaults = 1
  BothFaults = FALSE
PROPERTIES Converges ParkedIsReleased
