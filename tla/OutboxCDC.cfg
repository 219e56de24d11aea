SPECIFICATION Safety
CONSTANTS
  NumKeys = 2
  Batch = 2
  Page = 2
  Chunk = 2
  MaxParked = 1
  Retries = 2
  MaxWrites = 2
  Faults = {"bad", "loss", "disable", "truncate", "step"}
  MaxFaults = 1
  BothFaults = FALSE
INVARIANTS CDCTypeOK NothingForgotten
PROPERTIES ReadersNeverGoBack
