\* Two targets of which one holds the other, batches of two, files of one chunk.
SPECIFICATION Spec
CONSTANTS
  root = root  file = file  note = note  pipe = pipe
  Targets <- TwoTargets
  TypeOf <- Types
  Above <- AboveThem
  Excluded = {}
  Special = {root}
  NumChunks = 1
  BatchSize = 2
  None = none
INVARIANTS TypeOK NoSendOnClosed SavedIsComplete
PROPERTIES Ends
\* All goroutines end.
CHECK_DEADLOCK FALSE
