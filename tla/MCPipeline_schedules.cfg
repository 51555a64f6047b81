\* Three workers and a chunk for each; anything may fail.
SPECIFICATION Spec
CONSTANTS
  w1 = w1  w2 = w2  w3 = w3
  Workers = {w1, w2, w3}
  NumChunks = 3
INVARIANTS TypeOK NoSendOnClosed DeliveredOnce
PROPERTIES Ends ImplementsStream
\* All goroutines end.
CHECK_DEADLOCK FALSE
