\* A chunk cannot be processed, and the store is to be pedantic.
SPECIFICATION Spec
CONSTANTS
  w1 = w1  w2 = w2  w3 = w3
  Workers = {w1, w2}
  NumChunks = 2
INVARIANTS PedanticMeansComplete
\* All goroutines end.
CHECK_DEADLOCK FALSE
