\* Chunks with parity and the repository file on three backends;
\* calls fail often enough for operations to fail.
SPECIFICATION Spec
CONSTANTS
  h1 = h1  h2 = h2
  NumBackends = 3
  Retries = 2
  Hashes = {h1}
  Tolerances = {1}
  MaxFaults = 4
  MaxSaves = 2
SYMMETRY HashSymmetry
INVARIANTS TypeOK TolerantOfFailures RetriesSuffice LoadsCommitted EarlierIsNewer
