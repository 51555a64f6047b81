\* One command at a time, none of them clone.  All may end half-way, but
\* removals not between their two saves; reading the chunk-index and storing a
\* chunk may fail.  Each store chooses how many parts its chunks have.
SPECIFICATION Spec
CONSTANTS
  p1 = p1  p2 = p2  v1 = v1  v2 = v2  s1 = s1  s2 = s2  h1 = h1  h2 = h2
  b1 = b1  b2 = b2  None = None
  Procs = {p1}
  Volumes = {v1, v2}
  Snapshots = {s1, s2}
  Paths = {"f"}
  Hashes = {h1}
  Shapes <- TwoShapes
  Backends = {b1, b2}
  Commands = {"volinit", "store", "remove", "volremove", "pack"}
  MayAbort <- WhereItIsHarmless
  IndexMayFail = TRUE
  StoreMayFail = TRUE
SYMMETRY DataSymmetry
INVARIANTS TypeOK Recoverable IndexCovers PackFindsParts
PROPERTIES OnlyUnreferencedDeleted ImplementsBackups
