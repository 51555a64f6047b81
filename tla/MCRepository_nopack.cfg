\* Two processes run any commands but pack at the same time; all of them may
\* end half-way, and indexes and chunks may fail to be read and stored.
SPECIFICATION Spec
CONSTANTS
  p1 = p1  p2 = p2  v1 = v1  v2 = v2  s1 = s1  s2 = s2  h1 = h1  h2 = h2
  b1 = b1  b2 = b2  None = None
  Procs = {p1, p2}
  Volumes = {v1}
  Snapshots = {s1, s2}
  Paths = {"f"}
  Hashes = {h1}
  Shapes <- TwoShapes
  Backends = {b1}
  Commands = {"volinit", "store", "clone", "remove", "volremove"}
  MayAbort <- Everywhere
  IndexMayFail = TRUE
  StoreMayFail = TRUE
SYMMETRY DataSymmetry
INVARIANTS Recoverable
PROPERTIES SnapshotsStay
