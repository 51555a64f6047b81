\* A chunk is stored twice, its snapshots are removed, and the repository is
\* packed.  Nothing fails and no command ends half-way.
SPECIFICATION Spec
CONSTANTS
  p1 = p1  p2 = p2  v1 = v1  v2 = v2  s1 = s1  s2 = s2  h1 = h1  h2 = h2
  b1 = b1  b2 = b2  None = None
  Procs = {p1}
  Volumes = {v1}
  Snapshots = {s1, s2}
  Paths = {"f"}
  Hashes = {h1}
  Shapes <- TwoShapes
  Backends = {b1, b2}
  Commands = {"volinit", "store", "remove", "volremove", "pack"}
  MayAbort <- Nowhere
  IndexMayFail = FALSE
  StoreMayFail = FALSE
SYMMETRY DataSymmetry
PROPERTIES PackDeletesAllUnused
