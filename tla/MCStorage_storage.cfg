\* Two backends, of which one may be of any kind; two passwords, three versions.
SPECIFICATION Spec
CONSTANTS
  b1 = b1  b2 = b2  p1 = p1  p2 = p2  none = none
  Backends = {b1, b2}
  KindsOf <- AnyAndPlain
  Passwords = {p1, p2}
  Retries = 2
  MaxSaves = 2
  None = none
SYMMETRY SymmetricPasswords
INVARIANTS TypeOK AcknowledgedIsKept SavedEverywhere
PROPERTIES InitKeepsRepositories ImplementsFileStore
\* Commands may be impossible once MaxSaves is reached.
CHECK_DEADLOCK FALSE
