\* The directory of a file may come after the file.
SPECIFICATION Spec
CONSTANTS
  a = a  b = b  r1 = r1  r2 = r2
  Snapshots <- ThreeSnapshots
  SizeOf <- Lengths
  Readers = {r1}
  Offsets = {0}
  Sizes = {1}
  Occupied <- OldFile
  None = none
INVARIANTS MountShowsArchives
CHECK_DEADLOCK FALSE
