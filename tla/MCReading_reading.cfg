\* Three snapshots with chunks of one and two bytes, in any state of decay; two reads.
SPECIFICATION Spec
CONSTANTS
  a = a  b = b  r1 = r1  r2 = r2
  Snapshots <- ThreeSnapshots
  SizeOf <- Lengths
  Readers = {r1, r2}
  Offsets = {0, 1, 2, 3, 4}
  Sizes = {1, 2}
  Occupied <- OldFile
  None = none
INVARIANTS TypeOK CacheIsTrue ReadsAreExact DecodedIsExact VerifiedIsIntact
 
\* Commands end.
CHECK_DEADLOCK FALSE
