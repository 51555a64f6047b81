\* One bucket at Backblaze and one password; nothing need fail.
SPECIFICATION Spec
CONSTANTS
  b1 = b1  b2 = b2  p1 = p1  p2 = p2  none = none
  Backends = {b1}
  KindsOf <- Backblaze
  Passwords = {p1}
  Retries = 1
  MaxSaves = 2
  None = none
PROPERTIES UploadKeepsOtherFiles
CHECK_DEADLOCK FALSE
