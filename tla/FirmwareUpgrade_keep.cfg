SPECIFICATION Spec
CONSTANTS
  MaxUpload = 1
  MaxFault = 0
  MaxCrash = 0
INVARIANT
  FileKept
CHECK_DEADLOCK FALSE
