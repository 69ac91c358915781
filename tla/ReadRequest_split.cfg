SPECIFICATION Spec
CONSTANTS
  Streams <- MCSplit
  Lengths = {0}
  Size = 8
  UploadMax = 4
INVARIANT
  MalformedOnly
CHECK_DEADLOCK FALSE
