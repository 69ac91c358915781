SPECIFICATION Spec
CONSTANTS
  Streams <- MCStreams
  Lengths = {0, 2, 9}
  Size = 8
  UploadMax = 8
INVARIANTS
  TypeOK
  LinesExact
  KeptIntact
  BodyExact
  InBuffer
  FormWhole
PROPERTY
  ReadEnds
CHECK_DEADLOCK FALSE
