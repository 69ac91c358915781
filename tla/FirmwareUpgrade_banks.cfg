SPECIFICATION Spec
CONSTANTS
  MaxUpload = 2
  MaxFault = 1
  MaxCrash = 1
INVARIANTS
  TypeOK
  CommitBootable
  RunningIntact
CONSTRAINT OneCause
CHECK_DEADLOCK FALSE
