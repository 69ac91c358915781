SPECIFICATION Spec
CONSTANTS
  NInodes = 4
  MaxVersion = 2
  MaxCrash = 2
  MaxFault = 1
  MaxTool = 1
INVARIANTS
  TypeOK
  CrashConsistent
PROPERTY
  RebootFlushes
CONSTRAINT Unhurt
CHECK_DEADLOCK FALSE
