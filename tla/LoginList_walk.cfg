SPECIFICATION Spec
CONSTANTS
  n1 = n1
  n2 = n2
  n3 = n3
  n4 = n4
  i1 = i1
  i2 = i2
  s1 = s1
  s2 = s2
  Nodes = {n1, n2, n3, n4}
  Null = Null
  Ips = {i1, i2}
  Sids = {s1, s2}
  MaxSessions = 3
  AutoExit = 1
SYMMETRY NodeSymmetry
INVARIANT TypeOK
INVARIANT NoLeak
INVARIANT SessionBound
PROPERTY WalkExact
CHECK_DEADLOCK FALSE
