SPECIFICATION Spec
CONSTANTS
  s1 = s1
  s2 = s2
  s3 = s3
  c1 = c1
  c2 = c2
  l1 = l1
  l2 = l2
  l3 = l3
  p1 = p1
  p2 = p2
  None = None
  Links = {l1, l2}
  Sessions = {s1, s2, s3}
  Calls = {c1, c2}
  Scopes = {p1, p2}
  ScopeOf <- MCScopeOf
  CallScope <- MCCallScope
  Grace = 0
  Ttl = 2
  MaxRegistry = 1
  MaxTime = 2
SYMMETRY Symmetry
INVARIANT DisconnectUnblocks
CHECK_DEADLOCK FALSE
