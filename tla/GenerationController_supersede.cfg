\* Attempts of two sessions that supersede each other, answers that come late.
CONSTANTS
  MaxAttempts = 3
  Sessions = {s1, s2}
  PendingIds = {p1, p2}
  Codes = {c1}
  SessionLimit = 2
  DeadlineSeconds = 1
  MaxCalls = 2
  MaxRepairs = 1
  MaxRegenerations = 1
  MaxRetained = 1
  Drivers = {FALSE}
  Holds = {TRUE, FALSE}
  MaxTime = 1
  None = None
SPECIFICATION Spec
SYMMETRY Symmetric
INVARIANTS NothingLeaks NothingStranded
PROPERTY ImplementsLifecycle
CHECK_DEADLOCK FALSE
