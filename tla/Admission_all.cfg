\* Two sessions, three requests, a restart, and time for windows and graces to end.
CONSTANTS
  Sessions = {s1, s2}
  Requests = {r1, r2, r3}
  MaxSessions = 2
  MaxPerSession = 2
  SessionLimit = 2
  GlobalLimit = 2
  MaxPerWindow = 3
  Window = 2
  TTL = 1
  MaxTime = 3
  MaxRestarts = 1
  None = None
SPECIFICATION Spec
SYMMETRY Symmetric
INVARIANTS TypeOK MemoryAccounted QuotaIsKept KnownUntilAdmitted
CHECK_DEADLOCK FALSE
