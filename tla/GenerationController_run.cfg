\* One attempt: every stage, repairs and a regeneration in reach, with and without a driver.
CONSTANTS
  MaxAttempts = 1
  Sessions = {s1}
  PendingIds = {p1, p2}
  Codes = {c1, c2}
  SessionLimit = 1
  DeadlineSeconds = 1
  MaxCalls = 7
  MaxRepairs = 2
  MaxRegenerations = 1
  MaxRetained = 1
  Drivers = {TRUE, FALSE}
  Holds = {TRUE, FALSE}
  MaxTime = 2
  None = None
SPECIFICATION FairSpec
INVARIANTS TypeOK PublishedIsChecked
PROPERTIES NoLatePublication RunsEnd
CHECK_DEADLOCK FALSE
