\* Three requests of one case, four versions, a deletion and crashes.
CONSTANTS
  Cases = {c1}
  Requests = {r1, r2, r3}
  MaxVersion = 4
  None = None
SPECIFICATION Spec
SYMMETRY Symmetric
INVARIANTS TypeOK TablesAgree UndecidedIsAttended
PROPERTY ImplementsCatalog
CHECK_DEADLOCK FALSE
