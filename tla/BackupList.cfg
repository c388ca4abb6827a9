CONSTANTS
  r1 = r1
  r2 = r2
  r3 = r3
  r4 = r4
  t1 = t1
  t2 = t2
  q1 = q1
  q2 = q2
  c1 = c1
  c2 = c2
  Runs = {r1, r2}
  Ticks = {t1}
  Requests = {q1}
  Conns = {c1}
  Pool <- OneConnectionEach
  NoConn = NoConn
  NoRow = NoRow
  Ops = {"run", "delete", "protect", "unprotect", "history"}
  Faults = {"backup", "retire", "lock", "disconnect", "crash"}
  Aging = {"FAILED"}
  RetentionCount = 1
  MaxSlots = 1
  MaxStamp = 4
  MaxDepth = 2
  MaxFaults = 1
SPECIFICATION Spec
INVARIANTS
  TypeOK
  NewestSurvives
  RetireInv
PROPERTIES
  ImplementsCatalog
SYMMETRY RunAndRequestSymmetry
CHECK_DEADLOCK FALSE
