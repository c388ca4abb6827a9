CONSTANTS
  r1 = r1
  r2 = r2
  r3 = r3
  r4 = r4
  t1 = t1
  t2 = t2
  q1 = q1
  q2 = q2
  c1 = c1
  c2 = c2
  Runs = {r1, r2, r3}
  Ticks = {t1, t2}
  Requests = {}
  Conns = {c1, c2}
  Pool <- OneConnectionEach
  NoConn = NoConn
  NoRow = NoRow
  Ops = {}
  Faults = {"backup", "audit", "crash"}
  Aging = {"RUNNING"}
  RetentionCount = 1
  MaxSlots = 2
  MaxStamp = 6
  MaxDepth = 2
  MaxFaults = 2
SPECIFICATION FairSpec
INVARIANTS
  NoOverlap
PROPERTIES
  SlotAttempted
CHECK_DEADLOCK FALSE
