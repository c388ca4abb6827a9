CONSTANTS
  r1 = r1
  r2 = r2
  r3 = r3
  r4 = r4
  t1 = t1
  t2 = t2
  q1 = q1
  q2 = q2
  c1 = c1
  c2 = c2
  Runs = {r1, r2, r3}
  Ticks = {t1}
  Requests = {q1, q2}
  Conns = {c1, c2}
  Pool <- SharedConnections
  NoConn = NoConn
  NoRow = NoRow
  Ops = {"run", "delete", "history"}
  Faults = {}
  Aging = {}
  RetentionCount = 2
  MaxSlots = 1
  MaxStamp = 6
  MaxDepth = 2
  MaxFaults = 0
SPECIFICATION Spec
INVARIANTS
  NewestHasArtifact
SYMMETRY RunAndRequestSymmetry
CHECK_DEADLOCK FALSE
