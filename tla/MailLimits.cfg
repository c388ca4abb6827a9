CONSTANTS
  j1 = j1
  j2 = j2
  j3 = j3
  p1 = p1
  p2 = p2
  c1 = c1
  r1 = r1
  Jobs = {j1, j2, j3}
  BulkJobs = {j1, j2, j3}
  Passes = {p1, p2}
  Clients = {c1}
  Recipients = {r1}
  RecipientOf <- OneRecipient
  BatchOf <- OneBatch
  NoJob = NoJob
  MaxAttempts = 1
  Take = 3
  Limited = TRUE
  DayLimit = 1
  MinuteLimit = 1
  SlowSends = FALSE
  Ops = {"create", "resume", "retry"}
  Delays = {TRUE}
  Windows = {FALSE}
  MaxRequests = 4
  MaxFaults = 0
SPECIFICATION Spec
INVARIANTS
  TypeOK
  LimitOvershoot
SYMMETRY PassAndJobSymmetry
