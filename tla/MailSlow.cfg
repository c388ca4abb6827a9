CONSTANTS
  j1 = j1
  j2 = j2
  j3 = j3
  p1 = p1
  p2 = p2
  c1 = c1
  r1 = r1
  Jobs = {j1}
  BulkJobs = {j1}
  Passes = {p1, p2}
  Clients = {c1}
  Recipients = {r1}
  RecipientOf <- OneRecipient
  BatchOf <- NoBatch
  NoJob = NoJob
  MaxAttempts = 2
  Take = 1
  Limited = FALSE
  DayLimit = 1
  MinuteLimit = 1
  SlowSends = TRUE
  Ops = {"create", "refresh", "retry", "suppress"}
  Delays = {TRUE}
  Windows = {FALSE}
  MaxRequests = 3
  MaxFaults = 0
SPECIFICATION Spec
INVARIANTS
  SendBudget
  SuppressedNeverMailed
SYMMETRY PassSymmetry
