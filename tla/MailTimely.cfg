CONSTANTS
  j1 = j1
  j2 = j2
  j3 = j3
  p1 = p1
  p2 = p2
  c1 = c1
  r1 = r1
  Jobs = {j1, j2}
  BulkJobs = {j1, j2}
  Passes = {p1, p2}
  Clients = {c1}
  Recipients = {r1}
  RecipientOf <- OneRecipient
  BatchOf <- OneBatch
  NoJob = NoJob
  MaxAttempts = 2
  Take = 1
  Limited = TRUE
  DayLimit = 1
  MinuteLimit = 1
  SlowSends = FALSE
  Ops = {"create", "archive", "bounce"}
  Delays = {TRUE}
  Windows = {FALSE}
  MaxRequests = 3
  MaxFaults = 1
SPECIFICATION Spec
INVARIANTS
  ClaimInv
  ExclusiveProcessing
  NoStrandedJob
  SendBudget
  ArchivedIsFinal
PROPERTIES
  SentIsFinal
  ImplementsOutbox
SYMMETRY PassAndJobSymmetry
