CONSTANTS
  j1 = j1
  j2 = j2
  j3 = j3
  p1 = p1
  p2 = p2
  c1 = c1
  r1 = r1
  Jobs = {j1}
  BulkJobs = {}
  Passes = {p1, p2}
  Clients = {c1}
  Recipients = {r1}
  RecipientOf <- OneRecipient
  BatchOf <- NoBatch
  NoJob = NoJob
  MaxAttempts = 2
  Take = 2
  Limited = FALSE
  DayLimit = 1
  MinuteLimit = 1
  SlowSends = FALSE
  Ops = {"create", "cancel"}
  Delays = {FALSE, TRUE}
  Windows = {TRUE}
  MaxRequests = 2
  MaxFaults = 2
SPECIFICATION FairSpec
PROPERTIES
  EveryJobSettles
