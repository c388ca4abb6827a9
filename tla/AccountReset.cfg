CONSTANTS
  s1 = s1
  s2 = s2
  s3 = s3
  l1 = l1
  l2 = l2
  c1 = c1
  c2 = c2
  c3 = c3
  Sessions = {s1}
  Links = {l1, l2}
  Clients = {c1}
  NoSession = NoSession
  NoLink = NoLink
  Ops = {"setup", "forgot", "invite"}
  MaxEpochs = 2
SPECIFICATION MCSpec
INVARIANTS
  ResetLinkWorks
SYMMETRY IdSymmetry
CHECK_DEADLOCK FALSE
