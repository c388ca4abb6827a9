CONSTANTS
  s1 = s1
  s2 = s2
  s3 = s3
  l1 = l1
  l2 = l2
  c1 = c1
  c2 = c2
  c3 = c3
  Sessions = {s1, s2, s3}
  Links = {l1, l2}
  Clients = {c1, c2}
  NoSession = NoSession
  NoLink = NoLink
  Ops = {"login", "refresh", "logout", "change", "setup", "forgot", "invite", "reset", "deactivate"}
  MaxEpochs = 2
SPECIFICATION MCSpec
INVARIANTS
  TypeOK
  RotationInv
  OneLivePerLogin
  LinkUsedOnce
PROPERTIES
  ImplementsLogins
  GoodLinksOnly
SYMMETRY IdSymmetry
CHECK_DEADLOCK FALSE
