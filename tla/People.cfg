CONSTANTS
  s1 = s1
  x1 = x1
  x2 = x2
  x3 = x3
  y1 = y1
  y2 = y2
  y3 = y3
  z1 = z1
  z2 = z2
  NoCall = NoCall
  NoEvent = NoEvent
  Logins = {x1, x2, x3}
  Limit = 3
  MaxDeaths = 2
  Events = {y1, y2, s1}
  Bounces = {y1, y2}
  Deliveries = {y1, y2}
  NoGroup = NoGroup
  NoStudent = NoStudent
  Tabs = {s1}
  Calls = {x1, x2, x3}
  TabOf <- OneTab
  MaxTokens = 4
  MaxTrouble = 1
  Groups = {z1, z2}
  Students = {x1, x2, x3}
  Clients = {y1, y2, y3}
  Ops = {"create", "join", "approve", "lock", "assign", "remove", "restrict"}
  Sizes = {1, 2}
SPECIFICATION PeopleSpec
INVARIANTS
  PeopleTypeOK
  GuessBound
  SignedIn
  AppliedOnce
  TakesEffect
  JoinInv
  LeadersAgree
PROPERTIES
  GrowsWithinLimit
SYMMETRY IdSymmetry
CHECK_DEADLOCK FALSE
