CONSTANTS
  s1 = s1
  p1 = p1
  p2 = p2
  u1 = u1
  u2 = u2
  i1 = i1
  i2 = i2
  c1 = c1
  c2 = c2
  NoUser = NoUser
  NoRequest = NoRequest
  NoBackup = NoBackup
  NoStudent = NoStudent
  NoPlace = NoPlace
  NoSub = NoSub
  Students = {s1}
  Places = {p1, p2}
  SubmitsTo <- BothPlaces
  Uploads = {u1, u2}
  Subs = {i1, i2}
  Clients = {c1, c2}
  Ops = {"upload", "submit", "review", "adminCreate", "adminUpdate", "delete", "remove", "purge"}
  Chosen = {"SUBMITTED", "NEEDS_REVISION"}
  Users = {s1}
  Requests = {s1}
  Entries = {u1, u2}
  Stamps = {1, 2}
  Handlers = {c1, c2}
  DeletionOps = {"request", "decide", "plan", "dryRun", "verify", "attempt"}
SPECIFICATION RecordsSpec
INVARIANTS
  RecordsTypeOK
  UploadUsedOnce
  ListedIsStored
  ErasureAuthorised
  CompletedIsErased
SYMMETRY IdSymmetry
CHECK_DEADLOCK FALSE
