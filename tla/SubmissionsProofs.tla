-------------------------- MODULE SubmissionsProofs --------------------------
(***************************************************************************)
(* Proofs about Submissions, for any number of students, places, uploads   *)
(* and requests in progress: an upload is used once, and what a submission *)
(* lists can be downloaded.                                                *)
(***************************************************************************)
EXTENDS Submissions, TLAPS

Kept(u) == object[u] \/ u \in purged

\* What a request knows of what it works on.
Local(c) ==
  /\ req[c].pc \in {"check", "find", "replace", "commit", "create"} =>
       <<req[c].user, req[c].place>> \in SubmitsTo
  /\ req[c].pc \in {"replace", "commit", "review", "delete", "mark"} => req[c].sid \in Subs

\* Before its row is inserted, an upload has none, and its object is there.
RecordOf(c) ==
  At(c, "record") => \A u \in req[c].uploads : upload[u].state = "none" /\ Kept(u)

\* A file whose object is about to be deleted is not listed, and will not be again.
RemoveOf(c) ==
  At(c, "unlink") /\ req[c].op # "purge" =>
    \A u \in req[c].uploads :
      /\ upload[u].state = "CONSUMED"
      /\ \A i \in Subs : u \notin sub[i].files \ sub[i].gone

Types ==
  /\ upload \in [Uploads -> Upload]
  /\ object \in [Uploads -> BOOLEAN]
  /\ sub \in [Subs -> Sub]
  /\ req \in [Clients -> Request]
  /\ purged \subseteq Uploads

\* Two uploads in progress have different names.
OwnNames ==
  \A c, d \in Clients : c # d /\ At(c, "record") /\ At(d, "record") =>
    req[c].uploads \intersect req[d].uploads = {}

Consumers ==
  \A i \in Subs : \A u \in sub[i].files : upload[u].state = "CONSUMED" /\ upload[u].by = i

PendingIsKept == \A u \in Uploads : upload[u].state = "PENDING" => Kept(u)

Rows == Consumers /\ PendingIsKept /\ ListedIsStored

IInv ==
  /\ Types /\ OwnNames /\ Rows
  /\ \A c \in Clients : Local(c) /\ RecordOf(c) /\ RemoveOf(c)

\* What a step leaves to the requests that do not move; S are the uploads it records.
Keeps(S) ==
  /\ \A u \in Uploads \ S : upload[u].state = "none" => upload'[u].state = "none"
  /\ \A u \in Uploads : upload[u].state = "CONSUMED" => upload'[u].state = "CONSUMED"
  /\ \A u \in Uploads : upload[u].state # "CONSUMED" /\ Kept(u) => Kept(u)'
  /\ \A i \in Subs : \A u \in Uploads :
       upload[u].state = "CONSUMED" /\ u \in sub'[i].files \ sub'[i].gone =>
         u \in sub[i].files \ sub[i].gone

LEMMA OthersKeep ==
  ASSUME IInv, NEW d \in Clients, req'[d] = req[d], NEW S \in SUBSET Uploads, Keeps(S),
         At(d, "record") => S \intersect req[d].uploads = {}
  PROVE  Local(d)' /\ RecordOf(d)' /\ RemoveOf(d)'
<1>1. Local(d) /\ RecordOf(d) /\ RemoveOf(d) /\ req[d].uploads \subseteq Uploads
  BY DEF IInv, Types, Request
<1>2. Local(d)'
  BY <1>1 DEF Local
<1>3. RecordOf(d)'
  <2> SUFFICES ASSUME At(d, "record"), NEW u \in req[d].uploads
               PROVE  upload'[u].state = "none" /\ Kept(u)'
    BY DEF RecordOf, At, Kept
  <2>1. upload[u].state = "none" /\ Kept(u) /\ u \in Uploads /\ u \notin S
    BY <1>1 DEF RecordOf
  <2> QED
    BY <2>1 DEF Keeps
<1>4. RemoveOf(d)'
  <2> SUFFICES ASSUME At(d, "unlink"), req[d].op # "purge", NEW u \in req[d].uploads
               PROVE  /\ upload'[u].state = "CONSUMED"
                      /\ \A i \in Subs : u \notin sub'[i].files \ sub'[i].gone
    BY DEF RemoveOf, At
  <2>1. /\ upload[u].state = "CONSUMED" /\ u \in Uploads
        /\ \A i \in Subs : u \notin sub[i].files \ sub[i].gone
    BY <1>1 DEF RemoveOf
  <2> QED
    BY <2>1 DEF Keeps
<1> QED
  BY <1>2, <1>3, <1>4

\* The idle request is well typed, and knows nothing.
LEMMA IdleType == Idle \in Request /\ Idle.pc = "idle" /\ Idle.uploads = {} /\ Idle.op = "none"
BY DEF Idle, Request, Statuses

LEMMA EndLocal ==
  ASSUME req \in [Clients -> Request], NEW c \in Clients, End(c)
  PROVE  /\ req' \in [Clients -> Request] /\ req'[c].pc = "idle"
         /\ Local(c)' /\ RecordOf(c)' /\ RemoveOf(c)'
         /\ \A d \in Clients \ {c} : req'[d] = req[d]
<1>1. req' \in [Clients -> Request] /\ req'[c] = Idle
      /\ \A d \in Clients \ {c} : req'[d] = req[d]
  BY IdleType DEF End
<1>2. req'[c].pc = "idle"
  BY <1>1, IdleType
<1> QED
  BY <1>1, <1>2 DEF Local, RecordOf, RemoveOf, At

\* A request that goes on keeps its other fields.
LEMMA GotoFields ==
  ASSUME req \in [Clients -> Request], NEW c \in Clients,
         NEW pc \in {"find", "replace", "create"}, Goto(c, pc)
  PROVE  /\ req' \in [Clients -> Request]
         /\ req'[c].pc = pc /\ req'[c].op = req[c].op /\ req'[c].user = req[c].user
         /\ req'[c].place = req[c].place /\ req'[c].uploads = req[c].uploads
         /\ req'[c].sid = req[c].sid
         /\ \A d \in Clients \ {c} : req'[d] = req[d]
<1> DEFINE r == [req[c] EXCEPT !.pc = pc]
<1>1. /\ r \in Request /\ r.pc = pc /\ r.op = req[c].op /\ r.user = req[c].user
      /\ r.place = req[c].place /\ r.uploads = req[c].uploads /\ r.sid = req[c].sid
  BY DEF Request
<1>2. req' = [req EXCEPT ![c] = r]
  BY DEF Goto
<1> QED
  BY <1>1, <1>2

\* A request that has found the row it works on.
LEMMA FoundType ==
  ASSUME NEW q \in Request, NEW i \in Subs, NEW files \in SUBSET Uploads
  PROVE  /\ [q EXCEPT !.pc = "replace", !.sid = i] \in Request
         /\ [q EXCEPT !.pc = "commit", !.snap = files] \in Request
BY DEF Request

\* A request that begins is what its handler has read.
LEMMA BeginFields ==
  ASSUME req \in [Clients -> Request], NEW c \in Clients, NEW op \in AllOps, NEW r \in Request,
         Begin(c, op, r)
  PROVE  /\ req' \in [Clients -> Request]
         /\ req'[c].pc = r.pc /\ req'[c].op = op /\ req'[c].user = r.user
         /\ req'[c].place = r.place /\ req'[c].uploads = r.uploads /\ req'[c].sid = r.sid
         /\ \A d \in Clients \ {c} : req'[d] = req[d]
<1> DEFINE q == [r EXCEPT !.op = op]
<1>1. /\ q \in Request /\ q.pc = r.pc /\ q.op = op /\ q.user = r.user
      /\ q.place = r.place /\ q.uploads = r.uploads /\ q.sid = r.sid
  BY DEF Request
<1>2. req' = [req EXCEPT ![c] = q]
  BY DEF Begin
<1> QED
  BY <1>1, <1>2

\* Nothing is written.
LEMMA NothingWritten ==
  ASSUME UNCHANGED <<upload, object, sub, purged>>
  PROVE  /\ Keeps({})
         /\ Rows => Rows'
         /\ Types /\ req' \in [Clients -> Request] => Types'
BY DEF Keeps, Kept, Rows, Consumers, PendingIsKept, ListedIsStored, Types

\* A step that only reads.
LEMMA ReadStep ==
  ASSUME IInv, UNCHANGED <<upload, object, sub, purged>>, NEW c \in Clients,
         req' \in [Clients -> Request], \A d \in Clients \ {c} : req'[d] = req[d],
         req'[c].pc # "record", Local(c)', RemoveOf(c)'
  PROVE  IInv'
<1>1. Types' /\ Rows'
  BY NothingWritten DEF IInv
<1>2. \A d \in Clients \ {c} : Local(d)' /\ RecordOf(d)' /\ RemoveOf(d)'
  BY NothingWritten, OthersKeep
<1>3. RecordOf(c)'
  BY DEF RecordOf, At
<1>4. OwnNames'
  BY DEF IInv, OwnNames, At
<1> QED
  BY <1>1, <1>2, <1>3, <1>4 DEF IInv

LEMMA EndStep ==
  ASSUME IInv, UNCHANGED <<upload, object, sub, purged>>, NEW c \in Clients, End(c)
  PROVE  IInv'
<1>1. req \in [Clients -> Request]
  BY DEF IInv, Types
<1>2. /\ req' \in [Clients -> Request] /\ req'[c].pc = "idle"
      /\ Local(c)' /\ RecordOf(c)' /\ RemoveOf(c)'
      /\ \A d \in Clients \ {c} : req'[d] = req[d]
  BY <1>1, EndLocal
<1> QED
  BY <1>2, ReadStep

\* A step of c that writes, with which the request ends.
LEMMA EndWritten ==
  ASSUME IInv, NEW c \in Clients, End(c), NEW S \in SUBSET Uploads, Keeps(S),
         \A d \in Clients \ {c} : At(d, "record") => S \intersect req[d].uploads = {},
         Types /\ req' \in [Clients -> Request] => Types', Rows'
  PROVE  IInv'
<1>1. req \in [Clients -> Request]
  BY DEF IInv, Types
<1>2. /\ req' \in [Clients -> Request] /\ req'[c].pc = "idle"
      /\ Local(c)' /\ RecordOf(c)' /\ RemoveOf(c)'
      /\ \A d \in Clients \ {c} : req'[d] = req[d]
  BY <1>1, EndLocal
<1>3. \A d \in Clients \ {c} : Local(d)' /\ RecordOf(d)' /\ RemoveOf(d)'
  BY <1>2, OthersKeep
<1>4. OwnNames'
  BY <1>2 DEF IInv, OwnNames, At
<1> QED
  BY <1>2, <1>3, <1>4 DEF IInv

\* A step of no request in progress.
LEMMA OtherWritten ==
  ASSUME IInv, req' = req, Keeps({}), Types', Rows'
  PROVE  IInv'
<1>1. \A d \in Clients : Local(d)' /\ RecordOf(d)' /\ RemoveOf(d)'
  BY OthersKeep
<1>2. OwnNames'
  BY DEF IInv, OwnNames, At
<1> QED
  BY <1>1, <1>2 DEF IInv

-----------------------------------------------------------------------------
(* Uploading a file *)

LEMMA UploadPutsStep ==
  ASSUME SubmissionsAssumption, IInv, NEW c \in Clients, UploadPuts(c)
  PROVE  IInv'
<1>1. req \in [Clients -> Request] /\ object \in [Uploads -> BOOLEAN]
  BY DEF IInv, Types
<1>2. PICK s \in Students, u \in Uploads :
        /\ upload[u].state = "none" /\ ~object[u] /\ u \notin purged
        /\ \A d \in Clients : u \notin req[d].uploads
        /\ object' = [object EXCEPT ![u] = TRUE]
        /\ Begin(c, "upload", [Idle EXCEPT !.pc = "record", !.user = s, !.uploads = {u}])
  BY DEF UploadPuts
<1>3. UNCHANGED <<upload, sub, purged>>
  BY DEF UploadPuts
<1> DEFINE r == [Idle EXCEPT !.pc = "record", !.user = s, !.uploads = {u}]
<1>4. r \in Request /\ r.pc = "record" /\ r.uploads = {u}
  BY IdleType DEF Request, Idle
<1>5. /\ req' \in [Clients -> Request] /\ req'[c].pc = "record" /\ req'[c].uploads = {u}
      /\ \A d \in Clients \ {c} : req'[d] = req[d]
  <2>1. Begin(c, "upload", r) /\ "upload" \in AllOps
    BY <1>2 DEF AllOps
  <2> HIDE DEF r
  <2> QED
    BY <1>1, <1>4, <2>1, BeginFields
<1>6. object' \in [Uploads -> BOOLEAN] /\ object'[u]
      /\ \A v \in Uploads : object[v] => object'[v]
  BY <1>1, <1>2
<1>7. Keeps({})
  BY <1>3, <1>6 DEF Keeps, Kept
<1>8. \A d \in Clients \ {c} : Local(d)' /\ RecordOf(d)' /\ RemoveOf(d)'
  BY <1>5, <1>7, OthersKeep
<1>9. Local(c)' /\ RecordOf(c)' /\ RemoveOf(c)'
  BY <1>2, <1>3, <1>5, <1>6 DEF Local, RecordOf, RemoveOf, At, Kept
<1>10. OwnNames'
  BY <1>2, <1>5 DEF IInv, OwnNames, At
<1>11. Types' /\ Rows'
  <2>1. \A i \in Subs : sub[i].files \subseteq Uploads
    BY DEF IInv, Types, Sub
  <2> QED
    BY <1>3, <1>5, <1>6, <2>1 DEF IInv, Types, Rows, Consumers, PendingIsKept, ListedIsStored, Kept
<1> QED
  BY <1>8, <1>9, <1>10, <1>11 DEF IInv

LEMMA UploadRecordsStep ==
  ASSUME SubmissionsAssumption, IInv, NEW c \in Clients, UploadRecords(c)
  PROVE  IInv'
<1> DEFINE S == req[c].uploads
           row == [NoUpload EXCEPT !.state = "PENDING", !.user = req[c].user]
<1>1. /\ At(c, "record") /\ End(c) /\ UNCHANGED <<object, sub, purged>>
      /\ upload' = [u \in Uploads |-> IF u \in S THEN row ELSE upload[u]]
  BY DEF UploadRecords
<1>2. req[c] \in Request /\ S \in SUBSET Uploads /\ req[c].user \in Students \union {NoStudent}
  BY DEF IInv, Types, Request
<1>3. row \in Upload /\ row.state = "PENDING"
  BY <1>2 DEF NoUpload, Upload
<1>4. \A u \in S : upload[u].state = "none" /\ Kept(u)
  BY <1>1 DEF IInv, RecordOf
<1> HIDE DEF S, row
<1>5. /\ upload' \in [Uploads -> Upload]
      /\ \A u \in S : upload'[u].state = "PENDING"
      /\ \A u \in Uploads \ S : upload'[u] = upload[u]
  BY <1>1, <1>2, <1>3 DEF IInv, Types
<1>6. Keeps(S)
  BY <1>1, <1>2, <1>4, <1>5 DEF Keeps, Kept
<1>7. \A d \in Clients \ {c} : At(d, "record") => S \intersect req[d].uploads = {}
  BY <1>1 DEF IInv, OwnNames, S
<1>8. Types /\ req' \in [Clients -> Request] => Types'
  BY <1>1, <1>5 DEF Types
<1>9. Rows'
  <2>1. \A i \in Subs : sub[i].files \subseteq Uploads
    BY DEF IInv, Types, Sub
  <2>2. \A i \in Subs : sub[i].files \intersect S = {}
    BY <1>4 DEF IInv, Rows, Consumers
  <2> QED
    BY <1>1, <1>2, <1>4, <1>5, <2>1, <2>2 DEF IInv, Rows, Consumers, PendingIsKept, ListedIsStored, Kept
<1> QED
  BY <1>1, <1>2, <1>6, <1>7, <1>8, <1>9, EndWritten

LEMMA UploadAgesStep ==
  ASSUME IInv, NEW u \in Uploads, UploadAges(u)
  PROVE  IInv'
<1>1. /\ upload[u].state = "PENDING" /\ upload' = [upload EXCEPT ![u].late = TRUE]
      /\ UNCHANGED <<object, sub, req, purged>>
  BY DEF UploadAges
<1> DEFINE row == [upload[u] EXCEPT !.late = TRUE]
<1>2. row \in Upload /\ row.state = upload[u].state
  BY DEF IInv, Types, Upload
<1>3. upload' = [upload EXCEPT ![u] = row]
  BY <1>1
<1> HIDE DEF row
<1>4. /\ upload' \in [Uploads -> Upload]
      /\ \A v \in Uploads : upload'[v].state = upload[v].state
      /\ \A v \in Uploads \ {u} : upload'[v] = upload[v]
  BY <1>2, <1>3 DEF IInv, Types
<1>5. Keeps({})
  BY <1>1, <1>4 DEF Keeps, Kept
<1>6. \A i \in Subs : sub[i].files \subseteq Uploads
  BY DEF IInv, Types, Sub
<1>7. Types' /\ Rows'
  BY <1>1, <1>4, <1>6 DEF IInv, Types, Rows, Consumers, PendingIsKept, ListedIsStored, Kept
<1> QED
  BY <1>1, <1>5, <1>7, OtherWritten

LEMMA ExpiredStep ==
  ASSUME IInv, NEW files \in SUBSET Uploads, SubmitFindsExpired(files)
  PROVE  IInv'
<1> DEFINE row(u) == [upload[u] EXCEPT !.state = "EXPIRED"]
           F == {u \in files : upload[u].late}
<1>1. /\ \A u \in files : upload[u].state = "PENDING"
      /\ upload' = [u \in Uploads |-> IF u \in F THEN row(u) ELSE upload[u]]
      /\ UNCHANGED <<object, sub, req, purged>>
  BY DEF SubmitFindsExpired, MayAttach
<1>2. \A u \in Uploads : row(u) \in Upload /\ row(u).state = "EXPIRED"
  BY DEF IInv, Types, Upload
<1> HIDE DEF row
<1>3. F \subseteq Uploads /\ \A u \in F : upload[u].state = "PENDING"
  BY <1>1
<1> HIDE DEF F
<1>4. /\ upload' \in [Uploads -> Upload]
      /\ \A v \in F : upload'[v].state = "EXPIRED"
      /\ \A v \in Uploads \ F : upload'[v] = upload[v]
  BY <1>1, <1>2, <1>3 DEF IInv, Types
<1>5. Keeps({})
  BY <1>1, <1>3, <1>4 DEF Keeps, Kept
<1>6. \A i \in Subs : sub[i].files \subseteq Uploads /\ sub[i].files \intersect F = {}
  BY <1>3 DEF IInv, Types, Sub, Rows, Consumers
<1>7. Types' /\ Rows'
  BY <1>1, <1>3, <1>4, <1>6 DEF IInv, Types, Rows, Consumers, PendingIsKept, ListedIsStored, Kept
<1> QED
  BY <1>1, <1>5, <1>7, OtherWritten

-----------------------------------------------------------------------------
(* Submitting *)

LEMMA ResolveStep ==
  ASSUME SubmissionsAssumption, IInv, NEW c \in Clients, SubmitResolves(c)
  PROVE  IInv'
<1>1. req \in [Clients -> Request]
  BY DEF IInv, Types
<1>2. PICK p \in SubmitsTo, files \in SUBSET Uploads, status \in Chosen \intersect {"SUBMITTED", "LATE"} :
        Begin(c, "submit", [Idle EXCEPT !.pc = "check", !.user = p[1], !.place = p[2],
                                        !.uploads = files, !.status = status])
  BY DEF SubmitResolves
<1> DEFINE r == [Idle EXCEPT !.pc = "check", !.user = p[1], !.place = p[2],
                             !.uploads = files, !.status = status]
<1>3. p[1] \in Students /\ p[2] \in Places /\ <<p[1], p[2]>> \in SubmitsTo /\ status \in Statuses
  BY DEF SubmissionsAssumption
<1>4. r \in Request /\ r.pc = "check" /\ r.user = p[1] /\ r.place = p[2]
  BY <1>3, IdleType DEF Request, Idle
<1>5. /\ req' \in [Clients -> Request] /\ req'[c].pc = "check"
      /\ req'[c].user = p[1] /\ req'[c].place = p[2]
      /\ \A d \in Clients \ {c} : req'[d] = req[d]
  <2>1. Begin(c, "submit", r) /\ "submit" \in AllOps
    BY <1>2 DEF AllOps
  <2> HIDE DEF r
  <2> QED
    BY <1>1, <1>4, <2>1, BeginFields
<1>6. Local(c)' /\ RemoveOf(c)'
  BY <1>3, <1>5 DEF Local, RemoveOf, At
<1> QED
  BY <1>5, <1>6, ReadStep DEF SubmitResolves

LEMMA SubmitReadsStep ==
  ASSUME IInv, NEW c \in Clients,
         SubmitChecks(c) \/ SubmitFinds(c) \/ SubmitReplaces(c) \/ SubmitFails(c)
  PROVE  IInv'
<1>1. req \in [Clients -> Request] /\ sub \in [Subs -> Sub] /\ Local(c)
  BY DEF IInv, Types
<1>2. UNCHANGED <<upload, object, sub, purged>>
  BY DEF SubmitChecks, SubmitFinds, SubmitReplaces, SubmitFails
<1>3. CASE SubmitChecks(c)
  <2>1. CASE End(c)
    BY <1>2, <2>1, EndStep
  <2>2. CASE Goto(c, "find")
    <3>1. /\ req' \in [Clients -> Request]
          /\ req'[c].pc = "find" /\ req'[c].user = req[c].user /\ req'[c].place = req[c].place
          /\ \A d \in Clients \ {c} : req'[d] = req[d]
      BY <1>1, <2>2, GotoFields
    <3>2. Local(c)' /\ RemoveOf(c)'
      BY <1>1, <1>3, <3>1 DEF SubmitChecks, Local, RemoveOf, At
    <3> QED
      BY <1>2, <3>1, <3>2, ReadStep
  <2> QED
    BY <1>3, <2>1, <2>2 DEF SubmitChecks
<1>4. CASE SubmitFinds(c)
  <2>1. CASE Goto(c, "create")
    <3>1. /\ req' \in [Clients -> Request]
          /\ req'[c].pc = "create" /\ req'[c].user = req[c].user /\ req'[c].place = req[c].place
          /\ \A d \in Clients \ {c} : req'[d] = req[d]
      BY <1>1, <2>1, GotoFields
    <3>2. Local(c)' /\ RemoveOf(c)'
      BY <1>1, <1>4, <3>1 DEF SubmitFinds, Local, RemoveOf, At
    <3> QED
      BY <1>2, <3>1, <3>2, ReadStep
  <2>2. ASSUME NEW i \in Subs, req' = [req EXCEPT ![c].pc = "replace", ![c].sid = i]
        PROVE  IInv'
    <3> DEFINE r == [req[c] EXCEPT !.pc = "replace", !.sid = i]
    <3>1. r \in Request /\ r.pc = "replace" /\ r.sid = i /\ r.user = req[c].user
          /\ r.place = req[c].place
      <4>1. req[c] \in Request
        BY <1>1
      <4>2. r \in Request
        BY <4>1, FoundType
      <4> QED
        BY <4>1, <4>2 DEF Request
    <3>2. req' = [req EXCEPT ![c] = r]
      BY <2>2
    <3> HIDE DEF r
    <3>3. /\ req' \in [Clients -> Request] /\ req'[c] = r
          /\ \A d \in Clients \ {c} : req'[d] = req[d]
      BY <1>1, <3>1, <3>2
    <3>4. Local(c)' /\ RemoveOf(c)'
      BY <1>1, <1>4, <3>1, <3>3 DEF SubmitFinds, Local, RemoveOf, At
    <3> QED
      BY <1>2, <3>1, <3>3, <3>4, ReadStep
  <2> QED
    BY <1>4, <2>1, <2>2 DEF SubmitFinds, RowsAt
<1>5. CASE SubmitReplaces(c)
  <2> DEFINE r == [req[c] EXCEPT !.pc = "commit", !.snap = sub[req[c].sid].files]
  <2>1. req[c].sid \in Subs /\ <<req[c].user, req[c].place>> \in SubmitsTo
    BY <1>1, <1>5 DEF SubmitReplaces, Local, At
  <2>2. sub[req[c].sid].files \in SUBSET Uploads
    BY <1>1, <2>1 DEF Sub
  <2>3. r \in Request /\ r.pc = "commit" /\ r.sid = req[c].sid /\ r.user = req[c].user
        /\ r.place = req[c].place
    <3>1. req[c] \in Request
      BY <1>1
    <3>2. r \in Request
      BY <2>1, <2>2, <3>1, FoundType
    <3> QED
      BY <3>1, <3>2 DEF Request
  <2>4. req' = [req EXCEPT ![c] = r]
    BY <1>5 DEF SubmitReplaces
  <2> HIDE DEF r
  <2>5. /\ req' \in [Clients -> Request] /\ req'[c] = r
        /\ \A d \in Clients \ {c} : req'[d] = req[d]
    BY <1>1, <2>3, <2>4
  <2>6. Local(c)' /\ RemoveOf(c)'
    BY <2>1, <2>3, <2>5 DEF Local, RemoveOf, At
  <2> QED
    BY <1>2, <2>3, <2>5, <2>6, ReadStep
<1>6. CASE SubmitFails(c)
  BY <1>6, EndStep DEF SubmitFails
<1> QED
  BY <1>3, <1>4, <1>5, <1>6

\* Uploads are consumed by the submission that comes to list them; of the files that it
\* listed before none becomes available again.
LEMMA AttachStep ==
  ASSUME SubmissionsAssumption, IInv, NEW c \in Clients, Consumable(c), End(c),
         NEW i \in Subs, UNCHANGED <<object, purged>>, upload' = Consumed(c, i),
         NEW row \in Sub, sub' = [sub EXCEPT ![i] = row],
         row.files \subseteq sub[i].files \union req[c].uploads,
         (row.files \ row.gone) \intersect sub[i].files \subseteq sub[i].files \ sub[i].gone
  PROVE  IInv'
<1> DEFINE S == req[c].uploads
           up(u) == [upload[u] EXCEPT !.state = "CONSUMED", !.by = i]
<1>1. req[c] \in Request /\ S \subseteq Uploads
  BY DEF IInv, Types, Request
<1>2. \A u \in S : upload[u].state = "PENDING"
  BY DEF Consumable, MayAttach
<1>3. \A u \in Uploads : up(u) \in Upload /\ up(u).state = "CONSUMED" /\ up(u).by = i
  BY DEF IInv, Types, Upload
<1>4. upload' = [u \in Uploads |-> IF u \in S THEN up(u) ELSE upload[u]]
  BY DEF Consumed
<1> HIDE DEF S, up
<1>5. /\ upload' \in [Uploads -> Upload]
      /\ \A u \in S : upload'[u].state = "CONSUMED" /\ upload'[u].by = i
      /\ \A u \in Uploads \ S : upload'[u] = upload[u]
  BY <1>1, <1>3, <1>4 DEF IInv, Types
<1>6. /\ sub' \in [Subs -> Sub] /\ sub'[i] = row
      /\ \A j \in Subs \ {i} : sub'[j] = sub[j]
  BY DEF IInv, Types
<1>7. \A j \in Subs : sub[j].files \subseteq Uploads /\ sub[j].files \intersect S = {}
  BY <1>2 DEF IInv, Types, Sub, Rows, Consumers
<1>8. row.files \subseteq sub[i].files \union S /\ row.files \subseteq Uploads
  BY DEF S, Sub
<1>9. Keeps({})
  <2>1. \A u \in Uploads : upload[u].state = "none" => upload'[u].state = "none"
    BY <1>2, <1>5
  <2>2. \A u \in Uploads : upload[u].state = "CONSUMED" => upload'[u].state = "CONSUMED"
    BY <1>2, <1>5
  <2>3. ASSUME NEW j \in Subs, NEW u \in Uploads, upload[u].state = "CONSUMED",
               u \in sub'[j].files \ sub'[j].gone
        PROVE  u \in sub[j].files \ sub[j].gone
    <3>1. CASE j # i
      BY <1>6, <2>3, <3>1
    <3>2. CASE j = i
      <4>1. u \in row.files \ row.gone /\ u \notin S
        BY <1>2, <1>6, <2>3, <3>2
      <4> QED
        BY <1>8, <3>2, <4>1
    <3> QED
      BY <3>1, <3>2
  <2> QED
    BY <2>1, <2>2, <2>3 DEF Keeps, Kept
<1>10. Types /\ req' \in [Clients -> Request] => Types'
  BY <1>5, <1>6 DEF Types
<1>11. Consumers'
  <2> SUFFICES ASSUME NEW j \in Subs, NEW u \in sub'[j].files
               PROVE  upload'[u].state = "CONSUMED" /\ upload'[u].by = j
    BY DEF Consumers
  <2>1. CASE u \in S /\ j = i
    BY <1>5, <2>1
  <2>2. CASE u \in sub[j].files
    BY <1>5, <1>7, <2>2 DEF IInv, Rows, Consumers
  <2> QED
    BY <1>6, <1>8, <2>1, <2>2
<1>12. PendingIsKept'
  BY <1>5 DEF IInv, Rows, PendingIsKept, Kept
<1>13. ListedIsStored'
  <2> SUFFICES ASSUME NEW j \in Subs, NEW u \in sub'[j].files \ sub'[j].gone
               PROVE  Kept(u)
    BY DEF ListedIsStored, Kept
  <2>1. CASE j # i \/ u \notin S
    <3>1. u \in sub[j].files \ sub[j].gone
      BY <1>6, <1>8, <2>1
    <3> QED
      BY <3>1 DEF IInv, Rows, ListedIsStored, Kept
  <2>2. CASE u \in S
    BY <1>1, <1>2, <2>2 DEF IInv, Rows, PendingIsKept
  <2> QED
    BY <2>1, <2>2
<1> QED
  BY <1>9, <1>10, <1>11, <1>12, <1>13, EndWritten DEF Rows

LEMMA SubmitCommitsStep ==
  ASSUME SubmissionsAssumption, IInv, NEW c \in Clients, SubmitCommits(c)
  PROVE  IInv'
<1> DEFINE r == req[c]
           old == sub[r.sid]
           row == [old EXCEPT !.status = r.status, !.gone = @ \ r.snap,
                              !.files = (@ \ r.snap) \union r.uploads]
<1>1. r \in Request /\ r.sid \in Subs /\ sub \in [Subs -> Sub]
  BY DEF SubmitCommits, IInv, Types, Local, At
<1>2. old \in Sub /\ r.status \in Statuses /\ r.uploads \subseteq Uploads
  BY <1>1 DEF Request
<1>3. /\ row \in Sub /\ row.gone = old.gone \ r.snap
      /\ row.files = (old.files \ r.snap) \union r.uploads
  <2> HIDE DEF old, r
  <2> QED
    BY <1>2 DEF Sub
<1>4. /\ Consumable(c) /\ End(c) /\ UNCHANGED <<object, purged>> /\ upload' = Consumed(c, r.sid)
      /\ sub' = [sub EXCEPT ![r.sid] = row]
  BY DEF SubmitCommits
<1>5. \A u \in r.uploads : u \notin old.files
  <2>1. \A u \in r.uploads : upload[u].state = "PENDING"
    BY <1>4 DEF Consumable, MayAttach
  <2> QED
    BY <1>1, <2>1 DEF IInv, Rows, Consumers
<1>6. /\ row.files \subseteq old.files \union req[c].uploads
      /\ (row.files \ row.gone) \intersect old.files \subseteq old.files \ old.gone
  BY <1>3, <1>5
<1>7. PICK i \in Subs : i = r.sid
  BY <1>1
<1> HIDE DEF row
<1> QED
  BY <1>3, <1>4, <1>6, <1>7, AttachStep

\* A row that did not exist has no files.
LEMMA SubmitCreatesStep ==
  ASSUME SubmissionsAssumption, IInv, NEW c \in Clients, SubmitCreates(c)
  PROVE  IInv'
<1> DEFINE r == req[c]
           row == [NoSubRow EXCEPT !.place = r.place, !.status = r.status, !.files = r.uploads]
<1>1. r \in Request /\ <<r.user, r.place>> \in SubmitsTo
  BY DEF SubmitCreates, IInv, Types, Local, At
<1>2. r.place \in Places /\ r.status \in Statuses /\ r.uploads \subseteq Uploads
  BY <1>1 DEF Request, SubmissionsAssumption
<1>3. row \in Sub /\ row.gone = {} /\ row.files = r.uploads
  <2> HIDE DEF r
  <2> QED
    BY <1>2 DEF Sub, NoSubRow, Statuses
<1>4. PICK i \in Subs : sub' = [sub EXCEPT ![i] = row] /\ upload' = Consumed(c, i)
  BY DEF SubmitCreates
<1>5. Consumable(c) /\ End(c) /\ UNCHANGED <<object, purged>>
  BY DEF SubmitCreates
<1>6. \A u \in r.uploads : u \notin sub[i].files
  BY <1>5 DEF Consumable, MayAttach, IInv, Rows, Consumers
<1>7. /\ row.files \subseteq sub[i].files \union req[c].uploads
      /\ (row.files \ row.gone) \intersect sub[i].files \subseteq sub[i].files \ sub[i].gone
  BY <1>3, <1>6
<1> HIDE DEF row
<1> QED
  BY <1>3, <1>4, <1>5, <1>7, AttachStep

-----------------------------------------------------------------------------
(* Reviewing, administration, removal *)

\* No submission lists a file that it did not list before.
LEMMA NoFileAdded ==
  ASSUME IInv, UNCHANGED <<upload, object, purged>>, sub' \in [Subs -> Sub],
         \A i \in Subs : /\ sub'[i].files \subseteq sub[i].files
                         /\ sub'[i].files \ sub'[i].gone \subseteq sub[i].files \ sub[i].gone
  PROVE  /\ Keeps({}) /\ Rows'
         /\ Types /\ req' \in [Clients -> Request] => Types'
<1>1. Keeps({})
  BY DEF Keeps, Kept
<1>2. Consumers' /\ PendingIsKept' /\ ListedIsStored'
  BY DEF IInv, Rows, Consumers, PendingIsKept, ListedIsStored, Kept
<1>3. Types /\ req' \in [Clients -> Request] => Types'
  BY DEF Types
<1> QED
  BY <1>1, <1>2, <1>3 DEF Rows

\* Only the status of a row changes.
LEMMA StatusOnly ==
  ASSUME IInv, NEW i \in Subs, NEW status \in Statuses, sub' = [sub EXCEPT ![i].status = status]
  PROVE  /\ sub' \in [Subs -> Sub]
         /\ \A j \in Subs : sub'[j].files = sub[j].files /\ sub'[j].gone = sub[j].gone
<1> DEFINE row == [sub[i] EXCEPT !.status = status]
<1>1. row \in Sub /\ row.files = sub[i].files /\ row.gone = sub[i].gone
  BY DEF IInv, Types, Sub
<1>2. sub' = [sub EXCEPT ![i] = row]
  OBVIOUS
<1> HIDE DEF row
<1> QED
  BY <1>1, <1>2 DEF IInv, Types

LEMMA ReviewStep ==
  ASSUME SubmissionsAssumption, IInv, NEW c \in Clients, ReviewReads(c) \/ ReviewWrites(c)
  PROVE  IInv'
<1>1. req \in [Clients -> Request]
  BY DEF IInv, Types
<1>2. CASE ReviewReads(c)
  <2>1. PICK i \in Subs, status \in Chosen :
          Begin(c, "review", [Idle EXCEPT !.pc = "review", !.sid = i, !.status = status])
    BY <1>2 DEF ReviewReads
  <2> DEFINE r == [Idle EXCEPT !.pc = "review", !.sid = i, !.status = status]
  <2>2. status \in Statuses
    BY DEF SubmissionsAssumption
  <2>3. r \in Request /\ r.pc = "review" /\ r.sid = i
    BY <2>2, IdleType DEF Request, Idle
  <2>4. /\ req' \in [Clients -> Request] /\ req'[c].pc = "review" /\ req'[c].sid = i
        /\ \A d \in Clients \ {c} : req'[d] = req[d]
    <3>1. Begin(c, "review", r) /\ "review" \in AllOps
      BY <2>1 DEF AllOps
    <3> HIDE DEF r
    <3> QED
      BY <1>1, <2>3, <3>1, BeginFields
  <2>5. Local(c)' /\ RemoveOf(c)'
    BY <2>4 DEF Local, RemoveOf, At
  <2> QED
    BY <1>2, <2>4, <2>5, ReadStep DEF ReviewReads
<1>3. CASE ReviewWrites(c)
  <2>1. req[c].sid \in Subs /\ req[c].status \in Statuses
    BY <1>3 DEF ReviewWrites, IInv, Types, Local, At, Request
  <2>2. UNCHANGED <<upload, object, purged>> /\ End(c)
        /\ (sub' = sub \/ sub' = [sub EXCEPT ![req[c].sid].status = req[c].status])
    BY <1>3 DEF ReviewWrites
  <2>3. sub' \in [Subs -> Sub]
        /\ \A j \in Subs : sub'[j].files = sub[j].files /\ sub'[j].gone = sub[j].gone
    BY <2>1, <2>2, StatusOnly DEF IInv, Types
  <2>4. /\ Keeps({}) /\ Rows'
        /\ Types /\ req' \in [Clients -> Request] => Types'
    BY <2>2, <2>3, NoFileAdded
  <2> QED
    BY <2>2, <2>4, EndWritten
<1> QED
  BY <1>2, <1>3

LEMMA AdminCreatesStep ==
  ASSUME SubmissionsAssumption, IInv, NEW p \in Places, NEW status \in Chosen, AdminCreates(p, status)
  PROVE  IInv'
<1> DEFINE row == [NoSubRow EXCEPT !.place = p, !.status = status]
<1>1. UNCHANGED <<upload, object, req, purged>> /\ status \in Statuses
  BY DEF AdminCreates, SubmissionsAssumption
<1>2. row \in Sub /\ row.files = {}
  BY <1>1 DEF Sub, NoSubRow
<1>3. PICK j \in Subs : sub' = [sub EXCEPT ![j] = row]
  BY DEF AdminCreates
<1> HIDE DEF row
<1>4. /\ sub' \in [Subs -> Sub]
      /\ \A i \in Subs : /\ sub'[i].files \subseteq sub[i].files
                         /\ sub'[i].files \ sub'[i].gone \subseteq sub[i].files \ sub[i].gone
  BY <1>2, <1>3 DEF IInv, Types
<1>5. Keeps({}) /\ Rows' /\ Types'
  BY <1>1, <1>4, NoFileAdded DEF IInv, Types
<1> QED
  BY <1>1, <1>5, OtherWritten

LEMMA AdminUpdatesStep ==
  ASSUME SubmissionsAssumption, IInv, NEW i \in Subs, NEW status \in Chosen, AdminUpdates(i, status)
  PROVE  IInv'
<1>1. UNCHANGED <<upload, object, req, purged>> /\ status \in Statuses
      /\ sub' = [sub EXCEPT ![i].status = status]
  BY DEF AdminUpdates, SubmissionsAssumption
<1>2. /\ sub' \in [Subs -> Sub]
      /\ \A j \in Subs : sub'[j].files = sub[j].files /\ sub'[j].gone = sub[j].gone
  BY <1>1, StatusOnly
<1>3. Keeps({}) /\ Rows' /\ Types'
  BY <1>1, <1>2, NoFileAdded DEF IInv, Types
<1> QED
  BY <1>1, <1>3, OtherWritten

LEMMA DeleteStep ==
  ASSUME SubmissionsAssumption, IInv, NEW c \in Clients, DeleteReads(c) \/ DeleteCommits(c)
  PROVE  IInv'
<1>1. req \in [Clients -> Request]
  BY DEF IInv, Types
<1>2. CASE DeleteReads(c)
  <2>1. PICK i \in Subs : Begin(c, "delete", [Idle EXCEPT !.pc = "delete", !.sid = i])
    BY <1>2 DEF DeleteReads
  <2> DEFINE r == [Idle EXCEPT !.pc = "delete", !.sid = i]
  <2>2. r \in Request /\ r.pc = "delete" /\ r.sid = i
    BY IdleType DEF Request, Idle
  <2>3. /\ req' \in [Clients -> Request] /\ req'[c].pc = "delete" /\ req'[c].sid = i
        /\ \A d \in Clients \ {c} : req'[d] = req[d]
    <3>1. Begin(c, "delete", r) /\ "delete" \in AllOps
      BY <2>1 DEF AllOps
    <3> HIDE DEF r
    <3> QED
      BY <1>1, <2>2, <3>1, BeginFields
  <2>4. Local(c)' /\ RemoveOf(c)'
    BY <2>3 DEF Local, RemoveOf, At
  <2> QED
    BY <1>2, <2>3, <2>4, ReadStep DEF DeleteReads
<1>3. CASE DeleteCommits(c)
  <2> DEFINE row == [NoSubRow EXCEPT !.deleted = TRUE]
  <2>1. row \in Sub /\ row.files = {}
    BY DEF Sub, NoSubRow, Statuses
  <2>2. /\ UNCHANGED <<upload, object, purged>> /\ End(c) /\ req[c].sid \in Subs
        /\ sub' = [sub EXCEPT ![req[c].sid] = row]
    BY <1>3 DEF DeleteCommits, IInv, Local, At
  <2> HIDE DEF row
  <2>3. /\ sub' \in [Subs -> Sub]
        /\ \A j \in Subs : /\ sub'[j].files \subseteq sub[j].files
                           /\ sub'[j].files \ sub'[j].gone \subseteq sub[j].files \ sub[j].gone
    BY <2>1, <2>2 DEF IInv, Types
  <2>4. /\ Keeps({}) /\ Rows'
        /\ Types /\ req' \in [Clients -> Request] => Types'
    BY <2>2, <2>3, NoFileAdded
  <2> QED
    BY <2>2, <2>4, EndWritten
<1> QED
  BY <1>2, <1>3

\* The reads of a removal, and the ones that end without a write.
LEMMA RemoveReadsStep ==
  ASSUME SubmissionsAssumption, IInv, NEW c \in Clients,
         RemoveReads(c) \/ PurgeReads(c) \/ RemoveAborts(c) \/ UploadAborts(c)
  PROVE  IInv'
<1>1. req \in [Clients -> Request] /\ sub \in [Subs -> Sub]
  BY DEF IInv, Types
<1>2. CASE RemoveReads(c)
  <2>1. PICK i \in Subs, u \in UNION {sub[j].files : j \in Subs} :
          Begin(c, "remove", [Idle EXCEPT !.pc = "mark", !.sid = i, !.uploads = {u}])
    BY <1>2 DEF RemoveReads
  <2>2. u \in Uploads
    BY <1>1 DEF Sub
  <2> DEFINE r == [Idle EXCEPT !.pc = "mark", !.sid = i, !.uploads = {u}]
  <2>3. r \in Request /\ r.pc = "mark" /\ r.sid = i
    BY <2>2, IdleType DEF Request, Idle
  <2>4. /\ req' \in [Clients -> Request] /\ req'[c].pc = "mark" /\ req'[c].sid = i
        /\ \A d \in Clients \ {c} : req'[d] = req[d]
    <3>1. Begin(c, "remove", r) /\ "remove" \in AllOps
      BY <2>1 DEF AllOps
    <3> HIDE DEF r
    <3> QED
      BY <1>1, <2>3, <3>1, BeginFields
  <2>5. Local(c)' /\ RemoveOf(c)'
    BY <2>4 DEF Local, RemoveOf, At
  <2> QED
    BY <1>2, <2>4, <2>5, ReadStep DEF RemoveReads
<1>3. CASE PurgeReads(c)
  <2>1. PICK u \in Uploads : Begin(c, "purge", [Idle EXCEPT !.pc = "unlink", !.uploads = {u}])
    BY <1>3 DEF PurgeReads
  <2> DEFINE r == [Idle EXCEPT !.pc = "unlink", !.uploads = {u}]
  <2>2. r \in Request /\ r.pc = "unlink"
    BY IdleType DEF Request, Idle
  <2>3. /\ req' \in [Clients -> Request] /\ req'[c].pc = "unlink" /\ req'[c].op = "purge"
        /\ \A d \in Clients \ {c} : req'[d] = req[d]
    <3>1. Begin(c, "purge", r) /\ "purge" \in AllOps
      BY <2>1 DEF AllOps
    <3> HIDE DEF r
    <3> QED
      BY <1>1, <2>2, <3>1, BeginFields
  <2>4. Local(c)' /\ RemoveOf(c)'
    BY <2>3 DEF Local, RemoveOf, At
  <2> QED
    BY <1>3, <2>3, <2>4, ReadStep DEF PurgeReads
<1>4. CASE RemoveAborts(c) \/ UploadAborts(c)
  BY <1>4, EndStep DEF RemoveAborts, UploadAborts
<1> QED
  BY <1>2, <1>3, <1>4

LEMMA RemoveMarksStep ==
  ASSUME SubmissionsAssumption, IInv, NEW c \in Clients, RemoveMarks(c)
  PROVE  IInv'
<1>1. UNCHANGED <<upload, object, purged>> /\ req[c].sid \in Subs /\ req \in [Clients -> Request]
  BY DEF RemoveMarks, IInv, Types, Local, At
<1>2. CASE End(c) /\ UNCHANGED sub
  BY <1>1, <1>2, EndStep
<1>3. CASE /\ req[c].uploads \subseteq sub[req[c].sid].files
           /\ sub' = [sub EXCEPT ![req[c].sid].gone = @ \union req[c].uploads]
           /\ req' = [req EXCEPT ![c].pc = "unlink", ![c].sid = NoSub]
  <2> DEFINE i == req[c].sid
             S == req[c].uploads
             row == [sub[i] EXCEPT !.gone = @ \union S]
             r == [req[c] EXCEPT !.pc = "unlink", !.sid = NoSub]
  <2>1. sub[i] \in Sub /\ S \subseteq sub[i].files /\ S \subseteq Uploads
    BY <1>1, <1>3 DEF IInv, Types, Request
  <2>2. row \in Sub /\ row.files = sub[i].files /\ row.gone = sub[i].gone \union S
    BY <2>1 DEF Sub
  <2>3. sub' = [sub EXCEPT ![i] = row]
    BY <1>3
  <2>4. \A u \in S : upload[u].state = "CONSUMED" /\ upload[u].by = i
    BY <1>1, <2>1 DEF IInv, Rows, Consumers
  <2>5. \A j \in Subs \ {i} : S \intersect sub[j].files = {}
    BY <2>4 DEF IInv, Rows, Consumers
  <2>6. /\ req' \in [Clients -> Request]
        /\ req'[c].pc = "unlink" /\ req'[c].uploads = S
        /\ \A d \in Clients \ {c} : req'[d] = req[d]
    <3>1. r \in Request /\ r.pc = "unlink" /\ r.uploads = S
      BY <1>1 DEF Request
    <3>2. req' = [req EXCEPT ![c] = r]
      BY <1>3
    <3> QED
      BY <1>1, <3>1, <3>2
  <2> HIDE DEF row, S
  <2>7. /\ sub' \in [Subs -> Sub] /\ sub'[i] = row
        /\ \A j \in Subs \ {i} : sub'[j] = sub[j]
    BY <1>1, <2>2, <2>3 DEF IInv, Types
  <2> HIDE DEF i
  <2>8. \A j \in Subs : /\ sub'[j].files \subseteq sub[j].files
                        /\ sub'[j].files \ sub'[j].gone \subseteq sub[j].files \ sub[j].gone
    BY <2>2, <2>7
  <2>9. Keeps({}) /\ Rows' /\ Types'
    BY <1>1, <2>6, <2>7, <2>8, NoFileAdded DEF IInv
  <2>10. \A d \in Clients \ {c} : Local(d)' /\ RecordOf(d)' /\ RemoveOf(d)'
    BY <2>6, <2>9, OthersKeep
  <2>11. \A u \in S : \A j \in Subs : u \notin sub'[j].files \ sub'[j].gone
    BY <2>2, <2>5, <2>7
  <2>12. Local(c)' /\ RecordOf(c)' /\ RemoveOf(c)'
    BY <1>1, <2>4, <2>6, <2>11 DEF Local, RecordOf, RemoveOf, At
  <2>13. OwnNames'
    BY <2>6 DEF IInv, OwnNames, At
  <2> QED
    BY <2>9, <2>10, <2>12, <2>13 DEF IInv
<1> QED
  BY <1>2, <1>3 DEF RemoveMarks

LEMMA RemoveUnlinksStep ==
  ASSUME SubmissionsAssumption, IInv, NEW c \in Clients, RemoveUnlinks(c)
  PROVE  IInv'
<1> DEFINE S == req[c].uploads
<1>1. /\ At(c, "unlink") /\ UNCHANGED <<upload, sub>> /\ End(c)
      /\ object' = [u \in Uploads |-> object[u] /\ u \notin S]
      /\ purged' = IF req[c].op = "purge" THEN purged \union S ELSE purged
  BY DEF RemoveUnlinks
<1>2. S \subseteq Uploads
  BY DEF IInv, Types, Request
<1>3. object' \in [Uploads -> BOOLEAN] /\ \A u \in Uploads \ S : object[u] => object'[u]
  <2>1. \A u \in Uploads : (object[u] /\ u \notin S) \in BOOLEAN
    OBVIOUS
  <2> HIDE DEF S
  <2> QED
    BY <1>1, <2>1
<1>4. /\ purged \subseteq purged' /\ purged' \subseteq Uploads
      /\ req[c].op = "purge" => S \subseteq purged'
  BY <1>1, <1>2 DEF IInv, Types
<1>5. CASE req[c].op = "purge"
  <2>1. \A u \in Uploads : Kept(u) => Kept(u)'
    BY <1>3, <1>4, <1>5 DEF Kept
  <2>2. Keeps({})
    BY <1>1, <2>1 DEF Keeps
  <2>3. \A i \in Subs : sub[i].files \subseteq Uploads
    BY DEF IInv, Types, Sub
  <2>4. Rows'
    BY <1>1, <2>1, <2>3 DEF IInv, Rows, Consumers, PendingIsKept, ListedIsStored, Kept
  <2>5. Types /\ req' \in [Clients -> Request] => Types'
    BY <1>1, <1>3, <1>4 DEF Types
  <2> QED
    BY <1>1, <2>2, <2>4, <2>5, EndWritten
<1>6. CASE req[c].op # "purge"
  <2>1. \A u \in S : /\ upload[u].state = "CONSUMED"
                     /\ \A i \in Subs : u \notin sub[i].files \ sub[i].gone
    BY <1>1, <1>6 DEF IInv, RemoveOf
  <2>2. \A u \in Uploads \ S : Kept(u) => Kept(u)'
    BY <1>3, <1>4 DEF Kept
  <2> HIDE DEF S
  <2>3. Keeps({})
    BY <1>1, <2>1, <2>2 DEF Keeps
  <2>4. \A i \in Subs : sub[i].files \subseteq Uploads
    BY DEF IInv, Types, Sub
  <2>5. Rows'
    BY <1>1, <2>1, <2>2, <2>4 DEF IInv, Rows, Consumers, PendingIsKept, ListedIsStored, Kept
  <2>6. Types /\ req' \in [Clients -> Request] => Types'
    BY <1>1, <1>3, <1>4 DEF Types
  <2> QED
    BY <1>1, <2>3, <2>5, <2>6, EndWritten
<1> QED
  BY <1>5, <1>6

-----------------------------------------------------------------------------
(* The invariant *)

LEMMA InitIInv ==
  ASSUME Init
  PROVE  IInv
<1>1. Types
  BY IdleType DEF Init, Types, NoUpload, Upload, NoSubRow, Sub, Statuses
<1>2. \A c \in Clients : req[c].pc = "idle"
  BY IdleType DEF Init
<1>3. \A i \in Subs : sub[i].files = {}
  BY DEF Init, NoSubRow
<1>4. \A u \in Uploads : upload[u].state = "none"
  BY DEF Init, NoUpload
<1> QED
  BY <1>1, <1>2, <1>3, <1>4
  DEF IInv, OwnNames, Rows, Consumers, PendingIsKept, ListedIsStored, Local, RecordOf, RemoveOf, At

LEMMA NextIInv ==
  ASSUME SubmissionsAssumption, IInv, [Next]_vars
  PROVE  IInv'
<1>1. CASE UNCHANGED vars
  <2>1. UNCHANGED <<upload, object, sub, req, purged>>
    BY <1>1 DEF vars
  <2>2. Keeps({}) /\ Types' /\ Rows'
    BY <2>1, NothingWritten DEF IInv, Types
  <2> QED
    BY <2>1, <2>2, OtherWritten
<1>2. ASSUME NEW c \in Clients, RequestStep(c) PROVE IInv'
  BY <1>2, UploadPutsStep, UploadRecordsStep, ResolveStep, SubmitReadsStep, SubmitCommitsStep,
    SubmitCreatesStep, ReviewStep, DeleteStep, RemoveReadsStep, RemoveMarksStep, RemoveUnlinksStep
  DEF RequestStep
<1>3. ASSUME NEW u \in Uploads, UploadAges(u) PROVE IInv'
  BY <1>3, UploadAgesStep
<1>4. ASSUME NEW files \in SUBSET Uploads, SubmitFindsExpired(files) PROVE IInv'
  BY <1>4, ExpiredStep
<1>5. ASSUME NEW p \in Places, NEW status \in Chosen, AdminCreates(p, status) PROVE IInv'
  BY <1>5, AdminCreatesStep
<1>6. ASSUME NEW i \in Subs, NEW status \in Chosen, AdminUpdates(i, status) PROVE IInv'
  BY <1>6, AdminUpdatesStep
<1> QED
  BY <1>1, <1>2, <1>3, <1>4, <1>5, <1>6 DEF Next

LEMMA Invariance ==
  ASSUME SubmissionsAssumption
  PROVE  Spec => []IInv
<1>1. Init => IInv
  BY InitIInv
<1>2. IInv /\ [Next]_vars => IInv'
  BY NextIInv
<1> QED
  BY <1>1, <1>2, PTL DEF Spec

-----------------------------------------------------------------------------
(* Theorems *)

\* The rows, and the requests at work on them, have their types in every reachable state.
THEOREM TypeCorrect ==
  ASSUME SubmissionsAssumption
  PROVE  Spec => []TypeOK
<1>1. IInv => TypeOK
  BY DEF IInv, Types, Local, TypeOK
<1> QED
  BY <1>1, Invariance, PTL

\* consumePendingUploads lets one submission attach an upload, however many submit it
\* at once: the check of the earlier reads is repeated in the transaction.
THEOREM UploadsAreUsedOnce ==
  ASSUME SubmissionsAssumption
  PROVE  Spec => []UploadUsedOnce
<1>1. IInv => UploadUsedOnce
  BY DEF IInv, Rows, Consumers, UploadUsedOnce
<1> QED
  BY <1>1, Invariance, PTL

\* FilesService.remove marks the file row before it deletes the object, so that no
\* submission lists a file that is gone, unless an administrator removed the object.
THEOREM ListedFilesAreStored ==
  ASSUME SubmissionsAssumption
  PROVE  Spec => []ListedIsStored
<1>1. IInv => ListedIsStored
  BY DEF IInv, Rows
<1> QED
  BY <1>1, Invariance, PTL
=============================================================================
