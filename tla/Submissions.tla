----------------------------- MODULE Submissions -----------------------------
(***************************************************************************)
(* Submitting files for activities and grading them: pending uploads       *)
(* (files/files.service.ts), submissions (submissions.service.ts and       *)
(* repositories/submission.repository.ts), the teacher's review and what   *)
(* an administrator does to a record (admin-submissions.service.ts).       *)
(*                                                                         *)
(* A place is an activity together with the student or group that submits  *)
(* for it; partial unique indexes allow one Submission row per place.      *)
(* Each database statement is one step, except that the transaction of a   *)
(* resubmission is two: the deletion of the file rows it finds, and the    *)
(* rest, which the lock of the submission's row makes one.                 *)
(***************************************************************************)
EXTENDS Naturals, FiniteSets

CONSTANTS
  Students,
  Places,
  SubmitsTo,     \* pairs: a student submits for a place, alone or for a group
  Uploads,       \* ids of PendingUpload rows, and of their stored objects
  Subs,          \* ids of Submission rows
  Clients,       \* API requests that may be in progress at once
  NoStudent, NoPlace, NoSub,
  Ops,           \* the requests that occur
  Chosen         \* the statuses that submissions, reviews and edits set

AllOps == {"upload", "submit", "review", "adminCreate", "adminUpdate", "delete", "remove",
           "purge"}
Statuses == {"DRAFT", "OPEN", "SUBMITTED", "LATE", "REVIEWED", "GRADED", "NEEDS_REVISION",
             "REOPENED"}

SubmissionsAssumption ==
  /\ SubmitsTo \subseteq Students \X Places
  /\ NoStudent \notin Students /\ NoPlace \notin Places /\ NoSub \notin Subs
  /\ Ops \subseteq AllOps
  /\ Chosen \subseteq Statuses

VARIABLES
  upload,    \* the PendingUpload rows
  object,    \* the stored objects
  sub,       \* the Submission rows, with their SubmissionFile rows
  req,       \* local state of each request
  purged     \* history: objects an administrator removed as no file of a submission

vars == <<upload, object, sub, req, purged>>

Upload == [state: {"none", "PENDING", "CONSUMED", "EXPIRED"}, user: Students \union {NoStudent},
           late: BOOLEAN,                       \* past expiresAt
           by: Subs \union {NoSub}]             \* consumedBySubmissionId
NoUpload == [state |-> "none", user |-> NoStudent, late |-> FALSE, by |-> NoSub]

Sub == [place: Places \union {NoPlace}, status: Statuses,
        files: SUBSET Uploads,                  \* one file row per upload
        gone: SUBSET Uploads,                   \* those with deletedAt
        deleted: BOOLEAN]                       \* the row has gone; its id is not used again
NoSubRow == [place |-> NoPlace, status |-> "DRAFT", files |-> {}, gone |-> {},
             deleted |-> FALSE]

Request == [op: AllOps \union {"none"},
            pc: {"idle", "record", "check", "find", "replace", "commit", "create", "review",
                 "delete", "mark", "unlink"},
            user: Students \union {NoStudent}, place: Places \union {NoPlace},
            uploads: SUBSET Uploads, status: Statuses,
            sid: Subs \union {NoSub}, snap: SUBSET Uploads]
Idle == [op |-> "none", pc |-> "idle", user |-> NoStudent, place |-> NoPlace, uploads |-> {},
         status |-> "DRAFT", sid |-> NoSub, snap |-> {}]

Init ==
  /\ upload = [u \in Uploads |-> NoUpload]
  /\ object = [u \in Uploads |-> FALSE]
  /\ sub = [i \in Subs |-> NoSubRow]
  /\ req = [c \in Clients |-> Idle]
  /\ purged = {}

Exists(i) == sub[i].place # NoPlace
Fresh(i) == ~Exists(i) /\ ~sub[i].deleted
RowsAt(p) == {i \in Subs : sub[i].place = p}

\* canStudentEditSubmission
Editable(status) == status \in {"DRAFT", "NEEDS_REVISION", "REOPENED", "OPEN"}

\* canTransitionSubmissionStatus
Successors(status) ==
  CASE status \in {"DRAFT", "OPEN"} -> {"SUBMITTED", "LATE"}
    [] status \in {"SUBMITTED", "LATE"} -> {"REVIEWED", "GRADED", "NEEDS_REVISION"}
    [] status = "REVIEWED" -> {"GRADED", "NEEDS_REVISION", "REOPENED"}
    [] status = "GRADED" -> {"REOPENED"}
    [] status = "NEEDS_REVISION" -> {"SUBMITTED", "LATE", "REOPENED"}
    [] status = "REOPENED" -> {"SUBMITTED", "LATE", "REVIEWED", "GRADED", "NEEDS_REVISION"}
CanTransition(from, to) == to = from \/ to \in Successors(from)

Begin(c, op, r) ==
  /\ op \in Ops /\ req[c].pc = "idle"
  /\ req' = [req EXCEPT ![c] = [r EXCEPT !.op = op]]

At(c, pc) == req[c].pc = pc
Goto(c, pc) == req' = [req EXCEPT ![c].pc = pc]
End(c) == req' = [req EXCEPT ![c] = Idle]

-----------------------------------------------------------------------------
(* Uploading a file *)

\* uploadBuffer stores the object under a fresh name ...
UploadPuts(c) ==
  /\ \E s \in Students, u \in Uploads :
       /\ upload[u].state = "none" /\ ~object[u] /\ u \notin purged
       /\ \A d \in Clients : u \notin req[d].uploads
       /\ object' = [object EXCEPT ![u] = TRUE]
       /\ Begin(c, "upload", [Idle EXCEPT !.pc = "record", !.user = s, !.uploads = {u}])
  /\ UNCHANGED <<upload, sub, purged>>

\* ... and then inserts the row that lets its owner attach it.
UploadRecords(c) ==
  /\ At(c, "record")
  /\ upload' = [u \in Uploads |->
                  IF u \in req[c].uploads
                  THEN [NoUpload EXCEPT !.state = "PENDING", !.user = req[c].user] ELSE upload[u]]
  /\ End(c)
  /\ UNCHANGED <<object, sub, purged>>

\* The insert fails or the process dies: the object stays without a row.
UploadAborts(c) ==
  /\ At(c, "record")
  /\ End(c)
  /\ UNCHANGED <<upload, object, sub, purged>>

UploadAges(u) ==
  /\ upload[u].state = "PENDING" /\ ~upload[u].late
  /\ upload' = [upload EXCEPT ![u].late = TRUE]
  /\ UNCHANGED <<object, sub, req, purged>>

-----------------------------------------------------------------------------
(* Submitting *)

MayAttach(s, files) == \A u \in files : upload[u].state = "PENDING" /\ upload[u].user = s

\* submit resolves the uploads of the user (resolvePendingUploadsForSubmission) ...
SubmitResolves(c) ==
  /\ \E p \in SubmitsTo, files \in SUBSET Uploads,
        status \in Chosen \intersect {"SUBMITTED", "LATE"} :
       /\ MayAttach(p[1], files)
       /\ \A u \in files : ~upload[u].late /\ object[u]
       /\ Begin(c, "submit", [Idle EXCEPT !.pc = "check", !.user = p[1], !.place = p[2],
                                          !.uploads = files, !.status = status])
  /\ UNCHANGED <<upload, object, sub, purged>>

\* ... and marks those that have expired, with which it fails.
SubmitFindsExpired(files) ==
  /\ "submit" \in Ops
  /\ \E s \in Students : MayAttach(s, files)
  /\ \E u \in files : upload[u].late
  /\ upload' = [u \in Uploads |-> IF u \in files /\ upload[u].late
                                  THEN [upload[u] EXCEPT !.state = "EXPIRED"] ELSE upload[u]]
  /\ UNCHANGED <<object, sub, req, purged>>

\* It reads the submission of the place, which must be editable, ...
SubmitChecks(c) ==
  /\ At(c, "check")
  /\ IF \A i \in RowsAt(req[c].place) : Editable(sub[i].status)
     THEN Goto(c, "find") ELSE End(c)
  /\ UNCHANGED <<upload, object, sub, purged>>

\* Mutant of SubmitFinds: every submission is taken for an update.
SubmitFindsAlways(c) ==
  /\ At(c, "find")
  /\ Goto(c, "replace")
  /\ UNCHANGED <<upload, object, sub, purged>>

\* ... and createOrUpdateSubmission reads it again, for its id.
SubmitFinds(c) ==
  /\ At(c, "find")
  /\ \/ /\ RowsAt(req[c].place) = {}
        /\ Goto(c, "create")
     \/ \E i \in RowsAt(req[c].place) :
          req' = [req EXCEPT ![c].pc = "replace", ![c].sid = i]
  /\ UNCHANGED <<upload, object, sub, purged>>

\* The transaction deletes the file rows that it finds; those that another one
\* has inserted and not yet committed are not among them.
SubmitReplaces(c) ==
  /\ At(c, "replace")
  /\ req' = [req EXCEPT ![c].pc = "commit", ![c].snap = sub[req[c].sid].files]
  /\ UNCHANGED <<upload, object, sub, purged>>

\* Mutant of Consumable: the transaction relies on the earlier check.
ConsumableAsChecked(c) == TRUE

\* consumePendingUploads: every upload must still be pending, or all is rolled back.
Consumable(c) ==
  MayAttach(req[c].user, req[c].uploads) /\ \A u \in req[c].uploads : ~upload[u].late

Consumed(c, i) ==
  [u \in Uploads |-> IF u \in req[c].uploads
                     THEN [upload[u] EXCEPT !.state = "CONSUMED", !.by = i] ELSE upload[u]]

\* The update of the row by id, the new file rows and the uploads are committed ...
SubmitCommits(c) ==
  LET r == req[c]
      row == sub[r.sid]
  IN /\ At(c, "commit") /\ Exists(r.sid) /\ Consumable(c)
     /\ sub' = [sub EXCEPT ![r.sid] =
                  [row EXCEPT !.status = r.status, !.gone = @ \ r.snap,
                              !.files = (@ \ r.snap) \union r.uploads]]
     /\ upload' = Consumed(c, r.sid)
     /\ End(c)
     /\ UNCHANGED <<object, purged>>

\* ... or the insert of a first submission and what belongs to it ...
SubmitCreates(c) ==
  LET r == req[c]
  IN /\ At(c, "create") /\ RowsAt(r.place) = {} /\ Consumable(c)
     /\ \E i \in Subs :
          /\ Fresh(i)
          /\ sub' = [sub EXCEPT ![i] = [NoSubRow EXCEPT !.place = r.place, !.status = r.status,
                                                        !.files = r.uploads]]
          /\ upload' = Consumed(c, i)
     /\ End(c)
     /\ UNCHANGED <<object, purged>>

\* ... or nothing: the row has gone, another one exists, or an upload is taken.
SubmitFails(c) ==
  /\ \/ At(c, "commit") /\ ~(Exists(req[c].sid) /\ Consumable(c))
     \/ At(c, "create") /\ ~(RowsAt(req[c].place) = {} /\ Consumable(c))
  /\ End(c)
  /\ UNCHANGED <<upload, object, sub, purged>>

-----------------------------------------------------------------------------
(* Reviewing *)

\* review checks the transition ...
ReviewReads(c) ==
  /\ \E i \in Subs, status \in Chosen :
       /\ Exists(i) /\ CanTransition(sub[i].status, status)
       /\ Begin(c, "review", [Idle EXCEPT !.pc = "review", !.sid = i, !.status = status])
  /\ UNCHANGED <<upload, object, sub, purged>>

\* ... and updates by id.
ReviewWrites(c) ==
  LET r == req[c]
  IN /\ At(c, "review")
     /\ sub' = IF Exists(r.sid)
               THEN [sub EXCEPT ![r.sid].status = r.status] ELSE sub
     /\ End(c)
     /\ UNCHANGED <<upload, object, purged>>

-----------------------------------------------------------------------------
(* Administration *)

AdminCreates(p, status) ==
  /\ "adminCreate" \in Ops /\ RowsAt(p) = {}
  /\ \E i \in Subs :
       /\ Fresh(i)
       /\ sub' = [sub EXCEPT ![i] = [NoSubRow EXCEPT !.place = p, !.status = status]]
  /\ UNCHANGED <<upload, object, req, purged>>

AdminUpdates(i, status) ==
  /\ "adminUpdate" \in Ops /\ Exists(i)
  /\ sub' = [sub EXCEPT ![i].status = status]
  /\ UNCHANGED <<upload, object, req, purged>>

\* deleteSubmission removes the stored files first.  It calls remove without an
\* actor, which is refused: only a submission without files gets past this ...
DeleteReads(c) ==
  /\ \E i \in Subs :
       /\ Exists(i) /\ sub[i].files = {}
       /\ Begin(c, "delete", [Idle EXCEPT !.pc = "delete", !.sid = i])
  /\ UNCHANGED <<upload, object, sub, purged>>

\* ... and the transaction deletes the row with whatever files it has by then.
DeleteCommits(c) ==
  /\ At(c, "delete")
  /\ sub' = [sub EXCEPT ![req[c].sid] = [NoSubRow EXCEPT !.deleted = TRUE]]
  /\ End(c)
  /\ UNCHANGED <<upload, object, purged>>

-----------------------------------------------------------------------------
(* Removing a stored file by its path (FilesService.remove) *)

\* A teacher or administrator finds the file row ...
RemoveReads(c) ==
  /\ \E i \in Subs : \E u \in sub[i].files \ sub[i].gone :
       Begin(c, "remove", [Idle EXCEPT !.pc = "mark", !.sid = i, !.uploads = {u}])
  /\ UNCHANGED <<upload, object, sub, purged>>

\* Mutant of RemoveMarks: the file row is not marked.
RemoveMarksNothing(c) ==
  LET r == req[c]
  IN /\ At(c, "mark")
     /\ Goto(c, "unlink")
     /\ UNCHANGED <<upload, object, sub, purged>>

\* ... marks it by id, which fails when a resubmission has deleted it, ...
RemoveMarks(c) ==
  LET r == req[c]
  IN /\ At(c, "mark")
     /\ IF r.uploads \subseteq sub[r.sid].files
        THEN /\ sub' = [sub EXCEPT ![r.sid].gone = @ \union r.uploads]
             /\ req' = [req EXCEPT ![c].pc = "unlink", ![c].sid = NoSub]
        ELSE End(c) /\ UNCHANGED sub
     /\ UNCHANGED <<upload, object, purged>>

\* ... and deletes the object.
RemoveUnlinks(c) ==
  LET r == req[c]
  IN /\ At(c, "unlink")
     /\ object' = [u \in Uploads |-> object[u] /\ u \notin r.uploads]
     /\ purged' = IF r.op = "purge" THEN purged \union r.uploads ELSE purged
     /\ End(c)
     /\ UNCHANGED <<upload, sub>>

\* The storage fails or the process dies.
RemoveAborts(c) ==
  /\ At(c, "unlink")
  /\ End(c)
  /\ UNCHANGED <<upload, object, sub, purged>>

\* An administrator may remove an object that no file row names.
PurgeReads(c) ==
  /\ \E u \in Uploads :
       /\ object[u] /\ \A i \in Subs : u \notin sub[i].files \ sub[i].gone
       /\ Begin(c, "purge", [Idle EXCEPT !.pc = "unlink", !.uploads = {u}])
  /\ UNCHANGED <<upload, object, sub, purged>>

-----------------------------------------------------------------------------
RequestStep(c) ==
  \/ UploadPuts(c) \/ UploadRecords(c) \/ UploadAborts(c)
  \/ SubmitResolves(c) \/ SubmitChecks(c) \/ SubmitFinds(c) \/ SubmitReplaces(c)
  \/ SubmitCommits(c) \/ SubmitCreates(c) \/ SubmitFails(c)
  \/ ReviewReads(c) \/ ReviewWrites(c)
  \/ DeleteReads(c) \/ DeleteCommits(c)
  \/ RemoveReads(c) \/ RemoveMarks(c) \/ RemoveUnlinks(c) \/ RemoveAborts(c) \/ PurgeReads(c)

Next ==
  \/ \E c \in Clients : RequestStep(c)
  \/ \E u \in Uploads : UploadAges(u)
  \/ \E files \in SUBSET Uploads : SubmitFindsExpired(files)
  \/ \E p \in Places, status \in Chosen : AdminCreates(p, status)
  \/ \E i \in Subs, status \in Chosen : AdminUpdates(i, status)

Spec == Init /\ [][Next]_vars

-----------------------------------------------------------------------------
(* Requests carry the ids they work on; a row that is gone has no files.     *)
TypeOK ==
  /\ upload \in [Uploads -> Upload]
  /\ object \in [Uploads -> BOOLEAN]
  /\ sub \in [Subs -> Sub]
  /\ req \in [Clients -> Request]
  /\ purged \subseteq Uploads
  /\ \A c \in Clients :
       /\ req[c].pc \in {"check", "find", "replace", "commit", "create"} =>
            <<req[c].user, req[c].place>> \in SubmitsTo
       /\ req[c].pc \in {"replace", "commit", "review", "delete", "mark"} => req[c].sid \in Subs

(* An upload is attached only by the transaction that consumes it: a file of *)
(* a submission was uploaded by somebody who submits for its place, was      *)
(* consumed by this submission, and belongs to no other.                     *)
UploadUsedOnce ==
  \A i \in Subs : \A u \in sub[i].files :
    /\ upload[u].state = "CONSUMED" /\ upload[u].by = i
    /\ \A j \in Subs \ {i} : u \notin sub[j].files

(* A file that a submission lists and that is not marked deleted can be      *)
(* downloaded, whatever removals, resubmissions and failures interleave,     *)
(* unless an administrator removed the object while nothing listed it.       *)
ListedIsStored ==
  \A i \in Subs : \A u \in sub[i].files \ sub[i].gone : object[u] \/ u \in purged
=============================================================================
