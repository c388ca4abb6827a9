---------------------------- MODULE DataDeletion ----------------------------
(***************************************************************************)
(* Account data deletion: a user asks for it, an administrator decides     *)
(* (data-deletion.service.ts), plans an execution, makes a dry run, links  *)
(* a completed backup and starts the execution, which erases the rows of   *)
(* the user statement by statement (data-deletion-execution.service.ts).   *)
(*                                                                         *)
(* The list of backups is the one that BackupCatalog promises and Backups  *)
(* keeps: its steps are the environment of this module, together with one  *)
(* that neither has, the failure of a backup that had been completed.  No  *)
(* transaction spans two statements, so each statement is one step; a      *)
(* crash may come between any two of them.  All updates are by id.         *)
(***************************************************************************)
EXTENDS Naturals

CONSTANTS
  Users,
  Requests,        \* ids of DataDeletionRequest rows; each has at most one execution
  Entries, Stamps, \* of the list of backups
  Handlers,        \* API requests that may be in progress at once
  NoUser, NoRequest, NoBackup,
  DeletionOps      \* the requests that occur

AllDeletionOps == {"request", "decide", "plan", "dryRun", "verify", "attempt"}

DataDeletionAssumption ==
  /\ NoUser \notin Users /\ NoRequest \notin Requests /\ NoBackup \notin Entries
  /\ Stamps \subseteq Nat \ {0}
  /\ DeletionOps \subseteq AllDeletionOps

VARIABLES
  catalog,     \* the list of backups
  request,     \* the DataDeletionRequest rows
  exec,        \* the DataDeletionExecution row of each request
  rows,        \* the kinds of rows each user has
  anonymous,   \* users whose User row lost what identifies them; its status may change again
  handler,     \* local state of each request in progress
  approved     \* history: requests that have been APPROVED at some time

deletionVars == <<catalog, request, exec, rows, anonymous, handler, approved>>

Backups == INSTANCE BackupCatalog

\* Mail jobs, found by the address; the profile and what hangs on it; and all that is
\* found by the user id: notifications, uploads, sessions, tokens.
Kinds == {"mail", "profile", "session"}

Decisions == {"APPROVED", "DENIED", "CANCELLED"}
RequestRow == [status: {"none", "PENDING"} \union Decisions, user: Users \union {NoUser}]
ExecStatuses == {"none", "DRY_RUN_PENDING", "DRY_RUN_STARTED", "DRY_RUN_COMPLETED",
                 "BACKUP_VERIFIED", "EXECUTION_STARTED", "EXECUTION_COMPLETED",
                 "EXECUTION_FAILED"}
ExecRow == [status: ExecStatuses, backup: Entries \union {NoBackup}]

Erasing == {"mail", "find", "profile", "session", "account"}
Handler == [pc: {"idle", "insert", "decide", "plan", "dryStart", "dryEnd", "verify", "read",
                 "check", "start", "finish", "failed"} \union Erasing,
            user: Users \union {NoUser}, row: Requests \union {NoRequest},
            status: {"none"} \union Decisions,
            backup: Entries \union {NoBackup},
            address: BOOLEAN,                 \* the address of the mail is the user's own
            found: BOOLEAN]                   \* it found the profile that it deletes
IdleHandler == [pc |-> "idle", user |-> NoUser, row |-> NoRequest, status |-> "none",
                backup |-> NoBackup, address |-> FALSE, found |-> FALSE]

DeletionInit ==
  /\ Backups!Init
  /\ request = [r \in Requests |-> [status |-> "none", user |-> NoUser]]
  /\ exec = [r \in Requests |-> [status |-> "none", backup |-> NoBackup]]
  /\ rows = [u \in Users |-> Kinds]
  /\ anonymous = {}
  /\ handler = [c \in Handlers |-> IdleHandler]
  /\ approved = {}

Reached(c, pc) == handler[c].pc = pc
Proceed(c, pc) == handler' = [handler EXCEPT ![c].pc = pc]
Finish(c) == handler' = [handler EXCEPT ![c] = IdleHandler]
Take(c, op, r) ==
  /\ op \in DeletionOps /\ Reached(c, "idle")
  /\ handler' = [handler EXCEPT ![c] = r]

-----------------------------------------------------------------------------
(* Requests and decisions *)

\* createRequest finds no pending request of the user ...
CreateReads(c) ==
  /\ \E u \in Users :
       /\ \A r \in Requests : request[r].user = u => request[r].status # "PENDING"
       /\ Take(c, "request", [IdleHandler EXCEPT !.pc = "insert", !.user = u])
  /\ UNCHANGED <<catalog, request, exec, rows, anonymous, approved>>

\* ... and inserts one.
CreateInserts(c) ==
  /\ Reached(c, "insert")
  /\ \E r \in Requests :
       /\ request[r].status = "none"
       /\ request' = [request EXCEPT ![r] = [status |-> "PENDING", user |-> handler[c].user]]
  /\ Finish(c)
  /\ UNCHANGED <<catalog, exec, rows, anonymous, approved>>

\* cancelOwnRequest and performReview read a pending request ...
DecideReads(c) ==
  /\ \E r \in Requests, decision \in Decisions :
       /\ request[r].status = "PENDING"
       /\ Take(c, "decide", [IdleHandler EXCEPT !.pc = "decide", !.row = r, !.status = decision])
  /\ UNCHANGED <<catalog, request, exec, rows, anonymous, approved>>

\* ... and write their decision, whatever has been decided meanwhile.
DecideWrites(c) ==
  LET r == handler[c]
  IN /\ Reached(c, "decide")
     /\ request' = [request EXCEPT ![r.row].status = r.status]
     /\ approved' = IF r.status = "APPROVED" THEN approved \union {r.row} ELSE approved
     /\ Finish(c)
     /\ UNCHANGED <<catalog, exec, rows, anonymous>>

-----------------------------------------------------------------------------
(* Planning, dry run and backup *)

\* Mutant of PlanReads: the status of the request is not checked.
PlanReadsAny(c) ==
  /\ \E r \in Requests :
       /\ request[r].status # "none" /\ exec[r].status = "none"
       /\ Take(c, "plan", [IdleHandler EXCEPT !.pc = "plan", !.row = r])
  /\ UNCHANGED <<catalog, request, exec, rows, anonymous, approved>>

\* getOrCreateExecutionForRequest
PlanReads(c) ==
  /\ \E r \in Requests :
       /\ request[r].status = "APPROVED" /\ exec[r].status = "none"
       /\ Take(c, "plan", [IdleHandler EXCEPT !.pc = "plan", !.row = r])
  /\ UNCHANGED <<catalog, request, exec, rows, anonymous, approved>>

\* The unique index refuses a second execution of the request.
PlanCreates(c) ==
  /\ Reached(c, "plan")
  /\ IF exec[handler[c].row].status = "none"
     THEN exec' = [exec EXCEPT ![handler[c].row].status = "DRY_RUN_PENDING"] ELSE UNCHANGED exec
  /\ Finish(c)
  /\ UNCHANGED <<catalog, request, rows, anonymous, approved>>

DryRunReads(c) ==
  /\ \E r \in Requests :
       /\ exec[r].status = "DRY_RUN_PENDING"
       /\ Take(c, "dryRun", [IdleHandler EXCEPT !.pc = "dryStart", !.row = r])
  /\ UNCHANGED <<catalog, request, exec, rows, anonymous, approved>>

DryRunStarts(c) ==
  /\ Reached(c, "dryStart")
  /\ exec' = [exec EXCEPT ![handler[c].row].status = "DRY_RUN_STARTED"]
  /\ Proceed(c, "dryEnd")
  /\ UNCHANGED <<catalog, request, rows, anonymous, approved>>

DryRunEnds(c) ==
  /\ Reached(c, "dryEnd")
  /\ exec' = [exec EXCEPT ![handler[c].row].status = "DRY_RUN_COMPLETED"]
  /\ Finish(c)
  /\ UNCHANGED <<catalog, request, rows, anonymous, approved>>

Available(b) == catalog[b].state = "completed"

\* Mutant of VerifyReads: the backup need only exist.
VerifyReadsAny(c) ==
  /\ \E r \in Requests, b \in Entries :
       /\ exec[r].status # "none" /\ catalog[b].state \in {"running", "completed"}
       /\ Take(c, "verify", [IdleHandler EXCEPT !.pc = "verify", !.row = r, !.backup = b])
  /\ UNCHANGED <<catalog, request, exec, rows, anonymous, approved>>

\* verifyBackup takes an execution in any status and reads the backup ...
VerifyReads(c) ==
  /\ \E r \in Requests, b \in Entries :
       /\ exec[r].status # "none" /\ Available(b)
       /\ Take(c, "verify", [IdleHandler EXCEPT !.pc = "verify", !.row = r, !.backup = b])
  /\ UNCHANGED <<catalog, request, exec, rows, anonymous, approved>>

\* ... and links it.
VerifyWrites(c) ==
  /\ Reached(c, "verify")
  /\ exec' = [exec EXCEPT ![handler[c].row] = [status |-> "BACKUP_VERIFIED",
                                              backup |-> handler[c].backup]]
  /\ Finish(c)
  /\ UNCHANGED <<catalog, request, rows, anonymous, approved>>

-----------------------------------------------------------------------------
(* The execution *)

\* executeManuallyByRequestId: the administrator names the backup that is linked ...
AttemptConfirms(c) ==
  /\ \E r \in Requests :
       /\ exec[r].backup # NoBackup
       /\ Take(c, "attempt", [IdleHandler EXCEPT !.pc = "read", !.row = r])
  /\ UNCHANGED <<catalog, request, exec, rows, anonymous, approved>>

\* ... attemptExecution reads the rows again, ...
AttemptReads(c) ==
  LET r == handler[c].row
      u == request[r].user
  IN /\ Reached(c, "read")
     /\ IF exec[r].status = "BACKUP_VERIFIED" /\ request[r].status = "APPROVED"
        THEN handler' = [handler EXCEPT ![c].pc = "check", ![c].user = u,
                                    ![c].backup = exec[r].backup, ![c].address = u \notin anonymous]
        ELSE Finish(c)
     /\ UNCHANGED <<catalog, request, exec, rows, anonymous, approved>>

\* ... then the backup, which is not used any further, ...
AttemptChecks(c) ==
  /\ Reached(c, "check")
  /\ IF Available(handler[c].backup)
     THEN handler' = [handler EXCEPT ![c].pc = "start", ![c].backup = NoBackup] ELSE Finish(c)
  /\ UNCHANGED <<catalog, request, exec, rows, anonymous, approved>>

\* ... and marks the execution as started.
AttemptStarts(c) ==
  /\ Reached(c, "start")
  /\ exec' = [exec EXCEPT ![handler[c].row].status = "EXECUTION_STARTED"]
  /\ Proceed(c, "mail")
  /\ UNCHANGED <<catalog, request, rows, anonymous, approved>>

Erase(c, kinds) == rows' = [rows EXCEPT ![handler[c].user] = @ \ kinds]

\* The mail of the address it read: of none, if the user was anonymous by then.
EraseMail(c) ==
  /\ Reached(c, "mail")
  /\ Erase(c, IF handler[c].address THEN {"mail"} ELSE {})
  /\ handler' = [handler EXCEPT ![c].pc = "find", ![c].address = FALSE]
  /\ UNCHANGED <<catalog, request, exec, anonymous, approved>>

FindProfile(c) ==
  /\ Reached(c, "find")
  /\ handler' = [handler EXCEPT ![c].pc = "profile",
                                ![c].found = "profile" \in rows[handler[c].user]]
  /\ UNCHANGED <<catalog, request, exec, rows, anonymous, approved>>

\* A profile that was found and has gone since makes the deletion throw.
EraseProfile(c) ==
  /\ Reached(c, "profile")
  /\ IF handler[c].found /\ "profile" \notin rows[handler[c].user]
     THEN Proceed(c, "failed") /\ UNCHANGED rows
     ELSE /\ handler' = [handler EXCEPT ![c].pc = "session", ![c].found = FALSE]
          /\ Erase(c, {"profile"})
  /\ UNCHANGED <<catalog, request, exec, anonymous, approved>>

EraseSessions(c) ==
  /\ Reached(c, "session")
  /\ Erase(c, {"session"})
  /\ Proceed(c, "account")
  /\ UNCHANGED <<catalog, request, exec, anonymous, approved>>

Anonymize(c) ==
  /\ Reached(c, "account")
  /\ anonymous' = anonymous \union {handler[c].user}
  /\ Proceed(c, "finish")
  /\ UNCHANGED <<catalog, request, exec, rows, approved>>

\* Mutant of EraseThrows: an exception does not clear success.
EraseThrowsOn(c) ==
  /\ handler[c].pc \in Erasing
  /\ Proceed(c, "finish")
  /\ UNCHANGED <<catalog, request, exec, rows, anonymous, approved>>

\* A statement throws; what the ones before it erased stays erased.
EraseThrows(c) ==
  /\ handler[c].pc \in Erasing
  /\ Proceed(c, "failed")
  /\ UNCHANGED <<catalog, request, exec, rows, anonymous, approved>>

AttemptEnds(c) ==
  /\ handler[c].pc \in {"finish", "failed"}
  /\ exec' = [exec EXCEPT ![handler[c].row].status =
                IF Reached(c, "finish") THEN "EXECUTION_COMPLETED" ELSE "EXECUTION_FAILED"]
  /\ Finish(c)
  /\ UNCHANGED <<catalog, request, rows, anonymous, approved>>

\* The process dies, or a write outside the try block fails.
RequestDies(c) ==
  /\ ~Reached(c, "idle")
  /\ Finish(c)
  /\ UNCHANGED <<catalog, request, exec, rows, anonymous, approved>>

-----------------------------------------------------------------------------
(* The rest of the system *)

\* A user logs in, is notified, is sent mail.  An administrator may invite an anonymized
\* user again, whose mail then goes to the placeholder address.
UserActs(u) ==
  /\ \E k \in (IF u \in anonymous THEN {"session"} ELSE {"mail", "session"}) :
       rows' = [rows EXCEPT ![u] = @ \union {k}]
  /\ UNCHANGED <<catalog, request, exec, anonymous, handler, approved>>

\* A completed backup whose audit record cannot be written is marked as failed.
BackupUndone(b) ==
  /\ Available(b)
  /\ catalog' = [catalog EXCEPT ![b].state = "failed"]
  /\ UNCHANGED <<request, exec, rows, anonymous, handler, approved>>

BackupStep == Backups!Next /\ UNCHANGED <<request, exec, rows, anonymous, handler, approved>>

-----------------------------------------------------------------------------
Review(c) == CreateReads(c) \/ CreateInserts(c) \/ DecideReads(c) \/ DecideWrites(c)

Prepare(c) ==
  \/ PlanReads(c) \/ PlanCreates(c)
  \/ DryRunReads(c) \/ DryRunStarts(c) \/ DryRunEnds(c)
  \/ VerifyReads(c) \/ VerifyWrites(c)

Execute(c) ==
  \/ AttemptConfirms(c) \/ AttemptReads(c) \/ AttemptChecks(c) \/ AttemptStarts(c)
  \/ EraseMail(c) \/ FindProfile(c) \/ EraseProfile(c)
  \/ EraseSessions(c) \/ Anonymize(c)
  \/ EraseThrows(c) \/ AttemptEnds(c)

DeletionNext ==
  \/ \E c \in Handlers : Review(c) \/ Prepare(c) \/ Execute(c) \/ RequestDies(c)
  \/ \E u \in Users : UserActs(u)
  \/ BackupStep \/ (\E b \in Entries : BackupUndone(b))

DeletionSpec == DeletionInit /\ [][DeletionNext]_deletionVars

-----------------------------------------------------------------------------
(* Handlers carry the ids they work on.                                      *)
DeletionTypeOK ==
  /\ catalog \in [Entries -> Backups!Entry]
  /\ request \in [Requests -> RequestRow]
  /\ exec \in [Requests -> ExecRow]
  /\ rows \in [Users -> SUBSET Kinds]
  /\ anonymous \subseteq Users
  /\ handler \in [Handlers -> Handler]
  /\ approved \subseteq Requests
  /\ \A r \in Requests : request[r].status # "none" => request[r].user \in Users
  /\ \A c \in Handlers :
       /\ Reached(c, "insert") => handler[c].user \in Users
       /\ ~Reached(c, "idle") /\ ~Reached(c, "insert") =>
            handler[c].row \in Requests /\ request[handler[c].row].status # "none"
       /\ Reached(c, "verify") => handler[c].backup \in Entries

Erased(u) == u \in anonymous \/ "profile" \notin rows[u]
WasCompleted(b) == b \in Entries /\ catalog[b].at # 0

(* Only approved requests are executed.  Nothing of a user is erased for     *)
(* good unless a request of that user was approved at some time and its      *)
(* execution names a backup that had been completed, however decisions,      *)
(* verifications, attempts and crashes interleave.  The backup may have been *)
(* retired or have failed since.                                             *)
ErasureAuthorised ==
  /\ \A r \in Requests : exec[r].status # "none" => r \in approved
  /\ \A u \in Users : Erased(u) =>
       \E r \in approved : request[r].user = u /\ WasCompleted(exec[r].backup)

(* An execution that is reported as completed has anonymized the account and *)
(* left no profile, although attempts may overlap and any statement may fail.*)
CompletedIsErased ==
  \A r \in Requests : exec[r].status = "EXECUTION_COMPLETED" =>
    request[r].user \in anonymous /\ "profile" \notin rows[request[r].user]
=============================================================================
