------------------------------ MODULE Backups ------------------------------
(***************************************************************************)
(* The backup runs and their artifacts: manual and automatic runs, the     *)
(* protection and the deletion of runs, and the listing of artifacts that  *)
(* no row names (backend/src/backups/backups.service.ts), the worker's     *)
(* timer (backup-worker.service.ts) and the retention                      *)
(* (backup-retention.service.ts), with artifacts on the local disk.        *)
(*                                                                         *)
(* Every statement is one step; what the code does without an await, such  *)
(* as unlinking a local file, belongs to the step before or after it.      *)
(* The advisory lock belongs to a connection of the process's pool, may be *)
(* taken again by that connection, and each query runs on any connection.  *)
(*                                                                         *)
(* Each Date is a tick of one clock: no two moments that the code writes   *)
(* down are the same millisecond.  Without the fault "audit" the record of *)
(* a completed backup can always be written; with it, a backup that was    *)
(* completed may still become FAILED, and what is said below of the newest *)
(* successful one does not hold.                                           *)
(***************************************************************************)
EXTENDS Naturals, FiniteSets

CONSTANTS
  Runs,             \* ids of runs, which also name their artifact
  Ticks,            \* ticks of the worker's timer that may overlap
  Requests,         \* admin requests that may be in progress at once
  Conns,            \* database connections of the worker processes
  Pool,             \* the connections of each tick's process
  NoConn,
  NoRow,
  Ops,              \* the requests that occur
  Faults,           \* what may fail
  Aging,            \* the states of a run in which its age is followed
  RetentionCount,   \* BACKUP_RETENTION_COUNT
  MaxSlots,         \* bound on the scheduled times
  MaxStamp,         \* bound on the clock
  MaxDepth,         \* bound on how often one connection holds the lock
  MaxFaults         \* bound on failures

AllOps == {"run", "delete", "protect", "unprotect", "history"}
AllFaults == {"backup", "audit", "retire", "lock", "disconnect", "crash"}
Tasks == Ticks \union Requests
Rows == Runs \X {"run", "legacy"}    \* a legacy row lists an artifact found on disk
Own(r) == <<r, "run">>
Legacy(r) == <<r, "legacy">>
File(i) == i[1]

ASSUME BackupsAssumption ==
  /\ Ticks \intersect Requests = {}
  /\ NoConn \notin Conns /\ NoRow \notin Rows
  /\ Pool \in [Ticks -> SUBSET Conns]
  /\ Ops \subseteq AllOps /\ Faults \subseteq AllFaults
  /\ Aging \subseteq {"RUNNING", "COMPLETED", "FAILED"}
  /\ RetentionCount \in Nat \ {0}
  /\ MaxSlots \in Nat /\ MaxStamp \in Nat /\ MaxDepth \in Nat /\ MaxFaults \in Nat

VARIABLES
  run,      \* the BackupRun rows
  made,     \* manifest.createdAt of the artifacts written so far, 0 for none
  ended,    \* completedAt that the task of the run computed, 0 for none
  files,    \* the artifacts on disk
  lock,     \* the advisory lock
  task,     \* local state of each tick and request
  slot,     \* number of the latest scheduled time
  clock,
  faults    \* number of failures so far

vars == <<run, made, ended, files, lock, task, slot, clock, faults>>

Row == [status : {"none", "RUNNING", "COMPLETED", "FAILED"},
        auto : BOOLEAN,            \* trigger = automatic
        at : Nat,                  \* completedAt; with it fileName is set
        slot : Nat,                \* startedAt, as the scheduled time it follows
        prot : BOOLEAN,            \* isProtected
        deleted : BOOLEAN,         \* deletedAt is set
        old : BOOLEAN]             \* RUNNING for two hours, or ended retentionDays ago
Missing == [status |-> "none", auto |-> FALSE, at |-> 0, slot |-> 0,
            prot |-> FALSE, deleted |-> FALSE, old |-> FALSE]

Lock == [conn : Conns, depth : Nat \ {0}] \union {[conn |-> NoConn, depth |-> 0]}

Task == [op : AllOps \union {"none", "tick"},
         pc : {"idle", "lock", "recent", "create", "write", "stamp", "complete", "audit", "fail",
               "release", "latest", "plan", "expire", "check", "unlink", "mark",
               "update", "adopt", "insert"},
         row : Rows \union {NoRow},       \* the row it works on
         ran : BOOLEAN,                   \* the tick made a run
         latest : Rows \union {NoRow},    \* latestSuccessful as read
         todo : SUBSET Rows]
Idle == [op |-> "none", pc |-> "idle", row |-> NoRow, ran |-> FALSE,
         latest |-> NoRow, todo |-> {}]

Init ==
  /\ run = [i \in Rows |-> Missing]
  /\ made = [r \in Runs |-> 0]
  /\ ended = [r \in Runs |-> 0]
  /\ files = {}
  /\ lock = [conn |-> NoConn, depth |-> 0]
  /\ task = [t \in Tasks |-> Idle]
  /\ slot = 1
  /\ clock = 0
  /\ faults = 0

Exists(i) == run[i].status # "none"
Listed(i) == Exists(i) /\ ~run[i].deleted
Successful(i) == run[i].status = "COMPLETED"
Newest == {i \in Rows : /\ Listed(i) /\ Successful(i)
                        /\ \A j \in Rows : Listed(j) /\ Successful(j) => run[j].at <= run[i].at}

At(t, pc) == task[t].pc = pc
Goto(t, pc) == task' = [task EXCEPT ![t].pc = pc]
End(t) == task' = [task EXCEPT ![t] = Idle]
Begin(t, op, r) == /\ t \in Requests /\ op \in Ops /\ At(t, "idle")
                   /\ task' = [task EXCEPT ![t] = [r EXCEPT !.op = op]]
Set(i, row) == run' = [run EXCEPT ![i] = row]
Fault(kind) == /\ kind \in Faults /\ faults < MaxFaults
               /\ faults' = faults + 1

-----------------------------------------------------------------------------
(* An automatic run: the due state, the lock, the guard *)

AutomaticRows == {i \in Rows : Listed(i) /\ run[i].auto}
Due == \A i \in AutomaticRows : run[i].slot < slot

\* The timer fires; a tick that finds no run due changes nothing.
TickStart(t) ==
  /\ At(t, "idle") /\ Due
  /\ task' = [task EXCEPT ![t] = [Idle EXCEPT !.op = "tick", !.pc = "lock"]]
  /\ UNCHANGED <<run, made, ended, files, lock, slot, clock, faults>>

\* pg_try_advisory_lock on some connection; without the lock the tick ends.
TryLock(t) ==
  /\ At(t, "lock")
  /\ \E c \in Pool[t] :
       IF lock.conn \in {NoConn, c}
       THEN /\ lock.depth < MaxDepth
            /\ lock' = [conn |-> c, depth |-> lock.depth + 1]
            /\ Goto(t, "recent")
       ELSE End(t) /\ UNCHANGED lock
  /\ UNCHANGED <<run, made, ended, files, slot, clock, faults>>

\* An error of the statement counts as holding the lock.
TryLockFails(t) ==
  /\ At(t, "lock") /\ Fault("lock")
  /\ Goto(t, "recent")
  /\ UNCHANGED <<run, made, ended, files, lock, slot, clock>>

\* Mutant of RecentRunning: without the window of two hours.
RecentRunningEver == {i \in AutomaticRows : run[i].status = "RUNNING"}

RecentRunning == {i \in AutomaticRows : run[i].status = "RUNNING" /\ ~run[i].old}

\* Mutant of CheckRecent: the guard relies on the lock alone.
CheckRecentByLock(t) ==
  /\ At(t, "recent")
  /\ Goto(t, "create")
  /\ UNCHANGED <<run, made, ended, files, lock, slot, clock, faults>>

CheckRecent(t) ==
  /\ At(t, "recent")
  /\ Goto(t, IF RecentRunning = {} THEN "create" ELSE "release")
  /\ UNCHANGED <<run, made, ended, files, lock, slot, clock, faults>>

\* pg_advisory_unlock, again on some connection, does nothing on one that does
\* not hold the lock.
AfterRelease(t) == IF task[t].ran THEN Goto(t, "latest") ELSE End(t)

\* Mutant of Unlock: the lock is counted down whoever holds it.
UnlockAny(c) == IF lock.depth = 1 THEN [conn |-> NoConn, depth |-> 0]
                ELSE [lock EXCEPT !.depth = @ - 1]

Unlock(c) == IF lock.conn # c THEN lock
             ELSE IF lock.depth = 1 THEN [conn |-> NoConn, depth |-> 0]
             ELSE [lock EXCEPT !.depth = @ - 1]

Release(t) ==
  /\ At(t, "release")
  /\ \E c \in Pool[t] : lock' = Unlock(c)
  /\ AfterRelease(t)
  /\ UNCHANGED <<run, made, ended, files, slot, clock, faults>>

ReleaseFails(t) ==
  /\ At(t, "release") /\ Fault("lock")
  /\ AfterRelease(t)
  /\ UNCHANGED <<run, made, ended, files, lock, slot, clock>>

-----------------------------------------------------------------------------
(* createBackup, called by a tick or by a request *)

RunStarts(t) ==
  /\ Begin(t, "run", [Idle EXCEPT !.pc = "create"])
  /\ UNCHANGED <<run, made, ended, files, lock, slot, clock, faults>>

CreateRow(t) ==
  /\ At(t, "create")
  /\ \E r \in Runs :
       /\ ~Exists(Own(r))
       /\ Set(Own(r), [Missing EXCEPT !.status = "RUNNING", !.auto = t \in Ticks, !.slot = slot])
       /\ task' = [task EXCEPT ![t].pc = "write", ![t].row = Own(r)]
  /\ UNCHANGED <<made, ended, files, lock, slot, clock, faults>>

\* The manifest takes its createdAt, and the file is written.
WriteArtifact(t) ==
  /\ At(t, "write") /\ clock < MaxStamp
  /\ files' = files \union {File(task[t].row)}
  /\ made' = [made EXCEPT ![File(task[t].row)] = clock + 1]
  /\ clock' = clock + 1
  /\ Goto(t, "stamp")
  /\ UNCHANGED <<run, ended, lock, slot, faults>>

\* After the await the completedAt is taken, ...
StampCompletion(t) ==
  /\ At(t, "stamp") /\ clock < MaxStamp
  /\ ended' = [ended EXCEPT ![File(task[t].row)] = clock + 1]
  /\ clock' = clock + 1
  /\ Goto(t, "complete")
  /\ UNCHANGED <<run, made, files, lock, slot, faults>>

\* ... and written.
MarkCompleted(t) ==
  /\ At(t, "complete")
  /\ Set(task[t].row, [run[task[t].row] EXCEPT !.status = "COMPLETED", !.old = FALSE,
                                               !.at = ended[File(task[t].row)]])
  /\ Goto(t, "audit")
  /\ UNCHANGED <<made, ended, files, lock, slot, clock, faults>>

\* createBackup returns: a request answers, a tick releases the lock.
Returned(t, ran) ==
  IF t \in Ticks THEN task' = [task EXCEPT ![t].pc = "release", ![t].ran = ran] ELSE End(t)

Audit(t) ==
  /\ At(t, "audit")
  /\ Returned(t, TRUE)
  /\ UNCHANGED <<run, made, ended, files, lock, slot, clock, faults>>

\* Any error of collecting, writing, completing or auditing.  An artifact that was
\* written is deleted, but an error of the deletion is swallowed.
BackupFails(t) ==
  /\ \/ task[t].pc \in {"write", "complete"} /\ Fault("backup")
     \/ At(t, "audit") /\ Fault("audit")
  /\ files' \in {files, files \ {File(task[t].row)}}
  /\ Goto(t, "fail")
  /\ UNCHANGED <<run, made, ended, lock, slot, clock>>

\* The audit of the failure may fail in turn.
MarkFailed(t) ==
  /\ At(t, "fail")
  /\ Set(task[t].row, [run[task[t].row] EXCEPT !.status = "FAILED", !.old = FALSE])
  /\ \/ Returned(t, TRUE) /\ UNCHANGED faults
     \/ Returned(t, FALSE) /\ Fault("backup")
  /\ UNCHANGED <<made, ended, files, lock, slot, clock>>

\* An error outside the try block passes through the tick's finally.
ThrowsOut(t) ==
  /\ task[t].pc \in {"recent", "create", "fail"} /\ Fault("backup")
  /\ Returned(t, FALSE)
  /\ UNCHANGED <<run, made, ended, files, lock, slot, clock>>

-----------------------------------------------------------------------------
(* Retiring runs: retention after an automatic run, deletion by request *)

ReadLatest(t) ==
  /\ At(t, "latest")
  /\ \E i \in IF Newest = {} THEN {NoRow} ELSE Newest :
       task' = [task EXCEPT ![t].pc = "plan", ![t].latest = i]
  /\ UNCHANGED <<run, made, ended, files, lock, slot, clock, faults>>

Visible == {i \in Rows : Listed(i) /\ ~run[i].prot /\ run[i].status # "RUNNING"}
NewerThan(i) == {j \in Visible : Successful(j) /\ run[j].at > run[i].at}
Kept == {i \in Visible : Successful(i) /\ Cardinality(NewerThan(i)) < RetentionCount}

\* A successful run expires when it is not kept, whatever its age.
Expired(latest) ==
  {i \in Visible : i # latest /\ IF Successful(i) THEN i \notin Kept ELSE run[i].old}

Plan(t) ==
  /\ At(t, "plan")
  /\ task' = [task EXCEPT ![t].pc = "expire", ![t].todo = Expired(task[t].latest)]
  /\ UNCHANGED <<run, made, ended, files, lock, slot, clock, faults>>

Unlinked(i) == IF run[i].at = 0 THEN files ELSE files \ {File(i)}

ExpireNext(t) ==
  /\ At(t, "expire")
  /\ \E i \in task[t].todo :
       /\ files' = Unlinked(i)
       /\ task' = [task EXCEPT ![t].pc = "mark", ![t].row = i, ![t].todo = @ \ {i}]
  /\ UNCHANGED <<run, made, ended, lock, slot, clock, faults>>

TickEnds(t) ==
  /\ At(t, "expire") /\ task[t].todo = {}
  /\ End(t)
  /\ UNCHANGED <<run, made, ended, files, lock, slot, clock, faults>>

\* Mutant of DeleteReads: running backups are not exempt.
DeleteReadsRunning(t) ==
  /\ \E i \in Rows :
       /\ Listed(i) /\ ~run[i].prot
       /\ Begin(t, "delete", [Idle EXCEPT !.pc = "check", !.row = i])
  /\ UNCHANGED <<run, made, ended, files, lock, slot, clock, faults>>

\* delete reads the run ...
DeleteReads(t) ==
  /\ \E i \in Rows :
       /\ Listed(i) /\ run[i].status # "RUNNING" /\ ~run[i].prot
       /\ Begin(t, "delete", [Idle EXCEPT !.pc = "check", !.row = i])
  /\ UNCHANGED <<run, made, ended, files, lock, slot, clock, faults>>

\* Mutant of CheckLatest: any successful run may go while there is another one.
CheckLatestByCount(t) ==
  /\ At(t, "check")
  /\ IF {i \in Rows : Listed(i) /\ Successful(i)} = {task[t].row}
     THEN End(t) ELSE Goto(t, "unlink")
  /\ UNCHANGED <<run, made, ended, files, lock, slot, clock, faults>>

\* ... and then the latest successful one ...
CheckLatest(t) ==
  /\ At(t, "check")
  /\ IF task[t].row \in Newest THEN End(t) ELSE Goto(t, "unlink")
  /\ UNCHANGED <<run, made, ended, files, lock, slot, clock, faults>>

\* ... removes the artifact ...
Unlink(t) ==
  /\ At(t, "unlink")
  /\ files' = Unlinked(task[t].row)
  /\ Goto(t, "mark")
  /\ UNCHANGED <<run, made, ended, lock, slot, clock, faults>>

\* ... and retires the row by id, as retention does.
AfterMark(t) == IF t \in Ticks THEN Goto(t, "expire") ELSE End(t)

MarkRetired(t) ==
  /\ At(t, "mark")
  /\ Set(task[t].row, [run[task[t].row] EXCEPT !.deleted = TRUE])
  /\ AfterMark(t)
  /\ UNCHANGED <<made, ended, files, lock, slot, clock, faults>>

MarkRetiredFails(t) ==
  /\ At(t, "mark") /\ Fault("retire")
  /\ AfterMark(t)
  /\ UNCHANGED <<run, made, ended, files, lock, slot, clock>>

-----------------------------------------------------------------------------
(* protect and unprotect; listHistory *)

ProtectReads(t) ==
  /\ \E op \in {"protect", "unprotect"}, i \in Rows :
       Listed(i) /\ Begin(t, op, [Idle EXCEPT !.pc = "update", !.row = i])
  /\ UNCHANGED <<run, made, ended, files, lock, slot, clock, faults>>

SetProtected(t) ==
  /\ At(t, "update")
  /\ Set(task[t].row, [run[task[t].row] EXCEPT !.prot = task[t].op = "protect"])
  /\ End(t)
  /\ UNCHANGED <<made, ended, files, lock, slot, clock, faults>>

\* The artifacts on disk that no row, not even a retired one, names.
Named(r) == \E i \in Rows : File(i) = r /\ run[i].at # 0
UnnamedFiles == {r \in files : ~Named(r)}

ListFiles(t) ==
  /\ UnnamedFiles # {}
  /\ Begin(t, "history", [Idle EXCEPT !.pc = "adopt",
                                      !.todo = {Legacy(r) : r \in UnnamedFiles}])
  /\ UNCHANGED <<run, made, ended, files, lock, slot, clock, faults>>

\* One after the other: the artifact is read, unless it is gone by now.
ReadArtifact(t) ==
  /\ At(t, "adopt")
  /\ \E i \in task[t].todo :
       task' = [task EXCEPT ![t].todo = @ \ {i}, ![t].row = i,
                            ![t].pc = IF File(i) \in files THEN "insert" ELSE "adopt"]
  /\ UNCHANGED <<run, made, ended, files, lock, slot, clock, faults>>

\* Its own id being taken, the row gets an id derived from the content, which
\* another request may have inserted before.
Adopt(t) ==
  /\ At(t, "insert")
  /\ LET i == task[t].row IN
       IF Exists(i) THEN UNCHANGED run
       ELSE Set(i, [Missing EXCEPT !.status = "COMPLETED", !.at = made[File(i)], !.slot = slot])
  /\ Goto(t, "adopt")
  /\ UNCHANGED <<made, ended, files, lock, slot, clock, faults>>

HistoryEnds(t) ==
  /\ At(t, "adopt") /\ task[t].todo = {}
  /\ End(t)
  /\ UNCHANGED <<run, made, ended, files, lock, slot, clock, faults>>

-----------------------------------------------------------------------------
(* Time, crashes and lost connections *)

NextSlot ==
  /\ slot < MaxSlots
  /\ slot' = slot + 1
  /\ UNCHANGED <<run, made, ended, files, lock, task, clock, faults>>

GetsOld(i) ==
  /\ Listed(i) /\ run[i].status \in Aging /\ ~run[i].old
  /\ Set(i, [run[i] EXCEPT !.old = TRUE])
  /\ UNCHANGED <<made, ended, files, lock, task, slot, clock, faults>>

FreedBy(C) == IF lock.conn \in C THEN [conn |-> NoConn, depth |-> 0] ELSE lock

WorkerCrash(P) ==
  /\ Fault("crash")
  /\ task' = [t \in Tasks |-> IF t \in Ticks /\ Pool[t] = P THEN Idle ELSE task[t]]
  /\ lock' = FreedBy(P)
  /\ UNCHANGED <<run, made, ended, files, slot, clock>>

ApiCrash ==
  /\ Fault("crash")
  /\ task' = [t \in Tasks |-> IF t \in Requests THEN Idle ELSE task[t]]
  /\ UNCHANGED <<run, made, ended, files, lock, slot, clock>>

ConnectionCloses(c) ==
  /\ Fault("disconnect")
  /\ lock' = FreedBy({c})
  /\ UNCHANGED <<run, made, ended, files, task, slot, clock>>

-----------------------------------------------------------------------------
TickStep(t) ==
  \/ TryLock(t) \/ CheckRecent(t) \/ Release(t)
  \/ ReadLatest(t) \/ Plan(t) \/ ExpireNext(t) \/ TickEnds(t)

RequestStep(t) ==
  \/ CheckLatest(t) \/ Unlink(t) \/ SetProtected(t)
  \/ ReadArtifact(t) \/ Adopt(t) \/ HistoryEnds(t)

\* createBackup and the update of a retired row, in ticks and requests.
SharedStep(t) ==
  \/ CreateRow(t) \/ WriteArtifact(t) \/ StampCompletion(t) \/ MarkCompleted(t)
  \/ Audit(t) \/ MarkFailed(t) \/ MarkRetired(t)

TaskFails(t) == BackupFails(t) \/ ThrowsOut(t) \/ MarkRetiredFails(t)

Next ==
  \/ \E t \in Ticks : TickStart(t) \/ TickStep(t) \/ TryLockFails(t) \/ ReleaseFails(t)
  \/ \E t \in Requests : \/ RunStarts(t) \/ DeleteReads(t) \/ ProtectReads(t) \/ ListFiles(t)
                         \/ RequestStep(t)
  \/ \E t \in Tasks : SharedStep(t) \/ TaskFails(t)
  \/ NextSlot
  \/ \E i \in Rows : GetsOld(i)
  \/ \E t \in Ticks : WorkerCrash(Pool[t])
  \/ ApiCrash
  \/ \E c \in Conns : ConnectionCloses(c)

Spec == Init /\ [][Next]_vars

\* The worker's timer fires again and again, statements return, time passes.
Fairness ==
  /\ \A t \in Ticks : WF_vars(TickStart(t)) /\ WF_vars(TickStep(t))
  /\ \A t \in Tasks : WF_vars(SharedStep(t))
  /\ \A i \in Rows : WF_vars(GetsOld(i))

FairSpec == Spec /\ Fairness

-----------------------------------------------------------------------------
(* Properties *)

\* The variables keep their types.
TypeOK ==
  /\ run \in [Rows -> Row]
  /\ made \in [Runs -> Nat] /\ ended \in [Runs -> Nat]
  /\ files \subseteq Runs
  /\ lock \in Lock
  /\ task \in [Tasks -> Task]
  /\ slot \in Nat /\ clock \in Nat /\ faults \in Nat

\* Whatever is deleted by hand, retired by retention or both at once, on
\* readings however old, and while audit records can be written: a successful
\* backup is retired only while a newer successful one stays listed, so once
\* there was one there always is one (backups.service.ts:350,
\* backup-retention.service.ts:40).
NewestSurvives ==
  \A i \in Rows : Successful(i) /\ run[i].deleted =>
    \E j \in Rows : Listed(j) /\ Successful(j) /\ run[j].at > run[i].at

\* A task that will retire a row read it after it had ended, and a row that is
\* successful has a newer successful one, be that retired or not; a run has one
\* writer, until it ends.
Ended(i) == Exists(i) /\ run[i].status # "RUNNING"
Outlived(i) == Successful(i) => \E j \in Rows : Successful(j) /\ run[j].at > run[i].at

Doomed(t) ==
  (IF task[t].pc \in {"unlink", "mark"} THEN {task[t].row} ELSE {})
    \union (IF task[t].pc \in {"check", "unlink", "expire", "mark"} THEN task[t].todo ELSE {})

RetiresEnded(t) ==
  /\ At(t, "check") => task[t].row \in Rows /\ Ended(task[t].row)
  /\ \A i \in Doomed(t) : i \in Rows /\ Ended(i) /\ Outlived(i)

Writing(t) == task[t].pc \in {"write", "stamp", "complete", "fail"}

WritesRunning(t) ==
  /\ Writing(t) => /\ \E r \in Runs : task[t].row = Own(r)
                   /\ run[task[t].row].status = "RUNNING"
                   /\ ~run[task[t].row].deleted
  /\ task[t].pc \in {"update", "insert"} => task[t].row \in Rows

OneWriter == \A t, u \in Tasks : Writing(t) /\ Writing(u) /\ t # u => task[t].row # task[u].row

RetireInv == (\A t \in Tasks : RetiresEnded(t) /\ WritesRunning(t)) /\ OneWriter

\* Seen as a list in which each change is one step, the interleaved reads and
\* writes do what BackupCatalog says, while audit records can be written: a run is
\* retired after it ended, for good, and the newest successful one never.
ShownAs == [none |-> "absent", RUNNING |-> "running", COMPLETED |-> "completed", FAILED |-> "failed"]

CatalogState(i) == IF Exists(i) /\ run[i].deleted THEN "retired" ELSE ShownAs[run[i].status]

catalog == [i \in Rows |-> [state |-> CatalogState(i), at |-> run[i].at]]

Catalog == INSTANCE BackupCatalog WITH Entries <- Rows, Stamps <- 1 .. MaxStamp

ImplementsCatalog == Catalog!Spec

\* Two automatic runs are never in progress at once: the lock is held from the
\* look at the recent runs to the end of the run, and after a crash the run
\* that was cut short blocks the next for two hours (backups.service.ts:279-295).
NoOverlap ==
  \A i, j \in AutomaticRows :
    /\ run[i].status = "RUNNING" /\ ~run[i].old
    /\ run[j].status = "RUNNING" /\ ~run[j].old
    => i = j

\* Ticks that fail, crash or find the lock taken leave no scheduled time without
\* a run, unless the next one comes first (backup-worker.service.ts:21).
SlotAttempted ==
  \A s \in 1 .. MaxSlots :
    slot = s ~> \/ slot > s
                \/ \E i \in Rows : Exists(i) /\ run[i].auto /\ run[i].slot = s

-----------------------------------------------------------------------------
(* What the documents say and the code does not do *)

\* The newest successful backup has its artifact (BACKUP_RUNBOOK.md:79-81).
NewestHasArtifact ==
  \A i \in Newest : File(i) \in files
=============================================================================
