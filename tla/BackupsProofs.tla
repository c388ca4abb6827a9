--------------------------- MODULE BackupsProofs ---------------------------
(***************************************************************************)
(* Proofs about Backups:                                                   *)
(*   - no interleaving of deletions and retention retires the newest       *)
(*     successful backup;                                                  *)
(*   - the variables keep their types;                                     *)
(*   - two automatic runs are never in progress at once;                   *)
(*   - Backups implements BackupCatalog: every step of the interleaved     *)
(*     requests and ticks is a step of the abstract list of backups, or    *)
(*     none.                                                               *)
(*                                                                         *)
(* The first and the last are proved for a system in which an error of the *)
(* audit that follows a completed backup does not occur: there the code    *)
(* marks a row FAILED that was successful (backups.service.ts:233-245).    *)
(***************************************************************************)
EXTENDS Backups, TLAPS, FiniteSetTheorems

IInv == TypeOK /\ NewestSurvives /\ RetireInv

Pcs == {"idle", "lock", "recent", "create", "write", "stamp", "complete", "audit", "fail",
        "release", "latest", "plan", "expire", "check", "unlink", "mark",
        "update", "adopt", "insert"}

-----------------------------------------------------------------------------
(* Rows and the local state of tasks *)

\* Each row is the own row or a legacy row of one run.
LEMMA RowFacts ==
  /\ \A r \in Runs : Own(r) \in Rows /\ Legacy(r) \in Rows /\ File(Own(r)) = r /\ File(Legacy(r)) = r
  /\ \A i \in Rows : File(i) \in Runs
  /\ NoRow \notin Rows
BY BackupsAssumption DEF Rows, Own, Legacy, File

\* The idle task and the missing row are well typed.
LEMMA DefaultTypes ==
  /\ Idle \in Task /\ Idle.pc = "idle" /\ Idle.todo = {}
  /\ Missing \in Row /\ Missing.status = "none"
<1>1. Idle \in Task /\ Idle.pc = "idle" /\ Idle.todo = {}
  BY DEF Idle, Task
<1>2. Missing \in Row /\ Missing.status = "none"
  BY DEF Missing, Row
<1> QED
  BY <1>1, <1>2

\* A task that moves on changes its program counter only.
LEMMA GotoType ==
  ASSUME task \in [Tasks -> Task], NEW t \in Tasks, NEW pc \in Pcs, Goto(t, pc)
  PROVE  /\ task' \in [Tasks -> Task]
         /\ task'[t].pc = pc /\ task'[t].row = task[t].row /\ task'[t].todo = task[t].todo
         /\ \A u \in Tasks \ {t} : task'[u] = task[u]
<1>1. /\ [task[t] EXCEPT !.pc = pc] \in Task
      /\ [task[t] EXCEPT !.pc = pc].pc = pc /\ [task[t] EXCEPT !.pc = pc].row = task[t].row
      /\ [task[t] EXCEPT !.pc = pc].todo = task[t].todo
  BY DEF Task, Pcs
<1>2. task' = [task EXCEPT ![t] = [task[t] EXCEPT !.pc = pc]]
  BY DEF Goto
<1> QED
  BY <1>1, <1>2

\* A task that ends is idle.
LEMMA EndType ==
  ASSUME task \in [Tasks -> Task], NEW t \in Tasks, End(t)
  PROVE  /\ task' \in [Tasks -> Task]
         /\ task'[t].pc = "idle" /\ task'[t].todo = {}
         /\ \A u \in Tasks \ {t} : task'[u] = task[u]
BY DefaultTypes DEF End

\* A request begins with the local state it is given.
LEMMA BeginType ==
  ASSUME task \in [Tasks -> Task], NEW t \in Requests, NEW op, NEW r \in Task, Begin(t, op, r)
  PROVE  /\ t \in Tasks
         /\ task' \in [Tasks -> Task]
         /\ task'[t].pc = r.pc /\ task'[t].row = r.row /\ task'[t].todo = r.todo
         /\ \A u \in Tasks \ {t} : task'[u] = task[u]
<1>1. op \in AllOps /\ t \in Tasks
  BY BackupsAssumption DEF Begin, Tasks
<1>2. /\ [r EXCEPT !.op = op] \in Task /\ [r EXCEPT !.op = op].pc = r.pc
      /\ [r EXCEPT !.op = op].row = r.row /\ [r EXCEPT !.op = op].todo = r.todo
  BY <1>1 DEF Task
<1> QED
  BY <1>1, <1>2 DEF Begin

\* One row is written.
LEMMA SetType ==
  ASSUME run \in [Rows -> Row], NEW i \in Rows, NEW row \in Row, Set(i, row)
  PROVE  /\ run' \in [Rows -> Row]
         /\ run'[i] = row
         /\ \A j \in Rows \ {i} : run'[j] = run[j]
BY DEF Set

-----------------------------------------------------------------------------
(* What a step has to respect *)

\* The rows that ended stay as they ended, and a row that ends is not retired.
Settled ==
  \A i \in Rows : /\ Ended(i) => run'[i].status = run[i].status /\ run'[i].at = run[i].at
                  /\ ~Ended(i) /\ Successful(i)' => ~run'[i].deleted

\* No row that ended is retired.
NoneRetired == \A i \in Rows : Ended(i) => run'[i].deleted = run[i].deleted

\* The rows that others write stay theirs.
OthersWrite(t) ==
  \A u \in Tasks \ {t} : Writing(u) => /\ run'[task[u].row].status = "RUNNING"
                                       /\ ~run'[task[u].row].deleted

\* A task that writes has the row it had, or one that nobody else has.
WritesAlone(t) ==
  Writing(t)' => \/ Writing(t) /\ task'[t].row = task[t].row
                 \/ \A u \in Tasks \ {t} : Writing(u) => task[u].row # task'[t].row

\* Rows that ended have ended after such a step, and are outlived if they were.
LEMMA SettledRows ==
  ASSUME IInv, Settled, NEW i \in Rows, Ended(i)
  PROVE  Ended(i)' /\ (Successful(i)' <=> Successful(i)) /\ (Outlived(i) => Outlived(i)')
<1>1. \A j \in Rows : Successful(j) => Successful(j)' /\ run'[j].at = run[j].at
  BY DEF Settled, Successful, Ended, Exists
<1> QED
  BY <1>1 DEF Settled, Ended, Exists, Successful, Outlived

\* The newest successful row stays listed in a step that retires none.
LEMMA NewestKept ==
  ASSUME IInv, Settled, NoneRetired
  PROVE  NewestSurvives'
<1> SUFFICES ASSUME NEW i \in Rows, Successful(i)', run'[i].deleted
             PROVE  \E j \in Rows : Listed(j)' /\ Successful(j)' /\ run'[j].at > run'[i].at
  BY DEF NewestSurvives
<1>1. Ended(i) /\ Successful(i) /\ run[i].deleted /\ run'[i].at = run[i].at
  BY DEF Settled, NoneRetired, Successful, Ended, Exists
<1>2. PICK j \in Rows : Listed(j) /\ Successful(j) /\ run[j].at > run[i].at
  BY <1>1 DEF IInv, NewestSurvives
<1>3. Ended(j)
  BY <1>2 DEF Ended, Listed, Successful
<1> QED
  BY <1>1, <1>2, <1>3 DEF Settled, NoneRetired, Listed, Successful, Exists

\* What a task that does not move knows stays true.
LEMMA OthersKept ==
  ASSUME IInv, Settled, NEW t \in Tasks, OthersWrite(t), NEW u \in Tasks \ {t},
         task'[u] = task[u]
  PROVE  RetiresEnded(u)' /\ WritesRunning(u)'
<1>1. RetiresEnded(u) /\ WritesRunning(u)
  BY DEF IInv, RetireInv
<1>2. Doomed(u)' = Doomed(u)
  BY DEF Doomed
<1>3. RetiresEnded(u)'
  BY <1>1, <1>2, SettledRows DEF RetiresEnded, At
<1>4. WritesRunning(u)'
  BY <1>1 DEF WritesRunning, Writing, OthersWrite
<1> QED
  BY <1>3, <1>4

\* The invariant of the tasks follows from what the task of the step knows.
LEMMA TasksKept ==
  ASSUME IInv, Settled, NEW t \in Tasks, OthersWrite(t), WritesAlone(t),
         \A u \in Tasks \ {t} : task'[u] = task[u],
         RetiresEnded(t)', WritesRunning(t)'
  PROVE  RetireInv'
<1>1. \A u \in Tasks : RetiresEnded(u)' /\ WritesRunning(u)'
  BY OthersKept
<1>2. \A u \in Tasks \ {t} : Writing(u)' <=> Writing(u)
  BY DEF Writing
<1>3. OneWriter
  BY DEF IInv, RetireInv
<1>4. OneWriter'
  BY <1>2, <1>3 DEF OneWriter, WritesAlone
<1> QED
  BY <1>1, <1>4 DEF RetireInv

\* In a step that leaves the rows alone, the task of the step need only know
\* what it goes on with.
LEMMA RowsAlone ==
  ASSUME IInv, NEW t \in Tasks, run' = run,
         \A u \in Tasks \ {t} : task'[u] = task[u],
         Writing(t)' => Writing(t) /\ task'[t].row = task[t].row,
         RetiresEnded(t)', WritesRunning(t)'
  PROVE  NewestSurvives' /\ RetireInv'
<1>1. Settled /\ NoneRetired
  BY DEF Settled, NoneRetired, Successful, Ended, Exists
<1>2. OthersWrite(t)
  BY DEF IInv, RetireInv, WritesRunning, OthersWrite
<1>3. WritesAlone(t)
  BY DEF WritesAlone
<1> QED
  BY <1>1, <1>2, <1>3, NewestKept, TasksKept

\* A task that retires nothing and writes nothing knows enough.
LEMMA KnowsNothing ==
  ASSUME NEW t \in Tasks,
         task'[t].pc \in Pcs \ {"write", "stamp", "complete", "fail", "update", "insert",
                                "check", "unlink", "expire", "mark"}
  PROVE  RetiresEnded(t)' /\ WritesRunning(t)' /\ ~Writing(t)'
<1>1. RetiresEnded(t)'
  BY DEF RetiresEnded, At, Doomed
<1>2. WritesRunning(t)' /\ ~Writing(t)'
  BY DEF WritesRunning, Writing
<1> QED
  BY <1>1, <1>2

-----------------------------------------------------------------------------
(* The steps of ticks *)

\* Taking, releasing and losing the lock keep its type.
LEMMA LockType ==
  ASSUME lock \in Lock
  PROVE  /\ \A c \in Conns : lock.conn \in {NoConn, c} => [conn |-> c, depth |-> lock.depth + 1] \in Lock
         /\ \A c \in Conns : Unlock(c) \in Lock
         /\ \A C \in SUBSET Conns : FreedBy(C) \in Lock
<1>1. NoConn \notin Conns
  BY BackupsAssumption
<1>2. lock.depth \in Nat
  BY <1>1 DEF Lock
<1>3. \A c \in Conns : lock.conn \in {NoConn, c} => [conn |-> c, depth |-> lock.depth + 1] \in Lock
  BY <1>2 DEF Lock
<1>4. ASSUME NEW c \in Conns PROVE Unlock(c) \in Lock
  <2>1. CASE lock.conn = c /\ lock.depth # 1
    <3>1. lock \in [conn : Conns, depth : Nat \ {0}]
      BY <1>1, <2>1 DEF Lock
    <3>2. lock.depth - 1 \in Nat \ {0}
      BY <2>1, <3>1
    <3>3. [lock EXCEPT !.depth = lock.depth - 1] \in Lock
      BY <3>1, <3>2 DEF Lock
    <3> QED
      BY <2>1, <3>3 DEF Unlock
  <2> QED
    BY <1>1, <2>1 DEF Unlock, Lock
<1>5. \A C \in SUBSET Conns : FreedBy(C) \in Lock
  BY <1>1 DEF FreedBy, Lock
<1> QED
  BY <1>3, <1>4, <1>5

\* A step of a tick that looks at the lock or at the recent runs.
LEMMA SectionPreserves ==
  ASSUME IInv, NEW t \in Ticks,
         TickStart(t) \/ TryLock(t) \/ TryLockFails(t) \/ CheckRecent(t) \/ Release(t) \/ ReleaseFails(t)
  PROVE  IInv'
<1>1. t \in Tasks /\ TypeOK /\ Pool[t] \subseteq Conns
  BY BackupsAssumption DEF Tasks, IInv
<1>2. /\ task' \in [Tasks -> Task]
      /\ task'[t].pc \in {"lock", "recent", "idle", "create", "release", "latest"}
      /\ \A u \in Tasks \ {t} : task'[u] = task[u]
  <2>1. CASE TickStart(t)
    <3>1. [Idle EXCEPT !.op = "tick", !.pc = "lock"] \in Task
          /\ [Idle EXCEPT !.op = "tick", !.pc = "lock"].pc = "lock"
      BY DEF Task, Idle
    <3> QED
      BY <1>1, <2>1, <3>1 DEF TickStart, TypeOK
  <2>2. CASE TryLock(t)
    BY <1>1, <2>2, GotoType, EndType DEF TryLock, TypeOK, Pcs
  <2>3. CASE TryLockFails(t)
    BY <1>1, <2>3, GotoType DEF TryLockFails, TypeOK, Pcs
  <2>4. CASE CheckRecent(t)
    BY <1>1, <2>4, GotoType DEF CheckRecent, TypeOK, Pcs
  <2>5. CASE Release(t) \/ ReleaseFails(t)
    BY <1>1, <2>5, GotoType, EndType DEF Release, ReleaseFails, AfterRelease, TypeOK, Pcs
  <2> QED
    BY <2>1, <2>2, <2>3, <2>4, <2>5
<1>3. RetiresEnded(t)' /\ WritesRunning(t)' /\ ~Writing(t)'
  BY <1>1, <1>2, KnowsNothing DEF Pcs
<1>4. lock' \in Lock
  BY <1>1, LockType DEF TickStart, TryLock, TryLockFails, CheckRecent, Release, ReleaseFails, TypeOK
<1>5. run' = run /\ made' = made /\ ended' = ended /\ files' = files /\ slot' = slot /\ clock' = clock
      /\ faults' \in {faults, faults + 1}
  BY DEF TickStart, TryLock, TryLockFails, CheckRecent, Release, ReleaseFails, Fault
<1>6. TypeOK'
  BY <1>1, <1>2, <1>4, <1>5 DEF TypeOK
<1> QED
  BY <1>1, <1>2, <1>3, <1>5, <1>6, RowsAlone DEF IInv

-----------------------------------------------------------------------------
(* The steps that choose what is retired *)

\* What retention plans to retire has ended and is outlived.
LEMMA ExpiredOutlived ==
  ASSUME IInv, NEW latest, NEW i \in Expired(latest)
  PROVE  i \in Rows /\ Ended(i) /\ Outlived(i)
<1>1. i \in Visible
  BY DEF Expired
<1>2. i \in Rows /\ Ended(i)
  BY <1>1 DEF Visible, Listed, Ended
<1>3. ASSUME Successful(i) PROVE NewerThan(i) # {}
  <2>1. i \notin Kept
    BY <1>3 DEF Expired
  <2>2. ~(Cardinality(NewerThan(i)) < RetentionCount)
    BY <1>1, <1>3, <2>1 DEF Kept
  <2>3. Cardinality({}) < RetentionCount
    BY FS_EmptySet, BackupsAssumption
  <2> QED
    BY <2>2, <2>3
<1>4. Outlived(i)
  BY <1>3 DEF Outlived, NewerThan, Visible
<1> QED
  BY <1>2, <1>4

\* A row that is not the newest successful one is outlived.
LEMMA NotNewestOutlived ==
  ASSUME IInv, NEW i \in Rows, i \notin Newest
  PROVE  Outlived(i)
<1>1. SUFFICES ASSUME Successful(i)
               PROVE  \E j \in Rows : Successful(j) /\ run[j].at > run[i].at
  BY DEF Outlived
<1>2. CASE run[i].deleted
  BY <1>1, <1>2 DEF IInv, NewestSurvives
<1>3. CASE ~run[i].deleted
  <2>1. \A j \in Rows : run[j].at \in Nat
    BY DEF IInv, TypeOK, Row
  <2>2. Listed(i)
    BY <1>1, <1>3, DefaultTypes DEF Listed, Exists, Successful
  <2> QED
    BY <1>1, <2>1, <2>2 DEF Newest
<1> QED
  BY <1>2, <1>3 DEF IInv, TypeOK, Row

\* A step of retention that leaves the rows as they are.
LEMMA RetentionPreserves ==
  ASSUME IInv, NEW t \in Ticks,
         ReadLatest(t) \/ Plan(t) \/ ExpireNext(t) \/ TickEnds(t)
  PROVE  IInv'
<1>1. t \in Tasks /\ TypeOK /\ task[t] \in Task /\ RetiresEnded(t) /\ WritesRunning(t)
  BY DEF Tasks, IInv, RetireInv, TypeOK
<1>2. run' = run /\ made' = made /\ ended' = ended
      /\ lock' = lock /\ slot' = slot /\ clock' = clock /\ faults' = faults
  BY DEF ReadLatest, Plan, ExpireNext, TickEnds
<1>3. SUFFICES /\ task' \in [Tasks -> Task] /\ files' \subseteq Runs
               /\ \A u \in Tasks \ {t} : task'[u] = task[u]
               /\ RetiresEnded(t)' /\ WritesRunning(t)' /\ ~Writing(t)'
  BY <1>1, <1>2, RowsAlone DEF IInv, TypeOK
<1>4. CASE ReadLatest(t)
  <2>1. PICK i \in Rows \union {NoRow} :
          task' = [task EXCEPT ![t] = [task[t] EXCEPT !.pc = "plan", !.latest = i]]
    BY <1>4 DEF ReadLatest, Newest
  <2>2. /\ [task[t] EXCEPT !.pc = "plan", !.latest = i] \in Task
        /\ [task[t] EXCEPT !.pc = "plan", !.latest = i].pc = "plan"
    BY <1>1 DEF Task
  <2>3. task' \in [Tasks -> Task] /\ task'[t].pc = "plan" /\ \A u \in Tasks \ {t} : task'[u] = task[u]
    BY <1>1, <2>1, <2>2 DEF TypeOK
  <2> QED
    BY <1>1, <1>4, <2>3, KnowsNothing DEF ReadLatest, TypeOK, Pcs
<1>5. CASE Plan(t)
  <2> DEFINE todo == Expired(task[t].latest)
             next == [task[t] EXCEPT !.pc = "expire", !.todo = todo]
  <2>1. todo \subseteq Rows /\ \A i \in todo : Ended(i) /\ Outlived(i)
    BY ExpiredOutlived
  <2>2. next \in Task /\ next.pc = "expire" /\ next.todo = todo
    BY <1>1, <2>1 DEF Task
  <2>3. task' = [task EXCEPT ![t] = next]
    BY <1>5 DEF Plan
  <2> HIDE DEF todo, next
  <2>4. task' \in [Tasks -> Task] /\ task'[t].pc = "expire" /\ task'[t].todo = todo
        /\ \A u \in Tasks \ {t} : task'[u] = task[u]
    BY <1>1, <2>2, <2>3 DEF TypeOK
  <2>5. RetiresEnded(t)'
    BY <1>2, <2>1, <2>4 DEF RetiresEnded, At, Doomed, Ended, Exists, Outlived, Successful
  <2> QED
    BY <1>1, <1>5, <2>4, <2>5 DEF Plan, TypeOK, WritesRunning, Writing
<1>6. CASE ExpireNext(t)
  <2>1. PICK i \in task[t].todo :
          /\ files' = Unlinked(i)
          /\ task' = [task EXCEPT ![t] = [task[t] EXCEPT !.pc = "mark", !.row = i, !.todo = @ \ {i}]]
    BY <1>6 DEF ExpireNext
  <2> DEFINE next == [task[t] EXCEPT !.pc = "mark", !.row = i, !.todo = @ \ {i}]
  <2>2. task[t].pc = "expire" /\ task[t].todo = Doomed(t)
    BY <1>6 DEF ExpireNext, At, Doomed
  <2>3. i \in Rows
    BY <1>1, <2>1, <2>2 DEF RetiresEnded
  <2>4. next \in Task /\ next.pc = "mark" /\ next.row = i /\ next.todo = task[t].todo \ {i}
    BY <1>1, <2>3 DEF Task
  <2>5. task' \in [Tasks -> Task] /\ task'[t] = next /\ \A u \in Tasks \ {t} : task'[u] = task[u]
    BY <1>1, <2>1, <2>4 DEF TypeOK
  <2>6. Doomed(t)' \subseteq Doomed(t)
    BY <2>1, <2>2, <2>4, <2>5 DEF Doomed
  <2>7. RetiresEnded(t)'
    BY <1>1, <1>2, <2>4, <2>5, <2>6 DEF RetiresEnded, At, Ended, Exists, Outlived, Successful
  <2>8. files' \subseteq Runs
    BY <1>1, <2>1 DEF Unlinked, TypeOK
  <2> QED
    BY <2>4, <2>5, <2>7, <2>8 DEF WritesRunning, Writing
<1>7. CASE TickEnds(t)
  <2>1. task' \in [Tasks -> Task] /\ task'[t].pc = "idle" /\ \A u \in Tasks \ {t} : task'[u] = task[u]
    BY <1>1, <1>7, EndType DEF TickEnds, TypeOK
  <2> QED
    BY <1>1, <1>7, <2>1, KnowsNothing DEF TickEnds, TypeOK, Pcs
<1> QED
  BY <1>4, <1>5, <1>6, <1>7

-----------------------------------------------------------------------------
(* The steps of requests that leave the rows as they are *)

\* A request that begins keeps the invariant.
LEMMA BeginPreserves ==
  ASSUME IInv, NEW t \in Requests,
         RunStarts(t) \/ DeleteReads(t) \/ ProtectReads(t) \/ ListFiles(t)
  PROVE  IInv'
<1>1. t \in Tasks /\ TypeOK
  BY DEF Tasks, IInv
<1>2. /\ run' = run /\ made' = made /\ ended' = ended /\ files' = files /\ lock' = lock
      /\ slot' = slot /\ clock' = clock /\ faults' = faults
  BY DEF RunStarts, DeleteReads, ProtectReads, ListFiles
<1>3. SUFFICES /\ task' \in [Tasks -> Task]
               /\ \A u \in Tasks \ {t} : task'[u] = task[u]
               /\ RetiresEnded(t)' /\ WritesRunning(t)' /\ ~Writing(t)'
  BY <1>1, <1>2, RowsAlone DEF IInv, TypeOK
<1>4. CASE RunStarts(t)
  <2>1. [Idle EXCEPT !.pc = "create"] \in Task /\ [Idle EXCEPT !.pc = "create"].pc = "create"
    BY DEF Idle, Task
  <2>2. task' \in [Tasks -> Task] /\ task'[t].pc = "create" /\ \A u \in Tasks \ {t} : task'[u] = task[u]
    BY <1>1, <1>4, <2>1, BeginType DEF RunStarts, TypeOK
  <2> QED
    BY <1>1, <2>2, KnowsNothing DEF Pcs
<1>5. CASE DeleteReads(t)
  <2>1. PICK i \in Rows : /\ Listed(i) /\ run[i].status # "RUNNING"
                          /\ Begin(t, "delete", [Idle EXCEPT !.pc = "check", !.row = i])
    BY <1>5 DEF DeleteReads
  <2> DEFINE next == [Idle EXCEPT !.pc = "check", !.row = i]
  <2>2. next \in Task /\ next.pc = "check" /\ next.row = i /\ next.todo = {}
    BY DEF Idle, Task
  <2>3. Begin(t, "delete", next)
    BY <2>1
  <2> HIDE DEF next
  <2>4. /\ task' \in [Tasks -> Task] /\ \A u \in Tasks \ {t} : task'[u] = task[u]
        /\ task'[t].pc = "check" /\ task'[t].row = i /\ task'[t].todo = {}
    BY <1>1, <2>2, <2>3, BeginType DEF TypeOK
  <2>5. Ended(i)'
    BY <1>2, <2>1 DEF Ended, Listed, Exists
  <2>6. Doomed(t)' = {}
    BY <2>4 DEF Doomed
  <2> QED
    BY <2>4, <2>5, <2>6 DEF RetiresEnded, At, WritesRunning, Writing
<1>6. CASE ProtectReads(t)
  <2>1. PICK op \in {"protect", "unprotect"}, i \in Rows :
          Begin(t, op, [Idle EXCEPT !.pc = "update", !.row = i])
    BY <1>6 DEF ProtectReads
  <2> DEFINE next == [Idle EXCEPT !.pc = "update", !.row = i]
  <2>2. next \in Task /\ next.pc = "update" /\ next.row = i
    BY DEF Idle, Task
  <2>3. Begin(t, op, next)
    BY <2>1
  <2> HIDE DEF next
  <2>4. /\ task' \in [Tasks -> Task] /\ \A u \in Tasks \ {t} : task'[u] = task[u]
        /\ task'[t].pc = "update" /\ task'[t].row = i
    BY <1>1, <2>2, <2>3, BeginType DEF TypeOK
  <2> QED
    BY <2>4 DEF RetiresEnded, Doomed, At, WritesRunning, Writing
<1>7. CASE ListFiles(t)
  <2> DEFINE todo == {Legacy(r) : r \in UnnamedFiles}
             next == [Idle EXCEPT !.pc = "adopt", !.todo = todo]
  <2>1. todo \subseteq Rows
    BY <1>1, RowFacts DEF UnnamedFiles, TypeOK
  <2>2. next \in Task /\ next.pc = "adopt"
    BY <2>1 DEF Idle, Task
  <2>3. Begin(t, "history", next)
    BY <1>7 DEF ListFiles
  <2> HIDE DEF next
  <2>4. task' \in [Tasks -> Task] /\ task'[t].pc = "adopt" /\ \A u \in Tasks \ {t} : task'[u] = task[u]
    BY <1>1, <2>2, <2>3, BeginType DEF TypeOK
  <2> QED
    BY <1>1, <2>4, KnowsNothing DEF Pcs
<1> QED
  BY <1>4, <1>5, <1>6, <1>7

\* The checks of a deletion and the reading of an artifact keep the invariant.
LEMMA RequestPreserves ==
  ASSUME IInv, NEW t \in Requests,
         CheckLatest(t) \/ Unlink(t) \/ ReadArtifact(t) \/ HistoryEnds(t)
  PROVE  IInv'
<1>1. t \in Tasks /\ TypeOK /\ task[t] \in Task /\ RetiresEnded(t) /\ WritesRunning(t)
  BY DEF Tasks, IInv, RetireInv, TypeOK
<1>2. run' = run /\ made' = made /\ ended' = ended
      /\ lock' = lock /\ slot' = slot /\ clock' = clock /\ faults' = faults
  BY DEF CheckLatest, Unlink, ReadArtifact, HistoryEnds
<1>3. SUFFICES /\ task' \in [Tasks -> Task] /\ files' \subseteq Runs
               /\ \A u \in Tasks \ {t} : task'[u] = task[u]
               /\ RetiresEnded(t)' /\ WritesRunning(t)' /\ ~Writing(t)'
  BY <1>1, <1>2, RowsAlone DEF IInv, TypeOK
<1>4. CASE CheckLatest(t) /\ task[t].row \notin Newest
  <2>1. At(t, "check") /\ Goto(t, "unlink") /\ files' = files
    BY <1>4 DEF CheckLatest
  <2>2. /\ task' \in [Tasks -> Task] /\ \A u \in Tasks \ {t} : task'[u] = task[u]
        /\ task'[t].pc = "unlink" /\ task'[t].row = task[t].row /\ task'[t].todo = task[t].todo
    BY <1>1, <2>1, GotoType DEF TypeOK, Pcs
  <2>3. task[t].row \in Rows /\ Ended(task[t].row) /\ Outlived(task[t].row)
    BY <1>1, <1>4, <2>1, NotNewestOutlived DEF RetiresEnded
  <2>4. Doomed(t) = task[t].todo /\ Doomed(t)' = {task[t].row} \union task[t].todo
    BY <2>1, <2>2 DEF Doomed, At
  <2>5. RetiresEnded(t)'
    BY <1>1, <1>2, <2>2, <2>3, <2>4 DEF RetiresEnded, At, Ended, Exists, Outlived, Successful
  <2> QED
    BY <1>1, <2>1, <2>2, <2>5 DEF TypeOK, WritesRunning, Writing
<1>5. CASE Unlink(t)
  <2>1. At(t, "unlink") /\ Goto(t, "mark")
    BY <1>5 DEF Unlink
  <2>2. /\ task' \in [Tasks -> Task] /\ \A u \in Tasks \ {t} : task'[u] = task[u]
        /\ task'[t].pc = "mark" /\ task'[t].row = task[t].row /\ task'[t].todo = task[t].todo
    BY <1>1, <2>1, GotoType DEF TypeOK, Pcs
  <2>3. Doomed(t)' = Doomed(t)
    BY <2>1, <2>2 DEF Doomed, At
  <2>4. RetiresEnded(t)'
    BY <1>1, <1>2, <2>2, <2>3 DEF RetiresEnded, At, Ended, Exists, Outlived, Successful
  <2>5. files' \subseteq Runs
    BY <1>1, <1>5 DEF Unlink, Unlinked, TypeOK
  <2> QED
    BY <2>2, <2>4, <2>5 DEF WritesRunning, Writing
<1>6. CASE ReadArtifact(t)
  <2>1. PICK i \in task[t].todo, pc \in {"insert", "adopt"} :
          task' = [task EXCEPT ![t] = [task[t] EXCEPT !.todo = @ \ {i}, !.row = i, !.pc = pc]]
    BY ZenonT(60), <1>6 DEF ReadArtifact
  <2> DEFINE next == [task[t] EXCEPT !.todo = @ \ {i}, !.row = i, !.pc = pc]
  <2>2. i \in Rows
    BY <1>1 DEF Task
  <2>3. next \in Task /\ next.pc = pc /\ next.row = i
    BY <1>1, <2>2 DEF Task
  <2>4. /\ task' \in [Tasks -> Task] /\ \A u \in Tasks \ {t} : task'[u] = task[u]
        /\ task'[t].pc \in {"insert", "adopt"} /\ task'[t].row \in Rows
    BY <1>1, <2>1, <2>2, <2>3 DEF TypeOK
  <2>5. files' \subseteq Runs
    BY <1>1, <1>6 DEF ReadArtifact, TypeOK
  <2> QED
    BY <2>4, <2>5 DEF RetiresEnded, Doomed, At, WritesRunning, Writing
<1>7. CASE HistoryEnds(t) \/ (CheckLatest(t) /\ task[t].row \in Newest)
  <2>1. End(t) /\ files' = files
    BY <1>7 DEF HistoryEnds, CheckLatest
  <2>2. task' \in [Tasks -> Task] /\ task'[t].pc = "idle" /\ \A u \in Tasks \ {t} : task'[u] = task[u]
    BY <1>1, <2>1, EndType DEF TypeOK
  <2> QED
    BY <1>1, <2>1, <2>2, KnowsNothing DEF TypeOK, Pcs
<1> QED
  BY <1>4, <1>5, <1>6, <1>7

-----------------------------------------------------------------------------
(* The steps that write a row *)

\* A step that writes one row that had not ended, and ends none of the rows that
\* others write, keeps the invariant of the rows and tasks.
LEMMA RowWritten ==
  ASSUME IInv, NEW t \in Tasks, NEW i \in Rows, NEW row \in Row, Set(i, row),
         \A u \in Tasks \ {t} : task'[u] = task[u],
         ~row.deleted \/ (Ended(i) /\ run[i].deleted),
         Ended(i) => row.status = run[i].status /\ row.at = run[i].at /\ row.deleted = run[i].deleted,
         \A u \in Tasks \ {t} : Writing(u) /\ task[u].row = i => row.status = "RUNNING",
         WritesAlone(t), RetiresEnded(t)', WritesRunning(t)'
  PROVE  NewestSurvives' /\ RetireInv'
<1>1. run' \in [Rows -> Row] /\ run'[i] = row /\ \A j \in Rows \ {i} : run'[j] = run[j]
  BY SetType DEF IInv, TypeOK
<1>2. Settled /\ NoneRetired
  BY <1>1 DEF Settled, NoneRetired, Ended, Exists, Successful
<1>3. OthersWrite(t)
  <2> SUFFICES ASSUME NEW u \in Tasks \ {t}, Writing(u)
               PROVE  run'[task[u].row].status = "RUNNING" /\ ~run'[task[u].row].deleted
    BY DEF OthersWrite
  <2>1. task[u].row \in Rows /\ run[task[u].row].status = "RUNNING" /\ ~run[task[u].row].deleted
    BY RowFacts DEF IInv, RetireInv, WritesRunning
  <2> QED
    BY <1>1, <2>1 DEF Ended
<1> QED
  BY <1>2, <1>3, NewestKept, TasksKept

\* createBackup inserts a row, writes its artifact and takes the time of completion.
LEMMA CreatePreserves ==
  ASSUME IInv, NEW t \in Tasks, CreateRow(t) \/ WriteArtifact(t) \/ StampCompletion(t)
  PROVE  IInv'
<1>1. TypeOK /\ task[t] \in Task /\ WritesRunning(t)
  BY DEF IInv, RetireInv, TypeOK
<1>2. CASE CreateRow(t)
  <2>1. PICK r \in Runs :
          /\ ~Exists(Own(r))
          /\ Set(Own(r), [Missing EXCEPT !.status = "RUNNING", !.auto = t \in Ticks, !.slot = slot])
          /\ task' = [task EXCEPT ![t] = [task[t] EXCEPT !.pc = "write", !.row = Own(r)]]
    BY <1>2 DEF CreateRow
  <2> DEFINE row == [Missing EXCEPT !.status = "RUNNING", !.auto = t \in Ticks, !.slot = slot]
             next == [task[t] EXCEPT !.pc = "write", !.row = Own(r)]
  <2>2. row \in Row /\ row.status = "RUNNING" /\ row.deleted = FALSE
    <3>1. \A b \in BOOLEAN, n \in Nat :
            LET new == [Missing EXCEPT !.status = "RUNNING", !.auto = b, !.slot = n]
            IN  new \in Row /\ new.status = "RUNNING" /\ new.deleted = FALSE
      BY DEF Missing, Row
    <3>2. (t \in Ticks) \in BOOLEAN /\ slot \in Nat
      BY <1>1 DEF TypeOK
    <3> QED
      BY ONLY <3>1, <3>2, Zenon
  <2>3. Own(r) \in Rows
    BY RowFacts
  <2>4. next \in Task /\ next.pc = "write" /\ next.row = Own(r)
    BY <1>1, <2>3 DEF Task
  <2>5. Set(Own(r), row) /\ task' = [task EXCEPT ![t] = next]
    BY <2>1
  <2> HIDE DEF row, next
  <2>6. /\ task' \in [Tasks -> Task] /\ \A u \in Tasks \ {t} : task'[u] = task[u]
        /\ task'[t].pc = "write" /\ task'[t].row = Own(r)
    BY <1>1, <2>4, <2>5 DEF TypeOK
  <2>7. run' \in [Rows -> Row] /\ run'[Own(r)] = row
    BY <1>1, <2>2, <2>3, <2>5, SetType DEF TypeOK
  <2>8. RetiresEnded(t)' /\ WritesRunning(t)'
    BY <2>2, <2>6, <2>7 DEF RetiresEnded, Doomed, At, WritesRunning, Writing
  <2>9. \A u \in Tasks : Writing(u) => task[u].row # Own(r)
    BY <2>1 DEF IInv, RetireInv, WritesRunning, Exists
  <2>10. WritesAlone(t)
    BY <2>6, <2>9 DEF WritesAlone
  <2>11. ~Ended(Own(r))
    BY <2>1 DEF Ended
  <2>12. ~row.deleted /\ Set(Own(r), row)
    BY <2>2, <2>5
  <2>13. NewestSurvives' /\ RetireInv'
    <3>1. \A u \in Tasks \ {t} : Writing(u) /\ task[u].row = Own(r) => row.status = "RUNNING"
      BY <2>9
    <3>2. Ended(Own(r)) => /\ row.status = run[Own(r)].status /\ row.at = run[Own(r)].at
                           /\ row.deleted = run[Own(r)].deleted
      BY <2>11
    <3>3. ~row.deleted \/ (Ended(Own(r)) /\ run[Own(r)].deleted)
      BY <2>12
    <3> QED
      BY <2>2, <2>3, <2>6, <2>8, <2>10, <2>12, <3>1, <3>2, <3>3, RowWritten
  <2> QED
    BY <1>1, <1>2, <2>6, <2>7, <2>13 DEF CreateRow, IInv, TypeOK
<1>3. CASE WriteArtifact(t) \/ StampCompletion(t)
  <2>1. PICK pc \in {"stamp", "complete"} : Goto(t, pc) /\ Writing(t)
    BY <1>3 DEF WriteArtifact, StampCompletion, At, Writing
  <2>2. File(task[t].row) \in Runs
    BY <1>1, <2>1, RowFacts DEF WritesRunning
  <2>4. /\ task' \in [Tasks -> Task] /\ \A u \in Tasks \ {t} : task'[u] = task[u]
        /\ task'[t].pc = pc /\ task'[t].row = task[t].row
    BY <1>1, <2>1, GotoType DEF TypeOK, Pcs
  <2>5. run' = run /\ lock' = lock /\ slot' = slot /\ faults' = faults /\ clock' \in Nat
    BY <1>1, <1>3 DEF WriteArtifact, StampCompletion, TypeOK
  <2>6. files' \subseteq Runs /\ made' \in [Runs -> Nat] /\ ended' \in [Runs -> Nat]
    BY <1>1, <1>3, <2>2 DEF WriteArtifact, StampCompletion, TypeOK
  <2>7. RetiresEnded(t)' /\ WritesRunning(t)'
    BY <1>1, <2>1, <2>4, <2>5 DEF RetiresEnded, Doomed, At, WritesRunning, Writing
  <2> QED
    BY <1>1, <2>1, <2>4, <2>5, <2>6, <2>7, RowsAlone DEF IInv, TypeOK
<1> QED
  BY <1>2, <1>3

\* createBackup returns to its caller, which then retires and writes nothing.
LEMMA ReturnedType ==
  ASSUME task \in [Tasks -> Task], NEW t \in Tasks, NEW ran \in BOOLEAN, Returned(t, ran)
  PROVE  /\ task' \in [Tasks -> Task]
         /\ \A u \in Tasks \ {t} : task'[u] = task[u]
         /\ RetiresEnded(t)' /\ WritesRunning(t)' /\ ~Writing(t)'
<1>1. /\ [task[t] EXCEPT !.pc = "release", !.ran = ran] \in Task
      /\ [task[t] EXCEPT !.pc = "release", !.ran = ran].pc = "release"
  BY ZenonT(60) DEF Task
<1>2. CASE t \in Ticks
  <2>1. task' = [task EXCEPT ![t] = [task[t] EXCEPT !.pc = "release", !.ran = ran]]
    BY <1>2 DEF Returned
  <2>2. task' \in [Tasks -> Task] /\ task'[t].pc = "release" /\ \A u \in Tasks \ {t} : task'[u] = task[u]
    BY <1>1, <2>1
  <2> QED
    BY <2>2, KnowsNothing DEF Pcs
<1>3. CASE t \notin Ticks
  <2>1. task' \in [Tasks -> Task] /\ task'[t].pc = "idle" /\ \A u \in Tasks \ {t} : task'[u] = task[u]
    BY <1>3, EndType DEF Returned
  <2> QED
    BY <2>1, KnowsNothing DEF Pcs
<1> QED
  BY <1>2, <1>3

\* A writer is alone with its row, which has not ended.
LEMMA WriterAlone ==
  ASSUME IInv, NEW t \in Tasks, Writing(t)
  PROVE  /\ task[t].row \in Rows /\ run[task[t].row] \in Row
         /\ run[task[t].row].status = "RUNNING" /\ ~run[task[t].row].deleted
         /\ ~Ended(task[t].row)
         /\ File(task[t].row) \in Runs
         /\ \A u \in Tasks \ {t} : Writing(u) => task[u].row # task[t].row
<1>1. WritesRunning(t) /\ OneWriter
  BY DEF IInv, RetireInv
<1>2. task[t].row \in Rows /\ File(task[t].row) \in Runs
  BY <1>1, RowFacts DEF WritesRunning
<1> QED
  BY <1>1, <1>2 DEF WritesRunning, OneWriter, Ended, IInv, TypeOK

\* The row of a backup gets its outcome.
LEMMA OutcomePreserves ==
  ASSUME IInv, NEW t \in Tasks, MarkCompleted(t) \/ MarkFailed(t)
  PROVE  IInv'
<1> DEFINE i == task[t].row
<1>1. Writing(t) /\ TypeOK /\ task[t] \in Task
  BY DEF MarkCompleted, MarkFailed, At, Writing, IInv, TypeOK
<1>2. /\ i \in Rows /\ run[i] \in Row /\ ~run[i].deleted /\ ~Ended(i)
      /\ \A u \in Tasks \ {t} : Writing(u) => task[u].row # i
  BY <1>1, WriterAlone
<1>3. /\ task' \in [Tasks -> Task] /\ \A u \in Tasks \ {t} : task'[u] = task[u]
      /\ RetiresEnded(t)' /\ WritesRunning(t)' /\ ~Writing(t)'
  <2>1. CASE MarkCompleted(t)
    <3>1. task' \in [Tasks -> Task] /\ task'[t].pc = "audit" /\ \A u \in Tasks \ {t} : task'[u] = task[u]
      BY <1>1, <2>1, GotoType DEF MarkCompleted, TypeOK, Pcs
    <3> QED
      BY <3>1, KnowsNothing DEF Pcs
  <2>2. CASE MarkFailed(t)
    <3>1. PICK ran \in BOOLEAN : Returned(t, ran)
      BY <2>2 DEF MarkFailed
    <3> QED
      BY <1>1, <3>1, ReturnedType DEF TypeOK
  <2> QED
    BY <2>1, <2>2
<1>4. \E row \in Row : Set(i, row) /\ row.deleted = run[i].deleted
  <2>1. CASE MarkCompleted(t)
    <3> DEFINE row == [run[i] EXCEPT !.status = "COMPLETED", !.old = FALSE, !.at = ended[File(i)]]
    <3>1. ended[File(i)] \in Nat
      BY <1>1, <1>2, RowFacts DEF TypeOK
    <3>2. row \in Row /\ row.deleted = run[i].deleted
      BY <1>2, <3>1 DEF Row
    <3> QED
      BY <2>1, <3>2 DEF MarkCompleted
  <2>2. CASE MarkFailed(t)
    <3> DEFINE row == [run[i] EXCEPT !.status = "FAILED", !.old = FALSE]
    <3>1. row \in Row /\ row.deleted = run[i].deleted
      BY <1>2 DEF Row
    <3> QED
      BY <2>2, <3>1 DEF MarkFailed
  <2> QED
    BY <2>1, <2>2
<1>5. PICK row \in Row : Set(i, row) /\ row.deleted = run[i].deleted
  BY <1>4
<1> HIDE DEF i
<1>6. \A u \in Tasks \ {t} : Writing(u) /\ task[u].row = i => row.status = "RUNNING"
  BY <1>2
<1>7. /\ ~row.deleted \/ (Ended(i) /\ run[i].deleted)
      /\ Ended(i) => row.status = run[i].status /\ row.at = run[i].at /\ row.deleted = run[i].deleted
  BY <1>2, <1>5
<1>8. WritesAlone(t)
  BY <1>3 DEF WritesAlone
<1>9. NewestSurvives' /\ RetireInv'
  BY <1>2, <1>3, <1>5, <1>6, <1>7, <1>8, RowWritten
<1>10. run' \in [Rows -> Row]
  BY <1>1, <1>2, <1>5, SetType DEF TypeOK
<1>11. /\ made' = made /\ ended' = ended /\ files' = files
       /\ lock' = lock /\ slot' = slot /\ clock' = clock
       /\ faults' \in {faults, faults + 1}
  BY DEF MarkCompleted, MarkFailed, Fault
<1> QED
  BY <1>1, <1>3, <1>9, <1>10, <1>11 DEF IInv, TypeOK

\* The steps of createBackup that leave the rows as they are.
LEMMA ReturnPreserves ==
  ASSUME IInv, "audit" \notin Faults, NEW t \in Tasks, Audit(t) \/ BackupFails(t) \/ ThrowsOut(t)
  PROVE  IInv'
<1>1. TypeOK /\ task[t] \in Task /\ WritesRunning(t)
  BY DEF IInv, RetireInv, TypeOK
<1>2. /\ run' = run /\ made' = made /\ ended' = ended /\ lock' = lock /\ slot' = slot /\ clock' = clock
      /\ faults' \in {faults, faults + 1} /\ files' \subseteq Runs
  BY <1>1 DEF Audit, BackupFails, ThrowsOut, Fault, TypeOK
<1>3. SUFFICES /\ task' \in [Tasks -> Task]
               /\ \A u \in Tasks \ {t} : task'[u] = task[u]
               /\ RetiresEnded(t)' /\ WritesRunning(t)'
               /\ Writing(t)' => Writing(t) /\ task'[t].row = task[t].row
  BY <1>1, <1>2, RowsAlone DEF IInv, TypeOK
<1>4. CASE Audit(t) \/ ThrowsOut(t)
  <2>1. PICK ran \in BOOLEAN : Returned(t, ran)
    BY <1>4 DEF Audit, ThrowsOut
  <2> QED
    BY <1>1, <2>1, ReturnedType DEF TypeOK
<1>5. CASE BackupFails(t)
  <2>1. Writing(t) /\ Goto(t, "fail")
    BY <1>5 DEF BackupFails, Fault, Writing
  <2>2. /\ task' \in [Tasks -> Task] /\ \A u \in Tasks \ {t} : task'[u] = task[u]
        /\ task'[t].pc = "fail" /\ task'[t].row = task[t].row
    BY <1>1, <2>1, GotoType DEF TypeOK, Pcs
  <2>3. RetiresEnded(t)' /\ WritesRunning(t)'
    BY <1>1, <1>2, <2>1, <2>2 DEF RetiresEnded, Doomed, At, WritesRunning, Writing
  <2> QED
    BY <2>1, <2>2, <2>3
<1> QED
  BY <1>4, <1>5

\* A row is retired: it ended and is outlived, so a newer one stays listed.
LEMMA RetirePreserves ==
  ASSUME IInv, NEW t \in Tasks, MarkRetired(t) \/ MarkRetiredFails(t)
  PROVE  IInv'
<1> DEFINE i == task[t].row
<1>1. TypeOK /\ task[t] \in Task /\ RetiresEnded(t) /\ At(t, "mark")
  BY DEF IInv, RetireInv, TypeOK, MarkRetired, MarkRetiredFails
<1>2. i \in Rows /\ Ended(i) /\ Outlived(i) /\ \A j \in task[t].todo : j \in Rows /\ Ended(j) /\ Outlived(j)
  BY <1>1 DEF RetiresEnded, Doomed, At
<1>3. AfterMark(t)
  BY DEF MarkRetired, MarkRetiredFails
<1>4. /\ task' \in [Tasks -> Task] /\ \A u \in Tasks \ {t} : task'[u] = task[u]
      /\ task'[t].pc \in {"expire", "idle"} /\ task'[t].todo \subseteq task[t].todo
  <2>1. CASE t \in Ticks
    BY <1>1, <1>3, <2>1, GotoType DEF AfterMark, TypeOK, Pcs
  <2>2. CASE t \notin Ticks
    BY <1>1, <1>3, <2>2, EndType DEF AfterMark, TypeOK
  <2> QED
    BY <2>1, <2>2
<1>5. WritesRunning(t)' /\ ~Writing(t)'
  BY <1>4 DEF WritesRunning, Writing
<1>6. Doomed(t)' \subseteq task[t].todo
  BY <1>4 DEF Doomed
<1>7. /\ made' = made /\ ended' = ended /\ files' = files
      /\ lock' = lock /\ slot' = slot /\ clock' = clock
      /\ faults' \in {faults, faults + 1}
  BY DEF MarkRetired, MarkRetiredFails, Fault
<1>8. CASE MarkRetiredFails(t)
  <2>1. run' = run
    BY <1>8 DEF MarkRetiredFails
  <2>2. RetiresEnded(t)'
    BY <1>2, <1>4, <1>6, <2>1 DEF RetiresEnded, At, Ended, Exists, Outlived, Successful
  <2> QED
    BY <1>1, <1>4, <1>5, <1>7, <2>1, <2>2, RowsAlone DEF IInv, TypeOK
<1>9. CASE MarkRetired(t)
  <2> DEFINE row == [run[i] EXCEPT !.deleted = TRUE]
  <2>1. row \in Row /\ row.deleted /\ row.status = run[i].status /\ row.at = run[i].at
    BY ZenonT(60), <1>1, <1>2 DEF TypeOK, Row
  <2>2. Set(i, row)
    BY <1>9 DEF MarkRetired
  <2> HIDE DEF row, i
  <2>3. run' \in [Rows -> Row] /\ run'[i] = row /\ \A j \in Rows \ {i} : run'[j] = run[j]
    BY <1>1, <1>2, <2>1, <2>2, SetType DEF TypeOK
  <2>4. \A j \in Rows : run'[j].status = run[j].status /\ run'[j].at = run[j].at
    BY <2>1, <2>3
  <2>5. Settled
    BY <1>2, <2>3, <2>4 DEF Settled, Ended, Exists, Successful
  <2>6. NewestSurvives'
    <3>1. \A j \in Rows : run[j].at \in Nat
      BY <1>1 DEF TypeOK, Row
    <3>2. ASSUME NEW j \in Rows, Successful(j), run[j].deleted \/ j = i
          PROVE  \E k \in Rows : Listed(k) /\ Successful(k) /\ run[k].at > run[j].at
      <4>1. CASE run[j].deleted
        BY <3>2, <4>1 DEF IInv, NewestSurvives
      <4>2. CASE j = i
        <5>1. PICK k \in Rows : Successful(k) /\ run[k].at > run[i].at
          BY <1>2, <3>2, <4>2 DEF Outlived
        <5>2. CASE run[k].deleted
          <6>1. PICK l \in Rows : Listed(l) /\ Successful(l) /\ run[l].at > run[k].at
            BY <5>1, <5>2 DEF IInv, NewestSurvives
          <6> QED
            BY <1>2, <3>1, <4>2, <5>1, <6>1
        <5>3. CASE ~run[k].deleted
          BY <4>2, <5>1, <5>3 DEF Listed, Exists, Successful
        <5> QED
          BY <5>2, <5>3
      <4> QED
        BY <3>2, <4>1, <4>2
    <3>3. PICK n \in Rows : Successful(i) => Listed(n) /\ Successful(n) /\ run[n].at > run[i].at
      BY <1>2, <3>2
    <3> SUFFICES ASSUME NEW j \in Rows, Successful(j)', run'[j].deleted
                 PROVE  \E k \in Rows : Listed(k)' /\ Successful(k)' /\ run'[k].at > run'[j].at
      BY DEF NewestSurvives
    <3>4. Successful(j) /\ (run[j].deleted \/ j = i)
      BY <2>3, <2>4 DEF Successful
    <3>5. PICK k \in Rows : Listed(k) /\ Successful(k) /\ run[k].at > run[j].at
      BY <3>2, <3>4
    <3>6. CASE k # i
      BY <2>3, <2>4, <3>5, <3>6 DEF Listed, Exists, Successful
    <3>7. CASE k = i
      <4>1. Listed(n) /\ Successful(n) /\ run[n].at > run[i].at /\ n # i
        BY <1>2, <3>1, <3>3, <3>5, <3>7
      <4>2. run[n].at > run[j].at
        BY <1>2, <3>1, <3>5, <3>7, <4>1
      <4> QED
        BY <2>3, <2>4, <4>1, <4>2 DEF Listed, Exists, Successful
    <3> QED
      BY <3>6, <3>7
  <2>7. OthersWrite(t)
    <3> SUFFICES ASSUME NEW u \in Tasks \ {t}, Writing(u)
                 PROVE  run'[task[u].row].status = "RUNNING" /\ ~run'[task[u].row].deleted
      BY DEF OthersWrite
    <3> QED
      BY <1>2, <2>3, WriterAlone
  <2>8. RetiresEnded(t)'
    <3>1. \A j \in Doomed(t)' : j \in Rows /\ Ended(j)' /\ Outlived(j)'
      BY <1>2, <1>6, <2>5, SettledRows
    <3> QED
      BY <1>4, <3>1 DEF RetiresEnded, At
  <2>9. WritesAlone(t)
    BY <1>5 DEF WritesAlone
  <2>10. RetireInv'
    BY <1>4, <1>5, <2>5, <2>7, <2>8, <2>9, TasksKept
  <2> QED
    BY <1>1, <1>4, <1>7, <2>3, <2>6, <2>10 DEF IInv, TypeOK
<1> QED
  BY <1>8, <1>9

\* A row changes its protection, gets old, or is inserted for an artifact.
LEMMA OtherRowsPreserve ==
  ASSUME IInv, NEW t \in Tasks, SetProtected(t) \/ Adopt(t)
  PROVE  IInv'
<1> DEFINE i == task[t].row
<1>1. TypeOK /\ task[t] \in Task /\ i \in Rows /\ run[i] \in Row
  BY DEF IInv, RetireInv, WritesRunning, TypeOK, SetProtected, Adopt, At
<1>2. /\ task' \in [Tasks -> Task] /\ task'[t].pc \in {"idle", "adopt"}
      /\ \A u \in Tasks \ {t} : task'[u] = task[u]
  BY <1>1, GotoType, EndType DEF SetProtected, Adopt, TypeOK, Pcs
<1>3. RetiresEnded(t)' /\ WritesRunning(t)' /\ ~Writing(t)'
  BY <1>2, KnowsNothing DEF Pcs
<1>4. /\ made' = made /\ ended' = ended /\ files' = files
      /\ lock' = lock /\ slot' = slot /\ clock' = clock
      /\ faults' = faults
  BY DEF SetProtected, Adopt
<1>5. WritesAlone(t)
  BY <1>3 DEF WritesAlone
<1>6. CASE SetProtected(t)
  <2>1. PICK b \in BOOLEAN : Set(i, [run[i] EXCEPT !.prot = b])
    BY <1>6 DEF SetProtected
  <2> DEFINE row == [run[i] EXCEPT !.prot = b]
  <2>2. /\ row \in Row /\ row.status = run[i].status
        /\ row.at = run[i].at /\ row.deleted = run[i].deleted
    BY <1>1 DEF Row
  <2>3. Set(i, row)
    BY <2>1
  <2> HIDE DEF row, i
  <2>4. run' \in [Rows -> Row] /\ run'[i] = row /\ \A j \in Rows \ {i} : run'[j] = run[j]
    BY <1>1, <2>2, <2>3, SetType DEF TypeOK
  <2>5. Settled /\ NoneRetired
    BY <2>2, <2>4 DEF Settled, NoneRetired, Ended, Exists, Successful
  <2>6. OthersWrite(t)
    <3> SUFFICES ASSUME NEW u \in Tasks \ {t}, Writing(u)
                 PROVE  run'[task[u].row].status = "RUNNING" /\ ~run'[task[u].row].deleted
      BY DEF OthersWrite
    <3> QED
      BY <2>2, <2>4, WriterAlone
  <2> QED
    BY <1>1, <1>2, <1>3, <1>4, <1>5, <2>4, <2>5, <2>6, NewestKept, TasksKept DEF IInv, TypeOK
<1>7. CASE Adopt(t) /\ Exists(i)
  <2>1. run' = run
    BY <1>7 DEF Adopt
  <2> QED
    BY <1>1, <1>2, <1>3, <1>4, <2>1, RowsAlone DEF IInv, TypeOK
<1>8. CASE Adopt(t) /\ ~Exists(i)
  <2> DEFINE row == [Missing EXCEPT !.status = "COMPLETED", !.at = made[File(i)], !.slot = slot]
  <2>1. made[File(i)] \in Nat /\ slot \in Nat
    BY <1>1, RowFacts DEF TypeOK
  <2>2. row \in Row /\ row.deleted = FALSE
    BY <2>1 DEF Missing, Row
  <2>3. Set(i, row)
    BY <1>8 DEF Adopt
  <2> HIDE DEF row, i
  <2>4. run' \in [Rows -> Row]
    BY <1>1, <2>2, <2>3, SetType DEF TypeOK
  <2>5. \A u \in Tasks \ {t} : Writing(u) /\ task[u].row = i => row.status = "RUNNING"
    BY <1>8, WriterAlone DEF Exists
  <2>6. ~Ended(i)
    BY <1>8 DEF Ended
  <2>7. /\ ~row.deleted \/ (Ended(i) /\ run[i].deleted)
        /\ Ended(i) => row.status = run[i].status /\ row.at = run[i].at /\ row.deleted = run[i].deleted
    BY <2>2, <2>6
  <2>8. NewestSurvives' /\ RetireInv'
    BY <1>1, <1>2, <1>3, <1>5, <2>2, <2>3, <2>5, <2>7, RowWritten
  <2> QED
    BY <1>1, <1>2, <1>4, <2>4, <2>8 DEF IInv, TypeOK
<1> QED
  BY <1>6, <1>7, <1>8

-----------------------------------------------------------------------------
(* Time, crashes and lost connections *)

\* A crash leaves some tasks idle and the others as they were.
LEMMA CrashKeeps ==
  ASSUME IInv, run' = run,
         \A u \in Tasks : task'[u] = task[u] \/ task'[u] = Idle
  PROVE  NewestSurvives' /\ RetireInv'
<1>1. NewestSurvives'
  BY DEF IInv, NewestSurvives, Listed, Exists, Successful
<1>2. ASSUME NEW u \in Tasks PROVE RetiresEnded(u)' /\ WritesRunning(u)'
  <2>1. CASE task'[u] = Idle
    BY <2>1, DefaultTypes, KnowsNothing DEF Pcs
  <2>2. CASE task'[u] = task[u]
    <3>1. RetiresEnded(u) /\ WritesRunning(u)
      BY DEF IInv, RetireInv
    <3>2. Doomed(u)' = Doomed(u)
      BY <2>2 DEF Doomed
    <3>3. RetiresEnded(u)'
      BY <2>2, <3>1, <3>2 DEF RetiresEnded, At, Ended, Exists, Outlived, Successful
    <3>4. WritesRunning(u)'
      BY <2>2, <3>1 DEF WritesRunning, Writing
    <3> QED
      BY <3>3, <3>4
  <2> QED
    BY <2>1, <2>2
<1>3. \A u \in Tasks : Writing(u)' => Writing(u) /\ task'[u].row = task[u].row
  BY DefaultTypes DEF Writing
<1>4. OneWriter'
  BY <1>3 DEF IInv, RetireInv, OneWriter
<1> QED
  BY <1>1, <1>2, <1>4 DEF RetireInv

\* The environment's steps keep the invariant.
LEMMA EnvironmentPreserves ==
  ASSUME IInv,
         \/ NextSlot \/ (\E i \in Rows : GetsOld(i)) \/ (\E t \in Ticks : WorkerCrash(Pool[t]))
         \/ ApiCrash \/ (\E c \in Conns : ConnectionCloses(c))
  PROVE  IInv'
<1>1. TypeOK
  BY DEF IInv
<1>2. CASE NextSlot
  <2>1. \A u \in Tasks : task'[u] = task[u]
    BY <1>2 DEF NextSlot
  <2> QED
    BY <1>1, <1>2, <2>1, CrashKeeps DEF NextSlot, IInv, TypeOK
<1>3. CASE \E i \in Rows : GetsOld(i)
  <2>1. PICK i \in Rows : GetsOld(i)
    BY <1>3
  <2> DEFINE row == [run[i] EXCEPT !.old = TRUE]
  <2>2. /\ row \in Row /\ row.status = run[i].status
        /\ row.at = run[i].at /\ row.deleted = run[i].deleted
    BY <1>1 DEF TypeOK, Row
  <2>3. Set(i, row) /\ task' = task /\ made' = made /\ ended' = ended /\ files' = files /\ lock' = lock
        /\ slot' = slot /\ clock' = clock /\ faults' = faults
    BY <2>1 DEF GetsOld
  <2> HIDE DEF row
  <2>4. run' \in [Rows -> Row] /\ run'[i] = row /\ \A j \in Rows \ {i} : run'[j] = run[j]
    BY <1>1, <2>2, <2>3, SetType DEF TypeOK
  <2>5. Settled /\ NoneRetired
    BY <2>2, <2>4 DEF Settled, NoneRetired, Ended, Exists, Successful
  <2>6. \A u \in Tasks : Writing(u) => /\ run'[task[u].row].status = "RUNNING"
                                       /\ ~run'[task[u].row].deleted
    BY <2>2, <2>4, WriterAlone
  <2>7. \A u \in Tasks : RetiresEnded(u)' /\ WritesRunning(u)'
    <3> SUFFICES ASSUME NEW u \in Tasks PROVE RetiresEnded(u)' /\ WritesRunning(u)'
      OBVIOUS
    <3>1. RetiresEnded(u) /\ WritesRunning(u)
      BY DEF IInv, RetireInv
    <3>2. Doomed(u)' = Doomed(u)
      BY <2>3 DEF Doomed
    <3>3. RetiresEnded(u)'
      BY <2>3, <2>5, <3>1, <3>2, SettledRows DEF RetiresEnded, At
    <3>4. WritesRunning(u)'
      BY <2>3, <2>6, <3>1 DEF WritesRunning, Writing
    <3> QED
      BY <3>3, <3>4
  <2>8. OneWriter'
    BY <2>3 DEF IInv, RetireInv, OneWriter, Writing
  <2> QED
    BY <1>1, <2>3, <2>4, <2>5, <2>7, <2>8, NewestKept DEF IInv, RetireInv, TypeOK
<1>4. CASE ApiCrash \/ \E t \in Ticks : WorkerCrash(Pool[t])
  <2>1. lock' \in Lock
    BY <1>1, <1>4, LockType, BackupsAssumption DEF ApiCrash, WorkerCrash, TypeOK
  <2>2. task' \in [Tasks -> Task] /\ \A u \in Tasks : task'[u] = task[u] \/ task'[u] = Idle
    BY <1>1, <1>4, DefaultTypes DEF ApiCrash, WorkerCrash, TypeOK
  <2>3. /\ run' = run /\ made' = made /\ ended' = ended
        /\ files' = files /\ slot' = slot /\ clock' = clock
        /\ faults' = faults + 1
    BY <1>4 DEF ApiCrash, WorkerCrash, Fault
  <2> QED
    BY <1>1, <2>1, <2>2, <2>3, CrashKeeps DEF IInv, TypeOK
<1>5. CASE \E c \in Conns : ConnectionCloses(c)
  <2>1. lock' \in Lock
    BY <1>1, <1>5, LockType DEF ConnectionCloses, TypeOK
  <2>2. \A u \in Tasks : task'[u] = task[u]
    BY <1>5 DEF ConnectionCloses
  <2>3. /\ run' = run /\ made' = made /\ ended' = ended
        /\ files' = files /\ slot' = slot /\ clock' = clock
        /\ task' = task /\ faults' = faults + 1
    BY <1>5 DEF ConnectionCloses, Fault
  <2> QED
    BY <1>1, <2>1, <2>2, <2>3, CrashKeeps DEF IInv, TypeOK
<1> QED
  BY <1>2, <1>3, <1>4, <1>5

-----------------------------------------------------------------------------
(* The invariant *)

\* The invariant holds at first.
LEMMA InvInit == Init => IInv
<1> SUFFICES ASSUME Init PROVE IInv
  OBVIOUS
<1>1. \A t \in Tasks : task[t] = Idle
  BY DEF Init
<1>2. \A i \in Rows : run[i] = Missing
  BY DEF Init
<1>3. TypeOK
  BY DefaultTypes DEF Init, TypeOK, Lock
<1>4. NewestSurvives
  BY <1>2, DefaultTypes DEF NewestSurvives, Successful
<1>5. RetireInv
  BY <1>1, DefaultTypes DEF RetireInv, RetiresEnded, WritesRunning, OneWriter, Writing, Doomed, At
<1> QED
  BY <1>3, <1>4, <1>5 DEF IInv

\* Every step keeps the invariant.
LEMMA InvNext ==
  ASSUME "audit" \notin Faults, IInv, [Next]_vars
  PROVE  IInv'
<1>1. CASE \E t \in Ticks : TickStart(t) \/ TickStep(t) \/ TryLockFails(t) \/ ReleaseFails(t)
  BY <1>1, SectionPreserves, RetentionPreserves DEF TickStep
<1>2. CASE \E t \in Requests : \/ RunStarts(t) \/ DeleteReads(t) \/ ProtectReads(t) \/ ListFiles(t)
                               \/ RequestStep(t)
  BY <1>2, BeginPreserves, RequestPreserves, OtherRowsPreserve DEF RequestStep, Tasks
<1>3. CASE \E t \in Tasks : SharedStep(t) \/ TaskFails(t)
  BY <1>3, CreatePreserves, OutcomePreserves, ReturnPreserves, RetirePreserves
  DEF SharedStep, TaskFails
<1>4. CASE \/ NextSlot \/ (\E i \in Rows : GetsOld(i)) \/ (\E t \in Ticks : WorkerCrash(Pool[t]))
           \/ ApiCrash \/ (\E c \in Conns : ConnectionCloses(c))
  BY <1>4, EnvironmentPreserves
<1>5. CASE UNCHANGED vars
  <2>1. \A u \in Tasks : task'[u] = task[u]
    BY <1>5 DEF vars
  <2> QED
    BY <1>5, <2>1, CrashKeeps DEF vars, IInv, TypeOK
<1> QED
  BY <1>1, <1>2, <1>3, <1>4, <1>5 DEF Next

\* The inductive invariant holds in every reachable state.
LEMMA Invariant ==
  ASSUME "audit" \notin Faults
  PROVE  Spec => []IInv
<1>1. IInv /\ [Next]_vars => IInv'
  BY InvNext
<1> QED
  BY <1>1, InvInit, PTL DEF Spec

\* Whatever deletions and retention do at the same time, on readings however
\* old, and whatever fails but the audit of a completed backup: a successful
\* backup is retired only while a newer successful one stays listed
\* (backups.service.ts:350, backup-retention.service.ts:40).
THEOREM NewestIsSafe ==
  ASSUME "audit" \notin Faults
  PROVE  Spec => []NewestSurvives
<1>1. IInv => NewestSurvives
  BY DEF IInv
<1> QED
  BY <1>1, Invariant, PTL

\* A row that is about to be retired had ended and is outlived by a newer successful
\* run, and a RUNNING row has one writer.
THEOREM RetirementIsSafe ==
  ASSUME "audit" \notin Faults
  PROVE  Spec => []RetireInv
<1>1. IInv => RetireInv
  BY DEF IInv
<1> QED
  BY <1>1, Invariant, PTL

-----------------------------------------------------------------------------
(* The types, whatever fails *)

\* A row that is written by its id changes only if it exists as one.
LEMMA WrittenType ==
  ASSUME run \in [Rows -> Row], NEW i, NEW row, i \in Rows => row \in Row, Set(i, row)
  PROVE  run' \in [Rows -> Row]
BY DEF Set

TypeInv ==
  TypeOK /\ \A t \in Tasks : task[t].pc \in {"write", "stamp", "complete"} => task[t].row \in Rows

\* A request or a tick that ends createBackup keeps the types.
LEMMA ReturnedTypes ==
  ASSUME task \in [Tasks -> Task], NEW t \in Tasks, NEW ran \in BOOLEAN, Returned(t, ran)
  PROVE  /\ task' \in [Tasks -> Task] /\ task'[t].pc \in {"release", "idle"}
         /\ t \in Ticks => task'[t].pc = "release"
         /\ \A u \in Tasks \ {t} : task'[u] = task[u]
<1>1. CASE t \in Ticks
  <2> DEFINE next == [task[t] EXCEPT !.pc = "release", !.ran = ran]
  <2>1. next \in Task /\ next.pc = "release"
    <3>1. task[t] \in Task
      OBVIOUS
    <3> QED
      BY ONLY <3>1, ran \in BOOLEAN DEF Task
  <2>2. task' = [task EXCEPT ![t] = next]
    BY <1>1 DEF Returned
  <2> HIDE DEF next
  <2> QED
    BY <2>1, <2>2
<1>2. CASE t \notin Ticks
  BY <1>2, EndType DEF Returned
<1> QED
  BY <1>1, <1>2

\* What a step of one task does to the local states.
Moves(t) ==
  /\ task' \in [Tasks -> Task]
  /\ \A u \in Tasks \ {t} : task'[u] = task[u]

\* Each step of a tick moves it along its path.
LEMMA TickMoves ==
  ASSUME TypeInv, NEW t \in Ticks,
         TickStart(t) \/ TickStep(t) \/ TryLockFails(t) \/ ReleaseFails(t)
  PROVE  /\ Moves(t) /\ run' = run /\ made' = made /\ ended' = ended /\ files' \subseteq Runs
         /\ task'[t].pc \notin {"write", "stamp", "complete"}
<1>1. t \in Tasks /\ task \in [Tasks -> Task] /\ task[t] \in Task
  BY DEF TypeInv, TypeOK, Tasks
<1>2. CASE TickStart(t)
  <2> DEFINE next == [Idle EXCEPT !.op = "tick", !.pc = "lock"]
  <2>1. next \in Task /\ next.pc = "lock"
    BY DEF Task, Idle
  <2>2. task' = [task EXCEPT ![t] = next]
    BY <1>2 DEF TickStart
  <2> HIDE DEF next
  <2> QED
    BY <1>1, <1>2, <2>1, <2>2 DEF TickStart, Moves, At, TypeInv, TypeOK
<1>3. CASE \/ TryLock(t) \/ TryLockFails(t) \/ CheckRecent(t) \/ Release(t) \/ ReleaseFails(t)
           \/ TickEnds(t)
  <2>1. End(t) \/ \E pc \in {"recent", "create", "release", "latest"} : Goto(t, pc)
    BY <1>3 DEF TryLock, TryLockFails, CheckRecent, Release, ReleaseFails, AfterRelease, TickEnds
  <2>2. Moves(t) /\ task'[t].pc \notin {"write", "stamp", "complete"}
    BY <1>1, <2>1, GotoType, EndType DEF Moves, Pcs
  <2> QED
    BY <1>3, <2>2 DEF TryLock, TryLockFails, CheckRecent, Release, ReleaseFails, TickEnds, At,
                      TypeInv, TypeOK
<1>4. CASE ReadLatest(t)
  <2>1. PICK i \in Rows \union {NoRow} :
          task' = [task EXCEPT ![t] = [task[t] EXCEPT !.pc = "plan", !.latest = i]]
    BY <1>4 DEF ReadLatest, Newest
  <2>2. /\ [task[t] EXCEPT !.pc = "plan", !.latest = i] \in Task
        /\ [task[t] EXCEPT !.pc = "plan", !.latest = i].pc = "plan"
    BY <1>1 DEF Task
  <2>3. task' \in [Tasks -> Task] /\ task'[t].pc = "plan" /\ \A u \in Tasks \ {t} : task'[u] = task[u]
    BY <1>1, <2>1, <2>2
  <2> QED
    BY <1>4, <2>3 DEF ReadLatest, Moves, At, TypeInv, TypeOK
<1>5. CASE Plan(t)
  <2> DEFINE todo == Expired(task[t].latest)
             next == [task[t] EXCEPT !.pc = "expire", !.todo = todo]
  <2>1. todo \subseteq Rows
    BY DEF Expired, Visible
  <2>2. next \in Task /\ next.pc = "expire"
    BY <1>1, <2>1 DEF Task
  <2>3. task' = [task EXCEPT ![t] = next]
    BY <1>5 DEF Plan
  <2> HIDE DEF todo, next
  <2> QED
    BY <1>1, <1>5, <2>2, <2>3 DEF Plan, Moves, At, TypeInv, TypeOK
<1>6. CASE ExpireNext(t)
  <2>1. PICK i \in task[t].todo :
          /\ files' = Unlinked(i)
          /\ task' = [task EXCEPT ![t] = [task[t] EXCEPT !.pc = "mark", !.row = i, !.todo = @ \ {i}]]
    BY <1>6 DEF ExpireNext
  <2> DEFINE next == [task[t] EXCEPT !.pc = "mark", !.row = i, !.todo = @ \ {i}]
  <2>2. task[t].todo \subseteq Rows
    BY <1>1 DEF Task
  <2>3. i \in Rows
    BY <2>1, <2>2
  <2>4. next \in Task /\ next.pc = "mark"
    BY <1>1, <2>2, <2>3 DEF Task
  <2>5. task' = [task EXCEPT ![t] = next]
    BY <2>1
  <2>6. files' \subseteq Runs
    BY <2>1 DEF Unlinked, TypeInv, TypeOK
  <2> HIDE DEF next
  <2> QED
    BY <1>1, <1>6, <2>4, <2>5, <2>6 DEF ExpireNext, Moves, At
<1> QED
  BY <1>2, <1>3, <1>4, <1>5, <1>6 DEF TickStep

\* A row that is written is not the start of an automatic run.
LEMMA WriteStartsNone ==
  ASSUME TypeInv, NEW i, NEW row, Set(i, row),
         i \in Rows => /\ row \in Row
                       /\ \/ row.status # "RUNNING"
                          \/ ~row.auto
                          \/ /\ row.status = run[i].status /\ row.auto = run[i].auto
                             /\ run[i].deleted => row.deleted
                             /\ run[i].old => row.old
  PROVE  run' \in [Rows -> Row] /\ RecentRunning' \subseteq RecentRunning
<1>1. run \in [Rows -> Row]
  BY DEF TypeInv, TypeOK
<1>2. /\ i \in Rows => run'[i] = row
      /\ \A j \in Rows : j # i => run'[j] = run[j]
  BY <1>1 DEF Set
<1>3. ASSUME NEW j \in RecentRunning' PROVE j \in RecentRunning
  <2>1. /\ j \in Rows /\ run'[j].status = "RUNNING" /\ ~run'[j].deleted
        /\ run'[j].auto /\ ~run'[j].old
    BY <1>3 DEF RecentRunning, AutomaticRows, Listed, Exists
  <2>2. run[j].status = "RUNNING" /\ ~run[j].deleted /\ run[j].auto /\ ~run[j].old
    BY <1>2, <2>1
  <2> QED
    BY <2>1, <2>2 DEF RecentRunning, AutomaticRows, Listed, Exists
<1> QED
  BY <1>1, <1>3, WrittenType

\* Each step of a request keeps the types and starts no automatic run.
LEMMA RequestMoves ==
  ASSUME TypeInv, NEW t \in Requests,
         RunStarts(t) \/ DeleteReads(t) \/ ProtectReads(t) \/ ListFiles(t) \/ RequestStep(t)
  PROVE  /\ Moves(t) /\ run' \in [Rows -> Row] /\ RecentRunning' \subseteq RecentRunning
         /\ made' = made /\ ended' = ended /\ files' \subseteq Runs /\ lock' = lock
         /\ slot' = slot /\ clock' = clock /\ faults' = faults
         /\ task'[t].pc \notin {"write", "stamp", "complete"}
<1>1. t \in Tasks /\ task \in [Tasks -> Task] /\ task[t] \in Task /\ run \in [Rows -> Row]
      /\ files \subseteq Runs
  BY DEF TypeInv, TypeOK, Tasks
<1>2. run' = run => RecentRunning' = RecentRunning
  BY DEF RecentRunning, AutomaticRows, Listed, Exists
<1>3. CASE RunStarts(t) \/ DeleteReads(t) \/ ProtectReads(t) \/ ListFiles(t)
  <2>1. \E r \in Task, op \in AllOps :
         r.pc \notin {"write", "stamp", "complete"} /\ Begin(t, op, r)
    <3>1. CASE RunStarts(t)
      <4>1. [Idle EXCEPT !.pc = "create"] \in Task /\ [Idle EXCEPT !.pc = "create"].pc = "create"
        BY DEF Idle, Task
      <4> QED
        BY <3>1, <4>1 DEF RunStarts, AllOps
    <3>2. CASE DeleteReads(t)
      <4>1. PICK i \in Rows : Begin(t, "delete", [Idle EXCEPT !.pc = "check", !.row = i])
        BY <3>2 DEF DeleteReads
      <4>2. /\ [Idle EXCEPT !.pc = "check", !.row = i] \in Task
            /\ [Idle EXCEPT !.pc = "check", !.row = i].pc = "check"
        BY DEF Idle, Task
      <4> QED
        BY <4>1, <4>2 DEF AllOps
    <3>3. CASE ProtectReads(t)
      <4>1. PICK op \in {"protect", "unprotect"}, i \in Rows :
              Begin(t, op, [Idle EXCEPT !.pc = "update", !.row = i])
        BY <3>3 DEF ProtectReads
      <4>2. /\ [Idle EXCEPT !.pc = "update", !.row = i] \in Task
            /\ [Idle EXCEPT !.pc = "update", !.row = i].pc = "update"
        BY DEF Idle, Task
      <4> QED
        BY <4>1, <4>2 DEF AllOps
    <3>4. CASE ListFiles(t)
      <4> DEFINE todo == {Legacy(r) : r \in UnnamedFiles}
                 next == [Idle EXCEPT !.pc = "adopt", !.todo = todo]
      <4>1. todo \subseteq Rows
        BY <1>1, RowFacts DEF UnnamedFiles
      <4>2. next \in Task /\ next.pc = "adopt"
        BY <4>1 DEF Idle, Task
      <4>3. Begin(t, "history", next)
        BY <3>4 DEF ListFiles
      <4> HIDE DEF todo, next
      <4> QED
        BY <4>2, <4>3 DEF AllOps
    <3> QED
      BY <1>3, <3>1, <3>2, <3>3, <3>4
  <2>2. Moves(t) /\ task'[t].pc \notin {"write", "stamp", "complete"}
    BY <1>1, <2>1, BeginType DEF Moves
  <2> QED
    BY <1>1, <1>2, <1>3, <2>2 DEF RunStarts, DeleteReads, ProtectReads, ListFiles, At
<1>4. CASE CheckLatest(t) \/ Unlink(t) \/ SetProtected(t) \/ Adopt(t) \/ HistoryEnds(t)
  <2>1. End(t) \/ \E pc \in {"unlink", "mark", "adopt"} : Goto(t, pc)
    BY <1>4 DEF CheckLatest, Unlink, SetProtected, Adopt, HistoryEnds
  <2>2. Moves(t) /\ task'[t].pc \notin {"write", "stamp", "complete"}
    BY <1>1, <2>1, GotoType, EndType DEF Moves, Pcs
  <2>3. files' \subseteq Runs
    BY <1>1, <1>4 DEF CheckLatest, Unlink, Unlinked, SetProtected, Adopt, HistoryEnds
  <2>4. run' \in [Rows -> Row] /\ RecentRunning' \subseteq RecentRunning
    <3>1. CASE SetProtected(t)
      <4> DEFINE i == task[t].row
                 row == [run[i] EXCEPT !.prot = task[t].op = "protect"]
      <4>1. i \in Rows => row \in Row /\ row.status = run[i].status /\ row.auto = run[i].auto
                          /\ row.deleted = run[i].deleted /\ row.old = run[i].old
        BY <1>1 DEF Row
      <4>2. Set(i, row)
        BY <3>1 DEF SetProtected
      <4> HIDE DEF i, row
      <4> QED
        BY <4>1, <4>2, WriteStartsNone
    <3>2. CASE Adopt(t) /\ ~Exists(task[t].row)
      <4> DEFINE i == task[t].row
                 row == [Missing EXCEPT !.status = "COMPLETED", !.at = made[File(i)], !.slot = slot]
      <4>1. i \in Rows => row \in Row /\ row.status = "COMPLETED"
        BY RowFacts DEF Row, Missing, TypeInv, TypeOK
      <4>2. Set(i, row)
        BY <3>2 DEF Adopt
      <4> HIDE DEF i, row
      <4> QED
        BY <4>1, <4>2, WriteStartsNone
    <3> QED
      BY <1>1, <1>2, <1>4, <3>1, <3>2 DEF CheckLatest, Unlink, HistoryEnds, Adopt
  <2> QED
    BY <1>4, <2>2, <2>3, <2>4 DEF CheckLatest, Unlink, SetProtected, Adopt, HistoryEnds, At
<1>5. CASE ReadArtifact(t)
  <2>1. PICK i \in task[t].todo :
          task' = [task EXCEPT ![t] = [task[t] EXCEPT !.todo = @ \ {i}, !.row = i,
                                  !.pc = IF File(i) \in files THEN "insert" ELSE "adopt"]]
    BY <1>5 DEF ReadArtifact
  <2> DEFINE next == [task[t] EXCEPT !.todo = @ \ {i}, !.row = i,
                                  !.pc = IF File(i) \in files THEN "insert" ELSE "adopt"]
  <2>2. i \in Rows /\ task[t].todo \subseteq Rows
    BY <1>1, <2>1 DEF Task
  <2>3. next \in Task /\ next.pc \in {"insert", "adopt"}
    BY <1>1, <2>2 DEF Task
  <2>4. task' = [task EXCEPT ![t] = next]
    BY <2>1
  <2> HIDE DEF next
  <2> QED
    BY <1>1, <1>2, <1>5, <2>3, <2>4 DEF ReadArtifact, Moves, At
<1> QED
  BY <1>3, <1>4, <1>5 DEF RequestStep

\* The program counters at which a tick should hold the advisory lock.
Section == {"recent", "create", "write", "stamp", "complete", "audit", "fail", "release"}

\* A row is created for the task that goes on to write its artifact; only that of a tick
\* is an automatic run.
LEMMA CreateMoves ==
  ASSUME TypeInv, NEW t \in Tasks, CreateRow(t)
  PROVE  /\ Moves(t) /\ run' \in [Rows -> Row]
         /\ At(t, "create") /\ At(t, "write")' /\ task'[t].row \in Rows
         /\ RecentRunning' \subseteq RecentRunning \union {task'[t].row}
         /\ t \in Requests => RecentRunning' \subseteq RecentRunning
<1>1. task \in [Tasks -> Task] /\ task[t] \in Task /\ run \in [Rows -> Row] /\ slot \in Nat
  BY DEF TypeInv, TypeOK
<1>2. PICK r \in Runs :
        /\ Set(Own(r), [Missing EXCEPT !.status = "RUNNING", !.auto = t \in Ticks, !.slot = slot])
        /\ task' = [task EXCEPT ![t] = [task[t] EXCEPT !.pc = "write", !.row = Own(r)]]
  BY DEF CreateRow
<1> DEFINE row == [Missing EXCEPT !.status = "RUNNING", !.auto = t \in Ticks, !.slot = slot]
           next == [task[t] EXCEPT !.pc = "write", !.row = Own(r)]
<1>3. Own(r) \in Rows
  BY RowFacts
<1>4. row \in Row /\ (t \in Requests => ~row.auto)
  <2>1. \A b \in BOOLEAN, n \in Nat :
          LET new == [Missing EXCEPT !.status = "RUNNING", !.auto = b, !.slot = n]
          IN  new \in Row /\ (~b => ~new.auto)
    BY DEF Missing, Row
  <2>2. (t \in Ticks) \in BOOLEAN /\ slot \in Nat
    BY <1>1
  <2>3. row \in Row /\ (~(t \in Ticks) => ~row.auto)
    BY ONLY <2>1, <2>2, Zenon
  <2> QED
    BY <2>3, BackupsAssumption
<1>5. next \in Task /\ next.pc = "write" /\ next.row = Own(r)
  BY <1>1, <1>3 DEF Task
<1>6. Set(Own(r), row) /\ task' = [task EXCEPT ![t] = next]
  BY <1>2
<1> HIDE DEF row, next
<1>7. Moves(t) /\ task'[t].pc = "write" /\ task'[t].row = Own(r)
  BY <1>1, <1>5, <1>6 DEF Moves
<1>8. run' \in [Rows -> Row] /\ \A j \in Rows \ {Own(r)} : run'[j] = run[j]
  BY <1>1, <1>3, <1>4, <1>6, SetType
<1>9. RecentRunning' \subseteq RecentRunning \union {Own(r)}
  BY <1>8 DEF RecentRunning, AutomaticRows, Listed, Exists
<1>10. ASSUME t \in Requests PROVE RecentRunning' \subseteq RecentRunning
  <2>1. ~row.auto
    BY <1>4, <1>10
  <2> QED
    BY <1>4, <1>6, <2>1, WriteStartsNone
<1> QED
  BY <1>3, <1>7, <1>8, <1>9, <1>10 DEF CreateRow, At

\* Each other step that ticks and requests share keeps the types, starts no automatic run
\* and takes no tick into the section.
LEMMA SharedMoves ==
  ASSUME TypeInv, NEW t \in Tasks, SharedStep(t) \/ TaskFails(t), ~CreateRow(t)
  PROVE  /\ Moves(t) /\ run' \in [Rows -> Row] /\ RecentRunning' \subseteq RecentRunning
         /\ made' \in [Runs -> Nat] /\ ended' \in [Runs -> Nat] /\ files' \subseteq Runs /\ lock' = lock
         /\ slot' = slot /\ clock' \in Nat /\ faults' \in Nat
         /\ task'[t].pc \in Section => task[t].pc \in Section
         /\ task'[t].pc \notin {"create", "write"}
         /\ task'[t].pc \in {"stamp", "complete"} => task'[t].row \in Rows
<1>1. task \in [Tasks -> Task] /\ task[t] \in Task /\ run \in [Rows -> Row]
      /\ files \subseteq Runs /\ made \in [Runs -> Nat] /\ ended \in [Runs -> Nat]
      /\ clock \in Nat /\ faults \in Nat
  BY DEF TypeInv, TypeOK
<1>2. run' = run => RecentRunning' = RecentRunning
  BY DEF RecentRunning, AutomaticRows, Listed, Exists
<1>3. CASE WriteArtifact(t) \/ StampCompletion(t)
  <2>1. task[t].row \in Rows /\ File(task[t].row) \in Runs
    BY <1>3, RowFacts DEF WriteArtifact, StampCompletion, At, TypeInv
  <2>2. PICK pc \in {"stamp", "complete"} : Goto(t, pc)
    BY <1>3 DEF WriteArtifact, StampCompletion
  <2>3. Moves(t) /\ task'[t].pc = pc /\ task'[t].row \in Rows
    BY <1>1, <2>1, <2>2, GotoType DEF Moves, Pcs
  <2>4. made' \in [Runs -> Nat] /\ ended' \in [Runs -> Nat] /\ files' \subseteq Runs /\ clock' \in Nat
    BY <1>1, <1>3, <2>1 DEF WriteArtifact, StampCompletion
  <2> QED
    BY <1>1, <1>2, <1>3, <2>3, <2>4 DEF WriteArtifact, StampCompletion, At, Section
<1>4. CASE MarkCompleted(t)
  <2> DEFINE i == task[t].row
             row == [run[i] EXCEPT !.status = "COMPLETED", !.old = FALSE, !.at = ended[File(i)]]
  <2>1. i \in Rows => row \in Row /\ row.status = "COMPLETED"
    <3>1. i \in Rows => ended[File(i)] \in Nat
      BY <1>1, RowFacts
    <3>2. i \in Rows => run[i] \in Row
      BY <1>1
    <3> HIDE DEF i
    <3> QED
      BY <3>1, <3>2 DEF Row
  <2>2. Set(i, row)
    BY <1>4 DEF MarkCompleted
  <2> HIDE DEF i, row
  <2>3. run' \in [Rows -> Row] /\ RecentRunning' \subseteq RecentRunning
    BY <2>1, <2>2, WriteStartsNone
  <2>4. Moves(t) /\ task'[t].pc = "audit"
    BY <1>1, <1>4, GotoType DEF MarkCompleted, Moves, Pcs
  <2> QED
    BY <1>1, <1>4, <2>3, <2>4 DEF MarkCompleted, At, Section
<1>5. CASE Audit(t) \/ ThrowsOut(t)
  <2>1. \E ran \in BOOLEAN : Returned(t, ran)
    BY <1>5 DEF Audit, ThrowsOut
  <2>2. Moves(t) /\ task'[t].pc \in {"release", "idle"}
    BY <1>1, <2>1, ReturnedTypes DEF Moves
  <2>3. faults' \in Nat
    <3>1. faults' \in {faults, faults + 1}
      BY <1>5 DEF Audit, ThrowsOut, Fault
    <3> QED
      BY <1>1, <3>1
  <2> QED
    BY <1>1, <1>2, <1>5, <2>2, <2>3 DEF Audit, ThrowsOut, At, Section
<1>6. CASE MarkFailed(t)
  <2> DEFINE i == task[t].row
             row == [run[i] EXCEPT !.status = "FAILED", !.old = FALSE]
  <2>1. i \in Rows => row \in Row /\ row.status = "FAILED"
    <3>1. i \in Rows => run[i] \in Row
      BY <1>1
    <3> HIDE DEF i
    <3> QED
      BY <3>1 DEF Row
  <2>2. Set(i, row)
    BY <1>6 DEF MarkFailed
  <2> HIDE DEF i, row
  <2>3. run' \in [Rows -> Row] /\ RecentRunning' \subseteq RecentRunning
    BY <2>1, <2>2, WriteStartsNone
  <2>4. \E ran \in BOOLEAN : Returned(t, ran)
    BY <1>6 DEF MarkFailed
  <2>5. Moves(t) /\ task'[t].pc \in {"release", "idle"}
    BY <1>1, <2>4, ReturnedTypes DEF Moves
  <2>6. faults' \in Nat
    <3>1. faults' \in {faults, faults + 1}
      BY <1>6 DEF MarkFailed, Fault
    <3> QED
      BY <1>1, <3>1
  <2> QED
    BY <1>1, <1>6, <2>3, <2>5, <2>6 DEF MarkFailed, At, Section
<1>7. CASE MarkRetired(t) \/ MarkRetiredFails(t)
  <2>1. End(t) \/ Goto(t, "expire")
    BY <1>7 DEF MarkRetired, MarkRetiredFails, AfterMark
  <2>2. Moves(t) /\ task'[t].pc \in {"idle", "expire"}
    BY <1>1, <2>1, GotoType, EndType DEF Moves, Pcs
  <2>3. faults' \in Nat
    <3>1. faults' \in {faults, faults + 1}
      BY <1>7 DEF MarkRetired, MarkRetiredFails, Fault
    <3> QED
      BY <1>1, <3>1
  <2>4. run' \in [Rows -> Row] /\ RecentRunning' \subseteq RecentRunning
    <3>1. CASE MarkRetired(t)
      <4> DEFINE i == task[t].row
                 row == [run[i] EXCEPT !.deleted = TRUE]
      <4>1. i \in Rows => row \in Row /\ row.status = run[i].status /\ row.auto = run[i].auto
                          /\ row.deleted /\ row.old = run[i].old
        <5>1. i \in Rows => run[i] \in Row
          BY <1>1
        <5> HIDE DEF i
        <5> QED
          BY <5>1 DEF Row
      <4>2. Set(i, row)
        BY <3>1 DEF MarkRetired
      <4> HIDE DEF i, row
      <4> QED
        BY <4>1, <4>2, WriteStartsNone
    <3> QED
      BY <1>1, <1>2, <1>7, <3>1 DEF MarkRetiredFails
  <2> QED
    BY <1>1, <1>7, <2>2, <2>3, <2>4 DEF MarkRetired, MarkRetiredFails, At, Section
<1>8. CASE BackupFails(t)
  <2>1. Moves(t) /\ task'[t].pc = "fail"
    BY <1>1, <1>8, GotoType DEF BackupFails, Moves, Pcs
  <2>2. faults' \in Nat /\ files' \subseteq Runs
    BY <1>1, <1>8 DEF BackupFails, Fault
  <2> QED
    BY <1>1, <1>2, <1>8, <2>1, <2>2 DEF BackupFails, At, Section
<1> QED
  BY <1>3, <1>4, <1>5, <1>6, <1>7, <1>8 DEF SharedStep, TaskFails

\* Crashes, lost connections and time keep the types and start no automatic run.
LEMMA EnvironmentMoves ==
  ASSUME TypeInv,
         \/ NextSlot \/ (\E i \in Rows : GetsOld(i)) \/ (\E t \in Ticks : WorkerCrash(Pool[t]))
         \/ ApiCrash \/ (\E c \in Conns : ConnectionCloses(c)) \/ UNCHANGED vars
  PROVE  /\ TypeInv' /\ RecentRunning' \subseteq RecentRunning
         /\ \A t \in Tasks : task'[t] = task[t] \/ task'[t] = Idle
<1>1. TypeOK /\ task \in [Tasks -> Task] /\ run \in [Rows -> Row]
  BY DEF TypeInv, TypeOK
<1>2. run' = run => RecentRunning' = RecentRunning
  BY DEF RecentRunning, AutomaticRows, Listed, Exists
<1>3. CASE NextSlot \/ UNCHANGED vars
  BY <1>1, <1>2, <1>3 DEF NextSlot, vars, TypeInv, TypeOK, At
<1>4. CASE \E i \in Rows : GetsOld(i)
  <2>1. PICK i \in Rows : GetsOld(i)
    BY <1>4
  <2> DEFINE row == [run[i] EXCEPT !.old = TRUE]
  <2>2. row \in Row /\ row.status = run[i].status /\ row.auto = run[i].auto
        /\ row.deleted = run[i].deleted /\ row.old
    BY <1>1 DEF Row
  <2>3. Set(i, row)
    BY <2>1 DEF GetsOld
  <2> HIDE DEF row
  <2>4. run' \in [Rows -> Row] /\ RecentRunning' \subseteq RecentRunning
    BY <2>2, <2>3, WriteStartsNone
  <2> QED
    BY <1>1, <2>1, <2>4 DEF GetsOld, TypeInv, TypeOK, At
<1>5. CASE ApiCrash \/ \E t \in Ticks : WorkerCrash(Pool[t])
  <2>1. lock' \in Lock
    BY <1>1, <1>5, LockType, BackupsAssumption DEF ApiCrash, WorkerCrash, TypeOK
  <2>2. task' \in [Tasks -> Task] /\ \A u \in Tasks : task'[u] = task[u] \/ task'[u] = Idle
    BY <1>1, <1>5, DefaultTypes DEF ApiCrash, WorkerCrash
  <2>3. faults' \in Nat
    BY <1>1, <1>5 DEF ApiCrash, WorkerCrash, Fault, TypeOK
  <2>4. \A u \in Tasks : task'[u].pc \in {"write", "stamp", "complete"} => task'[u].row \in Rows
    BY <2>2, DefaultTypes DEF At, TypeInv
  <2> QED
    BY <1>1, <1>2, <1>5, <2>1, <2>2, <2>3, <2>4 DEF ApiCrash, WorkerCrash, TypeInv, TypeOK
<1>6. CASE \E c \in Conns : ConnectionCloses(c)
  <2>1. lock' \in Lock
    BY <1>1, <1>6, LockType DEF ConnectionCloses, TypeOK
  <2>2. faults' \in Nat
    BY <1>6 DEF ConnectionCloses, Fault, TypeInv, TypeOK
  <2> QED
    BY <1>1, <1>2, <1>6, <2>1, <2>2 DEF ConnectionCloses, TypeInv, TypeOK, At
<1> QED
  BY <1>3, <1>4, <1>5, <1>6

\* The types hold at first.
LEMMA TypeInit == Init => TypeInv
<1> SUFFICES ASSUME Init PROVE TypeInv
  OBVIOUS
<1>1. TypeOK
  BY DefaultTypes DEF Init, TypeOK, Lock
<1>2. \A t \in Tasks : task[t].pc = "idle"
  BY DefaultTypes DEF Init
<1> QED
  BY <1>1, <1>2 DEF TypeInv

\* The types survive a step that moves one task.
LEMMA MoveTypes ==
  ASSUME TypeInv, NEW t \in Tasks, Moves(t), run' \in [Rows -> Row],
         made' \in [Runs -> Nat] /\ ended' \in [Runs -> Nat],
         files' \subseteq Runs, lock' \in Lock, slot' \in Nat, clock' \in Nat, faults' \in Nat,
         task'[t].pc \in {"write", "stamp", "complete"} => task'[t].row \in Rows
  PROVE  TypeInv'
BY DEF TypeInv, TypeOK, Moves, At

\* Each step keeps the types.
LEMMA TypeStep == TypeInv /\ [Next]_vars => TypeInv'
<1> SUFFICES ASSUME TypeInv, [Next]_vars PROVE TypeInv'
  OBVIOUS
<1>1. TypeOK
  BY DEF TypeInv
<1>2. ASSUME NEW t \in Ticks,
             TickStart(t) \/ TickStep(t) \/ TryLockFails(t) \/ ReleaseFails(t)
      PROVE  TypeInv'
  <2>1. lock' \in Lock
    BY <1>1, <1>2, LockType, BackupsAssumption
    DEF TickStart, TickStep, TryLock, TryLockFails, CheckRecent, Release, ReleaseFails,
        ReadLatest, Plan, ExpireNext, TickEnds, TypeOK
  <2>2. slot' = slot /\ clock' = clock /\ faults' \in {faults, faults + 1}
    BY <1>2 DEF TickStart, TickStep, TryLock, TryLockFails, CheckRecent, Release, ReleaseFails,
                ReadLatest, Plan, ExpireNext, TickEnds, Fault
  <2>3. slot' \in Nat /\ clock' \in Nat /\ faults' \in Nat
    BY <1>1, <2>2 DEF TypeOK
  <2>4. /\ Moves(t) /\ run' \in [Rows -> Row] /\ made' \in [Runs -> Nat] /\ ended' \in [Runs -> Nat]
        /\ files' \subseteq Runs
        /\ task'[t].pc \notin {"write", "stamp", "complete"}
    BY <1>1, <1>2, TickMoves DEF TypeOK
  <2> QED
    BY <2>1, <2>3, <2>4, MoveTypes DEF Tasks
<1>3. ASSUME NEW t \in Requests,
             RunStarts(t) \/ DeleteReads(t) \/ ProtectReads(t) \/ ListFiles(t) \/ RequestStep(t)
      PROVE  TypeInv'
  BY <1>1, <1>3, RequestMoves, MoveTypes DEF Tasks, TypeOK
<1>4. ASSUME NEW t \in Tasks, SharedStep(t) \/ TaskFails(t) PROVE TypeInv'
  <2>1. CASE CreateRow(t)
    <3>1. Moves(t) /\ run' \in [Rows -> Row] /\ task'[t].row \in Rows
      BY <2>1, CreateMoves
    <3> QED
      BY <1>1, <2>1, <3>1, MoveTypes DEF CreateRow, TypeOK
  <2>2. CASE ~CreateRow(t)
    <3>1. /\ Moves(t) /\ run' \in [Rows -> Row] /\ made' \in [Runs -> Nat] /\ ended' \in [Runs -> Nat]
          /\ files' \subseteq Runs
          /\ lock' = lock /\ slot' = slot /\ clock' \in Nat /\ faults' \in Nat
          /\ task'[t].pc \in {"write", "stamp", "complete"} => task'[t].row \in Rows
      BY <1>4, <2>2, SharedMoves
    <3> QED
      BY <1>1, <3>1, MoveTypes DEF TypeOK, At
  <2> QED
    BY <2>1, <2>2
<1> QED
  BY <1>2, <1>3, <1>4, EnvironmentMoves DEF Next

\* The variables keep their types (schema.prisma, model BackupRun), whatever fails.
THEOREM TypeCorrect == Spec => []TypeOK
<1>1. TypeInv => TypeOK
  BY DEF TypeInv
<1> QED
  BY <1>1, TypeInit, TypeStep, PTL DEF Spec

-----------------------------------------------------------------------------
(* One automatic run at a time *)

\* Each worker process has one tick at a time and a pool of its own.
OneTickPerWorker == \A t, u \in Ticks : t # u => Pool[t] \intersect Pool[u] = {}

\* A tick in the section holds the lock, by a connection of its process.
HoldsLock(t) == task[t].pc \in Section => lock.conn \in Pool[t]

\* The look at the recent runs is still right when the row is created.
LookIsCurrent(t) == At(t, "create") => RecentRunning = {}

OverlapInv ==
  /\ TypeInv
  /\ \A t \in Ticks : HoldsLock(t) /\ LookIsCurrent(t)
  /\ NoOverlap

\* There is no overlap while at most one recent automatic run is RUNNING.
LEMMA OverlapOfRecent == NoOverlap <=> \A i, j \in RecentRunning : i = j
BY DEF NoOverlap, RecentRunning

\* A connection of one process holds the lock for no tick of another.
LEMMA AloneInSection ==
  ASSUME OverlapInv, OneTickPerWorker, NEW t \in Ticks, lock.conn \in Pool[t],
         NEW u \in Ticks \ {t}
  PROVE  task[u].pc \notin Section
BY DEF OverlapInv, HoldsLock, OneTickPerWorker

\* No connection is not a connection of a pool.
LEMMA PoolFacts ==
  ASSUME NEW t \in Ticks
  PROVE  Pool[t] \subseteq Conns /\ NoConn \notin Pool[t] /\ t \in Tasks
BY BackupsAssumption DEF Tasks

\* The overlap holds at first.
LEMMA OverlapInit == Init => OverlapInv
<1> SUFFICES ASSUME Init PROVE OverlapInv
  OBVIOUS
<1>1. RecentRunning = {}
  BY DefaultTypes DEF Init, RecentRunning, AutomaticRows, Listed, Exists
<1>2. \A t \in Ticks : task[t].pc = "idle"
  BY DefaultTypes, PoolFacts DEF Init
<1> QED
  BY <1>1, <1>2, TypeInit, OverlapOfRecent DEF OverlapInv, HoldsLock, LookIsCurrent, Section, At

\* A step that starts no automatic run, leaves the lock alone and takes no tick further
\* into the section keeps the ticks apart.
LEMMA OverlapKept ==
  ASSUME OverlapInv, TypeInv', lock' = lock, RecentRunning' \subseteq RecentRunning,
         \A u \in Ticks : \/ task'[u] = task[u]
                          \/ /\ task'[u].pc \in Section => task[u].pc \in Section
                             /\ task'[u].pc # "create"
  PROVE  OverlapInv'
<1>1. NoOverlap'
  <2>1. \A i, j \in RecentRunning' : i = j
    BY OverlapOfRecent DEF OverlapInv
  <2> QED
    BY <2>1 DEF NoOverlap, RecentRunning
<1>2. ASSUME NEW u \in Ticks PROVE HoldsLock(u)' /\ LookIsCurrent(u)'
  BY DEF OverlapInv, HoldsLock, LookIsCurrent, At
<1> QED
  BY <1>1, <1>2 DEF OverlapInv

\* Whoever takes the lock finds no other tick in the section.
LEMMA TakeKeepsApart ==
  ASSUME OverlapInv, TypeInv', OneTickPerWorker, NEW t \in Ticks, TryLock(t)
  PROVE  OverlapInv'
<1>1. Moves(t) /\ run' = run
  BY TickMoves DEF OverlapInv, TickStep
<1>2. RecentRunning' = RecentRunning
  BY <1>1 DEF RecentRunning, AutomaticRows, Listed, Exists
<1>3. task \in [Tasks -> Task] /\ t \in Tasks /\ lock \in Lock
  BY PoolFacts DEF OverlapInv, TypeInv, TypeOK
<1>4. PICK c \in Pool[t] :
        \/ /\ lock.conn \in {NoConn, c} /\ lock' = [conn |-> c, depth |-> lock.depth + 1]
           /\ Goto(t, "recent")
        \/ End(t) /\ lock' = lock
  BY DEF TryLock
<1>5. CASE End(t) /\ lock' = lock
  <2>1. task'[t].pc = "idle"
    BY <1>3, <1>5, EndType
  <2> QED
    BY <1>1, <1>2, <1>5, <2>1, OverlapKept, PoolFacts DEF Moves, Section
<1>6. CASE /\ lock.conn \in {NoConn, c} /\ lock' = [conn |-> c, depth |-> lock.depth + 1]
           /\ Goto(t, "recent")
  <2>1. task'[t].pc = "recent" /\ lock'.conn = c
    BY <1>3, <1>6, GotoType DEF Pcs
  <2>2. ASSUME NEW u \in Ticks \ {t}, task[u].pc \in Section PROVE FALSE
    <3>1. lock.conn \in Pool[u]
      BY <2>2 DEF OverlapInv, HoldsLock
    <3>2. lock.conn = c
      BY <1>6, <3>1, PoolFacts
    <3> QED
      BY <1>4, <2>2, <3>2, AloneInSection
  <2>3. ASSUME NEW u \in Ticks PROVE HoldsLock(u)' /\ LookIsCurrent(u)'
    <3>1. CASE u = t
      BY <1>4, <2>1, <3>1 DEF HoldsLock, LookIsCurrent, At
    <3>2. CASE u # t
      <4>1. task'[u] = task[u] /\ task[u].pc \notin Section
        BY <1>1, <2>2, <3>2, PoolFacts DEF Moves
      <4> QED
        BY <4>1 DEF HoldsLock, LookIsCurrent, At, Section
    <3> QED
      BY <3>1, <3>2
  <2>4. NoOverlap'
    BY <1>1 DEF OverlapInv, NoOverlap, AutomaticRows, Listed, Exists
  <2> QED
    BY <2>3, <2>4 DEF OverlapInv
<1> QED
  BY <1>4, <1>5, <1>6

\* The tick that holds the lock looks at the recent runs.
LEMMA LookKeepsApart ==
  ASSUME OverlapInv, TypeInv', NEW t \in Ticks, CheckRecent(t)
  PROVE  OverlapInv'
<1>1. Moves(t) /\ run' = run /\ lock' = lock
  BY TickMoves DEF OverlapInv, TickStep, CheckRecent
<1>2. RecentRunning' = RecentRunning
  BY <1>1 DEF RecentRunning, AutomaticRows, Listed, Exists
<1>3. task \in [Tasks -> Task] /\ t \in Tasks
  BY PoolFacts DEF OverlapInv, TypeInv, TypeOK
<1>4. At(t, "recent") /\ Goto(t, IF RecentRunning = {} THEN "create" ELSE "release")
  BY DEF CheckRecent
<1>5. \/ task'[t].pc = "release"
      \/ task'[t].pc = "create" /\ RecentRunning = {}
  BY <1>3, <1>4, GotoType DEF Pcs
<1>6. ASSUME NEW u \in Ticks PROVE HoldsLock(u)' /\ LookIsCurrent(u)'
  <2>1. CASE u = t
    BY <1>1, <1>2, <1>4, <1>5, <2>1 DEF OverlapInv, HoldsLock, LookIsCurrent, At, Section
  <2>2. CASE u # t
    BY <1>1, <1>2, <2>2, PoolFacts DEF Moves, OverlapInv, HoldsLock, LookIsCurrent, At
  <2> QED
    BY <2>1, <2>2
<1>7. NoOverlap'
  BY <1>1 DEF OverlapInv, NoOverlap, AutomaticRows, Listed, Exists
<1> QED
  BY <1>6, <1>7 DEF OverlapInv

\* The tick that holds the lock gives it back, or leaves it with a connection.
LEMMA ReleaseKeepsApart ==
  ASSUME OverlapInv, TypeInv', OneTickPerWorker, NEW t \in Ticks, Release(t)
  PROVE  OverlapInv'
<1>1. Moves(t) /\ run' = run
  BY TickMoves DEF OverlapInv, TickStep
<1>2. RecentRunning' = RecentRunning
  BY <1>1 DEF RecentRunning, AutomaticRows, Listed, Exists
<1>3. task \in [Tasks -> Task] /\ t \in Tasks
  BY PoolFacts DEF OverlapInv, TypeInv, TypeOK
<1>4. task'[t].pc \in {"idle", "latest"}
  BY <1>3, GotoType, EndType DEF Release, AfterRelease, Pcs
<1>5. lock.conn \in Pool[t]
  BY DEF OverlapInv, HoldsLock, Release, At, Section
<1>6. ASSUME NEW u \in Ticks PROVE HoldsLock(u)' /\ LookIsCurrent(u)'
  <2>1. CASE u = t
    BY <1>4, <2>1 DEF HoldsLock, LookIsCurrent, At, Section
  <2>2. CASE u # t
    <3>1. task'[u] = task[u] /\ task[u].pc \notin Section
      BY <1>1, <1>5, <2>2, AloneInSection, PoolFacts DEF Moves
    <3> QED
      BY <3>1 DEF HoldsLock, LookIsCurrent, At, Section
  <2> QED
    BY <2>1, <2>2
<1>7. NoOverlap'
  BY <1>1 DEF OverlapInv, NoOverlap, AutomaticRows, Listed, Exists
<1> QED
  BY <1>6, <1>7 DEF OverlapInv

\* The tick that holds the lock starts the only recent run; a request starts none.
LEMMA CreateKeepsApart ==
  ASSUME OverlapInv, TypeInv', OneTickPerWorker, NEW t \in Tasks, CreateRow(t)
  PROVE  OverlapInv'
<1>1. /\ Moves(t) /\ At(t, "create") /\ At(t, "write")'
      /\ RecentRunning' \subseteq RecentRunning \union {task'[t].row}
      /\ t \in Requests => RecentRunning' \subseteq RecentRunning
  BY CreateMoves DEF OverlapInv
<1>2. lock' = lock
  BY DEF CreateRow
<1>3. CASE t \in Requests
  <2>1. \A u \in Ticks : task'[u] = task[u]
    BY <1>1, <1>3, BackupsAssumption DEF Moves, Tasks
  <2> QED
    BY <1>1, <1>2, <1>3, <2>1, OverlapKept
<1>4. CASE t \in Ticks
  <2>1. RecentRunning = {} /\ lock.conn \in Pool[t]
    BY <1>1, <1>4 DEF OverlapInv, LookIsCurrent, HoldsLock, At, Section
  <2>2. NoOverlap'
    <3>1. \A i, j \in RecentRunning' : i = j
      BY <1>1, <2>1
    <3> QED
      BY <3>1 DEF NoOverlap, RecentRunning
  <2>3. ASSUME NEW u \in Ticks PROVE HoldsLock(u)' /\ LookIsCurrent(u)'
    <3>1. CASE u = t
      BY <1>1, <1>2, <2>1, <3>1 DEF HoldsLock, LookIsCurrent, At
    <3>2. CASE u # t
      <4>1. task'[u] = task[u] /\ task[u].pc \notin Section
        BY <1>1, <1>4, <2>1, <3>2, AloneInSection, PoolFacts DEF Moves
      <4> QED
        BY <4>1 DEF HoldsLock, LookIsCurrent, At, Section
    <3> QED
      BY <3>1, <3>2
  <2> QED
    BY <2>2, <2>3 DEF OverlapInv
<1> QED
  BY <1>3, <1>4 DEF Tasks

\* A crash idles the ticks of one process and frees the lock if it was theirs.
LEMMA CrashKeepsApart ==
  ASSUME OverlapInv, TypeInv', OneTickPerWorker, NEW t \in Ticks, WorkerCrash(Pool[t])
  PROVE  OverlapInv'
<1>1. run' = run /\ lock' = FreedBy(Pool[t])
  BY DEF WorkerCrash
<1>2. RecentRunning' = RecentRunning
  BY <1>1 DEF RecentRunning, AutomaticRows, Listed, Exists
<1>3. \A u \in Ticks : task'[u] = IF Pool[u] = Pool[t] THEN Idle ELSE task[u]
  BY PoolFacts DEF WorkerCrash
<1>4. ASSUME NEW u \in Ticks PROVE HoldsLock(u)' /\ LookIsCurrent(u)'
  <2>1. CASE Pool[u] = Pool[t]
    BY <1>3, <2>1, DefaultTypes DEF HoldsLock, LookIsCurrent, At, Section
  <2>2. CASE Pool[u] # Pool[t]
    <3>1. task'[u] = task[u]
      BY <1>3, <2>2
    <3>2. LookIsCurrent(u)'
      BY <1>2, <3>1 DEF OverlapInv, LookIsCurrent, At
    <3>3. ASSUME task[u].pc \in Section PROVE lock' = lock
      <4>1. lock.conn \in Pool[u]
        BY <3>3 DEF OverlapInv, HoldsLock
      <4>2. lock.conn \notin Pool[t]
        BY <2>2, <4>1 DEF OneTickPerWorker
      <4> QED
        BY <1>1, <4>2 DEF FreedBy
    <3> QED
      BY <3>1, <3>2, <3>3 DEF OverlapInv, HoldsLock
  <2> QED
    BY <2>1, <2>2
<1>5. NoOverlap'
  BY <1>1 DEF OverlapInv, NoOverlap, AutomaticRows, Listed, Exists
<1> QED
  BY <1>4, <1>5 DEF OverlapInv

\* Retention goes on outside the section.
LEMMA RetentionPcs ==
  ASSUME TypeInv, NEW t \in Ticks,
         TickStart(t) \/ ReadLatest(t) \/ Plan(t) \/ ExpireNext(t) \/ TickEnds(t)
  PROVE  task'[t].pc \in {"lock", "plan", "expire", "mark", "idle"} /\ lock' = lock
<1>1. task \in [Tasks -> Task] /\ t \in Tasks /\ task[t] \in Task
  BY PoolFacts DEF TypeInv, TypeOK
<1>3. CASE TickStart(t)
  BY <1>1, <1>3 DEF TickStart, Idle
<1>4. CASE ReadLatest(t)
  <2>1. PICK i : task' = [task EXCEPT ![t] = [task[t] EXCEPT !.pc = "plan", !.latest = i]]
    BY <1>4 DEF ReadLatest
  <2>2. [task[t] EXCEPT !.pc = "plan", !.latest = i].pc = "plan"
    BY <1>1 DEF Task
  <2> QED
    BY <1>1, <1>4, <2>1, <2>2 DEF ReadLatest
<1>5. CASE Plan(t)
  BY <1>1, <1>5 DEF Plan, Task
<1>6. CASE ExpireNext(t)
  <2>1. PICK i : task' = [task EXCEPT ![t] = [task[t] EXCEPT !.pc = "mark", !.row = i, !.todo = @ \ {i}]]
    BY <1>6 DEF ExpireNext
  <2>2. [task[t] EXCEPT !.pc = "mark", !.row = i, !.todo = @ \ {i}].pc = "mark"
    BY <1>1 DEF Task
  <2> QED
    BY <1>1, <1>6, <2>1, <2>2 DEF ExpireNext
<1>7. CASE TickEnds(t)
  BY <1>1, <1>7, EndType DEF TickEnds
<1> QED
  BY <1>3, <1>4, <1>5, <1>6, <1>7

\* Each step keeps the automatic runs apart while statements about the lock succeed and
\* connections last.
LEMMA OverlapStep ==
  ASSUME OneTickPerWorker, "lock" \notin Faults, "disconnect" \notin Faults
  PROVE  OverlapInv /\ [Next]_vars => OverlapInv'
<1> SUFFICES ASSUME OverlapInv, [Next]_vars PROVE OverlapInv'
  OBVIOUS
<1>1. TypeInv /\ TypeInv'
  BY TypeStep DEF OverlapInv
<1>2. ASSUME NEW t \in Ticks,
             TickStart(t) \/ TickStep(t) \/ TryLockFails(t) \/ ReleaseFails(t)
      PROVE  OverlapInv'
  <2>1. ~TryLockFails(t) /\ ~ReleaseFails(t)
    BY DEF TryLockFails, ReleaseFails, Fault
  <2>2. CASE TickStart(t) \/ ReadLatest(t) \/ Plan(t) \/ ExpireNext(t) \/ TickEnds(t)
    <3>1. Moves(t) /\ run' = run
      BY <1>1, <2>2, TickMoves DEF TickStep
    <3>2. RecentRunning' = RecentRunning
      BY <3>1 DEF RecentRunning, AutomaticRows, Listed, Exists
    <3>3. task'[t].pc \in {"lock", "plan", "expire", "mark", "idle"} /\ lock' = lock
      BY <1>1, <2>2, RetentionPcs
    <3> QED
      BY <1>1, <3>1, <3>2, <3>3, OverlapKept, PoolFacts DEF Moves, Section
  <2> QED
    BY <1>1, <1>2, <2>1, <2>2, TakeKeepsApart, LookKeepsApart, ReleaseKeepsApart DEF TickStep
<1>3. ASSUME NEW t \in Requests,
             RunStarts(t) \/ DeleteReads(t) \/ ProtectReads(t) \/ ListFiles(t) \/ RequestStep(t)
      PROVE  OverlapInv'
  <2>1. Moves(t) /\ RecentRunning' \subseteq RecentRunning /\ lock' = lock
    BY <1>1, <1>3, RequestMoves
  <2>2. \A u \in Ticks : task'[u] = task[u]
    BY <2>1, BackupsAssumption DEF Moves, Tasks
  <2> QED
    BY <1>1, <2>1, <2>2, OverlapKept
<1>4. ASSUME NEW t \in Tasks, SharedStep(t) \/ TaskFails(t) PROVE OverlapInv'
  <2>1. CASE ~CreateRow(t)
    <3>1. /\ Moves(t) /\ RecentRunning' \subseteq RecentRunning /\ lock' = lock
          /\ task'[t].pc \in Section => task[t].pc \in Section
          /\ task'[t].pc # "create"
      BY <1>1, <1>4, <2>1, SharedMoves
    <3> QED
      BY <1>1, <3>1, OverlapKept, PoolFacts DEF Moves
  <2> QED
    BY <1>1, <2>1, CreateKeepsApart
<1>5. CASE \E t \in Ticks : WorkerCrash(Pool[t])
  BY <1>1, <1>5, CrashKeepsApart
<1>6. CASE NextSlot \/ (\E i \in Rows : GetsOld(i)) \/ ApiCrash \/ UNCHANGED vars
  <2>1. /\ RecentRunning' \subseteq RecentRunning
        /\ \A t \in Tasks : task'[t] = task[t] \/ task'[t] = Idle
    BY <1>1, <1>6, EnvironmentMoves
  <2>2. lock' = lock
    BY <1>6 DEF NextSlot, GetsOld, ApiCrash, vars
  <2> QED
    BY <1>1, <2>1, <2>2, OverlapKept, PoolFacts, DefaultTypes DEF Section
<1>7. ~\E c \in Conns : ConnectionCloses(c)
  BY DEF ConnectionCloses, Fault
<1> QED
  BY <1>2, <1>3, <1>4, <1>5, <1>6, <1>7 DEF Next

\* Two automatic runs are never in progress at once, for any number of workers, whose pools
\* may have any size, whatever crashes: the lock is held from the look at the recent runs to
\* the end of the run (backups.service.ts:279-295).  A worker has one tick at a time and a
\* statement about the lock succeeds, since an error counts as holding it.
THEOREM RunsDoNotOverlap ==
  ASSUME OneTickPerWorker, "lock" \notin Faults, "disconnect" \notin Faults
  PROVE  Spec => []NoOverlap
<1>1. OverlapInv => NoOverlap
  BY DEF OverlapInv
<1>2. OverlapInv /\ [Next]_vars => OverlapInv'
  BY OverlapStep
<1> QED
  BY <1>1, <1>2, OverlapInit, PTL DEF Spec

-----------------------------------------------------------------------------
(* What the catalog of backups shows *)

\* A completion is stamped after the artifact, and no two stamps are the same; an artifact
\* on disk is listed, if no row names it, under the stamp of the artifact.
LegacyRows == {Legacy(r) : r \in {x \in Runs : made[x] # 0}}

TaskStamps(t) ==
  /\ At(t, "write") => made[File(task[t].row)] = 0 /\ ended[File(task[t].row)] = 0
  /\ At(t, "stamp") => ended[File(task[t].row)] = 0
  /\ At(t, "complete") => ended[File(task[t].row)] # 0
  /\ task[t].pc = "adopt" => task[t].todo \subseteq LegacyRows
  /\ task[t].pc = "insert" => task[t].row \in LegacyRows /\ task[t].todo \subseteq LegacyRows

RowStamps ==
  /\ \A i \in Rows : /\ ~Exists(i) => run[i].at = 0 /\ ~run[i].deleted
                     /\ run[i].status = "RUNNING" => ~run[i].deleted /\ run[i].at = 0
                     /\ Successful(i) => run[i].at # 0
                     /\ run[i].status = "FAILED" => run[i].at = 0
  /\ \A r \in Runs : /\ run[Own(r)].at # 0 => run[Own(r)].at = ended[r]
                     /\ run[Legacy(r)].at # 0 => run[Legacy(r)].at = made[r]
                     /\ Exists(Own(r)) \/ (made[r] = 0 /\ ended[r] = 0)
                     /\ r \in files => made[r] # 0
                     /\ made[r] <= clock /\ ended[r] <= clock
  /\ \A r, s \in Runs : /\ ended[r] # 0 => ended[r] # made[s]
                        /\ r # s /\ made[r] # 0 => made[r] # made[s]
                        /\ r # s /\ ended[r] # 0 => ended[r] # ended[s]
  /\ clock <= MaxStamp

StampInv == (\A t \in Tasks : TaskStamps(t)) /\ RowStamps

\* What holds in every reachable state.
CInv == IInv /\ StampInv

Listing == {"write", "stamp", "complete", "adopt", "insert"}

\* The row shows the same in the catalog after the step.
SameRow(i) ==
  run'[i].status = run[i].status /\ run'[i].at = run[i].at /\ run'[i].deleted = run[i].deleted

\* A step that changes no row, artifact or moment that the catalog shows, and
\* after which no task that moved goes on to write one.
Quiet ==
  /\ made' = made /\ ended' = ended /\ clock' = clock /\ files' \subseteq files
  /\ \A i \in Rows : SameRow(i)
  /\ \A u \in Tasks : task'[u] = task[u] \/ task'[u].pc \notin Listing

-----------------------------------------------------------------------------
(* The catalog *)

\* The state of an entry, by the status of its row and whether it is retired.
LEMMA StateOf ==
  ASSUME TypeOK, NEW i \in Rows
  PROVE  /\ run[i].status = "none" => CatalogState(i) = "absent"
         /\ run[i].status # "none" /\ run[i].deleted => CatalogState(i) = "retired"
         /\ run[i].status = "RUNNING" /\ ~run[i].deleted => CatalogState(i) = "running"
         /\ run[i].status = "COMPLETED" /\ ~run[i].deleted => CatalogState(i) = "completed"
         /\ run[i].status = "FAILED" /\ ~run[i].deleted => CatalogState(i) = "failed"
<1>1. run[i].status \in {"none", "RUNNING", "COMPLETED", "FAILED"} /\ run[i].deleted \in BOOLEAN
  BY DEF TypeOK, Row
<1> QED
  BY <1>1 DEF CatalogState, ShownAs, Exists

\* An entry is completed in the catalog exactly if its row is listed and successful.
LEMMA CompletedState ==
  ASSUME TypeOK, NEW i \in Rows
  PROVE  CatalogState(i) = "completed" <=> Listed(i) /\ Successful(i)
<1>1. run[i].status \in {"none", "RUNNING", "COMPLETED", "FAILED"} /\ run[i].deleted \in BOOLEAN
  BY DEF TypeOK, Row
<1> QED
  BY <1>1 DEF CatalogState, ShownAs, Exists, Listed, Successful

\* A row that stays the same has the same state.
LEMMA SameState ==
  ASSUME NEW i \in Rows, SameRow(i)
  PROVE  CatalogState(i)' = CatalogState(i)
BY DEF SameRow, CatalogState, ShownAs, Exists

\* The catalog changes where a row does.
LEMMA CatalogChange ==
  ASSUME NEW i \in Rows, \A j \in Rows \ {i} : SameRow(j)
  PROVE  catalog' = [catalog EXCEPT ![i] = [state |-> CatalogState(i)', at |-> run'[i].at]]
BY SameState DEF catalog, SameRow

\* A quiet step leaves the catalog as it is.
LEMMA QuietCatalog ==
  ASSUME Quiet
  PROVE  catalog' = catalog
BY SameState DEF Quiet, catalog, SameRow

-----------------------------------------------------------------------------
(* Stamps *)

\* What is known of the stamps of rows depends on what the catalog shows of them.
LEMMA SameRowStamps ==
  ASSUME CInv,
         made' = made /\ ended' = ended, clock' = clock, files' \subseteq files, \A i \in Rows : SameRow(i)
  PROVE  RowStamps'
<1>1. RowStamps
  BY DEF CInv, StampInv
<1>2. \A i \in Rows : /\ ~Exists(i)' => run'[i].at = 0 /\ ~run'[i].deleted
                      /\ run'[i].status = "RUNNING" => ~run'[i].deleted /\ run'[i].at = 0
                      /\ Successful(i)' => run'[i].at # 0
                      /\ run'[i].status = "FAILED" => run'[i].at = 0
  BY <1>1 DEF RowStamps, SameRow, Exists, Successful
<1>3. ASSUME NEW r \in Runs
      PROVE  /\ run'[Own(r)].at # 0 => run'[Own(r)].at = ended'[r]
             /\ run'[Legacy(r)].at # 0 => run'[Legacy(r)].at = made'[r]
             /\ Exists(Own(r))' \/ (made'[r] = 0 /\ ended'[r] = 0)
             /\ r \in files' => made'[r] # 0
             /\ made'[r] <= clock' /\ ended'[r] <= clock'
  <2>1. SameRow(Own(r)) /\ SameRow(Legacy(r))
    BY RowFacts
  <2> QED
    BY <1>1, <2>1 DEF RowStamps, SameRow, Exists
<1>4. /\ \A r, s \in Runs : /\ ended'[r] # 0 => ended'[r] # made'[s]
                            /\ r # s /\ made'[r] # 0 => made'[r] # made'[s]
                            /\ r # s /\ ended'[r] # 0 => ended'[r] # ended'[s]
      /\ clock' <= MaxStamp
  BY <1>1 DEF RowStamps
<1> QED
  BY <1>2, <1>3, <1>4 DEF RowStamps

\* A task that does not move knows of the stamps what it knew.
LEMMA SameTaskStamps ==
  ASSUME CInv, made' = made /\ ended' = ended, NEW u \in Tasks, task'[u] = task[u]
  PROVE  TaskStamps(u)'
<1>1. TaskStamps(u) /\ LegacyRows' = LegacyRows
  BY DEF CInv, StampInv, LegacyRows
<1> QED
  BY <1>1 DEF TaskStamps, At

\* A task that goes on without writing need not know of them.
LEMMA NoTaskStamps ==
  ASSUME NEW u \in Tasks, task'[u].pc \notin Listing
  PROVE  TaskStamps(u)'
BY DEF TaskStamps, At, Listing

\* A quiet step keeps what is known of the stamps.
LEMMA QuietStamps ==
  ASSUME CInv, Quiet
  PROVE  StampInv'
BY SameRowStamps, SameTaskStamps, NoTaskStamps DEF Quiet, StampInv

-----------------------------------------------------------------------------
(* The steps that the catalog does not show *)

\* The step of a task that leaves the rows alone and does not go on to write.
LEMMA QuietMove ==
  ASSUME NEW t \in Tasks, run' = run,
         made' = made /\ ended' = ended, clock' = clock, files' \subseteq files,
         \A u \in Tasks \ {t} : task'[u] = task[u], task'[t].pc \notin Listing
  PROVE  Quiet
BY DEF Quiet, SameRow

\* The step of a task that moves on, ends or returns.
LEMMA QuietGoto ==
  ASSUME TypeOK, NEW t \in Tasks, run' = run,
         made' = made /\ ended' = ended, clock' = clock, files' \subseteq files,
         \/ \E pc \in Pcs \ Listing : Goto(t, pc)
         \/ End(t)
         \/ \E ran \in BOOLEAN : Returned(t, ran)
  PROVE  Quiet
<1>1. task \in [Tasks -> Task]
  BY DEF TypeOK
<1>2. CASE \E pc \in Pcs \ Listing : Goto(t, pc)
  BY <1>1, <1>2, GotoType, QuietMove
<1>3. CASE End(t)
  BY <1>1, <1>3, EndType, QuietMove DEF Listing
<1>4. CASE t \in Ticks /\ \E ran \in BOOLEAN : Returned(t, ran)
  <2>1. PICK ran \in BOOLEAN : task' = [task EXCEPT ![t] = [task[t] EXCEPT !.pc = "release", !.ran = ran]]
    BY <1>4 DEF Returned
  <2>2. task'[t].pc = "release" /\ \A u \in Tasks \ {t} : task'[u] = task[u]
    BY <1>1, <2>1 DEF Task
  <2> QED
    BY <2>2, QuietMove DEF Listing
<1> QED
  BY <1>2, <1>3, <1>4 DEF Returned

\* The step of a request that begins something else than a listing.
LEMMA QuietBegin ==
  ASSUME TypeOK, NEW t \in Requests, NEW op, NEW r \in Task, Begin(t, op, r), r.pc \notin Listing,
         run' = run, made' = made /\ ended' = ended, clock' = clock, files' = files
  PROVE  Quiet
BY BeginType, QuietMove DEF TypeOK

\* The steps of ticks around a backup are quiet.
LEMMA TickQuiet ==
  ASSUME TypeOK, NEW t \in Ticks,
         \/ TickStart(t) \/ TryLock(t) \/ TryLockFails(t) \/ CheckRecent(t) \/ Release(t)
         \/ ReleaseFails(t) \/ ReadLatest(t) \/ Plan(t) \/ ExpireNext(t) \/ TickEnds(t)
  PROVE  Quiet
<1>1. t \in Tasks /\ task \in [Tasks -> Task] /\ task[t] \in Task
  BY DEF Tasks, TypeOK
<1>2. run' = run /\ made' = made /\ ended' = ended /\ clock' = clock /\ files' \subseteq files
  BY DEF TickStart, TryLock, TryLockFails, CheckRecent, Release, ReleaseFails, ReadLatest, Plan,
         ExpireNext, Unlinked, TickEnds
<1>3. CASE TickStart(t)
  BY <1>1, <1>2, <1>3, QuietMove DEF TickStart, Idle, Listing
<1>4. CASE TryLock(t) \/ TryLockFails(t)
  <2>1. Goto(t, "recent") \/ End(t)
    BY <1>4 DEF TryLock, TryLockFails
  <2> QED
    BY <1>1, <1>2, <2>1, QuietGoto DEF Pcs, Listing
<1>5. CASE CheckRecent(t) \/ Release(t) \/ ReleaseFails(t) \/ TickEnds(t)
  <2>1. Goto(t, "create") \/ Goto(t, "release") \/ Goto(t, "latest") \/ End(t)
    BY <1>5 DEF CheckRecent, Release, ReleaseFails, AfterRelease, TickEnds
  <2> QED
    BY <1>1, <1>2, <2>1, QuietGoto DEF Pcs, Listing
<1>6. CASE ReadLatest(t)
  <2>1. \E i : task' = [task EXCEPT ![t] = [task[t] EXCEPT !.pc = "plan", !.latest = i]]
    BY <1>6 DEF ReadLatest
  <2>2. task'[t].pc = "plan" /\ \A u \in Tasks \ {t} : task'[u] = task[u]
    BY <1>1, <2>1 DEF Task
  <2> QED
    BY <1>1, <1>2, <2>2, QuietMove DEF Listing
<1>7. CASE Plan(t)
  <2>1. \E todo : task' = [task EXCEPT ![t] = [task[t] EXCEPT !.pc = "expire", !.todo = todo]]
    BY <1>7 DEF Plan
  <2>2. task'[t].pc = "expire" /\ \A u \in Tasks \ {t} : task'[u] = task[u]
    BY <1>1, <2>1 DEF Task
  <2> QED
    BY <1>1, <1>2, <2>2, QuietMove DEF Listing
<1>8. CASE ExpireNext(t)
  <2>1. \E i : task' = [task EXCEPT ![t] = [task[t] EXCEPT !.pc = "mark", !.row = i, !.todo = @ \ {i}]]
    BY <1>8 DEF ExpireNext
  <2>2. task'[t].pc = "mark" /\ \A u \in Tasks \ {t} : task'[u] = task[u]
    BY <1>1, <2>1 DEF Task
  <2> QED
    BY <1>1, <1>2, <2>2, QuietMove DEF Listing
<1> QED
  BY <1>3, <1>4, <1>5, <1>6, <1>7, <1>8

\* The steps of requests that change no row, and the failures, are quiet.
LEMMA RequestQuiet ==
  ASSUME TypeOK, NEW t \in Tasks,
         \/ t \in Requests /\ (RunStarts(t) \/ DeleteReads(t) \/ ProtectReads(t))
         \/ CheckLatest(t) \/ Unlink(t) \/ HistoryEnds(t)
         \/ Audit(t) \/ BackupFails(t) \/ ThrowsOut(t) \/ MarkRetiredFails(t)
  PROVE  Quiet
<1>1. run' = run /\ made' = made /\ ended' = ended /\ clock' = clock /\ files' \subseteq files
  BY DEF RunStarts, DeleteReads, ProtectReads, CheckLatest, Unlink, Unlinked, HistoryEnds,
         Audit, BackupFails, ThrowsOut, MarkRetiredFails
<1>2. CASE t \in Requests /\ (RunStarts(t) \/ DeleteReads(t) \/ ProtectReads(t))
  <2>1. files' = files
    BY <1>2 DEF RunStarts, DeleteReads, ProtectReads
  <2>2. CASE RunStarts(t)
    <3>1. [Idle EXCEPT !.pc = "create"] \in Task /\ [Idle EXCEPT !.pc = "create"].pc = "create"
      BY DEF Idle, Task
    <3> QED
      BY <1>1, <1>2, <2>1, <2>2, <3>1, QuietBegin DEF RunStarts, Listing
  <2>3. CASE DeleteReads(t)
    <3>1. PICK i \in Rows : Begin(t, "delete", [Idle EXCEPT !.pc = "check", !.row = i])
      BY <2>3 DEF DeleteReads
    <3>2. [Idle EXCEPT !.pc = "check", !.row = i] \in Task
          /\ [Idle EXCEPT !.pc = "check", !.row = i].pc = "check"
      BY DEF Idle, Task
    <3> QED
      BY <1>1, <1>2, <2>1, <3>1, <3>2, QuietBegin DEF Listing
  <2>4. CASE ProtectReads(t)
    <3>1. PICK op \in {"protect", "unprotect"}, i \in Rows :
            Begin(t, op, [Idle EXCEPT !.pc = "update", !.row = i])
      BY <2>4 DEF ProtectReads
    <3>2. [Idle EXCEPT !.pc = "update", !.row = i] \in Task
          /\ [Idle EXCEPT !.pc = "update", !.row = i].pc = "update"
      BY DEF Idle, Task
    <3> QED
      BY <1>1, <1>2, <2>1, <3>1, <3>2, QuietBegin DEF Listing
  <2> QED
    BY <1>2, <2>2, <2>3, <2>4
<1>3. CASE CheckLatest(t) \/ Unlink(t) \/ HistoryEnds(t) \/ BackupFails(t) \/ MarkRetiredFails(t)
  <2>1. Goto(t, "unlink") \/ Goto(t, "mark") \/ Goto(t, "fail") \/ Goto(t, "expire") \/ End(t)
    BY <1>3 DEF CheckLatest, Unlink, HistoryEnds, BackupFails, MarkRetiredFails, AfterMark
  <2> QED
    BY <1>1, <2>1, QuietGoto DEF Pcs, Listing
<1>4. CASE Audit(t) \/ ThrowsOut(t)
  <2>1. \E ran \in BOOLEAN : Returned(t, ran)
    BY <1>4 DEF Audit, ThrowsOut
  <2> QED
    BY <1>1, <2>1, QuietGoto
<1> QED
  BY <1>2, <1>3, <1>4

\* Protection, age, time, crashes and lost connections are not shown.
LEMMA RestQuiet ==
  ASSUME TypeOK,
         \/ \E t \in Tasks : SetProtected(t) /\ task[t].row \in Rows
         \/ \E i \in Rows : GetsOld(i)
         \/ NextSlot \/ ApiCrash \/ (\E t \in Ticks : WorkerCrash(Pool[t]))
         \/ (\E c \in Conns : ConnectionCloses(c)) \/ UNCHANGED vars
  PROVE  Quiet
<1>1. CASE \E t \in Tasks : SetProtected(t) /\ task[t].row \in Rows
  <2>1. PICK t \in Tasks : SetProtected(t) /\ task[t].row \in Rows
    BY <1>1
  <2> DEFINE i == task[t].row
             row == [run[i] EXCEPT !.prot = task[t].op = "protect"]
  <2>2. row.status = run[i].status /\ row.at = run[i].at /\ row.deleted = run[i].deleted
    BY <2>1 DEF TypeOK, Row
  <2>3. run' = [run EXCEPT ![i] = row]
    BY <2>1 DEF SetProtected, Set
  <2> HIDE DEF row
  <2>4. \A j \in Rows : SameRow(j)
    BY <2>1, <2>2, <2>3 DEF TypeOK, SameRow
  <2>5. task'[t].pc = "idle" /\ \A u \in Tasks \ {t} : task'[u] = task[u]
    BY <2>1, EndType DEF SetProtected, TypeOK
  <2> QED
    BY <2>1, <2>4, <2>5 DEF Quiet, SetProtected, Listing
<1>2. CASE \E i \in Rows : GetsOld(i)
  <2>1. PICK i \in Rows : GetsOld(i)
    BY <1>2
  <2> DEFINE row == [run[i] EXCEPT !.old = TRUE]
  <2>2. row.status = run[i].status /\ row.at = run[i].at /\ row.deleted = run[i].deleted
    BY DEF TypeOK, Row
  <2>3. run' = [run EXCEPT ![i] = row]
    BY <2>1 DEF GetsOld, Set
  <2> HIDE DEF row
  <2>4. \A j \in Rows : SameRow(j)
    BY <2>2, <2>3 DEF TypeOK, SameRow
  <2> QED
    BY <2>1, <2>4 DEF Quiet, GetsOld
<1>3. CASE ApiCrash \/ \E t \in Ticks : WorkerCrash(Pool[t])
  <2>1. run' = run /\ made' = made /\ ended' = ended /\ files' = files /\ clock' = clock
        /\ \A u \in Tasks : task'[u] = task[u] \/ task'[u] = Idle
    BY <1>3 DEF ApiCrash, WorkerCrash
  <2> QED
    BY <2>1, DefaultTypes DEF Quiet, SameRow, Listing
<1>4. CASE NextSlot \/ (\E c \in Conns : ConnectionCloses(c)) \/ UNCHANGED vars
  BY <1>4 DEF NextSlot, ConnectionCloses, vars, Quiet, SameRow
<1> QED
  BY <1>1, <1>2, <1>3, <1>4

-----------------------------------------------------------------------------
(* The listing of artifacts that no row names *)

\* A listing knows only artifacts that were made, in any step that leaves the
\* rows alone.
LEMMA ListingSteps ==
  ASSUME CInv, NEW t \in Requests, ListFiles(t) \/ ReadArtifact(t)
  PROVE  StampInv' /\ catalog' = catalog
<1>1. t \in Tasks /\ TypeOK /\ task[t] \in Task /\ TaskStamps(t) /\ RowStamps
  BY DEF Tasks, CInv, IInv, TypeOK, StampInv
<1>2. /\ run' = run /\ made' = made /\ ended' = ended /\ clock' = clock /\ files' = files
      /\ LegacyRows' = LegacyRows /\ \A i \in Rows : SameRow(i)
  BY DEF ListFiles, ReadArtifact, LegacyRows, SameRow
<1>3. /\ \A u \in Tasks \ {t} : task'[u] = task[u]
      /\ task'[t].pc \in {"adopt", "insert"} /\ task'[t].todo \subseteq LegacyRows
      /\ task'[t].pc = "insert" => task'[t].row \in LegacyRows
  <2>1. CASE ListFiles(t)
    <3> DEFINE todo == {Legacy(r) : r \in UnnamedFiles}
               next == [Idle EXCEPT !.pc = "adopt", !.todo = todo]
    <3>1. todo \subseteq LegacyRows /\ todo \subseteq Rows
      BY <1>1, RowFacts DEF UnnamedFiles, LegacyRows, RowStamps, TypeOK
    <3>2. next \in Task /\ next.pc = "adopt" /\ next.todo = todo
      BY <3>1 DEF Idle, Task
    <3>3. Begin(t, "history", next)
      BY <2>1 DEF ListFiles
    <3> HIDE DEF next
    <3> QED
      BY <1>1, <3>1, <3>2, <3>3, BeginType DEF TypeOK
  <2>2. CASE ReadArtifact(t)
    <3>1. PICK i \in task[t].todo, pc \in {"insert", "adopt"} :
            task' = [task EXCEPT ![t] = [task[t] EXCEPT !.todo = @ \ {i}, !.row = i, !.pc = pc]]
      BY ZenonT(60), <2>2 DEF ReadArtifact
    <3> DEFINE next == [task[t] EXCEPT !.todo = @ \ {i}, !.row = i, !.pc = pc]
    <3>2. task[t].todo \subseteq LegacyRows
      BY <1>1, <2>2 DEF ReadArtifact, At, TaskStamps
    <3>3. next.pc = pc /\ next.row = i /\ next.todo \subseteq LegacyRows
      BY <1>1, <3>2 DEF Task
    <3>4. task'[t] = next /\ \A u \in Tasks \ {t} : task'[u] = task[u]
      BY <1>1, <3>1 DEF TypeOK
    <3> QED
      BY <3>1, <3>2, <3>3, <3>4
  <2> QED
    BY <2>1, <2>2
<1>4. RowStamps'
  BY <1>2, SameRowStamps
<1>5. TaskStamps(t)'
  BY <1>2, <1>3 DEF TaskStamps, At
<1>6. \A u \in Tasks : TaskStamps(u)'
  BY <1>2, <1>3, <1>5, SameTaskStamps
<1>7. catalog' = catalog
  BY <1>2, SameState DEF catalog, SameRow
<1> QED
  BY <1>4, <1>6, <1>7 DEF StampInv

-----------------------------------------------------------------------------
(* The steps that the catalog shows *)

\* What is known of one row and one artifact.
LEMMA StampFacts ==
  ASSUME CInv
  PROVE  /\ TypeOK /\ RowStamps /\ \A u \in Tasks : TaskStamps(u)
         /\ \A i \in Rows : run[i] \in Row /\ run[i].at \in Nat
         /\ \A r \in Runs : made[r] \in Nat /\ ended[r] \in Nat
         /\ clock \in Nat /\ MaxStamp \in Nat
BY BackupsAssumption DEF CInv, IInv, StampInv, TypeOK, Row

\* No row is stamped with the end of a run but its own, and none with the making of an
\* artifact but the legacy one.
LEMMA StampsApart ==
  ASSUME CInv, NEW r \in Runs
  PROVE  /\ ended[r] # 0 /\ run[Own(r)].at = 0 =>
              ended[r] \in 1 .. MaxStamp /\ \A j \in Rows : run[j].at # ended[r]
         /\ made[r] # 0 /\ run[Legacy(r)].at = 0 =>
              made[r] \in 1 .. MaxStamp /\ \A j \in Rows : run[j].at # made[r]
<1>1. /\ RowStamps /\ clock \in Nat /\ MaxStamp \in Nat
      /\ made[r] \in Nat /\ ended[r] \in Nat
  BY StampFacts
<1>2. \A j \in Rows : \E x \in Runs : j = Own(x) \/ j = Legacy(x)
  BY DEF Rows, Own, Legacy
<1>3. ASSUME ended[r] # 0, run[Own(r)].at = 0, NEW x \in Runs
      PROVE  run[Own(x)].at # ended[r] /\ run[Legacy(x)].at # ended[r]
  BY <1>1, <1>3 DEF RowStamps
<1>4. ASSUME made[r] # 0, run[Legacy(r)].at = 0, NEW x \in Runs
      PROVE  run[Own(x)].at # made[r] /\ run[Legacy(x)].at # made[r]
  BY <1>1, <1>4 DEF RowStamps
<1>5. /\ made[r] # 0 => made[r] \in 1 .. MaxStamp
      /\ ended[r] # 0 => ended[r] \in 1 .. MaxStamp
  BY <1>1 DEF RowStamps
<1> QED
  BY <1>2, <1>3, <1>4, <1>5

\* A step that writes one row, of a run whose artifact is known, keeps what is
\* known of the stamps.
LEMMA RowStamped ==
  ASSUME CInv, NEW i \in Rows, NEW row \in Row, Set(i, row),
         made' = made /\ ended' = ended, clock' = clock, files' \subseteq files,
         row.status # "none",
         row.status = "RUNNING" => ~row.deleted /\ row.at = 0,
         row.status = "COMPLETED" => row.at # 0,
         row.status = "FAILED" => row.at = 0,
         i = Own(File(i)) /\ row.at # 0 => row.at = ended[File(i)],
         i = Legacy(File(i)) /\ row.at # 0 => row.at = made[File(i)]
  PROVE  RowStamps'
<1>1. RowStamps /\ run'[i] = row /\ \A j \in Rows \ {i} : run'[j] = run[j]
  BY SetType, StampFacts DEF TypeOK
<1>2. ASSUME NEW j \in Rows
      PROVE  /\ ~Exists(j)' => run'[j].at = 0 /\ ~run'[j].deleted
             /\ run'[j].status = "RUNNING" => ~run'[j].deleted /\ run'[j].at = 0
             /\ Successful(j)' => run'[j].at # 0
             /\ run'[j].status = "FAILED" => run'[j].at = 0
  <2>1. CASE j = i
    BY <1>1, <2>1 DEF Exists, Successful
  <2>2. CASE j # i
    BY <1>1, <2>2 DEF RowStamps, Exists, Successful
  <2> QED
    BY <2>1, <2>2
<1>3. ASSUME NEW r \in Runs
      PROVE  /\ run'[Own(r)].at # 0 => run'[Own(r)].at = ended'[r]
             /\ run'[Legacy(r)].at # 0 => run'[Legacy(r)].at = made'[r]
             /\ Exists(Own(r))' \/ (made'[r] = 0 /\ ended'[r] = 0)
             /\ r \in files' => made'[r] # 0
             /\ made'[r] <= clock' /\ ended'[r] <= clock'
  <2>1. Own(r) \in Rows /\ Legacy(r) \in Rows /\ File(Own(r)) = r /\ File(Legacy(r)) = r
    BY RowFacts
  <2>2. run'[Own(r)].at # 0 => run'[Own(r)].at = ended'[r]
    BY <1>1, <2>1 DEF RowStamps
  <2>3. run'[Legacy(r)].at # 0 => run'[Legacy(r)].at = made'[r]
    BY <1>1, <2>1 DEF RowStamps
  <2>4. Exists(Own(r))' \/ (made'[r] = 0 /\ ended'[r] = 0)
    BY <1>1, <2>1 DEF RowStamps, Exists
  <2>5. /\ r \in files' => made'[r] # 0
        /\ made'[r] <= clock' /\ ended'[r] <= clock'
    BY <1>1 DEF RowStamps
  <2> QED
    BY <2>2, <2>3, <2>4, <2>5
<1>4. /\ \A r, s \in Runs : /\ ended'[r] # 0 => ended'[r] # made'[s]
                            /\ r # s /\ made'[r] # 0 => made'[r] # made'[s]
                            /\ r # s /\ ended'[r] # 0 => ended'[r] # ended'[s]
      /\ clock' <= MaxStamp
  BY <1>1 DEF RowStamps
<1> QED
  BY <1>2, <1>3, <1>4 DEF RowStamps

\* The entry of a row, by its status.
LEMMA EntryOf ==
  ASSUME TypeOK, NEW i \in Rows
  PROVE  /\ catalog[i] = [state |-> CatalogState(i), at |-> run[i].at]
         /\ catalog[i].state = CatalogState(i) /\ catalog[i].at = run[i].at
BY DEF catalog

\* An entry changes its state.
LEMMA EntryBecomes ==
  ASSUME NEW i \in Rows, NEW from, NEW to, NEW at,
         catalog[i] = [state |-> from, at |-> at],
         catalog' = [catalog EXCEPT ![i] = [state |-> to, at |-> at]]
  PROVE  catalog[i].state = from /\ Catalog!Become(i, to)
<1>1. [[state |-> from, at |-> at] EXCEPT !.state = to] = [state |-> to, at |-> at]
  OBVIOUS
<1>2. catalog' = [catalog EXCEPT ![i] = [catalog[i] EXCEPT !.state = to]]
  BY <1>1
<1>3. catalog[i].state = from
  OBVIOUS
<1>4. Catalog!Become(i, to)
  BY <1>2 DEF Catalog!Become
<1> QED
  BY <1>3, <1>4

\* Only the entry of the row that is written changes.
LEMMA RowShown ==
  ASSUME CInv, NEW i \in Rows, NEW row \in Row, Set(i, row)
  PROVE  catalog' = [catalog EXCEPT ![i] = [state |-> CatalogState(i)', at |-> row.at]]
<1>1. run'[i] = row /\ \A j \in Rows \ {i} : run'[j] = run[j]
  BY SetType, StampFacts DEF TypeOK
<1>2. \A j \in Rows \ {i} : SameRow(j)
  BY <1>1 DEF SameRow
<1> QED
  BY <1>1, <1>2, CatalogChange

\* A created row begins an entry.
LEMMA CreateShown ==
  ASSUME CInv, NEW t \in Tasks, CreateRow(t)
  PROVE  StampInv' /\ [Catalog!Next]_catalog
<1>1. TypeOK /\ task[t] \in Task /\ slot \in Nat /\ RowStamps
  BY StampFacts DEF TypeOK
<1>2. PICK r \in Runs :
        /\ ~Exists(Own(r))
        /\ Set(Own(r), [Missing EXCEPT !.status = "RUNNING", !.auto = t \in Ticks, !.slot = slot])
        /\ task' = [task EXCEPT ![t] = [task[t] EXCEPT !.pc = "write", !.row = Own(r)]]
  BY DEF CreateRow
<1> DEFINE i == Own(r)
           row == [Missing EXCEPT !.status = "RUNNING", !.auto = t \in Ticks, !.slot = slot]
<1>3. i \in Rows /\ File(i) = r /\ i # Legacy(r)
  BY RowFacts DEF Own, Legacy
<1>4. row \in Row /\ row.status = "RUNNING" /\ row.deleted = FALSE /\ row.at = 0
  <2>1. \A b \in BOOLEAN, n \in Nat :
          LET new == [Missing EXCEPT !.status = "RUNNING", !.auto = b, !.slot = n]
          IN  new \in Row /\ new.status = "RUNNING" /\ new.deleted = FALSE /\ new.at = 0
    BY DEF Missing, Row
  <2>2. (t \in Ticks) \in BOOLEAN
    OBVIOUS
  <2> QED
    BY ONLY <1>1, <2>1, <2>2, Zenon
<1>5. Set(i, row)
  BY <1>2
<1> HIDE DEF row, i
<1>6. run'[i] = row /\ made' = made /\ ended' = ended /\ clock' = clock /\ files' = files
  BY <1>1, <1>3, <1>4, <1>5, SetType DEF CreateRow, TypeOK
<1>7. /\ \A u \in Tasks \ {t} : task'[u] = task[u]
      /\ task'[t].pc = "write" /\ task'[t].row = Own(r)
  BY <1>1, <1>2 DEF Task, TypeOK
<1>8. TaskStamps(t)'
  <2>1. made'[File(task'[t].row)] = 0 /\ ended'[File(task'[t].row)] = 0
    BY <1>1, <1>2, <1>6, <1>7, RowFacts DEF RowStamps
  <2> QED
    BY <1>7, <2>1 DEF TaskStamps, At
<1>9. RowStamps'
  BY <1>3, <1>4, <1>5, <1>6, RowStamped
<1>10. StampInv'
  BY <1>6, <1>7, <1>8, <1>9, SameTaskStamps DEF StampInv
<1>11. Catalog!Begin(i)
  <2>1. ~Exists(i) /\ run[i].at = 0
    BY <1>1, <1>2, <1>3 DEF i, RowStamps
  <2>2. catalog[i] = [state |-> "absent", at |-> 0]
    BY <1>1, <1>3, <2>1, StateOf, EntryOf DEF Exists
  <2>3. CatalogState(i)' = "running"
    BY <1>4, <1>6 DEF CatalogState, ShownAs, Exists
  <2>4. catalog' = [catalog EXCEPT ![i] = [state |-> "running", at |-> 0]]
    BY <1>3, <1>4, <1>5, <2>3, RowShown
  <2> QED
    BY <1>3, <2>2, <2>4, EntryBecomes DEF Catalog!Begin
<1> QED
  BY <1>3, <1>10, <1>11 DEF Catalog!Next

\* A step of t in which the moments of other runs stay the same keeps what tasks know.
LEMMA MomentsKept ==
  ASSUME CInv, NEW t \in Tasks, Writing(t),
         \A u \in Tasks \ {t} : task'[u] = task[u],
         \A s \in Runs : Own(s) # task[t].row => made'[s] = made[s] /\ ended'[s] = ended[s],
         \A s \in Runs : made[s] # 0 => made'[s] # 0
  PROVE  \A u \in Tasks \ {t} : TaskStamps(u)'
<1> SUFFICES ASSUME NEW u \in Tasks \ {t} PROVE TaskStamps(u)'
  OBVIOUS
<1>1. TaskStamps(u) /\ WritesRunning(u) /\ OneWriter /\ task'[u] = task[u]
  BY StampFacts DEF CInv, IInv, RetireInv
<1>2. LegacyRows \subseteq LegacyRows'
  BY DEF LegacyRows
<1>3. ASSUME Writing(u)
      PROVE  /\ made'[File(task[u].row)] = made[File(task[u].row)]
             /\ ended'[File(task[u].row)] = ended[File(task[u].row)]
  <2>1. PICK s \in Runs : task[u].row = Own(s)
    BY <1>1, <1>3 DEF WritesRunning
  <2>2. Own(s) # task[t].row
    BY <1>1, <1>3, <2>1 DEF OneWriter
  <2> QED
    BY <2>1, <2>2, RowFacts
<1> QED
  BY <1>1, <1>2, <1>3 DEF TaskStamps, At, Writing

\* A step that takes a moment for one run, which comes after all others, keeps what is
\* known of the rows.
LEMMA MomentTaken ==
  ASSUME CInv, NEW r \in Runs, run' = run, clock < MaxStamp, clock' = clock + 1,
         Exists(Own(r)),
         \/ /\ made[r] = 0 /\ made' = [made EXCEPT ![r] = clock + 1] /\ ended' = ended
            /\ files' = files \union {r}
         \/ /\ ended[r] = 0 /\ ended' = [ended EXCEPT ![r] = clock + 1] /\ made' = made
            /\ files' = files
  PROVE  RowStamps' /\ catalog' = catalog
<1>1. /\ RowStamps /\ clock \in Nat /\ MaxStamp \in Nat
      /\ made \in [Runs -> Nat] /\ ended \in [Runs -> Nat] /\ TypeOK
      /\ \A s \in Runs : made[s] \in Nat /\ ended[s] \in Nat /\ made[s] <= clock /\ ended[s] <= clock
  BY StampFacts DEF TypeOK, RowStamps
<1>2. /\ \A s \in Runs \ {r} : made'[s] = made[s] /\ ended'[s] = ended[s]
      /\ \/ made[r] = 0 /\ made'[r] = clock + 1 /\ ended'[r] = ended[r]
         \/ ended[r] = 0 /\ ended'[r] = clock + 1 /\ made'[r] = made[r]
  BY <1>1
<1>3. \A i \in Rows : /\ ~Exists(i)' => run'[i].at = 0 /\ ~run'[i].deleted
                      /\ run'[i].status = "RUNNING" => ~run'[i].deleted /\ run'[i].at = 0
                      /\ Successful(i)' => run'[i].at # 0
                      /\ run'[i].status = "FAILED" => run'[i].at = 0
  BY <1>1 DEF RowStamps, Exists, Successful
<1>4. ASSUME NEW s \in Runs
      PROVE  /\ run'[Own(s)].at # 0 => run'[Own(s)].at = ended'[s]
             /\ run'[Legacy(s)].at # 0 => run'[Legacy(s)].at = made'[s]
             /\ Exists(Own(s))' \/ (made'[s] = 0 /\ ended'[s] = 0)
             /\ s \in files' => made'[s] # 0
             /\ made'[s] <= clock' /\ ended'[s] <= clock'
  <2>1. CASE s # r
    BY <1>1, <1>2, <2>1 DEF RowStamps, Exists
  <2>2. CASE s = r
    <3>1. /\ run[Own(r)].at # 0 => run[Own(r)].at = ended[r]
          /\ run[Legacy(r)].at # 0 => run[Legacy(r)].at = made[r]
          /\ r \in files => made[r] # 0
      BY <1>1 DEF RowStamps
    <3>2. r \in files' => made'[r] # 0
      BY <1>1, <1>2, <3>1
    <3>3. /\ run'[Own(r)].at # 0 => run'[Own(r)].at = ended'[r]
          /\ run'[Legacy(r)].at # 0 => run'[Legacy(r)].at = made'[r]
      BY <1>2, <3>1
    <3>4. made'[r] <= clock' /\ ended'[r] <= clock' /\ Exists(Own(r))'
      BY <1>1, <1>2 DEF Exists
    <3> QED
      BY <2>2, <3>2, <3>3, <3>4
  <2> QED
    BY <2>1, <2>2
<1>5. ASSUME NEW x \in Runs, NEW y \in Runs
      PROVE  /\ ended'[x] # 0 => ended'[x] # made'[y]
             /\ x # y /\ made'[x] # 0 => made'[x] # made'[y]
             /\ x # y /\ ended'[x] # 0 => ended'[x] # ended'[y]
  <2>1. CASE x # r /\ y # r
    BY <1>1, <1>2, <2>1 DEF RowStamps
  <2>2. CASE x = r
    BY <1>1, <1>2, <2>2 DEF RowStamps
  <2>3. CASE y = r
    BY <1>1, <1>2, <2>3 DEF RowStamps
  <2> QED
    BY <2>1, <2>2, <2>3
<1>6. clock' <= MaxStamp
  BY <1>1
<1>7. catalog' = catalog
  BY SameState DEF catalog, SameRow
<1> QED
  BY <1>3, <1>4, <1>5, <1>6, <1>7 DEF RowStamps

\* The writing of an artifact is not shown.
LEMMA WriteShown ==
  ASSUME CInv, NEW t \in Tasks, WriteArtifact(t)
  PROVE  StampInv' /\ catalog' = catalog
<1>1. /\ TypeOK /\ task \in [Tasks -> Task] /\ TaskStamps(t) /\ WritesRunning(t)
      /\ made \in [Runs -> Nat] /\ clock \in Nat
  BY StampFacts DEF CInv, IInv, RetireInv, TypeOK
<1>2. At(t, "write") /\ Writing(t)
  BY DEF WriteArtifact, At, Writing
<1>3. PICK r \in Runs : task[t].row = Own(r) /\ run[Own(r)].status = "RUNNING"
  BY <1>1, <1>2 DEF WritesRunning
<1>4. File(task[t].row) = r /\ made[r] = 0 /\ ended[r] = 0
  BY <1>1, <1>2, <1>3, RowFacts DEF TaskStamps
<1>5. /\ made' = [made EXCEPT ![r] = clock + 1] /\ ended' = ended /\ files' = files \union {r}
      /\ run' = run /\ clock < MaxStamp /\ clock' = clock + 1
  BY <1>4 DEF WriteArtifact
<1>6. /\ task'[t].pc = "stamp" /\ task'[t].row = task[t].row
      /\ \A u \in Tasks \ {t} : task'[u] = task[u]
  BY <1>1, GotoType DEF WriteArtifact, Pcs
<1>7. TaskStamps(t)'
  BY <1>4, <1>5, <1>6 DEF TaskStamps, At
<1>8. \A u \in Tasks \ {t} : TaskStamps(u)'
  <2>1. \A s \in Runs : made[s] # 0 => made'[s] # 0
    BY <1>1, <1>4, <1>5
  <2>2. \A s \in Runs : Own(s) # task[t].row => made'[s] = made[s] /\ ended'[s] = ended[s]
    BY <1>1, <1>3, <1>5
  <2> QED
    BY <1>2, <1>6, <2>1, <2>2, MomentsKept
<1>9. RowStamps' /\ catalog' = catalog
  <2>1. Exists(Own(r))
    BY <1>3 DEF Exists
  <2> QED
    BY <1>4, <1>5, <2>1, MomentTaken
<1> QED
  BY <1>7, <1>8, <1>9 DEF StampInv

\* Nor is the moment at which a run takes its time of completion.
LEMMA StampShown ==
  ASSUME CInv, NEW t \in Tasks, StampCompletion(t)
  PROVE  StampInv' /\ catalog' = catalog
<1>1. /\ TypeOK /\ task \in [Tasks -> Task] /\ TaskStamps(t) /\ WritesRunning(t)
      /\ ended \in [Runs -> Nat] /\ clock \in Nat
  BY StampFacts DEF CInv, IInv, RetireInv, TypeOK
<1>2. At(t, "stamp") /\ Writing(t)
  BY DEF StampCompletion, At, Writing
<1>3. PICK r \in Runs : task[t].row = Own(r) /\ run[Own(r)].status = "RUNNING"
  BY <1>1, <1>2 DEF WritesRunning
<1>4. File(task[t].row) = r /\ ended[r] = 0
  BY <1>1, <1>2, <1>3, RowFacts DEF TaskStamps
<1>5. /\ ended' = [ended EXCEPT ![r] = clock + 1] /\ made' = made /\ files' = files
      /\ run' = run /\ clock < MaxStamp /\ clock' = clock + 1
  BY <1>4 DEF StampCompletion
<1>6. /\ task'[t].pc = "complete" /\ task'[t].row = task[t].row
      /\ \A u \in Tasks \ {t} : task'[u] = task[u]
  BY <1>1, GotoType DEF StampCompletion, Pcs
<1>7. TaskStamps(t)'
  <2>1. ended'[r] # 0
    BY <1>1, <1>5
  <2> QED
    BY <1>4, <1>6, <2>1 DEF TaskStamps, At
<1>8. \A u \in Tasks \ {t} : TaskStamps(u)'
  <2>1. \A s \in Runs : Own(s) # task[t].row => made'[s] = made[s] /\ ended'[s] = ended[s]
    BY <1>1, <1>3, <1>5
  <2> QED
    BY <1>2, <1>5, <1>6, <2>1, MomentsKept
<1>9. RowStamps' /\ catalog' = catalog
  <2>1. Exists(Own(r))
    BY <1>3 DEF Exists
  <2> QED
    BY <1>4, <1>5, <2>1, MomentTaken
<1> QED
  BY <1>7, <1>8, <1>9 DEF StampInv

\* A run that ends completes its entry under a stamp of its own.
LEMMA CompleteShown ==
  ASSUME CInv, NEW t \in Tasks, MarkCompleted(t)
  PROVE  StampInv' /\ [Catalog!Next]_catalog
<1>1. TypeOK /\ task[t] \in Task /\ RowStamps /\ TaskStamps(t) /\ WritesRunning(t) /\ At(t, "complete")
  BY StampFacts DEF CInv, IInv, RetireInv, TypeOK, MarkCompleted
<1>2. PICK r \in Runs : task[t].row = Own(r) /\ run[Own(r)].status = "RUNNING" /\ ~run[Own(r)].deleted
  BY <1>1 DEF WritesRunning, Writing, At
<1> DEFINE i == Own(r)
           row == [run[i] EXCEPT !.status = "COMPLETED", !.old = FALSE, !.at = ended[r]]
<1>3. i \in Rows /\ File(i) = r /\ i # Legacy(r)
  BY RowFacts DEF Own, Legacy
<1>4. ended[r] # 0 /\ ended[r] \in Nat /\ run[i].at = 0
  BY <1>1, <1>2, <1>3, StampFacts DEF TaskStamps, RowStamps
<1>5. row \in Row /\ row.status = "COMPLETED" /\ row.at = ended[r] /\ row.deleted = FALSE
  <2>1. run[i] \in Row /\ run[i].deleted = FALSE
    BY <1>1, <1>2, <1>3 DEF TypeOK, Row, Task
  <2> QED
    BY <1>4, <2>1 DEF Row
<1>6. Set(i, row)
  BY <1>2, <1>3 DEF MarkCompleted
<1> HIDE DEF row, i
<1>7. run'[i] = row /\ made' = made /\ ended' = ended /\ clock' = clock /\ files' = files
  BY <1>1, <1>3, <1>5, <1>6, SetType DEF MarkCompleted, TypeOK
<1>8. task'[t].pc = "audit" /\ \A u \in Tasks \ {t} : task'[u] = task[u]
  BY <1>1, GotoType DEF MarkCompleted, TypeOK, Pcs
<1>9. StampInv'
  <2>1. RowStamps'
    <3>1. row.at # 0
      BY <1>3, <1>4, <1>5, StampFacts
    <3> QED
      BY <1>3, <1>4, <1>5, <1>6, <1>7, <3>1, RowStamped
  <2> QED
    BY <1>7, <1>8, <2>1, SameTaskStamps, NoTaskStamps DEF StampInv, Listing
<1>10. Catalog!Complete(i)
  <2>1. catalog[i] = [state |-> "running", at |-> 0]
    BY <1>1, <1>2, <1>3, <1>4, StateOf, EntryOf DEF i
  <2>2. CatalogState(i)' = "completed"
    BY <1>5, <1>7 DEF CatalogState, ShownAs, Exists
  <2>3. catalog' = [catalog EXCEPT ![i] = [state |-> "completed", at |-> ended[r]]]
    BY <1>3, <1>5, <1>6, <2>2, RowShown
  <2>4. ended[r] \in 1 .. MaxStamp /\ \A j \in Rows : catalog[j].at # ended[r]
    <3>1. \A j \in Rows : catalog[j].at = run[j].at
      BY <1>1, EntryOf
    <3>2. run[Own(r)].at = 0
      BY <1>4 DEF i
    <3> QED
      BY <1>4, <3>1, <3>2, StampsApart
  <2>5. catalog[i].state = "running"
    BY <2>1
  <2> QED
    BY <2>3, <2>4, <2>5 DEF Catalog!Complete
<1> QED
  BY <1>3, <1>9, <1>10 DEF Catalog!Next

\* A run that fails, fails its entry.
LEMMA FailShown ==
  ASSUME CInv, NEW t \in Tasks, MarkFailed(t)
  PROVE  StampInv' /\ [Catalog!Next]_catalog
<1>1. TypeOK /\ task[t] \in Task /\ RowStamps /\ WritesRunning(t) /\ At(t, "fail")
  BY StampFacts DEF CInv, IInv, RetireInv, TypeOK, MarkFailed
<1>2. PICK r \in Runs : task[t].row = Own(r) /\ run[Own(r)].status = "RUNNING" /\ ~run[Own(r)].deleted
  BY <1>1 DEF WritesRunning, Writing, At
<1> DEFINE i == Own(r)
           row == [run[i] EXCEPT !.status = "FAILED", !.old = FALSE]
<1>3. i \in Rows /\ run[i].at = 0
  BY <1>1, <1>2, RowFacts DEF RowStamps
<1>4. row \in Row /\ row.status = "FAILED" /\ row.at = 0 /\ row.deleted = FALSE
  <2>1. run[i] \in Row /\ run[i].deleted = FALSE
    BY <1>1, <1>2, <1>3 DEF TypeOK, Row
  <2> QED
    BY <1>3, <2>1 DEF Row
<1>5. Set(i, row)
  BY <1>2 DEF MarkFailed
<1> HIDE DEF row, i
<1>6. run'[i] = row /\ made' = made /\ ended' = ended /\ clock' = clock /\ files' = files
  BY <1>1, <1>3, <1>4, <1>5, SetType DEF MarkFailed, TypeOK
<1>7. task'[t].pc \notin Listing /\ \A u \in Tasks \ {t} : task'[u] = task[u]
  <2>1. PICK ran \in BOOLEAN : Returned(t, ran)
    BY DEF MarkFailed
  <2>2. CASE t \in Ticks
    <3>1. task' = [task EXCEPT ![t] = [task[t] EXCEPT !.pc = "release", !.ran = ran]]
      BY <2>1, <2>2 DEF Returned
    <3> QED
      BY <1>1, <3>1 DEF TypeOK, Task, Listing
  <2>3. CASE t \notin Ticks
    BY <1>1, <2>1, <2>3, EndType DEF Returned, TypeOK, Listing
  <2> QED
    BY <2>2, <2>3
<1>8. StampInv'
  <2>1. RowStamps'
    BY <1>3, <1>4, <1>5, <1>6, RowStamped
  <2> QED
    BY <1>6, <1>7, <2>1, SameTaskStamps, NoTaskStamps DEF StampInv
<1>9. Catalog!Fail(i)
  <2>1. catalog[i] = [state |-> "running", at |-> 0]
    BY <1>1, <1>2, <1>3, StateOf, EntryOf DEF i
  <2>2. CatalogState(i)' = "failed"
    BY <1>4, <1>6 DEF CatalogState, ShownAs, Exists
  <2>3. catalog' = [catalog EXCEPT ![i] = [state |-> "failed", at |-> 0]]
    BY <1>3, <1>4, <1>5, <2>2, RowShown
  <2> QED
    BY <1>3, <2>1, <2>3, EntryBecomes DEF Catalog!Fail
<1> QED
  BY <1>3, <1>8, <1>9 DEF Catalog!Next

\* A retired row retires its entry, which is not the newest completed one.
LEMMA RetireShown ==
  ASSUME CInv, NEW t \in Tasks, MarkRetired(t)
  PROVE  StampInv' /\ [Catalog!Next]_catalog
<1>1. TypeOK /\ task[t] \in Task /\ RowStamps /\ RetiresEnded(t) /\ At(t, "mark")
  BY StampFacts DEF CInv, IInv, RetireInv, TypeOK, MarkRetired
<1>2. PICK i \in Rows : i = task[t].row /\ Ended(i) /\ Outlived(i) /\ run[i] \in Row
  BY <1>1 DEF RetiresEnded, Doomed, At, TypeOK
<1> DEFINE row == [run[i] EXCEPT !.deleted = TRUE]
<1>3. /\ row \in Row /\ row.status = run[i].status
      /\ row.at = run[i].at /\ row.deleted = TRUE
  BY <1>2 DEF Row
<1>4. Set(i, row) /\ made' = made /\ ended' = ended /\ clock' = clock /\ files' = files
  BY <1>2 DEF MarkRetired
<1>5. task'[t].pc \notin Listing /\ \A u \in Tasks \ {t} : task'[u] = task[u]
  <2>1. CASE t \in Ticks
    BY <1>1, <2>1, GotoType DEF MarkRetired, AfterMark, TypeOK, Pcs, Listing
  <2>2. CASE t \notin Ticks
    BY <1>1, <2>2, EndType DEF MarkRetired, AfterMark, TypeOK, Listing
  <2> QED
    BY <2>1, <2>2
<1> HIDE DEF row
<1>6. run'[i] = row
  BY <1>1, <1>2, <1>3, <1>4, SetType DEF TypeOK
<1>7. StampInv'
  <2>1. /\ row.status # "none" /\ row.status # "RUNNING"
        /\ row.status = "COMPLETED" => row.at # 0
        /\ row.status = "FAILED" => row.at = 0
    BY <1>1, <1>2, <1>3 DEF Ended, Exists, RowStamps, Successful
  <2>2. /\ i = Own(File(i)) /\ row.at # 0 => row.at = ended[File(i)]
        /\ i = Legacy(File(i)) /\ row.at # 0 => row.at = made[File(i)]
    BY <1>1, <1>2, <1>3, RowFacts DEF RowStamps
  <2>3. RowStamps'
    BY <1>2, <1>3, <1>4, <2>1, <2>2, RowStamped
  <2> QED
    BY <1>4, <1>5, <2>3, SameTaskStamps, NoTaskStamps DEF StampInv
<1>8. CatalogState(i)' = "retired"
  <2>1. Exists(i)' /\ run'[i].deleted /\ ~Listed(i)'
    BY <1>2, <1>3, <1>6 DEF Exists, Listed, Ended
  <2> QED
    BY <2>1 DEF CatalogState, ShownAs
<1>9. catalog' = [catalog EXCEPT ![i] = [state |-> "retired", at |-> run[i].at]]
  <2>1. Set(i, row) /\ row \in Row
    BY <1>3, <1>4
  <2>2. catalog' = [catalog EXCEPT ![i] = [state |-> CatalogState(i)', at |-> row.at]]
    BY <1>2, <2>1, RowShown
  <2> QED
    BY <1>3, <1>8, <2>2
<1>10. CASE run[i].deleted
  <2>1. catalog[i] = [state |-> "retired", at |-> run[i].at]
    BY <1>1, <1>2, <1>10, StateOf, EntryOf DEF Ended, Exists
  <2>2. catalog' = catalog
    BY <1>2, <1>9, <2>1 DEF catalog
  <2> QED
    BY <1>7, <2>2
<1>11. CASE ~run[i].deleted
  <2>1. PICK from \in {"completed", "failed"} : catalog[i] = [state |-> from, at |-> run[i].at]
    <3>1. run[i].status \in {"COMPLETED", "FAILED"}
      BY <1>2 DEF Row, Ended, Exists
    <3> QED
      BY <1>1, <1>2, <1>11, <3>1, StateOf, EntryOf
  <2>2. catalog[i].state = from /\ Catalog!Become(i, "retired")
    BY <1>2, <1>9, <2>1, EntryBecomes
  <2>3. ~Catalog!IsNewest(i)
    <3> SUFFICES ASSUME catalog[i].state = "completed"
                 PROVE  \E k \in Rows : catalog[k].state = "completed" /\ ~(catalog[k].at <= catalog[i].at)
      BY DEF Catalog!IsNewest
    <3>1. \A k \in Rows : /\ run[k].at \in Nat /\ catalog[k].at = run[k].at
                          /\ catalog[k].state = "completed" <=> Listed(k) /\ Successful(k)
      BY <1>1, StampFacts, EntryOf, CompletedState
    <3>2. PICK j \in Rows : Successful(j) /\ run[j].at > run[i].at
      BY <1>2, <3>1 DEF Outlived
    <3>3. CASE run[j].deleted
      <4>1. PICK k \in Rows : Listed(k) /\ Successful(k) /\ run[k].at > run[j].at
        BY <3>2, <3>3 DEF CInv, IInv, NewestSurvives
      <4> QED
        BY <1>2, <3>1, <3>2, <4>1
    <3>4. CASE ~run[j].deleted
      <4>1. Listed(j)
        BY <3>2, <3>4 DEF Listed, Exists, Successful
      <4> QED
        BY <1>2, <3>1, <3>2, <4>1
    <3> QED
      BY <3>3, <3>4
  <2>4. Catalog!Retire(i)
    BY <2>1, <2>2, <2>3 DEF Catalog!Retire
  <2> QED
    BY <1>2, <1>7, <2>4 DEF Catalog!Next
<1> QED
  BY <1>10, <1>11

\* An artifact that no row names completes an entry, unless it is listed by now.
LEMMA AdoptShown ==
  ASSUME CInv, NEW t \in Tasks, Adopt(t)
  PROVE  StampInv' /\ [Catalog!Next]_catalog
<1>1. TypeOK /\ task[t] \in Task /\ RowStamps /\ TaskStamps(t) /\ At(t, "insert") /\ slot \in Nat
  BY StampFacts DEF TypeOK, Adopt
<1>2. task[t].row \in LegacyRows /\ task[t].todo \subseteq LegacyRows
  BY <1>1 DEF TaskStamps, At
<1>3. PICK r \in Runs : task[t].row = Legacy(r) /\ made[r] # 0 /\ made[r] \in Nat
  BY <1>2, StampFacts DEF LegacyRows
<1> DEFINE i == Legacy(r)
<1>4. i \in Rows /\ File(i) = r /\ i # Own(r)
  BY RowFacts DEF Own, Legacy
<1>5. made' = made /\ ended' = ended /\ clock' = clock /\ files' = files /\ LegacyRows' = LegacyRows
  BY DEF Adopt, LegacyRows
<1>6. /\ \A u \in Tasks \ {t} : task'[u] = task[u]
      /\ task'[t].pc = "adopt" /\ task'[t].todo = task[t].todo
  BY <1>1, GotoType DEF Adopt, TypeOK, Pcs
<1>7. \A u \in Tasks : TaskStamps(u)'
  <2>1. TaskStamps(t)'
    BY <1>2, <1>5, <1>6 DEF TaskStamps, At
  <2> QED
    BY <1>5, <1>6, <2>1, SameTaskStamps
<1>8. CASE Exists(i)
  <2>1. run' = run
    BY <1>3, <1>8 DEF Adopt
  <2>2. \A j \in Rows : SameRow(j)
    BY <2>1 DEF SameRow
  <2>3. RowStamps'
    BY <1>5, <2>2, SameRowStamps
  <2>4. catalog' = catalog
    BY <2>2, SameState DEF catalog, SameRow
  <2> QED
    BY <1>7, <2>3, <2>4 DEF StampInv
<1>9. CASE ~Exists(i)
  <2> DEFINE row == [Missing EXCEPT !.status = "COMPLETED", !.at = made[r], !.slot = slot]
  <2>1. row \in Row /\ row.status = "COMPLETED" /\ row.at = made[r] /\ row.deleted = FALSE
    BY <1>1, <1>3 DEF Missing, Row
  <2>2. Set(i, row) /\ run[i].at = 0
    BY <1>1, <1>3, <1>4, <1>9 DEF Adopt, RowStamps
  <2> HIDE DEF row, i
  <2>3. run'[i] = row
    BY <1>1, <1>4, <2>1, <2>2, SetType DEF TypeOK
  <2>4. RowStamps'
    BY <1>3, <1>4, <1>5, <2>1, <2>2, RowStamped
  <2>5. catalog[i] = [state |-> "absent", at |-> 0]
    BY <1>1, <1>4, <1>9, <2>2, StateOf, EntryOf DEF Exists
  <2>6. catalog[i].state = "absent"
    BY <2>5
  <2>7. CatalogState(i)' = "completed"
    BY <2>1, <2>3 DEF CatalogState, ShownAs, Exists
  <2>8. catalog' = [catalog EXCEPT ![i] = [state |-> "completed", at |-> made[r]]]
    BY <1>4, <2>1, <2>2, <2>7, RowShown
  <2>9. made[r] \in 1 .. MaxStamp /\ \A j \in Rows : catalog[j].at # made[r]
    <3>1. \A j \in Rows : catalog[j].at = run[j].at
      BY <1>1, EntryOf
    <3>2. run[Legacy(r)].at = 0
      BY <2>2 DEF i
    <3> QED
      BY <1>3, <3>1, <3>2, StampsApart
  <2>10. Catalog!Complete(i)
    BY <2>6, <2>8, <2>9 DEF Catalog!Complete
  <2> QED
    BY <1>4, <1>7, <2>4, <2>10 DEF StampInv, Catalog!Next
<1> QED
  BY <1>8, <1>9

-----------------------------------------------------------------------------
(* The refinement *)

\* At first there are no rows and no entries.
LEMMA CatalogInit == Init => CInv /\ Catalog!Init
<1> SUFFICES ASSUME Init PROVE CInv /\ Catalog!Init
  OBVIOUS
<1>1. IInv
  BY InvInit
<1>2. \A i \in Rows : run[i] = Missing
  BY DEF Init
<1>3. \A i \in Rows : run[i].status = "none" /\ run[i].at = 0 /\ ~run[i].deleted
  BY <1>2 DEF Missing
<1>4. RowStamps
  <2>1. \A r \in Runs : made[r] = 0 /\ ended[r] = 0
    BY DEF Init
  <2>2. clock <= MaxStamp /\ files = {} /\ clock = 0
    BY BackupsAssumption DEF Init
  <2> QED
    BY <1>3, <2>1, <2>2, RowFacts DEF RowStamps, Exists, Successful
<1>5. \A u \in Tasks : TaskStamps(u)
  BY DEF Init, Idle, TaskStamps, At
<1>6. \A i \in Rows : CatalogState(i) = "absent"
  BY <1>1, <1>3, StateOf DEF IInv
<1>7. Catalog!Init
  BY <1>3, <1>6 DEF catalog, Catalog!Init, Catalog!Absent
<1> QED
  BY <1>1, <1>4, <1>5, <1>7 DEF CInv, StampInv

\* Every step keeps the invariant and does what the catalog allows, or nothing.
LEMMA CatalogStep ==
  ASSUME "audit" \notin Faults, CInv, [Next]_vars
  PROVE  CInv' /\ [Catalog!Next]_catalog
<1>1. IInv'
  BY InvNext DEF CInv
<1>2. TypeOK /\ \A t \in Tasks : WritesRunning(t)
  BY DEF CInv, IInv, RetireInv
<1>3. ASSUME Quiet PROVE StampInv' /\ [Catalog!Next]_catalog
  BY <1>3, QuietStamps, QuietCatalog
<1>4. CASE \E t \in Ticks : TickStart(t) \/ TickStep(t) \/ TryLockFails(t) \/ ReleaseFails(t)
  BY <1>1, <1>2, <1>3, <1>4, TickQuiet DEF TickStep, CInv
<1>5. CASE \E t \in Requests : \/ RunStarts(t) \/ DeleteReads(t) \/ ProtectReads(t) \/ ListFiles(t)
                               \/ RequestStep(t)
  <2>1. PICK t \in Requests : \/ RunStarts(t) \/ DeleteReads(t) \/ ProtectReads(t) \/ ListFiles(t)
                              \/ RequestStep(t)
    BY <1>5
  <2>2. t \in Tasks
    BY DEF Tasks
  <2>3. CASE \/ RunStarts(t) \/ DeleteReads(t) \/ ProtectReads(t)
             \/ CheckLatest(t) \/ Unlink(t) \/ HistoryEnds(t)
    BY <1>1, <1>2, <1>3, <2>2, <2>3, RequestQuiet DEF CInv
  <2>4. CASE ListFiles(t) \/ ReadArtifact(t)
    BY <1>1, <2>4, ListingSteps DEF CInv
  <2>5. CASE SetProtected(t)
    <3>1. task[t].row \in Rows
      BY <1>2, <2>2, <2>5 DEF WritesRunning, SetProtected, At
    <3> QED
      BY <1>1, <1>2, <1>3, <2>2, <2>5, <3>1, RestQuiet DEF CInv
  <2>6. CASE Adopt(t)
    BY <1>1, <2>2, <2>6, AdoptShown DEF CInv
  <2> QED
    BY <2>1, <2>3, <2>4, <2>5, <2>6 DEF RequestStep
<1>6. CASE \E t \in Tasks : SharedStep(t) \/ TaskFails(t)
  <2>1. PICK t \in Tasks : SharedStep(t) \/ TaskFails(t)
    BY <1>6
  <2>2. CASE Audit(t) \/ TaskFails(t)
    BY <1>1, <1>2, <1>3, <2>2, RequestQuiet DEF TaskFails, CInv
  <2>3. CASE CreateRow(t) \/ WriteArtifact(t) \/ StampCompletion(t)
    BY <1>1, <2>3, CreateShown, WriteShown, StampShown DEF CInv
  <2>4. CASE MarkCompleted(t) \/ MarkFailed(t) \/ MarkRetired(t)
    BY <1>1, <2>4, CompleteShown, FailShown, RetireShown DEF CInv
  <2> QED
    BY <2>1, <2>2, <2>3, <2>4 DEF SharedStep
<1>7. CASE \/ NextSlot \/ (\E i \in Rows : GetsOld(i)) \/ (\E t \in Ticks : WorkerCrash(Pool[t]))
           \/ ApiCrash \/ (\E c \in Conns : ConnectionCloses(c)) \/ UNCHANGED vars
  BY <1>1, <1>2, <1>3, <1>7, RestQuiet DEF CInv
<1> QED
  BY <1>4, <1>5, <1>6, <1>7 DEF Next

\* However the reads and writes of ticks and requests interleave, and whatever
\* fails but the audit of a completed backup, the list of backups changes only
\* as the catalog allows: a run is retired after it ended, for good, and the
\* newest successful one never (backups.service.ts:340-372).
THEOREM CatalogIsImplemented ==
  ASSUME "audit" \notin Faults
  PROVE  Spec => ImplementsCatalog
<1>1. CInv /\ [Next]_vars => CInv'
  BY CatalogStep
<1>2. CInv /\ [Next]_vars => [Catalog!Next]_catalog
  BY CatalogStep
<1>3. Init => CInv /\ Catalog!Init
  BY CatalogInit
<1> QED
  BY <1>1, <1>2, <1>3, PTL DEF Spec, ImplementsCatalog, Catalog!Spec
=============================================================================
