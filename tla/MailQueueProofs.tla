-------------------------- MODULE MailQueueProofs --------------------------
(***************************************************************************)
(* Proofs about MailQueue, for any number of jobs, passes and requests.    *)
(***************************************************************************)
EXTENDS MailQueue, FiniteSetTheorems, TLAPS

(* Lemmas about the row updates *)

\* A row stays a row when the worker gives up its lock, when a stale lock is
\* recovered, and when a request resets it.
LEMMA RowUpdates ==
  ASSUME NEW r \in Row
  PROVE  /\ Unlocked(r) \in Row
         /\ \A a \in Nat : Recovered(r, a) \in Row
         /\ \A due \in BOOLEAN : Reset(r, due) \in Row
         /\ NoRow \in Row
<1> DEFINE u == Unlocked(r)
<1>1. u \in Row
  BY DEF Row, Unlocked
<1> HIDE DEF u
<1>2. ASSUME NEW due \in BOOLEAN
      PROVE  [u EXCEPT !.status = "QUEUED", !.attempts = 0, !.due = due,
                !.archived = FALSE, !.retryable = FALSE, !.sentAt = "null", !.msg = 0] \in Row
  BY <1>1 DEF Row, Statuses
<1>3. /\ [u EXCEPT !.status = "QUEUED", !.retryable = TRUE, !.due = TRUE] \in Row
      /\ [u EXCEPT !.status = "DEAD", !.retryable = TRUE, !.due = TRUE] \in Row
  BY <1>1 DEF Row, Statuses
<1>4. NoRow \in Row
  BY DEF NoRow, Row, Statuses
<1> QED
  BY <1>1, <1>2, <1>3, <1>4 DEF u, Recovered, Reset

\* ... and when a pass writes any outcome.
LEMMA WrittenRow ==
  ASSUME NEW r \in Row, NEW out \in Outcomes, NEW snap \in Nat, NEW mine \in Nat
  PROVE  Written(r, out, snap, mine) \in Row
<1> DEFINE u == Unlocked(r)
<1>1. u \in Row
  BY RowUpdates
<1>2. PausedAttempts(snap) \in Nat
  BY DEF PausedAttempts
<1> HIDE DEF u
<1>3. /\ [u EXCEPT !.status = "CANCELLED", !.retryable = FALSE] \in Row
      /\ [u EXCEPT !.status = "DEAD", !.retryable = FALSE, !.due = TRUE] \in Row
  BY <1>1 DEF Row, Statuses
<1>4. [u EXCEPT !.status = "PAUSED_LIMIT_REACHED", !.attempts = PausedAttempts(snap),
                !.retryable = TRUE, !.due = TRUE] \in Row
  BY <1>1, <1>2 DEF Row, Statuses
<1>5. [u EXCEPT !.status = "SENT", !.retryable = FALSE, !.due = TRUE,
                !.sentAt = "minute", !.msg = mine] \in Row
  BY <1>1 DEF Row, Statuses
<1>6. /\ [u EXCEPT !.status = "FAILED", !.retryable = TRUE, !.due = FALSE] \in Row
      /\ [u EXCEPT !.status = "DEAD", !.retryable = TRUE, !.due = TRUE] \in Row
  BY <1>1 DEF Row, Statuses
<1> QED
  BY <1>3, <1>4, <1>5, <1>6 DEF Written, u, Outcomes

\* A row keeps its type when its clock moves or one of its flags is set.
LEMMA RowFlags ==
  ASSUME NEW r \in Row
  PROVE  /\ [r EXCEPT !.archived = TRUE] \in Row
         /\ [r EXCEPT !.due = TRUE] \in Row
         /\ [r EXCEPT !.window = FALSE] \in Row
         /\ [r EXCEPT !.status = "DEAD"] \in Row
         /\ [r EXCEPT !.sentAt = "day"] \in Row
         /\ [r EXCEPT !.sentAt = "old"] \in Row
         /\ \A b \in BOOLEAN : [r EXCEPT !.window = b] \in Row
  BY DEF Row, Statuses

\* What a pass notes of a row when it queues the row for itself is an item.
LEMMA ItemType ==
  ASSUME TypeOK, NEW j \in Jobs
  PROVE  ItemOf(j) \in Item
<1>1. row[j] \in Row
  BY DEF TypeOK
<1> QED
  BY <1>1 DEF ItemOf, Item, Row

\* Changing the program counter, the outcome or the to-do list of a pass, or
\* letting it go on to its next claim, leaves it a pass.
LEMMA PassUpdates ==
  ASSUME NEW l \in Pass
  PROVE  /\ \A pc \in {"idle", "beat", "scan", "recover", "claim", "reread", "check",
                       "limit", "send", "write", "mates"} :
              /\ [l EXCEPT !.pc = pc] \in Pass
              /\ \A out \in Outcomes : [l EXCEPT !.pc = pc, !.out = out] \in Pass
              /\ \A n \in Nat : [l EXCEPT !.pc = pc, !.snap = n] \in Pass
              /\ \A todo \in SUBSET Item :
                   /\ [l EXCEPT !.pc = pc, !.todo = todo] \in Pass
                   /\ \A b \in BOOLEAN : [l EXCEPT !.pc = pc, !.bulk = b, !.todo = todo] \in Pass
                   /\ \A j \in Jobs, n \in Nat :
                        [l EXCEPT !.pc = pc, !.todo = todo, !.cur = j, !.mine = n] \in Pass
         /\ \A todo \in SUBSET Item : [l EXCEPT !.todo = todo] \in Pass
         /\ NextClaim(l) \in Pass
         /\ IdlePass \in Pass
         /\ \A b \in BOOLEAN : [IdlePass EXCEPT !.pc = "beat", !.wasStale = b] \in Pass
<1>1. /\ \A todo \in SUBSET Item : [l EXCEPT !.todo = todo] \in Pass
      /\ NextClaim(l) \in Pass
  BY DEF Pass, NextClaim, Outcomes
<1>2. /\ IdlePass \in Pass
      /\ \A b \in BOOLEAN : [IdlePass EXCEPT !.pc = "beat", !.wasStale = b] \in Pass
  BY DEF Pass, IdlePass, Outcomes
<1>3. ASSUME NEW pc \in {"idle", "beat", "scan", "recover", "claim", "reread", "check",
                         "limit", "send", "write", "mates"}
      PROVE  /\ [l EXCEPT !.pc = pc] \in Pass
             /\ \A out \in Outcomes : [l EXCEPT !.pc = pc, !.out = out] \in Pass
             /\ \A n \in Nat : [l EXCEPT !.pc = pc, !.snap = n] \in Pass
  BY DEF Pass
<1>4. ASSUME NEW pc \in {"idle", "beat", "scan", "recover", "claim", "reread", "check",
                         "limit", "send", "write", "mates"},
             NEW todo \in SUBSET Item
      PROVE  /\ [l EXCEPT !.pc = pc, !.todo = todo] \in Pass
             /\ \A b \in BOOLEAN : [l EXCEPT !.pc = pc, !.bulk = b, !.todo = todo] \in Pass
             /\ \A j \in Jobs, n \in Nat :
                  [l EXCEPT !.pc = pc, !.todo = todo, !.cur = j, !.mine = n] \in Pass
  BY DEF Pass
<1> QED
  BY <1>1, <1>2, <1>3, <1>4

-----------------------------------------------------------------------------
(* Type correctness *)

\* The empty table, idle passes and idle requests are well typed.
LEMMA TypeInit == Init => TypeOK
<1> SUFFICES ASSUME Init PROVE TypeOK
  OBVIOUS
<1>1. NoRow \in Row
  BY DEF NoRow, Row, Statuses
<1>2. IdlePass \in Pass
  BY DEF IdlePass, Pass, Outcomes
<1>3. IdleRequest \in Request
  BY DEF IdleRequest, Request
<1> QED
  BY <1>1, <1>2, <1>3 DEF Init, TypeOK, IdlePass, Working

\* A pass gains its job with the claim and loses it when it is done with it.
LEMMA CurrentJobPass ==
  ASSUME TypeOK, NEW p \in Passes,
         StartPass(p) \/ PassStep(p) \/ StatementFails(p) \/ AbortPass(p)
  PROVE  \A q \in Passes : pass'[q].pc \in Working <=> pass'[q].cur # NoJob
<1> USE DEF Working
<1>0. /\ pass \in [Passes -> Pass]
      /\ \A q \in Passes : pass[q].pc \in Working <=> pass[q].cur # NoJob
      /\ pass[p] \in Pass
  BY DEF TypeOK
<1>1. CASE StartPass(p) \/ AbortPass(p)
  <2>1. /\ IdlePass.pc = "idle" /\ IdlePass.cur = NoJob
        /\ \A b \in BOOLEAN : LET l == [IdlePass EXCEPT !.pc = "beat", !.wasStale = b]
                             IN  l.pc = "beat" /\ l.cur = NoJob
    BY DEF IdlePass
  <2>2. CASE StartPass(p)
    BY <1>0, <2>1, <2>2 DEF StartPass, TypeOK
  <2>3. CASE AbortPass(p)
    BY <1>0, <2>1, <2>3 DEF AbortPass
  <2> QED
    BY <1>1, <2>2, <2>3
<1>2. CASE Beat(p) \/ ScanStaleLocks(p)
  BY <1>0, <1>2 DEF Beat, ScanStaleLocks, Pass
<1>9. CASE FetchDue(p)
  BY <1>0, <1>9 DEF FetchDue, Pass
<1>3. CASE RecoverLock(p) \/ ClaimMisses(p)
  BY <1>0, <1>3 DEF RecoverLock, ClaimMisses, Pass
<1>4. CASE Claim(p)
  <2>1. PICK t \in pass[p].todo :
          pass' = [pass EXCEPT ![p].pc = "reread", ![p].todo = @ \ {t},
                               ![p].cur = t.job, ![p].mine = claims[t.job] + 1]
    BY <1>4 DEF Claim
  <2>2. t.job \in Jobs
    BY <1>0 DEF Pass, Item
  <2> QED
    BY <1>0, <2>1, <2>2, MailAssumption DEF Pass, MailAssumption
<1>5. CASE Reread(p) \/ CheckSuppression(p) \/ RenderFails(p) \/ CheckLimit(p)
  BY <1>0, <1>5 DEF Reread, CheckSuppression, RenderFails, CheckLimit, Pass
<1>6. CASE CallProvider(p) \/ NothingToSend(p) \/ StatementFails(p)
  BY <1>0, <1>6 DEF CallProvider, NothingToSend, StatementFails, Pass
<1>7. CASE WriteOutcome(p) \/ PauseMates(p)
  <2>1. NextClaim(pass[p]).pc = "claim" /\ NextClaim(pass[p]).cur = NoJob
    BY <1>0 DEF NextClaim, Pass
  <2>2. CASE WriteOutcome(p)
    BY <1>0, <2>1, <2>2 DEF WriteOutcome, Pass
  <2>3. CASE PauseMates(p)
    BY <1>0, <2>1, <2>3 DEF PauseMates
  <2> QED
    BY <1>7, <2>2, <2>3
<1>8. CASE EndPass(p)
  BY <1>0, <1>8 DEF EndPass, IdlePass
<1> QED
  BY <1>1, <1>2, <1>3, <1>4, <1>5, <1>6, <1>7, <1>8, <1>9 DEF PassStep

\* A batch has jobs with attempts left, however few of the due rows are looked at.
LEMMA FetchedBatch ==
  ASSUME NEW p \in Passes, FetchDue(p)
  PROVE  \E bulk \in BOOLEAN, batch \in SUBSET Jobs :
           /\ pass' = [pass EXCEPT ![p].pc = "claim", ![p].bulk = bulk,
                                   ![p].todo = {ItemOf(j) : j \in batch}]
           /\ \A j \in batch : row[j].attempts < MaxAttempts
<1> DEFINE b == pass[p].pc = "claim"
<1>1. PICK found \in Fillings(DueJobs(b), 4 * Take) :
        \E batch \in Fillings({j \in found : row[j].attempts < MaxAttempts}, Take) :
          pass' = [pass EXCEPT ![p].pc = "claim", ![p].bulk = b,
                               ![p].todo = {ItemOf(j) : j \in batch}]
  BY Zenon DEF FetchDue
<1>2. PICK batch \in Fillings({j \in found : row[j].attempts < MaxAttempts}, Take) :
        pass' = [pass EXCEPT ![p].pc = "claim", ![p].bulk = b,
                             ![p].todo = {ItemOf(j) : j \in batch}]
  BY <1>1
<1>3. found \in SUBSET Jobs
  BY <1>1 DEF Fillings, DueJobs
<1>4. batch \in SUBSET {j \in found : row[j].attempts < MaxAttempts}
  BY <1>2 DEF Fillings
<1>5. batch \in SUBSET Jobs /\ \A j \in batch : row[j].attempts < MaxAttempts
  BY <1>3, <1>4
<1>6. b \in BOOLEAN
  OBVIOUS
<1> HIDE DEF b
<1> QED
  BY Zenon, <1>2, <1>5, <1>6

\* The steps of a worker pass.
LEMMA TypePass ==
  ASSUME TypeOK, NEW p \in Passes,
         StartPass(p) \/ PassStep(p) \/ StatementFails(p) \/ AbortPass(p)
  PROVE  TypeOK'
<1> USE DEF history
<1>c. \A q \in Passes : pass'[q].pc \in Working <=> pass'[q].cur # NoJob
  BY CurrentJobPass
<1> USE <1>c
<1>0. /\ pass[p] \in Pass
      /\ pass[p].mine \in Nat /\ pass[p].snap \in Nat /\ pass[p].out \in Outcomes
      /\ pass[p].todo \in SUBSET Item
      /\ \A j \in Jobs : row[j] \in Row /\ row[j].attempts \in Nat
  BY DEF TypeOK, Pass, Row
<1>1. CASE StartPass(p)
  BY <1>0, <1>1, PassUpdates DEF StartPass, TypeOK
<1>15. CASE Beat(p)
  BY <1>0, <1>15, PassUpdates DEF Beat, TypeOK
<1>2. CASE ScanStaleLocks(p)
  <2>1. {ItemOf(j) : j \in {k \in Jobs : StaleLock(k, pass[p].wasStale)}} \in SUBSET Item
    BY ItemType
  <2> DEFINE todo == {ItemOf(j) : j \in {k \in Jobs : StaleLock(k, pass[p].wasStale)}}
             next == [pass[p] EXCEPT !.pc = "recover", !.wasStale = FALSE, !.todo = todo]
  <2> HIDE DEF todo
  <2>2. next \in Pass /\ next.pc = "recover" /\ next.cur = pass[p].cur
    BY <1>0, <2>1 DEF Pass, todo
  <2>3. pass' = [pass EXCEPT ![p] = next]
    BY <1>2 DEF ScanStaleLocks, todo
  <2> HIDE DEF next
  <2>4. pass' \in [Passes -> Pass]
    BY <2>2, <2>3 DEF TypeOK
  <2> QED
    BY <1>2, <2>2, <2>3, <2>4 DEF ScanStaleLocks, TypeOK
<1>3. CASE RecoverLock(p)
  <2> PICK t \in pass[p].todo :
         /\ row' = IF row[t.job].status = "PROCESSING" /\ row[t.job].lockedAt = t.lockedAt
                   THEN [row EXCEPT ![t.job] = Recovered(@, t.attempts)]
                   ELSE row
         /\ pass' = [pass EXCEPT ![p].todo = @ \ {t}]
    BY <1>3 DEF RecoverLock
  <2>1. t.attempts \in Nat
    BY <1>0 DEF Item
  <2>2. row' \in [Jobs -> Row]
    BY <1>0, <2>1, RowUpdates DEF TypeOK
  <2>3. pass' \in [Passes -> Pass]
    BY <1>0, PassUpdates DEF TypeOK
  <2> QED
    BY <1>3, <2>2, <2>3 DEF RecoverLock, TypeOK
<1>4. CASE FetchDue(p)
  <2> PICK bulk \in BOOLEAN, batch \in SUBSET Jobs :
         pass' = [pass EXCEPT ![p].pc = "claim", ![p].bulk = bulk,
                              ![p].todo = {ItemOf(j) : j \in batch}]
    BY <1>4, FetchedBatch
  <2>1. {ItemOf(j) : j \in batch} \in SUBSET Item
    BY ItemType
  <2>2. pass' \in [Passes -> Pass]
    BY ZenonT(60), <1>0, <2>1, PassUpdates DEF TypeOK
  <2> QED
    BY <1>4, <2>2 DEF FetchDue, TypeOK
<1>5. CASE Claim(p)
  <2> PICK t \in pass[p].todo :
         /\ row' = [row EXCEPT ![t.job].status = "PROCESSING",
                               ![t.job].attempts = t.attempts + 1,
                               ![t.job].lockedAt = claims[t.job] + 1,
                               ![t.job].age = 0]
         /\ claims' = [claims EXCEPT ![t.job] = @ + 1]
         /\ pass' = [pass EXCEPT ![p].pc = "reread", ![p].todo = @ \ {t},
                                 ![p].cur = t.job, ![p].mine = claims[t.job] + 1]
    BY <1>5 DEF Claim
  <2>1. t.job \in Jobs /\ t.attempts + 1 \in Nat /\ claims[t.job] + 1 \in Nat
    BY <1>0 DEF Item, TypeOK
  <2>2. \A r \in Row, a, n \in Nat :
          [r EXCEPT !.status = "PROCESSING", !.attempts = a, !.lockedAt = n, !.age = 0] \in Row
    BY DEF Row, Statuses
  <2>3. row' \in [Jobs -> Row]
    BY <1>0, <2>1, <2>2 DEF TypeOK
  <2>4. pass' \in [Passes -> Pass]
    BY ZenonT(60), <1>0, <2>1, PassUpdates DEF TypeOK
  <2>5. claims' \in [Jobs -> Nat]
    BY <2>1 DEF TypeOK
  <2> QED
    BY <1>5, <2>3, <2>4, <2>5 DEF Claim, TypeOK
<1>6. CASE ClaimMisses(p)
  <2> PICK t \in pass[p].todo : pass' = [pass EXCEPT ![p].todo = @ \ {t}]
    BY <1>6 DEF ClaimMisses
  <2>1. pass' \in [Passes -> Pass]
    BY <1>0, PassUpdates DEF TypeOK
  <2> QED
    BY <1>6, <2>1 DEF ClaimMisses, TypeOK
<1>7. CASE Reread(p)
  <2>1. row[pass[p].cur].attempts \in Nat
    BY <1>0, <1>7 DEF Reread, TypeOK, Working, Pass
  <2>2. pass' \in [Passes -> Pass]
    BY ZenonT(60), <1>0, <1>7, <2>1, PassUpdates DEF Reread, TypeOK
  <2> QED
    BY <1>7, <2>2 DEF Reread, TypeOK
<1>8. CASE CheckSuppression(p) \/ RenderFails(p) \/ CheckLimit(p) \/ NothingToSend(p)
  <2>0. PICK out \in Outcomes, pc \in {"limit", "send"} :
          \/ pass' = [pass EXCEPT ![p].pc = pc]
          \/ pass' = [pass EXCEPT ![p].pc = "write", ![p].out = out]
    BY <1>8 DEF CheckSuppression, RenderFails, CheckLimit, NothingToSend, Outcomes
  <2>1. CASE pass' = [pass EXCEPT ![p].pc = pc]
    BY <1>0, <1>8, <2>1, PassUpdates
       DEF CheckSuppression, RenderFails, CheckLimit, NothingToSend, TypeOK
  <2>2. CASE pass' = [pass EXCEPT ![p].pc = "write", ![p].out = out]
    BY ZenonT(60), <1>0, <1>8, <2>2, PassUpdates
       DEF CheckSuppression, RenderFails, CheckLimit, NothingToSend, TypeOK
  <2> QED
    BY <2>0, <2>1, <2>2
<1>9. CASE CallProvider(p)
  <2>1. pass' \in [Passes -> Pass]
    <3>1. PICK out \in Outcomes : pass' = [pass EXCEPT ![p].pc = "write", ![p].out = out]
      BY <1>9 DEF CallProvider, Outcomes
    <3> QED
      BY <1>0, <3>1, PassUpdates DEF TypeOK
  <2>2. calls' \in [Jobs -> SUBSET Nat]
    BY <1>0, <1>9 DEF CallProvider, TypeOK
  <2> QED
    BY <1>9, <2>1, <2>2 DEF CallProvider, TypeOK
<1>10. CASE WriteOutcome(p)
  <2>1. row' \in [Jobs -> Row]
    BY <1>0, <1>10, WrittenRow DEF WriteOutcome, TypeOK
  <2>2. pass' \in [Passes -> Pass]
    BY <1>0, <1>10, PassUpdates DEF WriteOutcome, TypeOK
  <2> QED
    BY <1>10, <2>1, <2>2 DEF WriteOutcome, TypeOK
<1>11. CASE PauseMates(p)
  <2>1. \A r \in Row : [Unlocked(r) EXCEPT !.status = "PAUSED_LIMIT_REACHED",
                                           !.retryable = TRUE, !.due = TRUE] \in Row
    <3>1. \A u \in Row : [u EXCEPT !.status = "PAUSED_LIMIT_REACHED",
                                   !.retryable = TRUE, !.due = TRUE] \in Row
      BY DEF Row, Statuses
    <3> QED
      BY <3>1, RowUpdates
  <2>2. row' \in [Jobs -> Row]
    BY <1>0, <1>11, <2>1 DEF PauseMates
  <2>3. pass' \in [Passes -> Pass]
    BY <1>0, <1>11, PassUpdates DEF PauseMates, TypeOK
  <2> QED
    BY <1>11, <2>2, <2>3 DEF PauseMates, TypeOK
<1>12. CASE EndPass(p)
  BY <1>0, <1>12, PassUpdates DEF EndPass, TypeOK
<1>13. CASE StatementFails(p)
  <2>1. pass' \in [Passes -> Pass]
    <3>1. PICK out \in Outcomes : pass' = [pass EXCEPT ![p].pc = "write", ![p].out = out]
      BY <1>13 DEF StatementFails, Outcomes
    <3> QED
      BY <1>0, <3>1, PassUpdates DEF TypeOK
  <2> QED
    BY <1>13, <2>1 DEF StatementFails, TypeOK
<1>14. CASE AbortPass(p)
  <2>1. pass' \in [Passes -> Pass]
    BY <1>0, <1>14, PassUpdates DEF AbortPass, TypeOK
  <2>2. faults' \in Nat
    BY <1>14 DEF AbortPass, TypeOK
  <2> QED
    BY <1>14, <2>1, <2>2 DEF AbortPass, TypeOK
<1> QED
  BY <1>1, <1>2, <1>3, <1>4, <1>5, <1>6, <1>7, <1>8, <1>9, <1>10, <1>11,
     <1>12, <1>13, <1>14, <1>15 DEF PassStep

\* Accepting a request and ending one leave the requests well typed.
LEMMA RequestType ==
  ASSUME NEW c \in Clients, NEW op \in AllOps, NEW j \in Jobs, NEW m \in Nat, TypeOK
  PROVE  /\ Begin(c, op, j, m) => req' \in [Clients -> Request] /\ served' \in Nat
         /\ Finish(c, op) => req' \in [Clients -> Request]
<1>1. [op |-> op, job |-> j, msg |-> m] \in Request
  BY DEF Request
<1>2. IdleRequest \in Request
  BY DEF IdleRequest, Request
<1> QED
  BY <1>1, <1>2 DEF Begin, Finish, TypeOK

\* The steps of an API request.
LEMMA TypeRequest ==
  ASSUME TypeOK, NEW c \in Clients, RequestStep(c)
  PROVE  TypeOK'
<1> USE DEF history
<1>0. /\ req \in [Clients -> Request] /\ req[c] \in Request
      /\ row \in [Jobs -> Row]
      /\ \A j \in Jobs : claims[j] \in Nat
  BY DEF TypeOK
<1>1. CASE CreateWrites(c)
  <2>0. \A due, window \in BOOLEAN :
          [NoRow EXCEPT !.status = "QUEUED", !.due = due, !.window = window] \in Row
    BY DEF NoRow, Row, Statuses
  <2>1. row' \in [Jobs -> Row]
    <3>1. CASE row[req[c].job].status = "NONE"
      <4>1. PICK due \in BOOLEAN, window \in BOOLEAN :
              row' = [row EXCEPT ![req[c].job] = [NoRow EXCEPT !.status = "QUEUED",
                                                    !.due = due, !.window = window]]
        BY <1>1, <3>1, MailAssumption DEF CreateWrites, MailAssumption
      <4> QED
        BY <1>0, <2>0, <4>1
    <3>2. CASE row[req[c].job].status # "NONE"
      BY <1>0, <1>1, <3>2 DEF CreateWrites
    <3> QED
      BY <3>1, <3>2
  <2>2. req' \in [Clients -> Request]
    BY <1>0, <1>1 DEF CreateWrites, Finish, IdleRequest, Request
  <2> QED
    BY <1>1, <2>1, <2>2 DEF CreateWrites, TypeOK
<1>2. CASE RefreshWrites(c)
  <2> PICK due \in BOOLEAN, window \in BOOLEAN :
         row' = [row EXCEPT ![req[c].job] = [Reset(@, due) EXCEPT !.window = window]]
    BY <1>2, MailAssumption DEF RefreshWrites, MailAssumption
  <2>1. \A r \in Row : [Reset(r, due) EXCEPT !.window = window] \in Row
    BY RowUpdates, RowFlags
  <2>2. row' \in [Jobs -> Row]
    BY <1>0, <2>1
  <2>3. req' \in [Clients -> Request] /\ base' \in [Jobs -> Nat]
    BY <1>0, <1>2 DEF RefreshWrites, Finish, IdleRequest, Request, TypeOK
  <2> QED
    BY <1>2, <2>2, <2>3 DEF RefreshWrites, TypeOK
<1>3. CASE RetryWrites(c)
  <2>1. row' \in [Jobs -> Row]
    BY <1>0, <1>3, RowUpdates DEF RetryWrites
  <2>2. req' \in [Clients -> Request] /\ base' \in [Jobs -> Nat]
    BY <1>0, <1>3 DEF RetryWrites, Finish, IdleRequest, Request, TypeOK
  <2> QED
    BY <1>3, <2>1, <2>2 DEF RetryWrites, TypeOK
<1>4. CASE CancelWrites(c)
  <2>0. \A u \in Row : [u EXCEPT !.status = "CANCELLED", !.due = TRUE, !.retryable = FALSE] \in Row
    BY DEF Row, Statuses
  <2>1. row' \in [Jobs -> Row]
    BY <1>0, <1>4, <2>0, RowUpdates DEF CancelWrites
  <2>2. req' \in [Clients -> Request]
    BY <1>0, <1>4 DEF CancelWrites, Finish, IdleRequest, Request
  <2> QED
    BY <1>4, <2>1, <2>2 DEF CancelWrites, TypeOK
<1>5. CASE ArchiveWrites(c)
  <2>1. row' \in [Jobs -> Row]
    BY <1>0, <1>5, RowFlags DEF ArchiveWrites
  <2>2. req' \in [Clients -> Request]
    BY <1>0, <1>5 DEF ArchiveWrites, Finish, IdleRequest, Request
  <2> QED
    BY <1>5, <2>1, <2>2 DEF ArchiveWrites, TypeOK
<1>6. CASE BounceMarksDead(c)
  <2>1. row' \in [Jobs -> Row]
    BY <1>0, <1>6, RowFlags DEF BounceMarksDead
  <2>2. req' \in [Clients -> Request]
    BY <1>0, <1>6 DEF BounceMarksDead, Finish, IdleRequest, Request
  <2> QED
    BY <1>6, <2>1, <2>2 DEF BounceMarksDead, TypeOK
<1>7. ASSUME NEW j \in Jobs,
             \/ CreateReads(c, j) \/ RefreshReads(c, j) \/ RetryReads(c, j)
             \/ CancelReads(c, j) \/ ArchiveReads(c, j)
      PROVE  TypeOK'
  <2>1. \E op \in AllOps : Begin(c, op, j, 0)
    BY <1>7 DEF CreateReads, RefreshReads, RetryReads, CancelReads, ArchiveReads, AllOps
  <2>2. req' \in [Clients -> Request] /\ served' \in Nat
    BY <2>1, RequestType
  <2>3. UNCHANGED <<row, suppressed, heartbeat, pass, faults, claims, base, calls, since, cutoff>>
    BY <1>7 DEF CreateReads, RefreshReads, RetryReads, CancelReads, ArchiveReads
  <2> QED
    BY <2>2, <2>3 DEF TypeOK
<1>8. ASSUME NEW j \in Jobs, BounceSuppresses(c, j)
      PROVE  TypeOK'
  <2>1. PICK m \in calls[j] : Begin(c, "bounce", j, m)
    BY <1>8 DEF BounceSuppresses
  <2>2. m \in Nat
    BY <2>1 DEF TypeOK
  <2>3. req' \in [Clients -> Request] /\ served' \in Nat
    BY <2>1, <2>2, RequestType DEF AllOps
  <2>4. suppressed' \subseteq Recipients /\ cutoff' \in [Jobs -> Nat]
    BY <1>8, MailAssumption DEF BounceSuppresses, Suppressing, MailAssumption, TypeOK
  <2> QED
    BY <1>8, <2>3, <2>4 DEF BounceSuppresses, TypeOK
<1> QED
  BY <1>1, <1>2, <1>3, <1>4, <1>5, <1>6, <1>7, <1>8 DEF RequestStep

\* The statements over many rows, and time.
LEMMA TypeOther ==
  ASSUME TypeOK,
         \/ ArchiveOld \/ ResumePaused \/ HeartbeatAges \/ MinutePasses \/ DayRolls
         \/ \E r \in Recipients : Suppress(r)
         \/ \E j \in Jobs : BecomesDue(j) \/ WindowCloses(j) \/ LockAges(j)
  PROVE  TypeOK'
<1> USE DEF history
<1>0. row \in [Jobs -> Row]
  BY DEF TypeOK
<1>1. CASE ArchiveOld
  <2>1. row' \in [Jobs -> Row]
    BY <1>0, <1>1, RowFlags DEF ArchiveOld
  <2> QED
    BY <1>1, <2>1 DEF ArchiveOld, TypeOK
<1>2. CASE ResumePaused
  <2>0. \A r \in Row : [Reset(r, TRUE) EXCEPT !.sentAt = r.sentAt, !.msg = r.msg] \in Row
    <3>1. \A r, u \in Row : [u EXCEPT !.sentAt = r.sentAt, !.msg = r.msg] \in Row
      BY DEF Row
    <3> QED
      BY <3>1, RowUpdates
  <2>1. row' \in [Jobs -> Row] /\ base' \in [Jobs -> Nat] /\ since' \in [Jobs -> SUBSET Nat]
    <3>1. PICK resumed \in SUBSET Jobs :
            /\ row' = [j \in Jobs |-> IF j \in resumed
                         THEN [Reset(row[j], TRUE) EXCEPT !.sentAt = row[j].sentAt,
                                                          !.msg = row[j].msg]
                         ELSE row[j]]
            /\ base' = [j \in Jobs |-> IF j \in resumed THEN claims[j] ELSE base[j]]
            /\ since' = [j \in Jobs |-> IF j \in resumed THEN {} ELSE since[j]]
      BY <1>2 DEF ResumePaused
    <3> QED
      BY <1>0, <2>0, <3>1 DEF TypeOK
  <2>2. /\ served' = served + 1
        /\ UNCHANGED <<suppressed, heartbeat, pass, req, faults, claims, calls, cutoff>>
    BY <1>2, Zenon DEF ResumePaused
  <2> QED
    BY <2>1, <2>2 DEF TypeOK
<1>3. CASE HeartbeatAges
  BY <1>3 DEF HeartbeatAges, TypeOK
<1>4. CASE MinutePasses \/ DayRolls
  <2>1. row' \in [Jobs -> Row]
    BY <1>0, <1>4, RowFlags DEF MinutePasses, DayRolls
  <2> QED
    BY <1>4, <2>1 DEF MinutePasses, DayRolls, TypeOK
<1>5. ASSUME NEW r \in Recipients, Suppress(r)
      PROVE  TypeOK'
  <2>1. suppressed' \subseteq Recipients /\ cutoff' \in [Jobs -> Nat] /\ served' \in Nat
    BY <1>5 DEF Suppress, Suppressing, TypeOK
  <2> QED
    BY <1>5, <2>1 DEF Suppress, TypeOK
<1>6. ASSUME NEW j \in Jobs, BecomesDue(j) \/ WindowCloses(j)
      PROVE  TypeOK'
  <2>1. row' \in [Jobs -> Row]
    <3>1. CASE BecomesDue(j)
      BY <1>0, <3>1, RowFlags DEF BecomesDue
    <3>2. CASE WindowCloses(j)
      BY <1>0, <3>2, RowFlags DEF WindowCloses
    <3> QED
      BY <1>6, <3>1, <3>2
  <2> QED
    BY <1>6, <2>1 DEF BecomesDue, WindowCloses, TypeOK
<1>7. ASSUME NEW j \in Jobs, LockAges(j)
      PROVE  TypeOK'
  <2>1. row[j] \in Row /\ row[j].age \in {0, 1, 2} /\ row[j].age < 2
    BY <1>0, <1>7 DEF LockAges, Row
  <2>2. row[j].age + 1 \in {0, 1, 2}
    BY <2>1
  <2>3. \A a \in {0, 1, 2} : [row[j] EXCEPT !.age = a] \in Row
    BY <2>1 DEF Row
  <2>4. row' \in [Jobs -> Row]
    BY <1>0, <1>7, <2>2, <2>3 DEF LockAges
  <2> QED
    BY <1>7, <2>4 DEF LockAges, TypeOK
<1> QED
  BY <1>1, <1>2, <1>3, <1>4, <1>5, <1>6, <1>7

\* Every step of the queue, or none, keeps the types.
LEMMA TypeStep == TypeOK /\ [Next]_vars => TypeOK'
<1> SUFFICES ASSUME TypeOK, [Next]_vars PROVE TypeOK'
  OBVIOUS
<1>1. CASE UNCHANGED vars
  BY <1>1 DEF vars, TypeOK
<1>2. CASE Next
  BY <1>2, TypePass, TypeRequest, TypeOther DEF Next
<1> QED
  BY <1>1, <1>2

\* TypeOK holds of every reachable state, for all values of the constants.
THEOREM TypeCorrect == Spec => []TypeOK
  BY TypeInit, TypeStep, PTL DEF Spec

-----------------------------------------------------------------------------
(* The claim protocol *)

\* What the parts of ClaimInv say when the queue is disciplined.
Claims ==
  /\ LockHeld
  /\ ScanIsCurrent
  /\ SnapIsCurrent
  /\ \A p, q \in Passes : pass[p].cur = pass[q].cur /\ pass[p].cur # NoJob => p = q
  /\ \A j \in Jobs : row[j].status \in Due => row[j].attempts < MaxAttempts

\* The fields of a row that the protocol depends on, after each kind of update.
LEMMA UpdatedFields ==
  ASSUME NEW r \in Row
  PROVE  /\ Unlocked(r).lockedAt = 0 /\ Unlocked(r).age = 0
         /\ Unlocked(r).attempts = r.attempts
         /\ \A a \in Nat : /\ Recovered(r, a).lockedAt = 0
                           /\ Recovered(r, a).attempts = r.attempts
                           /\ Recovered(r, a).status \in {"QUEUED", "DEAD"}
                           /\ Recovered(r, a).status = "QUEUED" => a < MaxAttempts
         /\ \A due \in BOOLEAN : Reset(r, due).lockedAt = 0
<1> DEFINE u == Unlocked(r)
<1>1. u \in Row
  BY RowUpdates
<1>2. u.lockedAt = 0 /\ u.age = 0 /\ u.attempts = r.attempts
  BY DEF Unlocked, Row
<1> HIDE DEF u
<1>3. ASSUME NEW a \in Nat
      PROVE  /\ Recovered(r, a).lockedAt = 0
             /\ Recovered(r, a).attempts = r.attempts
             /\ Recovered(r, a).status \in {"QUEUED", "DEAD"}
             /\ Recovered(r, a).status = "QUEUED" => a < MaxAttempts
  <2> DEFINE q == [u EXCEPT !.status = "QUEUED", !.retryable = TRUE, !.due = TRUE]
             d == [u EXCEPT !.status = "DEAD", !.retryable = TRUE, !.due = TRUE]
  <2>1. /\ q.lockedAt = 0 /\ q.attempts = r.attempts /\ q.status = "QUEUED"
        /\ d.lockedAt = 0 /\ d.attempts = r.attempts /\ d.status = "DEAD"
    BY <1>1, <1>2 DEF Row
  <2>2. Recovered(r, a) = IF a < MaxAttempts THEN q ELSE d
    BY DEF Recovered, u
  <2> QED
    BY <2>1, <2>2
<1>4. ASSUME NEW due \in BOOLEAN
      PROVE  Reset(r, due).lockedAt = 0
  <2>1. [u EXCEPT !.status = "QUEUED", !.attempts = 0, !.due = due, !.archived = FALSE,
           !.retryable = FALSE, !.sentAt = "null", !.msg = 0].lockedAt = 0
    BY <1>1, <1>2 DEF Row
  <2> QED
    BY <2>1 DEF Reset, u
<1> QED
  BY <1>2, <1>3, <1>4 DEF u

\* The final update of processClaimedJob always gives up the lock, never leaves
\* the row in PROCESSING, and leaves it FAILED only with attempts to spare.
LEMMA WrittenFields ==
  ASSUME NEW r \in Row, NEW out \in Outcomes, NEW snap \in Nat, NEW mine \in Nat
  PROVE  LET w == Written(r, out, snap, mine) IN
         /\ w.lockedAt = 0
         /\ w.status \notin {"NONE", "QUEUED", "PROCESSING"}
         /\ w.status = "FAILED" => snap < MaxAttempts /\ w.attempts = r.attempts
         /\ out = "paused" => w.status = "PAUSED_LIMIT_REACHED" /\ w.attempts <= snap
<1> DEFINE u == Unlocked(r)
           w == Written(r, out, snap, mine)
<1>1. u \in Row /\ u.lockedAt = 0 /\ u.attempts = r.attempts
  BY RowUpdates, UpdatedFields
<1>2. PausedAttempts(snap) \in Nat /\ PausedAttempts(snap) <= snap
  BY DEF PausedAttempts
<1> HIDE DEF u
<1> DEFINE a1 == [u EXCEPT !.status = "CANCELLED", !.retryable = FALSE]
           a2 == [u EXCEPT !.status = "DEAD", !.retryable = FALSE, !.due = TRUE]
           a3 == [u EXCEPT !.status = "PAUSED_LIMIT_REACHED", !.attempts = PausedAttempts(snap),
                           !.retryable = TRUE, !.due = TRUE]
           a4 == [u EXCEPT !.status = "SENT", !.retryable = FALSE, !.due = TRUE,
                           !.sentAt = "minute", !.msg = mine]
           a5 == [u EXCEPT !.status = "FAILED", !.retryable = TRUE, !.due = FALSE]
           a6 == [u EXCEPT !.status = "DEAD", !.retryable = TRUE, !.due = TRUE]
<1>3. /\ a1.lockedAt = 0 /\ a1.status = "CANCELLED"
      /\ a2.lockedAt = 0 /\ a2.status = "DEAD"
      /\ a4.lockedAt = 0 /\ a4.status = "SENT"
      /\ a6.lockedAt = 0 /\ a6.status = "DEAD"
  BY <1>1 DEF Row
<1>4. /\ a3.lockedAt = 0 /\ a3.status = "PAUSED_LIMIT_REACHED" /\ a3.attempts <= snap
      /\ a5.lockedAt = 0 /\ a5.status = "FAILED" /\ a5.attempts = r.attempts
  BY <1>1, <1>2 DEF Row
<1>5. w = CASE out = "suppressed"   -> a1
            [] out = "unrenderable" -> a2
            [] out = "paused"       -> a3
            [] out = "sent"         -> a4
            [] out = "permanent"    -> a2
            [] OTHER                -> IF snap < MaxAttempts THEN a5 ELSE a6
  BY DEF Written, u
<1> HIDE DEF a1, a2, a3, a4, a5, a6, w
<1>6. \/ out = "suppressed" /\ w = a1
      \/ out \in {"unrenderable", "permanent"} /\ w = a2
      \/ out = "paused" /\ w = a3
      \/ out = "sent" /\ w = a4
      \/ out \in {"none", "retryable"} /\ snap < MaxAttempts /\ w = a5
      \/ out \in {"none", "retryable"} /\ w = a6
  BY <1>5 DEF Outcomes
<1> QED
  BY <1>3, <1>4, <1>6 DEF w

\* Requests are of the kinds that occur, and no lock is newer than its clock.
LEMMA OrderStep ==
  ASSUME TypeOK, TypeOK', RequestsInOps, LocksInOrder, [Next]_vars
  PROVE  RequestsInOps' /\ LocksInOrder'
<1> USE DEF history
<1>0. /\ row \in [Jobs -> Row] /\ claims \in [Jobs -> Nat]
      /\ \A j \in Jobs : row[j] \in Row /\ row[j].lockedAt \in Nat /\ claims[j] \in Nat
      /\ \A j \in Jobs : row[j].lockedAt <= claims[j]
  BY DEF TypeOK, Row, LocksInOrder
<1>1. ASSUME UNCHANGED req PROVE RequestsInOps'
  BY <1>1 DEF RequestsInOps
<1>2. ASSUME UNCHANGED <<row, claims>> PROVE LocksInOrder'
  BY <1>2 DEF LocksInOrder
<1>3. ASSUME NEW c \in Clients, NEW op, Finish(c, op) PROVE RequestsInOps'
  BY <1>3 DEF RequestsInOps, Finish, IdleRequest, TypeOK
<1>4. ASSUME NEW c \in Clients, NEW op, NEW j, NEW m, Begin(c, op, j, m) PROVE RequestsInOps'
  BY <1>4 DEF RequestsInOps, Begin, TypeOK
<1>5. ASSUME UNCHANGED claims,
             \A j \in Jobs : row'[j].lockedAt \in {0, row[j].lockedAt}
      PROVE  LocksInOrder'
  BY <1>0, <1>5 DEF LocksInOrder
<1>6. ASSUME NEW p \in Passes, PassStep(p) \/ StartPass(p) \/ StatementFails(p) \/ AbortPass(p)
      PROVE  LocksInOrder' /\ UNCHANGED req
  <2>0. /\ pass[p] \in Pass
        /\ pass[p].mine \in Nat /\ pass[p].snap \in Nat /\ pass[p].out \in Outcomes
        /\ \A t \in pass[p].todo : t \in Item /\ t.job \in Jobs /\ t.attempts \in Nat
    BY DEF TypeOK, Pass, Item
  <2>1. CASE Claim(p)
    <3>1. PICK t \in pass[p].todo :
            /\ row' = [row EXCEPT ![t.job].status = "PROCESSING",
                                  ![t.job].attempts = t.attempts + 1,
                                  ![t.job].lockedAt = claims[t.job] + 1,
                                  ![t.job].age = 0]
            /\ claims' = [claims EXCEPT ![t.job] = @ + 1]
      BY <2>1 DEF Claim
    <3>2. t.job \in Jobs
      BY <2>0
    <3>3. row'[t.job].lockedAt = claims'[t.job]
      BY <1>0, <3>1, <3>2 DEF Row
    <3>4. \A j \in Jobs : j # t.job => row'[j] = row[j] /\ claims'[j] = claims[j]
      BY <1>0, <3>1, <3>2
    <3>5. claims'[t.job] \in Nat
      BY <1>0, <3>1, <3>2
    <3>6. \A j \in Jobs : row'[j].lockedAt <= claims'[j]
      <4>1. TAKE j \in Jobs
      <4>2. CASE j = t.job
        BY <3>3, <3>5, <4>2
      <4>3. CASE j # t.job
        BY <1>0, <3>4, <4>3
      <4> QED
        BY <4>2, <4>3
    <3>7. UNCHANGED req
      BY <2>1 DEF Claim
    <3> QED
      BY <3>6, <3>7 DEF LocksInOrder
  <2>2. CASE RecoverLock(p)
    <3>1. \A j \in Jobs : row'[j].lockedAt \in {0, row[j].lockedAt}
      BY <1>0, <2>0, <2>2, UpdatedFields DEF RecoverLock
    <3> QED
      BY <1>5, <2>2, <3>1 DEF RecoverLock
  <2>3. CASE WriteOutcome(p)
    <3>1. \A j \in Jobs : row'[j].lockedAt \in {0, row[j].lockedAt}
      BY <1>0, <2>0, <2>3, WrittenFields DEF WriteOutcome
    <3> QED
      BY <1>5, <2>3, <3>1 DEF WriteOutcome
  <2>4. CASE PauseMates(p)
    <3>0. \A r \in Row : [Unlocked(r) EXCEPT !.status = "PAUSED_LIMIT_REACHED",
                            !.retryable = TRUE, !.due = TRUE].lockedAt = 0
      <4>1. \A u \in Row : [u EXCEPT !.status = "PAUSED_LIMIT_REACHED",
                              !.retryable = TRUE, !.due = TRUE].lockedAt = u.lockedAt
        BY DEF Row
      <4> QED
        BY <4>1, RowUpdates, UpdatedFields
    <3>1. \A j \in Jobs : row'[j].lockedAt \in {0, row[j].lockedAt}
      BY <1>0, <2>4, <3>0 DEF PauseMates
    <3> QED
      BY <1>5, <2>4, <3>1 DEF PauseMates
  <2>5. CASE \/ StartPass(p) \/ Beat(p) \/ ScanStaleLocks(p) \/ FetchDue(p) \/ ClaimMisses(p)
             \/ Reread(p) \/ CheckSuppression(p) \/ RenderFails(p) \/ CheckLimit(p)
             \/ CallProvider(p) \/ NothingToSend(p) \/ EndPass(p)
             \/ StatementFails(p) \/ AbortPass(p)
    BY <1>2, <2>5 DEF StartPass, Beat, ScanStaleLocks, FetchDue, ClaimMisses, Reread,
       CheckSuppression, RenderFails, CheckLimit, CallProvider, NothingToSend, EndPass,
       StatementFails, AbortPass
  <2>6. UNCHANGED req
    BY <1>6 DEF PassStep, StartPass, Beat, ScanStaleLocks, RecoverLock, FetchDue, Claim, ClaimMisses,
       Reread, CheckSuppression, RenderFails, CheckLimit, CallProvider, NothingToSend,
       WriteOutcome, PauseMates, EndPass, StatementFails, AbortPass
  <2> QED
    BY <1>6, <2>1, <2>2, <2>3, <2>4, <2>5, <2>6 DEF PassStep
<1>7. ASSUME NEW c \in Clients, RequestStep(c)
      PROVE  RequestsInOps' /\ LocksInOrder'
  <2>1. RequestsInOps'
    BY <1>3, <1>4, <1>7 DEF RequestStep, CreateWrites, RefreshWrites, RetryWrites, CancelWrites,
       ArchiveWrites, BounceMarksDead, CreateReads, RefreshReads, RetryReads, CancelReads,
       ArchiveReads, BounceSuppresses
  <2>2. UNCHANGED claims
    BY <1>7 DEF RequestStep, CreateWrites, RefreshWrites, RetryWrites, CancelWrites,
       ArchiveWrites, BounceMarksDead, CreateReads, RefreshReads, RetryReads, CancelReads,
       ArchiveReads, BounceSuppresses
  <2>3. \A j \in Jobs : row'[j].lockedAt \in {0, row[j].lockedAt}
    <3>1. CASE CreateWrites(c)
      <4>1. \A due, window \in BOOLEAN :
              [NoRow EXCEPT !.status = "QUEUED", !.due = due, !.window = window].lockedAt = 0
        BY DEF NoRow
      <4>2. CASE row[req[c].job].status = "NONE"
        <5>1. PICK due \in BOOLEAN, window \in BOOLEAN :
                row' = [row EXCEPT ![req[c].job] = [NoRow EXCEPT !.status = "QUEUED",
                                                      !.due = due, !.window = window]]
          BY <3>1, <4>2, MailAssumption DEF CreateWrites, MailAssumption
        <5> QED
          BY <1>0, <4>1, <5>1
      <4>3. CASE row[req[c].job].status # "NONE"
        BY <3>1, <4>3 DEF CreateWrites
      <4> QED
        BY <4>2, <4>3
    <3>2. CASE RefreshWrites(c)
      <4>1. PICK due \in BOOLEAN, window \in BOOLEAN :
              row' = [row EXCEPT ![req[c].job] = [Reset(@, due) EXCEPT !.window = window]]
        BY <3>2, MailAssumption DEF RefreshWrites, MailAssumption
      <4>2. \A r \in Row : [Reset(r, due) EXCEPT !.window = window].lockedAt = 0
        <5>1. \A r \in Row : [r EXCEPT !.window = window].lockedAt = r.lockedAt
          BY DEF Row
        <5> QED
          BY <5>1, RowUpdates, UpdatedFields
      <4> QED
        BY <1>0, <4>1, <4>2
    <3>3. CASE RetryWrites(c)
      BY <1>0, <3>3, UpdatedFields DEF RetryWrites
    <3>4. CASE CancelWrites(c)
      <4>1. \A u \in Row : [u EXCEPT !.status = "CANCELLED", !.due = TRUE,
                                     !.retryable = FALSE].lockedAt = u.lockedAt
        BY DEF Row
      <4> QED
        BY SMTT(30), <1>0, <3>4, <4>1, RowUpdates, UpdatedFields DEF CancelWrites
    <3>5. CASE ArchiveWrites(c) \/ BounceMarksDead(c)
      <4>1. \A r \in Row : /\ [r EXCEPT !.archived = TRUE].lockedAt = r.lockedAt
                           /\ [r EXCEPT !.status = "DEAD"].lockedAt = r.lockedAt
        BY DEF Row
      <4>2. CASE ArchiveWrites(c)
        BY <1>0, <4>1, <4>2 DEF ArchiveWrites
      <4>3. CASE BounceMarksDead(c)
        BY <1>0, <4>1, <4>3 DEF BounceMarksDead
      <4> QED
        BY <3>5, <4>2, <4>3
    <3>6. ASSUME NEW j \in Jobs,
                 \/ CreateReads(c, j) \/ RefreshReads(c, j) \/ RetryReads(c, j)
                 \/ CancelReads(c, j) \/ ArchiveReads(c, j) \/ BounceSuppresses(c, j)
          PROVE  UNCHANGED row
      BY <3>6 DEF CreateReads, RefreshReads, RetryReads, CancelReads, ArchiveReads, BounceSuppresses
    <3> QED
      BY <1>7, <3>1, <3>2, <3>3, <3>4, <3>5, <3>6 DEF RequestStep
  <2> QED
    BY <1>5, <2>1, <2>2, <2>3
<1>8. CASE \/ ArchiveOld \/ ResumePaused \/ MinutePasses \/ DayRolls
           \/ \E j \in Jobs : BecomesDue(j) \/ WindowCloses(j) \/ LockAges(j)
  <2>0. \A r \in Row :
          /\ [r EXCEPT !.archived = TRUE].lockedAt = r.lockedAt
          /\ [r EXCEPT !.sentAt = "day"].lockedAt = r.lockedAt
          /\ [r EXCEPT !.sentAt = "old"].lockedAt = r.lockedAt
          /\ [r EXCEPT !.due = TRUE].lockedAt = r.lockedAt
          /\ [r EXCEPT !.window = FALSE].lockedAt = r.lockedAt
          /\ \A n \in Int : [r EXCEPT !.age = n].lockedAt = r.lockedAt
    BY DEF Row
  <2>1. CASE ArchiveOld
    <3>1. \A j \in Jobs : row'[j].lockedAt \in {0, row[j].lockedAt}
      BY <1>0, <2>0, <2>1 DEF ArchiveOld
    <3> QED
      BY <1>1, <1>5, <2>1, <3>1 DEF ArchiveOld
  <2>2. CASE ResumePaused
    <3>0. \A r \in Row : [Reset(r, TRUE) EXCEPT !.sentAt = r.sentAt, !.msg = r.msg].lockedAt = 0
      <4>1. \A r, u \in Row : [u EXCEPT !.sentAt = r.sentAt, !.msg = r.msg].lockedAt = u.lockedAt
        BY DEF Row
      <4> QED
        BY <4>1, RowUpdates, UpdatedFields
    <3>1. PICK resumed \in SUBSET Jobs :
            row' = [j \in Jobs |-> IF j \in resumed
                     THEN [Reset(row[j], TRUE) EXCEPT !.sentAt = row[j].sentAt,
                                                      !.msg = row[j].msg]
                     ELSE row[j]]
      BY <2>2 DEF ResumePaused
    <3>2. \A j \in Jobs : row'[j].lockedAt \in {0, row[j].lockedAt}
      BY <1>0, <3>0, <3>1
    <3>3. UNCHANGED <<req, claims>>
      BY <2>2, Zenon DEF ResumePaused
    <3> QED
      BY <1>1, <1>5, <3>2, <3>3
  <2>3. CASE MinutePasses \/ DayRolls
    <3>1. \A j \in Jobs : row'[j].lockedAt \in {0, row[j].lockedAt}
      BY ZenonT(60), <1>0, <2>0, <2>3 DEF MinutePasses, DayRolls
    <3> QED
      BY <1>1, <1>5, <2>3, <3>1 DEF MinutePasses, DayRolls
  <2>4. ASSUME NEW k \in Jobs, BecomesDue(k) \/ WindowCloses(k) \/ LockAges(k)
        PROVE  RequestsInOps' /\ LocksInOrder'
    <3>0. row[k].age + 1 \in Int
      BY <1>0 DEF Row
    <3>1. \A j \in Jobs : row'[j].lockedAt \in {0, row[j].lockedAt}
      <4>1. CASE BecomesDue(k)
        BY <1>0, <2>0, <4>1 DEF BecomesDue
      <4>2. CASE WindowCloses(k)
        BY <1>0, <2>0, <4>2 DEF WindowCloses
      <4>3. CASE LockAges(k)
        BY <1>0, <2>0, <3>0, <4>3 DEF LockAges
      <4> QED
        BY <2>4, <4>1, <4>2, <4>3
    <3> QED
      BY <1>1, <1>5, <2>4, <3>1 DEF BecomesDue, WindowCloses, LockAges
  <2> QED
    BY <1>8, <2>1, <2>2, <2>3, <2>4
<1>9. CASE HeartbeatAges \/ \E r \in Recipients : Suppress(r)
  BY <1>1, <1>2, <1>9 DEF HeartbeatAges, Suppress
<1>10. CASE UNCHANGED vars
  BY <1>1, <1>2, <1>10 DEF vars
<1> QED
  BY <1>1, <1>6, <1>7, <1>8, <1>9, <1>10 DEF Next

\* A step that claims nothing keeps the protocol: it leaves what the protocol
\* reads of a row, closes the row, opens it for a claim while no pass has it, or
\* ages its lock while no pass has it; and no pass gets a job by it.
Fresh(t) ==
  /\ t.lockedAt <= claims[t.job]
  /\ row[t.job].status = "PROCESSING" /\ row[t.job].lockedAt = t.lockedAt =>
       row[t.job].age > 0 /\ row[t.job].attempts = t.attempts

Closed == {"SENT", "DEAD", "CANCELLED", "PAUSED_LIMIT_REACHED"}

RowKept(j) ==
  /\ row'[j].status = row[j].status /\ row'[j].attempts = row[j].attempts
  /\ row'[j].lockedAt = row[j].lockedAt /\ row'[j].age = row[j].age
RowOpened(j) ==
  /\ row'[j].status \in Due /\ row'[j].attempts < MaxAttempts
  /\ \A p \in Passes : pass'[p].cur # j
RowAged(j) ==
  /\ row'[j].status = row[j].status /\ row'[j].attempts = row[j].attempts
  /\ row'[j].lockedAt = row[j].lockedAt /\ row'[j].age > 0
  /\ \A p \in Passes : pass'[p].cur # j

PassKept(p) ==
  /\ pass'[p].cur # NoJob => pass'[p].cur = pass[p].cur /\ pass'[p].mine = pass[p].mine
  /\ pass'[p].pc = "recover" => \A t \in pass'[p].todo :
       Fresh(t) \/ (pass[p].pc = "recover" /\ t \in pass[p].todo)
  /\ pass'[p].pc \in Working \ {"reread"} => row'[pass'[p].cur].attempts <= pass'[p].snap

\* A step keeps the claim protocol when every row is kept, settled, put back with
\* attempts left or aged without a holder, and every pass keeps what it knows.
LEMMA ClaimsKept ==
  ASSUME TypeOK, TypeOK', Claims, UNCHANGED claims,
         \A j \in Jobs : RowKept(j) \/ row'[j].status \in Closed \/ RowOpened(j) \/ RowAged(j),
         \A p \in Passes : PassKept(p)
  PROVE  Claims'
<1>0. \A p \in Passes : /\ pass'[p].cur \in Jobs \union {NoJob}
                        /\ \A t \in pass'[p].todo : t \in Item /\ t.job \in Jobs
  BY DEF TypeOK, Pass, Item
<1>1. LockHeld'
  <2> SUFFICES ASSUME NEW p \in Passes, NEW j \in Jobs, pass'[p].cur = j
               PROVE  /\ row'[j].status \notin {"NONE", "QUEUED", "FAILED"}
                      /\ row'[j].status = "PROCESSING" =>
                           row'[j].lockedAt = pass'[p].mine /\ row'[j].age = 0
    BY DEF LockHeld
  <2>1. pass[p].cur = j /\ pass'[p].mine = pass[p].mine
    BY MailAssumption DEF PassKept, MailAssumption
  <2>2. RowKept(j) \/ row'[j].status \in Closed
    BY <2>1 DEF RowOpened, RowAged
  <2> QED
    BY <2>1, <2>2 DEF Claims, LockHeld, RowKept, Closed
<1>2. ScanIsCurrent'
  <2> SUFFICES ASSUME NEW p \in Passes, pass'[p].pc = "recover", NEW t \in pass'[p].todo
               PROVE  Fresh(t)'
    BY DEF ScanIsCurrent, Fresh
  <2>1. Fresh(t)
    BY DEF PassKept, Claims, ScanIsCurrent, Fresh
  <2>2. t.job \in Jobs
    BY <1>0
  <2> QED
    BY <2>1, <2>2 DEF Fresh, RowKept, RowOpened, RowAged, Closed, Due
<1>3. SnapIsCurrent'
  BY DEF SnapIsCurrent, PassKept
<1>4. \A p, q \in Passes : pass'[p].cur = pass'[q].cur /\ pass'[p].cur # NoJob => p = q
  BY DEF PassKept, Claims
<1>5. \A j \in Jobs : row'[j].status \in Due => row'[j].attempts < MaxAttempts
  BY DEF Claims, RowKept, RowOpened, RowAged, Closed, Due
<1> QED
  BY <1>1, <1>2, <1>3, <1>4, <1>5 DEF Claims, Due

\* A pass that does not move keeps what it knows, if no step changes the attempts
\* of the job it holds.
LEMMA OthersKept ==
  ASSUME TypeOK, Claims, NEW p \in Passes, NEW q \in Passes, q # p, pass'[q] = pass[q],
         \A j \in Jobs : pass[q].cur = j => row'[j].attempts = row[j].attempts
  PROVE  PassKept(q)
  BY DEF PassKept, Claims, ScanIsCurrent, SnapIsCurrent, Fresh, TypeOK, Pass, Working

\* The steps of a pass that leave the table alone.
LEMMA ClaimsLocal ==
  ASSUME TypeOK, TypeOK', Claims, LocksInOrder, NEW p \in Passes,
         \/ StartPass(p) \/ Beat(p) \/ ScanStaleLocks(p) \/ FetchDue(p) \/ ClaimMisses(p) \/ Reread(p)
         \/ CheckSuppression(p) \/ RenderFails(p) \/ CheckLimit(p) \/ CallProvider(p)
         \/ NothingToSend(p) \/ EndPass(p) \/ StatementFails(p) \/ AbortPass(p)
  PROVE  Claims'
<1>1. UNCHANGED <<row, claims>>
  BY DEF StartPass, Beat, ScanStaleLocks, FetchDue, ClaimMisses, Reread,
     CheckSuppression, RenderFails, CheckLimit, CallProvider, NothingToSend, EndPass,
     StatementFails, AbortPass, history
<1>2. \A q \in Passes : q # p => pass'[q] = pass[q]
  BY DEF StartPass, Beat, ScanStaleLocks, FetchDue, ClaimMisses, Reread,
     CheckSuppression, RenderFails, CheckLimit, CallProvider, NothingToSend, EndPass,
     StatementFails, AbortPass, TypeOK
<1>3. \A j \in Jobs : RowKept(j)
  BY <1>1 DEF RowKept
<1>4. \A q \in Passes : q # p => PassKept(q)
  BY <1>1, <1>2, OthersKept
<1>5. /\ pass[p] \in Pass /\ pass \in [Passes -> Pass]
      /\ pass[p].pc \in Working <=> pass[p].cur # NoJob
      /\ IdlePass.cur = NoJob /\ IdlePass.pc = "idle"
  BY DEF TypeOK, IdlePass
<1>6. PassKept(p)
  <2>1. CASE StartPass(p) \/ EndPass(p) \/ AbortPass(p)
    <3>1. \A b \in BOOLEAN : LET l == [IdlePass EXCEPT !.pc = "beat", !.wasStale = b]
                             IN  l.pc = "beat" /\ l.cur = NoJob
      BY DEF IdlePass
    <3>2. pass'[p].cur = NoJob /\ pass'[p].pc \in {"idle", "beat"}
      <4>1. CASE StartPass(p)
        BY <1>5, <3>1, <4>1 DEF StartPass, TypeOK
      <4>2. CASE EndPass(p) \/ AbortPass(p)
        BY <1>5, <4>2 DEF EndPass, AbortPass
      <4> QED
        BY <2>1, <4>1, <4>2
    <3> QED
      BY <3>2 DEF PassKept, Working
  <2>7. CASE Beat(p)
    <3>1. pass'[p].cur = NoJob /\ pass'[p].pc = "scan"
      BY <1>5, <2>7 DEF Beat, Pass, Working
    <3> QED
      BY <3>1 DEF PassKept, Working
  <2>2. CASE ScanStaleLocks(p)
    <3>1. /\ pass'[p].pc = "recover" /\ pass'[p].cur = pass[p].cur
          /\ pass'[p].mine = pass[p].mine
          /\ pass'[p].todo = {ItemOf(j) : j \in {k \in Jobs : StaleLock(k, pass[p].wasStale)}}
      BY <1>5, <2>2 DEF ScanStaleLocks, Pass
    <3>2. ASSUME NEW j \in Jobs, StaleLock(j, pass[p].wasStale)
          PROVE  Fresh(ItemOf(j))
      BY <3>2 DEF StaleLock, Fresh, ItemOf, LocksInOrder
    <3> QED
      BY <3>1, <3>2 DEF PassKept, Working
  <2>3. CASE FetchDue(p) \/ ClaimMisses(p)
    <3>1. pass[p].pc \in {"recover", "claim"} /\ pass[p].cur = NoJob
      BY <1>5, <2>3 DEF FetchDue, ClaimMisses, Working
    <3>2. pass'[p].pc = "claim" /\ pass'[p].cur = NoJob
      <4>1. CASE FetchDue(p)
        <5>1. PICK bulk \in BOOLEAN, batch \in SUBSET Jobs :
                pass' = [pass EXCEPT ![p].pc = "claim", ![p].bulk = bulk,
                                     ![p].todo = {ItemOf(j) : j \in batch}]
          BY <4>1, FetchedBatch
        <5> QED
          BY <1>5, <3>1, <5>1 DEF Pass
      <4>2. CASE ClaimMisses(p)
        BY <1>5, <3>1, <4>2 DEF ClaimMisses, Pass
      <4> QED
        BY <2>3, <4>1, <4>2
    <3> QED
      BY <3>2 DEF PassKept, Working
  <2>4. CASE Reread(p)
    <3>1. /\ pass'[p].cur = pass[p].cur /\ pass'[p].mine = pass[p].mine
          /\ pass'[p].pc \in {"check", "limit"}
          /\ pass'[p].snap = row[pass[p].cur].attempts
      BY <1>5, <2>4 DEF Reread, Pass
    <3>2. pass[p].cur \in Jobs /\ row[pass[p].cur].attempts \in Nat
      BY <1>5, <2>4 DEF Reread, Working, Pass, TypeOK, Row
    <3> QED
      BY <1>1, <3>1, <3>2 DEF PassKept
  <2>5. CASE \/ CheckSuppression(p) \/ RenderFails(p) \/ CheckLimit(p) \/ CallProvider(p)
             \/ NothingToSend(p) \/ StatementFails(p)
    <3>1. /\ pass[p].pc \in Working \ {"reread"}
          /\ pass'[p].cur = pass[p].cur /\ pass'[p].mine = pass[p].mine
          /\ pass'[p].pc \in {"limit", "send", "write"}
          /\ pass'[p].snap = pass[p].snap
      <4>1. CASE CheckSuppression(p) \/ RenderFails(p)
        BY <1>5, <4>1 DEF CheckSuppression, RenderFails, Pass, Working
      <4>2. CASE CheckLimit(p) \/ NothingToSend(p)
        BY <1>5, <4>2 DEF CheckLimit, NothingToSend, Pass, Working
      <4>3. CASE CallProvider(p) \/ StatementFails(p)
        BY <1>5, <4>3 DEF CallProvider, StatementFails, Pass, Working
      <4> QED
        BY <2>5, <4>1, <4>2, <4>3
    <3>2. row[pass[p].cur].attempts <= pass[p].snap
      BY <3>1 DEF Claims, SnapIsCurrent
    <3> QED
      BY <1>1, <3>1, <3>2 DEF PassKept
  <2> QED
    BY <2>1, <2>2, <2>3, <2>4, <2>5, <2>7
<1> QED
  BY <1>1, <1>3, <1>4, <1>6, ClaimsKept

\* The compare-and-set: a claimable row has no holder, and its claim is new.
LEMMA ClaimsClaim ==
  ASSUME TypeOK, TypeOK', Claims, LocksInOrder, NEW p \in Passes, Claim(p)
  PROVE  Claims'
<1>1. PICK t \in pass[p].todo :
        /\ Claimable(t)
        /\ row' = [row EXCEPT ![t.job].status = "PROCESSING",
                              ![t.job].attempts = t.attempts + 1,
                              ![t.job].lockedAt = claims[t.job] + 1,
                              ![t.job].age = 0]
        /\ claims' = [claims EXCEPT ![t.job] = @ + 1]
        /\ pass' = [pass EXCEPT ![p].pc = "reread", ![p].todo = @ \ {t},
                                ![p].cur = t.job, ![p].mine = claims[t.job] + 1]
  BY DEF Claim
<1> DEFINE k == t.job
<1>2. /\ k \in Jobs /\ row[k] \in Row /\ claims[k] \in Nat /\ pass[p] \in Pass
      /\ row \in [Jobs -> Row] /\ pass \in [Passes -> Pass] /\ claims \in [Jobs -> Nat]
  BY DEF TypeOK, Pass, Item
<1>3. /\ row'[k].status = "PROCESSING" /\ row'[k].lockedAt = claims[k] + 1 /\ row'[k].age = 0
      /\ \A j \in Jobs : j # k => row'[j] = row[j] /\ claims'[j] = claims[j]
      /\ claims'[k] = claims[k] + 1
  BY <1>1, <1>2 DEF Row
<1>4. /\ pass'[p].pc = "reread" /\ pass'[p].cur = k /\ pass'[p].mine = claims[k] + 1
      /\ \A q \in Passes : q # p => pass'[q] = pass[q]
  BY <1>1, <1>2 DEF Pass
<1>5. \A q \in Passes : pass[q].cur # k
  BY <1>1, <1>2 DEF Claims, LockHeld, Claimable, Due
<1>6. \A q \in Passes : /\ pass[q].cur \in Jobs \union {NoJob}
                        /\ pass[q].pc \in Working <=> pass[q].cur # NoJob
                        /\ \A u \in pass[q].todo : u.job \in Jobs /\ u.lockedAt \in Nat
  BY DEF TypeOK, Pass, Item
<1> HIDE DEF k
<1>7. LockHeld'
  BY <1>2, <1>3, <1>4, <1>5 DEF LockHeld, Claims
<1>8. ScanIsCurrent'
  <2> SUFFICES ASSUME NEW q \in Passes, pass'[q].pc = "recover", NEW u \in pass'[q].todo
               PROVE  Fresh(u)'
    BY DEF ScanIsCurrent, Fresh
  <2>1. q # p /\ u \in pass[q].todo /\ Fresh(u)
    BY <1>4 DEF Claims, ScanIsCurrent, Fresh
  <2>2. u.job \in Jobs /\ u.lockedAt \in Nat
    BY <1>6, <2>1
  <2>3. CASE u.job = k
    BY <1>2, <1>3, <2>1, <2>2, <2>3 DEF Fresh
  <2>4. CASE u.job # k
    BY <1>3, <2>1, <2>2, <2>4 DEF Fresh
  <2> QED
    BY <2>3, <2>4
<1>9. SnapIsCurrent'
  <2> SUFFICES ASSUME NEW q \in Passes, pass'[q].pc \in Working \ {"reread"}
               PROVE  row'[pass'[q].cur].attempts <= pass'[q].snap
    BY DEF SnapIsCurrent
  <2>1. q # p /\ pass'[q] = pass[q]
    BY <1>4
  <2>2. pass[q].cur \in Jobs /\ pass[q].cur # k
    BY <1>5, <1>6, <2>1
  <2> QED
    BY <1>3, <2>1, <2>2 DEF Claims, SnapIsCurrent
<1>10. \A q, r \in Passes : pass'[q].cur = pass'[r].cur /\ pass'[q].cur # NoJob => q = r
  BY <1>4, <1>5 DEF Claims
<1>11. \A j \in Jobs : row'[j].status \in Due => row'[j].attempts < MaxAttempts
  BY <1>3 DEF Claims, Due
<1> QED
  BY <1>7, <1>8, <1>9, <1>10, <1>11 DEF Claims, Due

\* One update of recoverStaleLocks: a row it puts back had an old lock, hence no
\* holder, and attempts left.
LEMMA ClaimsRecover ==
  ASSUME TypeOK, TypeOK', Claims, NEW p \in Passes, RecoverLock(p)
  PROVE  Claims'
<1>1. PICK t \in pass[p].todo :
        /\ row' = IF row[t.job].status = "PROCESSING" /\ row[t.job].lockedAt = t.lockedAt
                  THEN [row EXCEPT ![t.job] = Recovered(@, t.attempts)]
                  ELSE row
        /\ pass' = [pass EXCEPT ![p].todo = @ \ {t}]
  BY DEF RecoverLock
<1>2. /\ pass[p].pc = "recover" /\ pass[p] \in Pass /\ UNCHANGED claims
      /\ t.job \in Jobs /\ row[t.job] \in Row /\ t.attempts \in Nat
      /\ row \in [Jobs -> Row] /\ pass \in [Passes -> Pass]
      /\ pass[p].cur = NoJob
  BY DEF RecoverLock, TypeOK, Pass, Item, Working
<1>3. /\ pass'[p].pc = "recover" /\ pass'[p].cur = NoJob /\ pass'[p].todo = pass[p].todo \ {t}
      /\ \A q \in Passes : q # p => pass'[q] = pass[q]
  BY <1>1, <1>2 DEF Pass
<1>4. PassKept(p)
  BY <1>2, <1>3 DEF PassKept, Working
<1>5. \A j \in Jobs : j # t.job => row'[j] = row[j]
  BY <1>1, <1>2
<1>6. row'[t.job].attempts = row[t.job].attempts
  BY <1>1, <1>2, UpdatedFields
<1>7. \A q \in Passes : q # p => PassKept(q)
  BY <1>3, <1>5, <1>6, OthersKept
<1>8. RowKept(t.job) \/ row'[t.job].status \in Closed \/ RowOpened(t.job)
  <2>1. CASE row[t.job].status = "PROCESSING" /\ row[t.job].lockedAt = t.lockedAt
    <3>1. row[t.job].age > 0 /\ row[t.job].attempts = t.attempts
      BY <1>2, <2>1 DEF Claims, ScanIsCurrent
    <3>2. \A q \in Passes : pass[q].cur # t.job
      BY <1>2, <2>1, <3>1 DEF Claims, LockHeld
    <3>3. \A q \in Passes : pass'[q].cur # t.job
      BY <1>2, <1>3, <3>2, MailAssumption DEF MailAssumption
    <3>4. row'[t.job] = Recovered(row[t.job], t.attempts)
      BY <1>1, <1>2, <2>1
    <3> QED
      BY <1>2, <3>1, <3>3, <3>4, UpdatedFields DEF RowOpened, Closed, Due
  <2>2. CASE ~(row[t.job].status = "PROCESSING" /\ row[t.job].lockedAt = t.lockedAt)
    BY <1>1, <2>2 DEF RowKept
  <2> QED
    BY <2>1, <2>2
<1>9. \A j \in Jobs : j # t.job => RowKept(j)
  BY <1>5 DEF RowKept
<1> QED
  BY <1>2, <1>4, <1>7, <1>8, <1>9, ClaimsKept

\* The final update of processClaimedJob: by exclusion it writes the row of no
\* other pass.
LEMMA ClaimsWrite ==
  ASSUME TypeOK, TypeOK', Claims, NEW p \in Passes, WriteOutcome(p)
  PROVE  Claims'
<1> DEFINE k == pass[p].cur
           w == Written(row[k], pass[p].out, pass[p].snap, pass[p].mine)
<1>1. /\ pass[p].pc = "write" /\ pass[p] \in Pass /\ k \in Jobs /\ UNCHANGED claims
      /\ row[k] \in Row /\ row \in [Jobs -> Row] /\ pass \in [Passes -> Pass]
      /\ pass[p].out \in Outcomes /\ pass[p].snap \in Nat /\ pass[p].mine \in Nat
      /\ row' = [row EXCEPT ![k] = w]
      /\ row[k].attempts \in Nat
  BY DEF WriteOutcome, TypeOK, Pass, Working, Row
<1>2. /\ row'[k] = w /\ \A j \in Jobs : j # k => row'[j] = row[j]
  BY <1>1
<1>3. /\ w.status \notin {"NONE", "QUEUED", "PROCESSING"}
      /\ w.status = "FAILED" => pass[p].snap < MaxAttempts /\ w.attempts = row[k].attempts
      /\ pass[p].out = "paused" => w.status = "PAUSED_LIMIT_REACHED" /\ w.attempts <= pass[p].snap
  BY <1>1, WrittenFields
<1>4. row[k].attempts <= pass[p].snap
  BY <1>1 DEF Claims, SnapIsCurrent, Working
<1>5. row'[k] \in Row
  BY <1>1 DEF TypeOK
<1>6. \A q \in Passes : q # p => pass'[q] = pass[q] /\ pass[q].cur # k
  BY <1>1, MailAssumption DEF WriteOutcome, Claims, MailAssumption
<1>7. \/ /\ pass'[p].pc = "mates" /\ pass[p].out = "paused"
         /\ pass'[p].cur = k /\ pass'[p].mine = pass[p].mine /\ pass'[p].snap = pass[p].snap
      \/ /\ pass'[p].pc = "claim" /\ pass'[p].cur = NoJob
  <2>1. NextClaim(pass[p]).pc = "claim" /\ NextClaim(pass[p]).cur = NoJob
    BY <1>1 DEF NextClaim, Pass
  <2> QED
    BY <1>1, <2>1 DEF WriteOutcome, Pass
<1> HIDE DEF k, w
<1>8. PassKept(p)
  BY <1>2, <1>3, <1>7 DEF PassKept, Working, k
<1>9. \A q \in Passes : q # p => PassKept(q)
  BY <1>2, <1>6, OthersKept
<1>10. row'[k].status \in Closed \/ RowOpened(k)
  <2>1. CASE w.status = "FAILED"
    <3>1. pass[p].out # "paused"
      BY <1>3, <2>1
    <3>2. \A q \in Passes : pass'[q].cur # k
      BY <1>1, <1>6, <1>7, <3>1, MailAssumption DEF MailAssumption
    <3>3. w.attempts < MaxAttempts
      BY <1>1, <1>3, <1>4, <2>1, MailAssumption DEF MailAssumption
    <3> QED
      BY <1>2, <2>1, <3>2, <3>3 DEF RowOpened, Due
  <2>2. CASE w.status # "FAILED"
    BY <1>2, <1>3, <1>5, <2>2 DEF Closed, Row, Statuses
  <2> QED
    BY <2>1, <2>2
<1>11. \A j \in Jobs : j # k => RowKept(j)
  BY <1>2 DEF RowKept
<1> QED
  BY <1>1, <1>8, <1>9, <1>10, <1>11, ClaimsKept

\* pausePendingBulkJobs pauses only rows that wait, and those have no holder.
LEMMA ClaimsMates ==
  ASSUME TypeOK, TypeOK', Claims, NEW p \in Passes, PauseMates(p)
  PROVE  Claims'
<1>1. /\ pass[p] \in Pass /\ UNCHANGED claims /\ row \in [Jobs -> Row]
      /\ pass \in [Passes -> Pass]
  BY DEF PauseMates, TypeOK
<1>2. \A j \in Jobs : RowKept(j) \/ (row[j].status \in Due /\ row'[j].status = "PAUSED_LIMIT_REACHED")
  <2>1. \A u \in Row : [u EXCEPT !.status = "PAUSED_LIMIT_REACHED", !.retryable = TRUE,
                                 !.due = TRUE].status = "PAUSED_LIMIT_REACHED"
    BY DEF Row
  <2>2. \A j \in Jobs : Unlocked(row[j]) \in Row
    BY <1>1, RowUpdates
  <2> QED
    BY <2>1, <2>2 DEF PauseMates, RowKept
<1>3. \A q \in Passes : q # p => pass'[q] = pass[q]
  BY <1>1 DEF PauseMates
<1>4. PassKept(p)
  <2>1. NextClaim(pass[p]).pc = "claim" /\ NextClaim(pass[p]).cur = NoJob
    BY <1>1 DEF NextClaim, Pass
  <2>2. pass'[p] = NextClaim(pass[p])
    BY <1>1 DEF PauseMates
  <2> QED
    BY <2>1, <2>2 DEF PassKept, Working
<1>5. ASSUME NEW q \in Passes, NEW j \in Jobs, pass[q].cur = j
      PROVE  row'[j].attempts = row[j].attempts
  BY <1>2, <1>5 DEF Claims, LockHeld, RowKept, Due
<1>6. \A q \in Passes : q # p => PassKept(q)
  BY <1>3, <1>5, OthersKept
<1> QED
  BY <1>1, <1>2, <1>4, <1>6, ClaimsKept DEF Closed

\* When no pass moves and held jobs keep their attempts, all passes keep what they
\* know.
LEMMA PassesKept ==
  ASSUME TypeOK, Claims, UNCHANGED pass,
         \A q \in Passes, j \in Jobs : pass[q].cur = j => row'[j].attempts = row[j].attempts
  PROVE  \A q \in Passes : PassKept(q)
  BY DEF PassKept, Claims, ScanIsCurrent, SnapIsCurrent, Fresh, TypeOK, Pass, Working

\* Requests that occur in a disciplined queue never put a held row back.
LEMMA ClaimsRequest ==
  ASSUME TypeOK, TypeOK', Claims, RequestsInOps, Disciplined, NEW c \in Clients, RequestStep(c)
  PROVE  Claims'
<1>0. /\ req[c] \in Request /\ row \in [Jobs -> Row] /\ UNCHANGED <<pass, claims>>
  BY DEF TypeOK, RequestStep, CreateWrites, RefreshWrites, RetryWrites, CancelWrites,
     ArchiveWrites, BounceMarksDead, CreateReads, RefreshReads, RetryReads, CancelReads,
     ArchiveReads, BounceSuppresses
<1> DEFINE k == req[c].job
<1>1. ASSUME \A j \in Jobs :
               \/ RowKept(j)
               \/ row'[j].status \in Closed /\ row'[j].attempts = row[j].attempts
               \/ RowOpened(j) /\ row[j].status = "NONE"
      PROVE  Claims'
  <2>1. \A q \in Passes, j \in Jobs : pass[q].cur = j => row'[j].attempts = row[j].attempts
    BY <1>0, <1>1 DEF RowKept, Claims, LockHeld
  <2> QED
    BY <1>0, <1>1, <2>1, PassesKept, ClaimsKept
<1>2. CASE CreateWrites(c)
  <2>1. CASE row[k].status = "NONE" /\ k \in Jobs
    <3>1. PICK due \in BOOLEAN, window \in BOOLEAN :
            row' = [row EXCEPT ![k] = [NoRow EXCEPT !.status = "QUEUED",
                                         !.due = due, !.window = window]]
      BY <1>2, <2>1, MailAssumption DEF CreateWrites, MailAssumption
    <3>2. LET r == [NoRow EXCEPT !.status = "QUEUED", !.due = due, !.window = window]
          IN  r.status = "QUEUED" /\ r.attempts = 0
      BY DEF NoRow
    <3>3. row'[k].status = "QUEUED" /\ row'[k].attempts < MaxAttempts
      BY <1>0, <2>1, <3>1, <3>2, MailAssumption DEF MailAssumption
    <3>4. \A q \in Passes : pass'[q].cur # k
      BY <1>0, <2>1 DEF Claims, LockHeld
    <3>5. \A j \in Jobs : j # k => row'[j] = row[j]
      BY <1>0, <3>1
    <3> QED
      BY <1>1, <2>1, <3>3, <3>4, <3>5 DEF RowKept, RowOpened, Due
  <2>2. CASE row[k].status # "NONE"
    BY <1>1, <1>2, <2>2 DEF CreateWrites, RowKept
  <2>3. CASE k \notin Jobs
    BY <1>0, <1>1, <1>2, <2>3 DEF CreateWrites, RowKept
  <2> QED
    BY <2>1, <2>2, <2>3
<1>3. ~RefreshWrites(c) /\ ~RetryWrites(c)
  BY DEF RefreshWrites, RetryWrites, Finish, RequestsInOps, Disciplined
<1>4. CASE CancelWrites(c)
  <2>1. \A u \in Row : LET r == [u EXCEPT !.status = "CANCELLED", !.due = TRUE, !.retryable = FALSE]
                       IN  r.status = "CANCELLED" /\ r.attempts = u.attempts
    BY DEF Row
  <2>2. ASSUME NEW j \in Jobs
        PROVE  row'[j] = row[j] \/ (row'[j].status \in Closed /\ row'[j].attempts = row[j].attempts)
    BY <1>0, <1>4, <2>1, RowUpdates, UpdatedFields DEF CancelWrites, Closed
  <2> QED
    BY <1>1, <2>2 DEF RowKept
<1>5. CASE ArchiveWrites(c)
  <2>1. \A r \in Row : LET a == [r EXCEPT !.archived = TRUE]
                       IN  /\ a.status = r.status /\ a.attempts = r.attempts
                           /\ a.lockedAt = r.lockedAt /\ a.age = r.age
    BY DEF Row
  <2> QED
    BY <1>0, <1>1, <1>5, <2>1 DEF ArchiveWrites, RowKept
<1>6. CASE BounceMarksDead(c)
  <2>1. \A r \in Row : LET d == [r EXCEPT !.status = "DEAD"]
                       IN  d.status = "DEAD" /\ d.attempts = r.attempts
    BY DEF Row
  <2> QED
    BY <1>0, <1>1, <1>6, <2>1 DEF BounceMarksDead, RowKept, Closed
<1>7. ASSUME NEW j \in Jobs,
             \/ CreateReads(c, j) \/ RefreshReads(c, j) \/ RetryReads(c, j)
             \/ CancelReads(c, j) \/ ArchiveReads(c, j) \/ BounceSuppresses(c, j)
      PROVE  Claims'
  <2>1. UNCHANGED row
    BY <1>7 DEF CreateReads, RefreshReads, RetryReads, CancelReads, ArchiveReads, BounceSuppresses
  <2> QED
    BY <1>1, <2>1 DEF RowKept
<1> QED
  BY <1>2, <1>3, <1>4, <1>5, <1>6, <1>7 DEF RequestStep

\* The remaining steps; a lock grows old only without its holder.
LEMMA ClaimsOther ==
  ASSUME TypeOK, TypeOK', Claims, Disciplined,
         \/ ArchiveOld \/ ResumePaused \/ HeartbeatAges \/ MinutePasses \/ DayRolls
         \/ \E r \in Recipients : Suppress(r)
         \/ \E j \in Jobs : BecomesDue(j) \/ WindowCloses(j) \/ LockAges(j)
         \/ UNCHANGED vars
  PROVE  Claims'
<1>0. row \in [Jobs -> Row]
  BY DEF TypeOK
<1>1. ASSUME UNCHANGED <<pass, claims>>, \A j \in Jobs : RowKept(j) \/ RowAged(j)
      PROVE  Claims'
  <2>1. \A q \in Passes : PassKept(q)
    BY <1>1, PassesKept DEF RowKept, RowAged
  <2> QED
    BY <1>1, <2>1, ClaimsKept
<1>2. \A r \in Row :
        /\ LET s == [r EXCEPT !.archived = TRUE] IN
             /\ s.status = r.status /\ s.attempts = r.attempts
             /\ s.lockedAt = r.lockedAt /\ s.age = r.age
        /\ \A x \in {"day", "old"} : LET s == [r EXCEPT !.sentAt = x] IN
             /\ s.status = r.status /\ s.attempts = r.attempts
             /\ s.lockedAt = r.lockedAt /\ s.age = r.age
        /\ LET s == [r EXCEPT !.due = TRUE] IN
             /\ s.status = r.status /\ s.attempts = r.attempts
             /\ s.lockedAt = r.lockedAt /\ s.age = r.age
        /\ LET s == [r EXCEPT !.window = FALSE] IN
             /\ s.status = r.status /\ s.attempts = r.attempts
             /\ s.lockedAt = r.lockedAt /\ s.age = r.age
        /\ \A n \in Int : LET s == [r EXCEPT !.age = n] IN
             /\ s.status = r.status /\ s.attempts = r.attempts
             /\ s.lockedAt = r.lockedAt /\ s.age = n
  BY DEF Row
<1>3. CASE ArchiveOld
  <2>1. \A j \in Jobs : RowKept(j)
    BY <1>0, <1>2, <1>3 DEF ArchiveOld, RowKept
  <2> QED
    BY <1>1, <1>3, <2>1 DEF ArchiveOld
<1>4. ~ResumePaused
  BY DEF ResumePaused, Disciplined
<1>5. CASE MinutePasses \/ DayRolls
  <2>1. \A j \in Jobs : RowKept(j)
    <3>1. CASE MinutePasses
      BY <1>0, <1>2, <3>1 DEF MinutePasses, RowKept
    <3>2. CASE DayRolls
      BY <1>0, <1>2, <3>2 DEF DayRolls, RowKept
    <3> QED
      BY <1>5, <3>1, <3>2
  <2> QED
    BY <1>1, <1>5, <2>1 DEF MinutePasses, DayRolls
<1>6. CASE HeartbeatAges \/ (\E r \in Recipients : Suppress(r)) \/ UNCHANGED vars
  <2>1. \A j \in Jobs : RowKept(j)
    BY <1>6 DEF HeartbeatAges, Suppress, vars, RowKept
  <2> QED
    BY <1>1, <1>6, <2>1 DEF HeartbeatAges, Suppress, vars
<1>7. ASSUME NEW k \in Jobs, BecomesDue(k) \/ WindowCloses(k)
      PROVE  Claims'
  <2>1. CASE BecomesDue(k)
    <3>1. \A j \in Jobs : RowKept(j)
      BY <1>0, <1>2, <2>1 DEF BecomesDue, RowKept
    <3> QED
      BY <1>1, <2>1, <3>1 DEF BecomesDue
  <2>2. CASE WindowCloses(k)
    <3>1. \A j \in Jobs : RowKept(j)
      BY <1>0, <1>2, <2>2 DEF WindowCloses, RowKept
    <3> QED
      BY <1>1, <2>2, <3>1 DEF WindowCloses
  <2> QED
    BY <1>7, <2>1, <2>2
<1>8. ASSUME NEW k \in Jobs, LockAges(k)
      PROVE  Claims'
  <2>1. \A q \in Passes : pass[q].cur # k
    BY <1>8 DEF LockAges, Disciplined, HoldsLock, Claims, LockHeld
  <2>2. row[k].age \in {0, 1, 2} /\ row[k].age + 1 \in Int /\ row[k].age + 1 > 0
    BY <1>0, <1>8 DEF Row
  <2>3. RowAged(k)
    BY <1>0, <1>2, <1>8, <2>1, <2>2 DEF LockAges, RowAged
  <2>4. \A j \in Jobs : j # k => RowKept(j)
    BY <1>0, <1>8 DEF LockAges, RowKept
  <2> QED
    BY <1>1, <1>8, <2>3, <2>4 DEF LockAges
<1> QED
  BY <1>3, <1>4, <1>5, <1>6, <1>7, <1>8

\* The invariant holds of the empty queue.
LEMMA ClaimInvInit == Init => ClaimInv
<1> SUFFICES ASSUME Init PROVE ClaimInv
  OBVIOUS
<1>1. /\ \A p \in Passes : pass[p].pc = "idle" /\ pass[p].cur = NoJob
      /\ \A j \in Jobs : row[j].status = "NONE" /\ row[j].lockedAt = 0 /\ claims[j] = 0
      /\ \A c \in Clients : req[c].op = "none"
  BY DEF Init, IdlePass, NoRow, IdleRequest
<1>2. RequestsInOps /\ LocksInOrder
  BY <1>1 DEF RequestsInOps, LocksInOrder
<1>3. LockHeld /\ ScanIsCurrent /\ SnapIsCurrent
  BY <1>1, MailAssumption DEF LockHeld, ScanIsCurrent, SnapIsCurrent, Working, MailAssumption
<1>4. ExclusiveProcessing /\ NoStrandedJob
  BY <1>1 DEF ExclusiveProcessing, NoStrandedJob, Due
<1> QED
  BY <1>2, <1>3, <1>4 DEF ClaimInv

\* Every step of the queue keeps the invariant.
LEMMA ClaimInvStep == TypeOK /\ TypeOK' /\ ClaimInv /\ [Next]_vars => ClaimInv'
<1> SUFFICES ASSUME TypeOK, TypeOK', ClaimInv, [Next]_vars PROVE ClaimInv'
  OBVIOUS
<1>1. RequestsInOps' /\ LocksInOrder'
  BY OrderStep DEF ClaimInv
<1>2. ASSUME Disciplined PROVE Claims'
  <2>1. Claims /\ LocksInOrder /\ RequestsInOps
    BY <1>2 DEF ClaimInv, Claims, ExclusiveProcessing, NoStrandedJob
  <2> QED
    BY <1>2, <2>1, ClaimsLocal, ClaimsClaim, ClaimsRecover, ClaimsWrite, ClaimsMates,
       ClaimsRequest, ClaimsOther DEF Next, PassStep
<1> QED
  BY <1>1, <1>2 DEF ClaimInv, Claims, ExclusiveProcessing, NoStrandedJob, Disciplined, Due

\* In a disciplined queue no two passes ever work on the same job.
THEOREM ExclusiveClaims == Spec => []ExclusiveProcessing
<1>1. ClaimInv => ExclusiveProcessing
  BY DEF ClaimInv
<1> QED
  BY TypeInit, TypeStep, ClaimInvInit, ClaimInvStep, <1>1, PTL DEF Spec

\* In a disciplined queue every job that waits for the worker has attempts left.
THEOREM NothingStranded == Spec => []NoStrandedJob
<1>1. ClaimInv => NoStrandedJob
  BY DEF ClaimInv
<1> QED
  BY TypeInit, TypeStep, ClaimInvInit, ClaimInvStep, <1>1, PTL DEF Spec

\* The inductive form of both: who holds a job, what recovery has in its list, and
\* what a holder knows of the attempts stay in order through every step.
THEOREM ClaimsInOrder == Spec => []ClaimInv
BY TypeInit, TypeStep, ClaimInvInit, ClaimInvStep, PTL DEF Spec

-----------------------------------------------------------------------------
(* What one step does to one row and to the passes *)

\* The clocks of job j stand still.
Timeless(j) == claims'[j] = claims[j] /\ base'[j] = base[j]

\* The fields that neither time nor a lock touches.
SameContent(j) ==
  row'[j].attempts = row[j].attempts /\ row'[j].msg = row[j].msg /\ Timeless(j)

Counted(j) == row[j].status = "SENT" /\ row[j].sentAt \in {"minute", "day"}

Rests(j) ==
  /\ SameContent(j) /\ row'[j].status = row[j].status
  /\ row'[j].archived = row[j].archived
  /\ Counted(j)' => Counted(j)

Hides(j) ==
  /\ SameContent(j) /\ row'[j].status = row[j].status
  /\ row[j].status \in Final \/ \E c \in Clients : req[c].op = "archive" /\ req[c].job = j
  /\ Counted(j)' => Counted(j)

ClaimedBy(p, j) ==
  /\ pass[p].pc = "claim" /\ pass'[p].pc = "reread"
  /\ \E t \in pass[p].todo : /\ t.job = j /\ row[j].attempts = t.attempts
                             /\ row'[j].attempts = t.attempts + 1
  /\ row[j].status \in Due /\ row'[j].status = "PROCESSING"
  /\ row'[j].archived = row[j].archived /\ row'[j].msg = row[j].msg
  /\ claims'[j] = claims[j] + 1 /\ base'[j] = base[j]

RecoveredBy(p, j) ==
  /\ SameContent(j) /\ row'[j].archived = row[j].archived
  /\ row[j].status = "PROCESSING" /\ row'[j].status \in {"QUEUED", "DEAD"}
  /\ pass[p].pc = "recover"
  /\ \E t \in pass[p].todo : t.job = j /\ t.lockedAt = row[j].lockedAt

WrittenBy(p, j) ==
  /\ pass[p].pc = "write" /\ pass[p].cur = j /\ Timeless(j)
  /\ IF pass[p].out = "paused"
     THEN row'[j].attempts = PausedAttempts(pass[p].snap)
     ELSE row'[j].attempts = row[j].attempts
  /\ row'[j].status = "PAUSED_LIMIT_REACHED" <=> pass[p].out = "paused"
  /\ row'[j].archived = row[j].archived
  /\ row'[j].status \notin {"NONE", "QUEUED", "PROCESSING"}
  /\ \/ pass'[p].pc = "mates" /\ row'[j].status = "PAUSED_LIMIT_REACHED"
     \/ pass'[p].pc = "claim"
  /\ \/ pass[p].out = "sent" /\ row'[j].status = "SENT"
     \/ pass[p].out # "sent" /\ row'[j].status # "SENT" /\ row'[j].msg = row[j].msg

PausedWithMate(j) ==
  /\ SameContent(j) /\ row'[j].archived = row[j].archived /\ ~row[j].archived
  /\ row[j].status \in Due /\ row'[j].status = "PAUSED_LIMIT_REACHED"

CreatedRow(j) ==
  /\ row[j].status = "NONE" /\ row'[j].status = "QUEUED"
  /\ row'[j].attempts = 0 /\ ~row'[j].archived /\ row'[j].msg = 0 /\ Timeless(j)

ResetRow(j) ==
  /\ \/ \E c \in Clients : req[c].op \in {"refresh", "retry"}
     \/ "resume" \in Ops
  /\ row'[j].status = "QUEUED" /\ row'[j].attempts = 0
  /\ claims'[j] = claims[j] /\ base'[j] = claims[j]

CancelledRow(j) ==
  /\ \E c \in Clients : req[c].op = "cancel"
  /\ row'[j].status = "CANCELLED" /\ SameContent(j)

BouncedRow(j) ==
  /\ \E c \in Clients : req[c].op = "bounce" /\ req[c].job = j /\ req[c].msg = row[j].msg
  /\ row'[j].status = "DEAD" /\ SameContent(j) /\ row'[j].archived = row[j].archived

RowStep(j) ==
  \/ Rests(j) \/ Hides(j)
  \/ \E p \in Passes : ClaimedBy(p, j) \/ RecoveredBy(p, j) \/ WrittenBy(p, j)
  \/ PausedWithMate(j) \/ CreatedRow(j) \/ ResetRow(j) \/ CancelledRow(j) \/ BouncedRow(j)

\* What the updates of a row leave of the other fields.
LEMMA KeptFields ==
  ASSUME NEW r \in Row
  PROVE  /\ Unlocked(r).status = r.status /\ Unlocked(r).msg = r.msg
         /\ Unlocked(r).archived = r.archived /\ Unlocked(r).sentAt = r.sentAt
         /\ Unlocked(r).attempts = r.attempts
         /\ \A a \in Nat : Recovered(r, a).msg = r.msg /\ Recovered(r, a).archived = r.archived
         /\ \A due \in BOOLEAN : Reset(r, due).status = "QUEUED" /\ Reset(r, due).attempts = 0
<1> DEFINE u == Unlocked(r)
<1>1. u \in Row
  BY RowUpdates
<1>2. /\ u.status = r.status /\ u.msg = r.msg /\ u.archived = r.archived
      /\ u.sentAt = r.sentAt /\ u.attempts = r.attempts
  BY DEF Unlocked, Row
<1> HIDE DEF u
<1>3. ASSUME NEW a \in Nat
      PROVE  Recovered(r, a).msg = r.msg /\ Recovered(r, a).archived = r.archived
  <2> DEFINE q == [u EXCEPT !.status = "QUEUED", !.retryable = TRUE, !.due = TRUE]
             d == [u EXCEPT !.status = "DEAD", !.retryable = TRUE, !.due = TRUE]
  <2>1. /\ q.msg = r.msg /\ q.archived = r.archived
        /\ d.msg = r.msg /\ d.archived = r.archived
    BY <1>1, <1>2 DEF Row
  <2>2. Recovered(r, a) = IF a < MaxAttempts THEN q ELSE d
    BY DEF Recovered, u
  <2> QED
    BY <2>1, <2>2
<1>4. ASSUME NEW due \in BOOLEAN
      PROVE  Reset(r, due).status = "QUEUED" /\ Reset(r, due).attempts = 0
  <2> DEFINE z == [u EXCEPT !.status = "QUEUED", !.attempts = 0, !.due = due,
                     !.archived = FALSE, !.retryable = FALSE, !.sentAt = "null", !.msg = 0]
  <2>1. z.status = "QUEUED" /\ z.attempts = 0
    BY <1>1 DEF Row
  <2> QED
    BY <2>1 DEF Reset, u
<1> QED
  BY <1>2, <1>3, <1>4 DEF u

\* The final update makes a row SENT exactly for the outcome "sent", and only a
\* pause changes the attempts.
LEMMA WrittenContent ==
  ASSUME NEW r \in Row, NEW out \in Outcomes, NEW snap \in Nat, NEW mine \in Nat
  PROVE  LET w == Written(r, out, snap, mine) IN
         /\ w.archived = r.archived
         /\ out # "paused" => w.attempts = r.attempts
         /\ out = "paused" => w.attempts = PausedAttempts(snap)
         /\ w.status = "PAUSED_LIMIT_REACHED" <=> out = "paused"
         /\ \/ out = "sent" /\ w.status = "SENT"
            \/ out # "sent" /\ w.status # "SENT" /\ w.msg = r.msg
<1> DEFINE u == Unlocked(r)
           w == Written(r, out, snap, mine)
<1>1. /\ u \in Row /\ u.attempts = r.attempts /\ u.archived = r.archived /\ u.msg = r.msg
  BY RowUpdates, KeptFields
<1>2. PausedAttempts(snap) \in Nat
  BY DEF PausedAttempts
<1> HIDE DEF u
<1> DEFINE a1 == [u EXCEPT !.status = "CANCELLED", !.retryable = FALSE]
           a2 == [u EXCEPT !.status = "DEAD", !.retryable = FALSE, !.due = TRUE]
           a3 == [u EXCEPT !.status = "PAUSED_LIMIT_REACHED", !.attempts = PausedAttempts(snap),
                           !.retryable = TRUE, !.due = TRUE]
           a4 == [u EXCEPT !.status = "SENT", !.retryable = FALSE, !.due = TRUE,
                           !.sentAt = "minute", !.msg = mine]
           a5 == [u EXCEPT !.status = "FAILED", !.retryable = TRUE, !.due = FALSE]
           a6 == [u EXCEPT !.status = "DEAD", !.retryable = TRUE, !.due = TRUE]
<1>3. \A x \in {a1, a2, a5, a6} :
        /\ x.status \notin {"SENT", "PAUSED_LIMIT_REACHED"} /\ x.msg = r.msg
        /\ x.archived = r.archived /\ x.attempts = r.attempts
  BY <1>1 DEF Row
<1>4. /\ a3.status = "PAUSED_LIMIT_REACHED" /\ a3.attempts = PausedAttempts(snap)
      /\ a3.msg = r.msg /\ a3.archived = r.archived
      /\ a4.status = "SENT" /\ a4.archived = r.archived /\ a4.attempts = r.attempts
  BY <1>1, <1>2 DEF Row
<1>5. w = CASE out = "suppressed"   -> a1
            [] out = "unrenderable" -> a2
            [] out = "paused"       -> a3
            [] out = "sent"         -> a4
            [] out = "permanent"    -> a2
            [] OTHER                -> IF snap < MaxAttempts THEN a5 ELSE a6
  BY DEF Written, u
<1> HIDE DEF a1, a2, a3, a4, a5, a6, w
<1>6. \/ out = "suppressed" /\ w = a1
      \/ out \in {"unrenderable", "permanent"} /\ w = a2
      \/ out = "paused" /\ w = a3
      \/ out = "sent" /\ w = a4
      \/ out \in {"none", "retryable"} /\ w \in {a5, a6}
  BY <1>5 DEF Outcomes
<1> QED
  BY <1>3, <1>4, <1>6 DEF w

\* A step that leaves the row and the clocks of a job as they are.
LEMMA RestsUnchanged ==
  ASSUME NEW j \in Jobs, row'[j] = row[j], Timeless(j)
  PROVE  Rests(j)
BY DEF Rests, SameContent, Counted

\* What a pass does to a row.
LEMMA RowStepsPass ==
  ASSUME TypeOK, NEW p \in Passes,
         StartPass(p) \/ PassStep(p) \/ StatementFails(p) \/ AbortPass(p),
         NEW j \in Jobs
  PROVE  RowStep(j)
<1> USE DEF history
<1>0. /\ row \in [Jobs -> Row] /\ row[j] \in Row /\ claims[j] \in Nat
      /\ claims \in [Jobs -> Nat] /\ pass \in [Passes -> Pass] /\ pass[p] \in Pass
      /\ pass[p].mine \in Nat /\ pass[p].snap \in Nat /\ pass[p].out \in Outcomes
      /\ \A t \in pass[p].todo : t.job \in Jobs /\ t.attempts \in Nat
  BY DEF TypeOK, Pass, Item
<1>1. CASE Claim(p)
  <2>1. PICK t \in pass[p].todo :
          /\ Claimable(t)
          /\ row' = [row EXCEPT ![t.job].status = "PROCESSING",
                                ![t.job].attempts = t.attempts + 1,
                                ![t.job].lockedAt = claims[t.job] + 1,
                                ![t.job].age = 0]
          /\ claims' = [claims EXCEPT ![t.job] = @ + 1]
          /\ pass' = [pass EXCEPT ![p].pc = "reread", ![p].todo = @ \ {t},
                                  ![p].cur = t.job, ![p].mine = claims[t.job] + 1]
    BY <1>1 DEF Claim
  <2>2. pass[p].pc = "claim" /\ pass'[p].pc = "reread" /\ UNCHANGED base
    BY <1>0, <1>1, <2>1 DEF Claim, Pass
  <2>3. CASE j = t.job
    <3>1. /\ row'[j].status = "PROCESSING" /\ row'[j].attempts = t.attempts + 1
          /\ row'[j].archived = row[j].archived /\ row'[j].msg = row[j].msg
          /\ claims'[j] = claims[j] + 1
      BY <1>0, <2>1, <2>3 DEF Row
    <3>2. ClaimedBy(p, j)
      BY <2>1, <2>2, <2>3, <3>1 DEF ClaimedBy, Claimable
    <3> QED
      BY <3>2 DEF RowStep
  <2>4. CASE j # t.job
    BY <1>0, <2>1, <2>2, <2>4, RestsUnchanged DEF RowStep, Timeless
  <2> QED
    BY <2>3, <2>4
<1>2. CASE RecoverLock(p)
  <2>1. PICK t \in pass[p].todo :
          row' = IF row[t.job].status = "PROCESSING" /\ row[t.job].lockedAt = t.lockedAt
                 THEN [row EXCEPT ![t.job] = Recovered(@, t.attempts)]
                 ELSE row
    BY <1>2 DEF RecoverLock
  <2>2. pass[p].pc = "recover" /\ Timeless(j)
    BY <1>2 DEF RecoverLock, Timeless
  <2>3. CASE j = t.job /\ row[j].status = "PROCESSING" /\ row[j].lockedAt = t.lockedAt
    <3>1. row'[j] = Recovered(row[j], t.attempts)
      BY <1>0, <2>1, <2>3
    <3>2. RecoveredBy(p, j)
      BY <1>0, <2>2, <2>3, <3>1, KeptFields, UpdatedFields DEF RecoveredBy, SameContent
    <3> QED
      BY <3>2 DEF RowStep
  <2>4. CASE ~(j = t.job /\ row[j].status = "PROCESSING" /\ row[j].lockedAt = t.lockedAt)
    <3>1. row'[j] = row[j]
      BY <1>0, <2>1, <2>4
    <3> QED
      BY <2>2, <3>1, RestsUnchanged DEF RowStep
  <2> QED
    BY <2>3, <2>4
<1>3. CASE WriteOutcome(p)
  <2>1. pass[p].pc = "write" /\ Timeless(j)
    BY <1>3 DEF WriteOutcome, Timeless
  <2>2. CASE j = pass[p].cur
    <3>1. row'[j] = Written(row[j], pass[p].out, pass[p].snap, pass[p].mine)
      BY <1>0, <1>3, <2>2 DEF WriteOutcome
    <3>2. (pass'[p].pc = "mates" /\ pass[p].out = "paused") \/ pass'[p].pc = "claim"
      BY <1>0, <1>3 DEF WriteOutcome, NextClaim, Pass
    <3>3. WrittenBy(p, j)
      BY <1>0, <2>1, <2>2, <3>1, <3>2, WrittenContent, WrittenFields DEF WrittenBy
    <3> QED
      BY <3>3 DEF RowStep
  <2>3. CASE j # pass[p].cur
    BY <1>0, <1>3, <2>1, <2>3, RestsUnchanged DEF RowStep, WriteOutcome
  <2> QED
    BY <2>2, <2>3
<1>4. CASE PauseMates(p)
  <2>1. Timeless(j)
    BY <1>4 DEF PauseMates, Timeless
  <2>2. \A r \in Row :
          LET w == [Unlocked(r) EXCEPT !.status = "PAUSED_LIMIT_REACHED",
                                       !.retryable = TRUE, !.due = TRUE]
          IN  /\ w.status = "PAUSED_LIMIT_REACHED" /\ w.attempts = r.attempts
              /\ w.msg = r.msg /\ w.archived = r.archived
    <3>1. \A u \in Row :
            LET w == [u EXCEPT !.status = "PAUSED_LIMIT_REACHED", !.retryable = TRUE, !.due = TRUE]
            IN  /\ w.status = "PAUSED_LIMIT_REACHED" /\ w.attempts = u.attempts
                /\ w.msg = u.msg /\ w.archived = u.archived
      BY DEF Row
    <3> QED
      BY <3>1, RowUpdates, KeptFields
  <2>3. \/ row'[j] = row[j]
        \/ /\ row[j].status \in Due /\ ~row[j].archived
           /\ row'[j] = [Unlocked(row[j]) EXCEPT !.status = "PAUSED_LIMIT_REACHED",
                                                 !.retryable = TRUE, !.due = TRUE]
    BY <1>4 DEF PauseMates
  <2>4. row'[j] = row[j] \/ PausedWithMate(j)
    BY <1>0, <2>1, <2>2, <2>3 DEF PausedWithMate, SameContent
  <2> QED
    BY <2>1, <2>4, RestsUnchanged DEF RowStep
<1>5. CASE \/ StartPass(p) \/ Beat(p) \/ ScanStaleLocks(p) \/ FetchDue(p) \/ ClaimMisses(p)
           \/ Reread(p) \/ CheckSuppression(p) \/ RenderFails(p) \/ CheckLimit(p)
           \/ CallProvider(p) \/ NothingToSend(p) \/ EndPass(p)
           \/ StatementFails(p) \/ AbortPass(p)
  <2>1. UNCHANGED <<row, claims, base>>
    BY <1>5 DEF StartPass, Beat, ScanStaleLocks, FetchDue, ClaimMisses, Reread,
       CheckSuppression, RenderFails, CheckLimit, CallProvider, NothingToSend, EndPass,
       StatementFails, AbortPass
  <2> QED
    BY <2>1, RestsUnchanged DEF RowStep, Timeless
<1> QED
  BY <1>1, <1>2, <1>3, <1>4, <1>5 DEF PassStep

\* What a request does to a row.
LEMMA RowStepsRequest ==
  ASSUME TypeOK, NEW c \in Clients, RequestStep(c), NEW j \in Jobs
  PROVE  RowStep(j)
<1> USE DEF history
<1> DEFINE k == req[c].job
<1>0. row \in [Jobs -> Row] /\ row[j] \in Row /\ base \in [Jobs -> Nat] /\ claims[j] \in Nat
  BY DEF TypeOK
<1>1. CASE CreateWrites(c)
  <2>1. Timeless(j)
    BY <1>1 DEF CreateWrites, Timeless
  <2>2. CASE j = k /\ row[k].status = "NONE"
    <3>1. PICK due \in BOOLEAN, window \in BOOLEAN :
            row' = [row EXCEPT ![k] = [NoRow EXCEPT !.status = "QUEUED",
                                         !.due = due, !.window = window]]
      BY <1>1, <2>2, MailAssumption DEF CreateWrites, MailAssumption
    <3>2. LET r == [NoRow EXCEPT !.status = "QUEUED", !.due = due, !.window = window]
          IN  r.status = "QUEUED" /\ r.attempts = 0 /\ r.archived = FALSE /\ r.msg = 0
      BY DEF NoRow
    <3>3. CreatedRow(j)
      BY <1>0, <2>1, <2>2, <3>1, <3>2 DEF CreatedRow
    <3> QED
      BY <3>3 DEF RowStep
  <2>3. CASE ~(j = k /\ row[k].status = "NONE")
    <3>1. row'[j] = row[j]
      BY <1>0, <1>1, <2>3 DEF CreateWrites
    <3> QED
      BY <2>1, <3>1, RestsUnchanged DEF RowStep
  <2> QED
    BY <2>2, <2>3
<1>2. CASE RefreshWrites(c) \/ RetryWrites(c)
  <2>1. \A r \in Row, due, window \in BOOLEAN :
          LET w == [Reset(r, due) EXCEPT !.window = window]
          IN  w.status = "QUEUED" /\ w.attempts = 0
    <3>1. \A u \in Row, window \in BOOLEAN :
            LET w == [u EXCEPT !.window = window]
            IN  w.status = u.status /\ w.attempts = u.attempts
      BY DEF Row
    <3> QED
      BY <3>1, RowUpdates, KeptFields
  <2>2. CASE j = k
    <3>1. row'[j].status = "QUEUED" /\ row'[j].attempts = 0
      <4>1. CASE RefreshWrites(c)
        <5>1. PICK due \in BOOLEAN, window \in BOOLEAN :
                row' = [row EXCEPT ![k] = [Reset(@, due) EXCEPT !.window = window]]
          BY <4>1, MailAssumption DEF RefreshWrites, MailAssumption
        <5> QED
          BY <1>0, <2>1, <2>2, <5>1
      <4>2. CASE RetryWrites(c)
        BY <1>0, <2>2, <4>2, KeptFields DEF RetryWrites
      <4> QED
        BY <1>2, <4>1, <4>2
    <3>2. claims'[j] = claims[j] /\ base'[j] = claims[j] /\ req[c].op \in {"refresh", "retry"}
      BY <1>0, <1>2, <2>2 DEF RefreshWrites, RetryWrites, Finish
    <3>3. ResetRow(j)
      BY <3>1, <3>2 DEF ResetRow
    <3> QED
      BY <3>3 DEF RowStep
  <2>3. CASE j # k
    <3>1. row'[j] = row[j] /\ Timeless(j)
      BY <1>0, <1>2, <2>3 DEF RefreshWrites, RetryWrites, Timeless
    <3> QED
      BY <3>1, RestsUnchanged DEF RowStep
  <2> QED
    BY <2>2, <2>3
<1>3. CASE CancelWrites(c)
  <2>1. \A u \in Row : LET r == [u EXCEPT !.status = "CANCELLED", !.due = TRUE, !.retryable = FALSE]
                       IN  r.status = "CANCELLED" /\ r.attempts = u.attempts /\ r.msg = u.msg
    BY DEF Row
  <2>2. Timeless(j) /\ req[c].op = "cancel"
    BY <1>3 DEF CancelWrites, Finish, Timeless
  <2>3. CASE j = k
    <3>1. row'[j] = [Unlocked(row[j]) EXCEPT !.status = "CANCELLED", !.due = TRUE,
                                             !.retryable = FALSE]
      BY <1>0, <1>3, <2>3 DEF CancelWrites
    <3>2. CancelledRow(j)
      BY <1>0, <2>1, <2>2, <3>1, RowUpdates, KeptFields DEF CancelledRow, SameContent
    <3> QED
      BY <3>2 DEF RowStep
  <2>4. CASE j # k
    BY <1>0, <1>3, <2>2, <2>4, RestsUnchanged DEF CancelWrites, RowStep
  <2> QED
    BY <2>3, <2>4
<1>4. CASE ArchiveWrites(c)
  <2>1. \A r \in Row : LET a == [r EXCEPT !.archived = TRUE]
                       IN  /\ a.status = r.status /\ a.attempts = r.attempts
                           /\ a.msg = r.msg /\ a.sentAt = r.sentAt
    BY DEF Row
  <2>2. Timeless(j) /\ req[c].op = "archive"
    BY <1>4 DEF ArchiveWrites, Finish, Timeless
  <2>3. CASE j = k
    <3>1. row'[j] = [row[j] EXCEPT !.archived = TRUE]
      BY <1>0, <1>4, <2>3 DEF ArchiveWrites
    <3>2. Hides(j)
      BY <1>0, <2>1, <2>2, <2>3, <3>1 DEF Hides, SameContent, Counted
    <3> QED
      BY <3>2 DEF RowStep
  <2>4. CASE j # k
    BY <1>0, <1>4, <2>2, <2>4, RestsUnchanged DEF ArchiveWrites, RowStep
  <2> QED
    BY <2>3, <2>4
<1>5. CASE BounceMarksDead(c)
  <2>1. \A r \in Row : LET d == [r EXCEPT !.status = "DEAD"]
                       IN  /\ d.status = "DEAD" /\ d.attempts = r.attempts
                           /\ d.msg = r.msg /\ d.archived = r.archived
    BY DEF Row
  <2>2. Timeless(j) /\ req[c].op = "bounce"
    BY <1>5 DEF BounceMarksDead, Finish, Timeless
  <2>3. CASE j = k /\ row[k].msg = req[c].msg
    <3>1. row'[j] = [row[j] EXCEPT !.status = "DEAD"]
      BY <1>0, <1>5, <2>3 DEF BounceMarksDead
    <3>2. BouncedRow(j)
      BY <1>0, <2>1, <2>2, <2>3, <3>1 DEF BouncedRow, SameContent
    <3> QED
      BY <3>2 DEF RowStep
  <2>4. CASE ~(j = k /\ row[k].msg = req[c].msg)
    <3>1. row'[j] = row[j]
      BY <1>0, <1>5, <2>4 DEF BounceMarksDead
    <3> QED
      BY <2>2, <3>1, RestsUnchanged DEF RowStep
  <2> QED
    BY <2>3, <2>4
<1>6. ASSUME NEW i \in Jobs,
             \/ CreateReads(c, i) \/ RefreshReads(c, i) \/ RetryReads(c, i)
             \/ CancelReads(c, i) \/ ArchiveReads(c, i) \/ BounceSuppresses(c, i)
      PROVE  RowStep(j)
  <2>1. UNCHANGED <<row, claims, base>>
    BY <1>6 DEF CreateReads, RefreshReads, RetryReads, CancelReads, ArchiveReads, BounceSuppresses
  <2> QED
    BY <2>1, RestsUnchanged DEF RowStep, Timeless
<1> QED
  BY <1>1, <1>2, <1>3, <1>4, <1>5, <1>6 DEF RequestStep

\* What the remaining steps do to a row.
LEMMA RowStepsOther ==
  ASSUME TypeOK,
         \/ ArchiveOld \/ ResumePaused \/ HeartbeatAges \/ MinutePasses \/ DayRolls
         \/ \E r \in Recipients : Suppress(r)
         \/ \E k \in Jobs : BecomesDue(k) \/ WindowCloses(k) \/ LockAges(k)
         \/ UNCHANGED vars,
         NEW j \in Jobs
  PROVE  RowStep(j)
<1> USE DEF history
<1>0. row \in [Jobs -> Row] /\ row[j] \in Row /\ base[j] \in Nat /\ claims[j] \in Nat
  BY DEF TypeOK
<1> DEFINE r == row[j]
<1>1. /\ LET s == [r EXCEPT !.archived = TRUE] IN
           /\ s.status = r.status /\ s.attempts = r.attempts
           /\ s.msg = r.msg /\ s.sentAt = r.sentAt
      /\ \A x \in {"day", "old"} : LET s == [r EXCEPT !.sentAt = x] IN
           /\ s.status = r.status /\ s.attempts = r.attempts
           /\ s.msg = r.msg /\ s.archived = r.archived /\ s.sentAt = x
      /\ LET s == [r EXCEPT !.due = TRUE] IN
           /\ s.status = r.status /\ s.attempts = r.attempts
           /\ s.msg = r.msg /\ s.archived = r.archived /\ s.sentAt = r.sentAt
      /\ LET s == [r EXCEPT !.window = FALSE] IN
           /\ s.status = r.status /\ s.attempts = r.attempts
           /\ s.msg = r.msg /\ s.archived = r.archived /\ s.sentAt = r.sentAt
      /\ \A n \in Int : LET s == [r EXCEPT !.age = n] IN
           /\ s.status = r.status /\ s.attempts = r.attempts
           /\ s.msg = r.msg /\ s.archived = r.archived /\ s.sentAt = r.sentAt
  BY <1>0 DEF Row
<1>2. CASE ArchiveOld
  <2>1. Timeless(j)
    BY <1>2 DEF ArchiveOld, Timeless
  <2>2. \/ row'[j] = row[j]
        \/ row[j].status \in Final /\ row'[j] = [row[j] EXCEPT !.archived = TRUE]
    BY <1>2 DEF ArchiveOld
  <2>3. CASE row'[j] # row[j]
    <3>1. /\ row[j].status \in Final
          /\ row'[j].status = row[j].status /\ row'[j].attempts = row[j].attempts
          /\ row'[j].msg = row[j].msg /\ row'[j].sentAt = row[j].sentAt
      BY <1>0, <1>1, <2>2, <2>3
    <3>2. Hides(j)
      BY <2>1, <3>1 DEF Hides, SameContent, Counted
    <3> QED
      BY <3>2 DEF RowStep
  <2> QED
    BY <2>1, <2>3, RestsUnchanged DEF RowStep
<1>3. CASE ResumePaused
  <2>1. "resume" \in Ops /\ UNCHANGED claims
    BY <1>3, Zenon DEF ResumePaused
  <2>2. PICK resumed \in SUBSET Jobs :
          /\ row' = [i \in Jobs |-> IF i \in resumed
                       THEN [Reset(row[i], TRUE) EXCEPT !.sentAt = row[i].sentAt,
                                                        !.msg = row[i].msg]
                       ELSE row[i]]
          /\ base' = [i \in Jobs |-> IF i \in resumed THEN claims[i] ELSE base[i]]
    BY <1>3 DEF ResumePaused
  <2>3. \A x \in Row : LET w == [Reset(x, TRUE) EXCEPT !.sentAt = x.sentAt, !.msg = x.msg]
                       IN  w.status = "QUEUED" /\ w.attempts = 0
    <3>1. \A x, u \in Row : LET w == [u EXCEPT !.sentAt = x.sentAt, !.msg = x.msg]
                            IN  w.status = u.status /\ w.attempts = u.attempts
      BY DEF Row
    <3>2. \A x \in Row : /\ Reset(x, TRUE) \in Row /\ Reset(x, TRUE).status = "QUEUED"
                         /\ Reset(x, TRUE).attempts = 0
      BY RowUpdates, KeptFields
    <3> QED
      BY <3>1, <3>2
  <2>4. CASE j \in resumed
    <3>1. ResetRow(j)
      BY <1>0, <2>1, <2>2, <2>3, <2>4 DEF ResetRow
    <3> QED
      BY <3>1 DEF RowStep
  <2>5. CASE j \notin resumed
    <3>1. row'[j] = row[j] /\ Timeless(j)
      BY <2>1, <2>2, <2>5 DEF Timeless
    <3> QED
      BY <3>1, RestsUnchanged DEF RowStep
  <2> QED
    BY <2>4, <2>5
<1>4. CASE MinutePasses \/ DayRolls
  <2>1. Timeless(j)
    BY <1>4 DEF MinutePasses, DayRolls, Timeless
  <2>2. \/ row'[j] = row[j]
        \/ row[j].sentAt = "minute" /\ row'[j] = [row[j] EXCEPT !.sentAt = "day"]
        \/ row[j].sentAt = "day" /\ row'[j] = [row[j] EXCEPT !.sentAt = "old"]
    BY <1>4 DEF MinutePasses, DayRolls
  <2>3. /\ row'[j].status = row[j].status /\ row'[j].attempts = row[j].attempts
        /\ row'[j].msg = row[j].msg /\ row'[j].archived = row[j].archived
        /\ row'[j].sentAt \in {"minute", "day"} => row[j].sentAt \in {"minute", "day"}
    BY <1>0, <1>1, <2>2
  <2>4. Rests(j)
    BY <2>1, <2>3 DEF Rests, SameContent, Counted
  <2> QED
    BY <2>4 DEF RowStep
<1>5. CASE HeartbeatAges \/ (\E to \in Recipients : Suppress(to)) \/ UNCHANGED vars
  <2>1. UNCHANGED <<row, claims, base>>
    BY <1>5 DEF HeartbeatAges, Suppress, vars
  <2> QED
    BY <2>1, RestsUnchanged DEF RowStep, Timeless
<1>6. ASSUME NEW k \in Jobs, BecomesDue(k) \/ WindowCloses(k) \/ LockAges(k)
      PROVE  RowStep(j)
  <2>1. Timeless(j)
    BY <1>6 DEF BecomesDue, WindowCloses, LockAges, Timeless
  <2>2. PICK n \in Int :
          \/ row'[j] = row[j]
          \/ row'[j] = [row[j] EXCEPT !.due = TRUE]
          \/ row'[j] = [row[j] EXCEPT !.window = FALSE]
          \/ row'[j] = [row[j] EXCEPT !.age = n]
    <3>1. row[k].age + 1 \in Int
      BY <1>0 DEF Row
    <3> QED
      BY <1>0, <1>6, <3>1 DEF BecomesDue, WindowCloses, LockAges
  <2>3. /\ row'[j].status = row[j].status /\ row'[j].attempts = row[j].attempts
        /\ row'[j].msg = row[j].msg /\ row'[j].archived = row[j].archived
        /\ row'[j].sentAt = row[j].sentAt
    <3>1. CASE row'[j] = row[j]
      BY <3>1
    <3>2. CASE row'[j] = [row[j] EXCEPT !.due = TRUE]
      BY <1>1, <3>2
    <3>3. CASE row'[j] = [row[j] EXCEPT !.window = FALSE]
      BY <1>1, <3>3
    <3>4. CASE row'[j] = [row[j] EXCEPT !.age = n]
      BY <1>1, <3>4
    <3> QED
      BY <2>2, <3>1, <3>2, <3>3, <3>4
  <2>4. Rests(j)
    BY <2>1, <2>3 DEF Rests, SameContent, Counted
  <2> QED
    BY <2>4 DEF RowStep
<1> QED
  BY <1>2, <1>3, <1>4, <1>5, <1>6

\* What any step does to a row.
LEMMA RowSteps ==
  ASSUME TypeOK, [Next]_vars, NEW j \in Jobs
  PROVE  RowStep(j)
BY RowStepsPass, RowStepsRequest, RowStepsOther DEF Next

\* A pass without a job: what it queues for claiming has attempts left.
Frees(p) ==
  /\ pass'[p].cur = NoJob /\ pass'[p].pc \in {"idle", "beat", "scan", "recover", "claim"}
  /\ pass'[p].pc = "claim" => \A t \in pass'[p].todo :
       \/ t \in pass[p].todo /\ pass[p].pc \in Working \union {"claim"}
       \/ t.attempts < MaxAttempts
  /\ UNCHANGED calls

\* A pass claims a job ...
Takes(p) ==
  /\ pass[p].pc = "claim" /\ pass'[p].pc = "reread"
  /\ pass'[p].cur \in Jobs /\ row'[pass'[p].cur].status = "PROCESSING"
  /\ pass'[p].mine = claims'[pass'[p].cur] /\ pass'[p].mine > 0
  /\ claims'[pass'[p].cur] = claims[pass'[p].cur] + 1
  /\ pass'[p].todo \subseteq pass[p].todo
  /\ UNCHANGED calls

\* ... and goes on with it.
Works(p) ==
  /\ pass[p].pc \in Working /\ pass'[p].pc \in Working \ {"reread"}
  /\ pass'[p].cur = pass[p].cur /\ pass'[p].mine = pass[p].mine
  /\ pass'[p].todo = pass[p].todo
  /\ pass'[p].snap = IF pass[p].pc = "reread" THEN row[pass[p].cur].attempts ELSE pass[p].snap
  /\ pass'[p].pc = "check" => pass[p].pc = "reread"
  /\ pass'[p].pc = "limit" =>
       \/ pass[p].pc = "reread" /\ pass[p].cur \notin BulkJobs
       \/ pass[p].pc = "check" /\ RecipientOf[pass[p].cur] \notin suppressed
  /\ pass'[p].pc = "send" => pass[p].pc = "limit" /\ WithinLimits(pass[p].bulk)
  /\ pass'[p].pc = "write" /\ pass'[p].out = "sent" => pass[p].pc = "send"
  /\ pass'[p].pc = "write" /\ pass'[p].out = "paused" =>
       pass[p].pc = "limit" /\ ~WithinLimits(pass[p].bulk)
  /\ pass'[p].pc = "mates" => pass[p].pc = "write"
  /\ \/ UNCHANGED calls /\ (pass[p].pc = "send" => pass'[p].out # "sent")
     \/ /\ pass[p].pc = "send" /\ pass'[p].pc = "write" /\ pass'[p].out # "paused"
        /\ calls' = [calls EXCEPT ![pass[p].cur] = @ \union {pass[p].mine}]

Moves(p) ==
  /\ \A q \in Passes : q # p => pass'[q] = pass[q]
  /\ UNCHANGED <<suppressed, cutoff, req>>
  /\ Frees(p) \/ Takes(p) \/ Works(p)

\* What a step of a pass does to the pass.
LEMMA PassMoves ==
  ASSUME TypeOK, NEW p \in Passes,
         StartPass(p) \/ PassStep(p) \/ StatementFails(p) \/ AbortPass(p)
  PROVE  Moves(p)
<1> USE DEF history
<1>0. /\ pass \in [Passes -> Pass] /\ pass[p] \in Pass
      /\ pass[p].pc \in Working <=> pass[p].cur # NoJob
      /\ \A j \in Jobs : row[j] \in Row
      /\ \A t \in pass[p].todo : t.job \in Jobs
      /\ IdlePass.cur = NoJob /\ IdlePass.pc = "idle" /\ IdlePass.todo = {}
  BY DEF TypeOK, Pass, Item, IdlePass
<1>1. /\ \A q \in Passes : q # p => pass'[q] = pass[q]
      /\ UNCHANGED <<suppressed, cutoff, req>>
  BY <1>0 DEF PassStep, StartPass, Beat, ScanStaleLocks, RecoverLock, FetchDue, Claim, ClaimMisses,
     Reread, CheckSuppression, RenderFails, CheckLimit, CallProvider, NothingToSend,
     WriteOutcome, PauseMates, EndPass, StatementFails, AbortPass
<1>2. CASE StartPass(p) \/ EndPass(p) \/ AbortPass(p)
  <2>1. \A b \in BOOLEAN : LET l == [IdlePass EXCEPT !.pc = "beat", !.wasStale = b]
                           IN  l.pc = "beat" /\ l.cur = NoJob
    BY DEF IdlePass
  <2>2. pass'[p].cur = NoJob /\ pass'[p].pc \in {"idle", "beat"} /\ UNCHANGED calls
    <3>1. CASE StartPass(p)
      BY <1>0, <2>1, <3>1 DEF StartPass, TypeOK
    <3>2. CASE EndPass(p) \/ AbortPass(p)
      BY <1>0, <3>2 DEF EndPass, AbortPass
    <3> QED
      BY <1>2, <3>1, <3>2
  <2>3. Frees(p)
    BY <2>2 DEF Frees
  <2> QED
    BY <1>1, <2>3 DEF Moves
<1>3. CASE Beat(p) \/ ScanStaleLocks(p) \/ RecoverLock(p)
  <2>1. pass'[p].cur = NoJob /\ pass'[p].pc \in {"scan", "recover"} /\ UNCHANGED calls
    BY <1>0, <1>3 DEF Beat, ScanStaleLocks, RecoverLock, Pass, Working
  <2>2. Frees(p)
    BY <2>1 DEF Frees
  <2> QED
    BY <1>1, <2>2 DEF Moves
<1>4. CASE FetchDue(p)
  <2>1. PICK bulk \in BOOLEAN, batch \in SUBSET Jobs :
          /\ pass' = [pass EXCEPT ![p].pc = "claim", ![p].bulk = bulk,
                                  ![p].todo = {ItemOf(j) : j \in batch}]
          /\ \A j \in batch : row[j].attempts < MaxAttempts
    BY <1>4, FetchedBatch
  <2>2. pass'[p].cur = NoJob /\ pass'[p].pc = "claim" /\ UNCHANGED calls
    <3>1. pass[p].cur = NoJob /\ UNCHANGED calls
      BY <1>0, <1>4 DEF FetchDue, Working
    <3> QED
      BY <1>0, <2>1, <3>1 DEF Pass
  <2>3. \A t \in pass'[p].todo : t.attempts < MaxAttempts
    BY <1>0, <2>1 DEF ItemOf, Pass
  <2>4. Frees(p)
    BY <2>2, <2>3 DEF Frees
  <2> QED
    BY <1>1, <2>4 DEF Moves
<1>5. CASE ClaimMisses(p)
  <2>1. /\ pass[p].pc = "claim" /\ pass'[p].cur = NoJob /\ pass'[p].pc = "claim"
        /\ pass'[p].todo \subseteq pass[p].todo /\ UNCHANGED calls
    BY <1>0, <1>5 DEF ClaimMisses, Pass, Working
  <2>2. Frees(p)
    BY <2>1 DEF Frees
  <2> QED
    BY <1>1, <2>2 DEF Moves
<1>6. CASE Claim(p)
  <2>1. PICK t \in pass[p].todo :
          /\ row' = [row EXCEPT ![t.job].status = "PROCESSING",
                                ![t.job].attempts = t.attempts + 1,
                                ![t.job].lockedAt = claims[t.job] + 1,
                                ![t.job].age = 0]
          /\ claims' = [claims EXCEPT ![t.job] = @ + 1]
          /\ pass' = [pass EXCEPT ![p].pc = "reread", ![p].todo = @ \ {t},
                                  ![p].cur = t.job, ![p].mine = claims[t.job] + 1]
    BY <1>6 DEF Claim
  <2>2. /\ t.job \in Jobs /\ claims[t.job] \in Nat /\ row \in [Jobs -> Row]
        /\ claims \in [Jobs -> Nat]
    BY <1>0 DEF TypeOK
  <2>3. /\ pass[p].pc = "claim" /\ pass'[p].pc = "reread" /\ pass'[p].cur = t.job
        /\ pass'[p].mine = claims[t.job] + 1 /\ pass'[p].todo \subseteq pass[p].todo
        /\ UNCHANGED calls
    BY <1>0, <1>6, <2>1 DEF Claim, Pass
  <2>4. claims'[t.job] = claims[t.job] + 1 /\ row'[t.job].status = "PROCESSING"
    BY <1>0, <2>1, <2>2 DEF Row
  <2>5. Takes(p)
    BY <2>2, <2>3, <2>4 DEF Takes
  <2> QED
    BY <1>1, <2>5 DEF Moves
<1>7. CASE Reread(p) \/ CheckSuppression(p) \/ RenderFails(p) \/ CheckLimit(p)
  <2>1. Works(p)
    <3>1. CASE Reread(p)
      BY <1>0, <3>1 DEF Reread, Works, Pass, Working
    <3>2. CASE CheckSuppression(p)
      BY <1>0, <3>2 DEF CheckSuppression, Works, Pass, Working
    <3>3. CASE RenderFails(p)
      BY <1>0, <3>3 DEF RenderFails, Works, Pass, Working
    <3>4. CASE CheckLimit(p)
      BY <1>0, <3>4 DEF CheckLimit, Works, Pass, Working
    <3> QED
      BY <1>7, <3>1, <3>2, <3>3, <3>4
  <2> QED
    BY <1>1, <2>1 DEF Moves
<1>8. CASE CallProvider(p) \/ NothingToSend(p) \/ StatementFails(p)
  <2>1. Works(p)
    <3>1. CASE CallProvider(p)
      BY <1>0, <3>1 DEF CallProvider, Works, Pass, Working
    <3>2. CASE NothingToSend(p)
      BY <1>0, <3>2 DEF NothingToSend, Works, Pass, Working
    <3>3. CASE StatementFails(p)
      BY <1>0, <3>3 DEF StatementFails, Works, Pass, Working
    <3> QED
      BY <1>8, <3>1, <3>2, <3>3
  <2> QED
    BY <1>1, <2>1 DEF Moves
<1>9. CASE WriteOutcome(p) \/ PauseMates(p)
  <2>1. /\ NextClaim(pass[p]).pc = "claim" /\ NextClaim(pass[p]).cur = NoJob
        /\ NextClaim(pass[p]).todo = pass[p].todo
    BY <1>0 DEF NextClaim, Pass
  <2>2. pass[p].pc \in {"write", "mates"} /\ UNCHANGED calls
    BY <1>9 DEF WriteOutcome, PauseMates
  <2>3. CASE pass' = [pass EXCEPT ![p] = NextClaim(@)]
    <3>1. Frees(p)
      BY <1>0, <2>1, <2>2, <2>3 DEF Frees, Working
    <3> QED
      BY <1>1, <3>1 DEF Moves
  <2>4. CASE pass' = [pass EXCEPT ![p].pc = "mates"] /\ pass[p].pc = "write"
    <3>1. Works(p)
      BY <1>0, <2>2, <2>4 DEF Works, Pass, Working
    <3> QED
      BY <1>1, <3>1 DEF Moves
  <2> QED
    BY <1>9, <2>3, <2>4 DEF WriteOutcome, PauseMates
<1> QED
  BY <1>2, <1>3, <1>4, <1>5, <1>6, <1>7, <1>8, <1>9 DEF PassStep

\* What any step does to the passes: one moves, or none does and nothing is sent.
LEMMA PassSteps ==
  ASSUME TypeOK, [Next]_vars
  PROVE  UNCHANGED <<pass, calls>> \/ \E p \in Passes : Moves(p)
<1> USE DEF history
<1>1. ASSUME NEW c \in Clients, RequestStep(c) PROVE UNCHANGED <<pass, calls>>
  BY <1>1 DEF RequestStep, CreateWrites, RefreshWrites, RetryWrites, CancelWrites,
     ArchiveWrites, BounceMarksDead, CreateReads, RefreshReads, RetryReads, CancelReads,
     ArchiveReads, BounceSuppresses
<1>2. ResumePaused => UNCHANGED <<pass, calls>>
  BY Zenon DEF ResumePaused
<1>3. ASSUME \/ ArchiveOld \/ HeartbeatAges \/ MinutePasses \/ DayRolls \/ UNCHANGED vars
             \/ \E r \in Recipients : Suppress(r)
             \/ \E j \in Jobs : BecomesDue(j) \/ WindowCloses(j) \/ LockAges(j)
      PROVE  UNCHANGED <<pass, calls>>
  BY <1>3 DEF ArchiveOld, HeartbeatAges, MinutePasses, DayRolls, vars, Suppress, BecomesDue,
     WindowCloses, LockAges
<1> QED
  BY <1>1, <1>2, <1>3, PassMoves DEF Next

\* What any step does to the suppression list: nothing, or an address joins it
\* while no row and no pass moves.
LEMMA SuppressionSteps ==
  ASSUME [Next]_vars
  PROVE  \/ UNCHANGED <<suppressed, cutoff>>
         \/ (\E r \in Recipients \union {RecipientOf[j] : j \in Jobs} : Suppressing(r))
            /\ UNCHANGED <<row, pass, calls, claims>>
<1> USE DEF history
<1>1. ASSUME NEW p \in Passes, StartPass(p) \/ PassStep(p) \/ StatementFails(p) \/ AbortPass(p)
      PROVE  UNCHANGED <<suppressed, cutoff>>
  BY <1>1 DEF PassStep, StartPass, Beat, ScanStaleLocks, RecoverLock, FetchDue, Claim, ClaimMisses,
     Reread, CheckSuppression, RenderFails, CheckLimit, CallProvider, NothingToSend,
     WriteOutcome, PauseMates, EndPass, StatementFails, AbortPass
<1>2. ASSUME NEW c \in Clients,
             \/ CreateWrites(c) \/ RefreshWrites(c) \/ RetryWrites(c) \/ CancelWrites(c)
             \/ ArchiveWrites(c) \/ BounceMarksDead(c)
             \/ \E j \in Jobs : \/ CreateReads(c, j) \/ RefreshReads(c, j) \/ RetryReads(c, j)
                                \/ CancelReads(c, j) \/ ArchiveReads(c, j)
      PROVE  UNCHANGED <<suppressed, cutoff>>
  BY <1>2 DEF CreateWrites, RefreshWrites, RetryWrites, CancelWrites, ArchiveWrites,
     BounceMarksDead, CreateReads, RefreshReads, RetryReads, CancelReads, ArchiveReads
<1>3. ASSUME NEW c \in Clients, NEW j \in Jobs, BounceSuppresses(c, j)
      PROVE  Suppressing(RecipientOf[j]) /\ UNCHANGED <<row, pass, calls, claims>>
  BY <1>3 DEF BounceSuppresses
<1>4. ResumePaused => UNCHANGED <<suppressed, cutoff>>
  BY Zenon DEF ResumePaused
<1>5. ASSUME \/ ArchiveOld \/ HeartbeatAges \/ MinutePasses \/ DayRolls \/ UNCHANGED vars
             \/ \E j \in Jobs : BecomesDue(j) \/ WindowCloses(j) \/ LockAges(j)
      PROVE  UNCHANGED <<suppressed, cutoff>>
  BY <1>5 DEF ArchiveOld, HeartbeatAges, MinutePasses, DayRolls, vars, BecomesDue,
     WindowCloses, LockAges
<1>6. ASSUME NEW r \in Recipients, Suppress(r)
      PROVE  Suppressing(r) /\ UNCHANGED <<row, pass, calls, claims>>
  BY <1>6 DEF Suppress
<1> QED
  BY <1>1, <1>2, <1>3, <1>4, <1>5, <1>6 DEF Next, RequestStep

\* What any step does to a request: it is kept or ended, or one begins, with what
\* it read of a table that does not move.
LEMMA RequestSteps ==
  ASSUME TypeOK, [Next]_vars, NEW c \in Clients
  PROVE  \/ req'[c] = req[c] \/ req'[c].op = "none"
         \/ req'[c].op \in Ops \ {"archive", "bounce"}
         \/ /\ req'[c].op = "archive" /\ UNCHANGED row
            /\ req'[c].job \in Jobs /\ row[req'[c].job].status \in Final
         \/ req'[c].op = "bounce" /\ req'[c].job \in Jobs /\ req'[c].msg \in calls[req'[c].job]
<1> USE DEF history
<1>0. req \in [Clients -> Request]
  BY DEF TypeOK
<1>1. ASSUME UNCHANGED req PROVE req'[c] = req[c]
  BY <1>1
<1>2. ASSUME NEW d \in Clients, NEW op, Finish(d, op)
      PROVE  req'[c] = req[c] \/ req'[c].op = "none"
  BY <1>0, <1>2 DEF Finish, IdleRequest
<1>3. ASSUME NEW d \in Clients, NEW op, NEW j, NEW m, Begin(d, op, j, m)
      PROVE  \/ req'[c] = req[c]
             \/ op \in Ops /\ req'[c].op = op /\ req'[c].job = j /\ req'[c].msg = m
  BY <1>0, <1>3 DEF Begin
<1>4. ASSUME NEW d \in Clients, RequestStep(d)
      PROVE  \/ req'[c] = req[c] \/ req'[c].op = "none"
             \/ req'[c].op \in Ops \ {"archive", "bounce"}
             \/ /\ req'[c].op = "archive" /\ UNCHANGED row
                /\ req'[c].job \in Jobs /\ row[req'[c].job].status \in Final
             \/ req'[c].op = "bounce" /\ req'[c].job \in Jobs /\ req'[c].msg \in calls[req'[c].job]
  <2>1. CASE \/ CreateWrites(d) \/ RefreshWrites(d) \/ RetryWrites(d) \/ CancelWrites(d)
             \/ ArchiveWrites(d) \/ BounceMarksDead(d)
    BY <1>2, <2>1 DEF CreateWrites, RefreshWrites, RetryWrites, CancelWrites,
       ArchiveWrites, BounceMarksDead
  <2>2. ASSUME NEW j \in Jobs,
               CreateReads(d, j) \/ RefreshReads(d, j) \/ RetryReads(d, j) \/ CancelReads(d, j)
        PROVE  req'[c] = req[c] \/ req'[c].op \in Ops \ {"archive", "bounce"}
    BY <1>3, <2>2 DEF CreateReads, RefreshReads, RetryReads, CancelReads
  <2>3. ASSUME NEW j \in Jobs, ArchiveReads(d, j)
        PROVE  \/ req'[c] = req[c]
               \/ /\ req'[c].op = "archive" /\ UNCHANGED row
                  /\ req'[c].job \in Jobs /\ row[req'[c].job].status \in Final
    <3>1. UNCHANGED row /\ row[j].status \in Final /\ Begin(d, "archive", j, 0)
      BY <2>3 DEF ArchiveReads
    <3> QED
      BY <1>3, <3>1
  <2>4. ASSUME NEW j \in Jobs, BounceSuppresses(d, j)
        PROVE  \/ req'[c] = req[c]
               \/ req'[c].op = "bounce" /\ req'[c].job \in Jobs /\ req'[c].msg \in calls[req'[c].job]
    <3>1. PICK m \in calls[j] : Begin(d, "bounce", j, m)
      BY <2>4 DEF BounceSuppresses
    <3> QED
      BY <1>3, <3>1
  <2> QED
    BY <1>4, <2>1, <2>2, <2>3, <2>4 DEF RequestStep
<1>5. ResumePaused => UNCHANGED req
  BY Zenon DEF ResumePaused
<1>6. ASSUME \/ ArchiveOld \/ HeartbeatAges \/ MinutePasses \/ DayRolls \/ UNCHANGED vars
             \/ \E r \in Recipients : Suppress(r)
             \/ \E j \in Jobs : BecomesDue(j) \/ WindowCloses(j) \/ LockAges(j)
      PROVE  UNCHANGED req
  BY <1>6 DEF ArchiveOld, HeartbeatAges, MinutePasses, DayRolls, vars, Suppress, BecomesDue,
     WindowCloses, LockAges
<1>7. (\E p \in Passes : Moves(p)) => UNCHANGED req
  BY DEF Moves
<1> QED
  BY <1>1, <1>4, <1>5, <1>6, <1>7, PassMoves DEF Next

-----------------------------------------------------------------------------
(* The budget of sends *)

\* A pass sends under the number of its claim, and claims are numbered from 1.
CallsInOrder ==
  /\ \A j \in Jobs : \A c \in calls[j] : 1 <= c /\ c <= claims[j]
  /\ \A p \in Passes : pass[p].pc \in Working =>
       1 <= pass[p].mine /\ pass[p].mine <= claims[pass[p].cur]

\* A pass that has not handed the message over and has not failed.
Unsent(p) ==
  \/ pass[p].pc \in {"reread", "check", "limit", "send"}
  \/ pass[p].pc = "write" /\ pass[p].out = "paused"

\* A row has as many attempts as calls, and one more while the pass that works on it has
\* not sent: an attempt that is given back is that of a claim which made no call.
Frugal ==
  /\ \A j \in Jobs : Cardinality(calls[j]) <= row[j].attempts
  /\ \A p \in Passes : pass[p].pc \in Working =>
       /\ Unsent(p) => Cardinality(calls[pass[p].cur]) < row[pass[p].cur].attempts
       /\ pass[p].pc # "reread" => pass[p].snap <= MaxAttempts

\* A row whose attempts are below MaxAttempts when it is claimed keeps to them.  Without
\* limits attempts count the claims since the last reset.
BudgetInv ==
  /\ CallsInOrder
  /\ \A p \in Passes : pass[p].pc \in Working \union {"claim"} =>
       \A t \in pass[p].todo : t.attempts < MaxAttempts
  /\ ~Limited \/ Disciplined =>
       \A j \in Jobs : /\ row[j].attempts <= MaxAttempts
                       /\ row[j].status = "NONE" => row[j].attempts = 0
  /\ ~Limited => /\ \A j \in Jobs : claims[j] = base[j] + row[j].attempts
                 /\ \A p \in Passes : pass[p].pc = "write" => pass[p].out # "paused"
  /\ Disciplined => Frugal

\* In the empty queue nothing was claimed or sent.
LEMMA BudgetInit == Init => BudgetInv
<1> SUFFICES ASSUME Init PROVE BudgetInv
  OBVIOUS
<1>1. /\ \A p \in Passes : pass[p].pc = "idle" /\ pass[p].todo = {}
      /\ \A j \in Jobs : /\ row[j].status = "NONE" /\ row[j].attempts = 0
                         /\ claims[j] = 0 /\ base[j] = 0 /\ calls[j] = {}
  BY DEF Init, IdlePass, NoRow
<1>2. \A j \in Jobs : Cardinality(calls[j]) <= row[j].attempts
  <2>1. Cardinality({}) = 0
    BY ONLY FS_EmptySet
  <2> TAKE j \in Jobs
  <2>2. calls[j] = {} /\ row[j].attempts = 0
    BY <1>1
  <2>3. Cardinality(calls[j]) = 0
    BY ONLY <2>1, <2>2
  <2> QED
    BY <2>2, <2>3
<1>3. Frugal
  BY <1>1, <1>2 DEF Frugal, Working
<1>4. CallsInOrder
  BY <1>1 DEF CallsInOrder, Working
<1>5. MaxAttempts \in Nat /\ 0 <= MaxAttempts
  BY MailAssumption DEF MailAssumption
<1> QED
  BY <1>1, <1>3, <1>4, <1>5 DEF BudgetInv, Working

\* The count of claims never falls.
LEMMA ClaimsGrow ==
  ASSUME TypeOK, TypeOK', [Next]_vars, NEW j \in Jobs
  PROVE  claims[j] <= claims'[j]
<1>1. RowStep(j)
  BY RowSteps
<1>2. claims[j] \in Nat /\ claims'[j] \in Nat
  BY DEF TypeOK
<1> QED
  BY <1>1, <1>2 DEF RowStep, Rests, Hides, ClaimedBy, RecoveredBy, WrittenBy, PausedWithMate,
     CreatedRow, ResetRow, CancelledRow, BouncedRow, SameContent, Timeless

\* Calls keep the numbers of claims.
LEMMA CallsStep == TypeOK /\ TypeOK' /\ CallsInOrder /\ [Next]_vars => CallsInOrder'
<1> SUFFICES ASSUME TypeOK, TypeOK', CallsInOrder, [Next]_vars PROVE CallsInOrder'
  OBVIOUS
<1>1. \A j \in Jobs : claims[j] \in Nat /\ claims'[j] \in Nat /\ claims[j] <= claims'[j]
  BY ClaimsGrow DEF TypeOK
<1>2. /\ calls \in [Jobs -> SUBSET Nat]
      /\ \A p \in Passes : /\ pass[p].mine \in Nat
                           /\ pass[p].pc \in Working => pass[p].cur \in Jobs
  BY DEF TypeOK, Pass
<1>a. ASSUME NEW j \in Jobs, NEW c \in calls[j]
      PROVE  c \in Nat /\ 1 <= c /\ c <= claims'[j]
  <2>1. c \in Nat /\ 1 <= c /\ c <= claims[j]
    BY <1>2, <1>a DEF CallsInOrder
  <2> QED
    BY <1>1, <2>1
<1>b. ASSUME NEW p \in Passes, pass[p].pc \in Working
      PROVE  1 <= pass[p].mine /\ pass[p].mine <= claims'[pass[p].cur]
  <2>1. 1 <= pass[p].mine /\ pass[p].mine <= claims[pass[p].cur]
    BY <1>b DEF CallsInOrder
  <2>2. pass[p].mine \in Nat /\ pass[p].cur \in Jobs
    BY <1>2, <1>b
  <2> QED
    BY <1>1, <2>1, <2>2
<1>3. CASE UNCHANGED <<pass, calls>>
  BY <1>a, <1>b, <1>3 DEF CallsInOrder
<1>4. ASSUME NEW p \in Passes, Moves(p)
      PROVE  CallsInOrder'
  <2>1. ASSUME NEW j \in Jobs, NEW c \in calls'[j]
        PROVE  1 <= c /\ c <= claims'[j]
    <3>1. c \in calls[j] \/ (pass[p].pc \in Working /\ pass[p].cur = j /\ c = pass[p].mine)
      BY <1>2, <1>4, <2>1 DEF Moves, Frees, Takes, Works
    <3> QED
      BY <1>a, <1>b, <3>1
  <2>2. ASSUME NEW q \in Passes, pass'[q].pc \in Working
        PROVE  1 <= pass'[q].mine /\ pass'[q].mine <= claims'[pass'[q].cur]
    <3>1. CASE q = p /\ Takes(p)
      <4>1. pass'[p].mine = claims'[pass'[p].cur] /\ pass'[p].cur \in Jobs /\ pass'[p].mine > 0
        BY <3>1 DEF Takes
      <4> QED
        BY <1>1, <3>1, <4>1
    <3>2. CASE ~(q = p /\ Takes(p))
      <4>1. pass[q].pc \in Working /\ pass'[q].mine = pass[q].mine /\ pass'[q].cur = pass[q].cur
        BY <1>4, <2>2, <3>2 DEF Moves, Frees, Works, Working
      <4> QED
        BY <1>b, <4>1
    <3> QED
      BY <3>1, <3>2
  <2> QED
    BY <2>1, <2>2 DEF CallsInOrder
<1> QED
  BY <1>3, <1>4, PassSteps

\* A set of calls has a size, which a call raises by one at most.
LEMMA CallsFinite ==
  ASSUME TypeOK, CallsInOrder, NEW j \in Jobs
  PROVE  /\ IsFiniteSet(calls[j]) /\ Cardinality(calls[j]) \in Nat
         /\ \A c : /\ Cardinality(calls[j] \union {c}) \in Nat
                   /\ Cardinality(calls[j] \union {c}) <= Cardinality(calls[j]) + 1
<1>1. claims[j] \in Nat /\ calls[j] \subseteq Nat
  BY DEF TypeOK
<1>2. calls[j] \subseteq 1..claims[j]
  BY <1>1 DEF CallsInOrder
<1>3. IsFiniteSet(1..claims[j])
  <2>1. 1 \in Int /\ claims[j] \in Int
    BY <1>1
  <2> QED
    BY ONLY <2>1, FS_Interval
<1>4. IsFiniteSet(calls[j])
  BY ONLY <1>2, <1>3, FS_Subset
<1>5. Cardinality(calls[j]) \in Nat
  BY ONLY <1>4, FS_CardinalityType
<1>6. ASSUME NEW c
      PROVE  /\ Cardinality(calls[j] \union {c}) \in Nat
             /\ Cardinality(calls[j] \union {c}) <= Cardinality(calls[j]) + 1
  <2>1. Cardinality(calls[j] \union {c}) = IF c \in calls[j] THEN Cardinality(calls[j])
                                           ELSE Cardinality(calls[j]) + 1
    BY ONLY <1>4, FS_AddElement
  <2> QED
    BY <1>5, <2>1
<1> QED
  BY <1>4, <1>5, <1>6

\* Nobody but the pass that has a job makes calls for it.
LEMMA CallsMove ==
  ASSUME TypeOK, [Next]_vars, NEW j \in Jobs
  PROVE  \/ calls'[j] = calls[j]
         \/ \E p \in Passes :
              /\ pass[p].pc = "send" /\ pass[p].cur = j /\ pass'[p].pc = "write"
              /\ pass'[p].out # "paused"
              /\ calls'[j] = calls[j] \union {pass[p].mine}
<1>1. calls \in [Jobs -> SUBSET Nat]
  BY DEF TypeOK
<1>2. ASSUME NEW p \in Passes, Moves(p), calls'[j] # calls[j]
      PROVE  /\ pass[p].pc = "send" /\ pass[p].cur = j /\ pass'[p].pc = "write"
             /\ pass'[p].out # "paused"
             /\ calls'[j] = calls[j] \union {pass[p].mine}
  BY <1>1, <1>2 DEF Moves, Frees, Takes, Works
<1> QED
  BY <1>2, PassSteps

\* In a disciplined queue the attempts of a job change when it is claimed, and when
\* the pass that has it gives its attempt back.
LEMMA AttemptsMove ==
  ASSUME TypeOK, ClaimInv, Disciplined, [Next]_vars, NEW j \in Jobs,
         row[j].status = "NONE" => row[j].attempts = 0
  PROVE  /\ \/ row'[j].attempts = row[j].attempts
            \/ \E p \in Passes : ClaimedBy(p, j)
            \/ \E p \in Passes : WrittenBy(p, j) /\ pass[p].out = "paused"
         /\ row'[j].status = "NONE" => row[j].status = "NONE" /\ row'[j].attempts = row[j].attempts
<1>1. RowStep(j)
  BY RowSteps
<1>2. ~ResetRow(j)
  BY DEF ClaimInv, RequestsInOps, Disciplined, ResetRow
<1>3. CASE Rests(j) \/ Hides(j) \/ PausedWithMate(j) \/ CancelledRow(j) \/ BouncedRow(j)
  BY <1>3 DEF Rests, Hides, PausedWithMate, CancelledRow, BouncedRow, SameContent
<1>4. CASE CreatedRow(j)
  BY <1>4 DEF CreatedRow
<1>5. ASSUME NEW p \in Passes, RecoveredBy(p, j)
      PROVE  row'[j].attempts = row[j].attempts /\ row'[j].status # "NONE"
  BY <1>5 DEF RecoveredBy, SameContent
<1>6. ASSUME NEW p \in Passes, WrittenBy(p, j)
      PROVE  /\ row'[j].status # "NONE"
             /\ pass[p].out # "paused" => row'[j].attempts = row[j].attempts
  BY <1>6 DEF WrittenBy
<1>7. ASSUME NEW p \in Passes, ClaimedBy(p, j)
      PROVE  row'[j].status # "NONE"
  BY <1>7 DEF ClaimedBy
<1> QED
  BY <1>1, <1>2, <1>3, <1>4, <1>5, <1>6, <1>7 DEF RowStep

\* While a pass has a job, only that pass changes its attempts, and it is done then.
LEMMA AttemptsHeld ==
  ASSUME TypeOK, ClaimInv, Disciplined, [Next]_vars, NEW j \in Jobs,
         row[j].status = "NONE" => row[j].attempts = 0,
         NEW p \in Passes, pass[p].cur = j
  PROVE  row'[j].attempts = row[j].attempts \/ WrittenBy(p, j)
<1>1. row[j].status \notin Due
  BY DEF ClaimInv, LockHeld, Due
<1>2. \A q \in Passes : ~ClaimedBy(q, j)
  BY <1>1 DEF ClaimedBy
<1>3. ASSUME NEW q \in Passes, WrittenBy(q, j) PROVE q = p
  BY <1>3, MailAssumption DEF WrittenBy, ClaimInv, ExclusiveProcessing, MailAssumption
<1> QED
  BY <1>2, <1>3, AttemptsMove

\* A row pays for every call with an attempt.
LEMMA FrugalRows ==
  ASSUME TypeOK, TypeOK', ClaimInv, BudgetInv, Disciplined, [Next]_vars, NEW j \in Jobs
  PROVE  Cardinality(calls'[j]) <= row'[j].attempts /\ row'[j].attempts <= MaxAttempts
<1>1. /\ row[j].attempts \in Nat /\ row'[j].attempts \in Nat /\ MaxAttempts \in Nat
      /\ \A p \in Passes : pass[p].snap \in Nat
  BY MailAssumption DEF TypeOK, Row, Pass, MailAssumption
<1>2. /\ Cardinality(calls[j]) \in Nat
      /\ \A c : /\ Cardinality(calls[j] \union {c}) \in Nat
                /\ Cardinality(calls[j] \union {c}) <= Cardinality(calls[j]) + 1
  BY CallsFinite DEF BudgetInv
<1>3. /\ Cardinality(calls[j]) <= row[j].attempts /\ row[j].attempts <= MaxAttempts
      /\ row[j].status = "NONE" => row[j].attempts = 0
      /\ \A p \in Passes : pass[p].pc \in Working =>
           /\ Unsent(p) => Cardinality(calls[pass[p].cur]) < row[pass[p].cur].attempts
           /\ pass[p].pc # "reread" => pass[p].snap <= MaxAttempts
  BY DEF BudgetInv, Frugal
<1>4. ASSUME NEW p \in Passes, pass[p].pc = "send", pass[p].cur = j,
             calls'[j] = calls[j] \union {pass[p].mine}
      PROVE  Cardinality(calls'[j]) <= row'[j].attempts /\ row'[j].attempts <= MaxAttempts
  <2>1. row'[j].attempts = row[j].attempts
    BY <1>3, <1>4, AttemptsHeld DEF WrittenBy
  <2>2. Cardinality(calls[j]) < row[j].attempts
    BY <1>3, <1>4 DEF Unsent, Working
  <2>3. Cardinality(calls[j]) + 1 <= row[j].attempts
    BY <1>1, <1>2, <2>2
  <2>4. Cardinality(calls'[j]) <= Cardinality(calls[j]) + 1
    BY <1>2, <1>4
  <2>5. Cardinality(calls'[j]) \in Nat
    BY <1>2, <1>4
  <2> QED
    BY <1>1, <1>2, <1>3, <2>1, <2>3, <2>4, <2>5
<1>5. CASE calls'[j] = calls[j]
  <2>1. CASE row'[j].attempts = row[j].attempts
    BY <1>3, <1>5, <2>1
  <2>2. ASSUME NEW p \in Passes, ClaimedBy(p, j)
        PROVE  row'[j].attempts = row[j].attempts + 1 /\ row[j].attempts < MaxAttempts
    BY <2>2 DEF ClaimedBy, BudgetInv
  <2>3. ASSUME NEW p \in Passes, WrittenBy(p, j), pass[p].out = "paused"
        PROVE  Cardinality(calls[j]) <= row'[j].attempts /\ row'[j].attempts <= MaxAttempts
    <3>1. pass[p].pc = "write" /\ pass[p].cur = j /\ row'[j].attempts = PausedAttempts(pass[p].snap)
      BY <2>3 DEF WrittenBy
    <3>2. Cardinality(calls[j]) < row[j].attempts /\ pass[p].snap <= MaxAttempts
      BY <1>3, <2>3, <3>1 DEF Unsent, Working
    <3>3. row[j].attempts <= pass[p].snap
      BY <3>1 DEF ClaimInv, SnapIsCurrent, Working
    <3> QED
      BY <1>1, <1>2, <3>1, <3>2, <3>3 DEF PausedAttempts
  <2> QED
    BY <1>1, <1>2, <1>3, <1>5, <2>1, <2>2, <2>3, AttemptsMove
<1> QED
  BY <1>4, <1>5, CallsMove

\* A pass that has yet to send has an attempt that is not spent.
LEMMA FrugalPasses ==
  ASSUME TypeOK, TypeOK', ClaimInv, BudgetInv, Disciplined, [Next]_vars,
         NEW p \in Passes, pass'[p].pc \in Working
  PROVE  /\ Unsent(p)' => Cardinality(calls'[pass'[p].cur]) < row'[pass'[p].cur].attempts
         /\ pass'[p].pc # "reread" => pass'[p].snap <= MaxAttempts
<1>1. /\ \A j \in Jobs : /\ Cardinality(calls[j]) <= row[j].attempts
                         /\ row[j].attempts <= MaxAttempts /\ row[j].attempts \in Nat
                         /\ row[j].status = "NONE" => row[j].attempts = 0
      /\ pass[p].pc \in Working =>
           /\ Unsent(p) => Cardinality(calls[pass[p].cur]) < row[pass[p].cur].attempts
           /\ pass[p].pc # "reread" => pass[p].snap <= MaxAttempts
  BY DEF BudgetInv, Frugal, TypeOK, Row
<1>2. PICK j \in Jobs : pass'[p].cur = j
  BY DEF TypeOK, Pass
<1>3. CASE pass'[p] = pass[p]
  <2>1. pass[p].cur = j /\ pass[p].pc \in Working /\ (Unsent(p)' => Unsent(p))
    BY <1>2, <1>3 DEF Unsent
  <2>2. calls'[j] = calls[j]
    <3>1. ASSUME NEW q \in Passes, pass[q].pc = "send", pass[q].cur = j, pass'[q].pc = "write"
          PROVE  FALSE
      <4>1. q = p
        BY <2>1, <3>1, MailAssumption DEF ClaimInv, ExclusiveProcessing, MailAssumption
      <4> QED
        BY <1>3, <3>1, <4>1
    <3> QED
      BY <3>1, CallsMove
  <2>3. ~WrittenBy(p, j)
    BY <1>3 DEF WrittenBy
  <2>4. row'[j].attempts = row[j].attempts
    BY <1>1, <2>1, <2>3, AttemptsHeld
  <2> QED
    BY <1>1, <1>2, <1>3, <2>1, <2>2, <2>4
<1>4. CASE Takes(p)
  <2>1. /\ pass'[p].pc = "reread" /\ calls' = calls /\ claims'[j] = claims[j] + 1
        /\ claims[j] \in Nat
    BY <1>2, <1>4 DEF Takes, TypeOK
  <2>2. \E q \in Passes : ClaimedBy(q, j)
    <3>1. RowStep(j) /\ claims'[j] # claims[j]
      BY <2>1, RowSteps
    <3> QED
      BY <3>1 DEF RowStep, Rests, Hides, RecoveredBy, WrittenBy, PausedWithMate, CreatedRow,
         ResetRow, CancelledRow, BouncedRow, SameContent, Timeless
  <2>3. row'[j].attempts = row[j].attempts + 1
    BY <2>2 DEF ClaimedBy
  <2>4. Cardinality(calls[j]) \in Nat
    BY CallsFinite DEF BudgetInv
  <2>5. Cardinality(calls[j]) < row'[j].attempts
    BY <1>1, <2>3, <2>4
  <2> QED
    BY <1>2, <2>1, <2>5
<1>5. CASE Works(p)
  <2>1. pass[p].cur = j /\ pass[p].pc \in Working
    BY <1>2, <1>5 DEF Works
  <2>2. pass'[p].pc # "reread" /\ pass'[p].snap <= MaxAttempts
    BY <1>1, <1>5, <2>1 DEF Works
  <2>3. ASSUME Unsent(p)'
        PROVE  Cardinality(calls'[j]) < row'[j].attempts
    <3>1. Unsent(p) /\ pass[p].pc \notin {"send", "write"}
      BY <1>5, <2>3 DEF Unsent, Works
    <3>2. UNCHANGED calls
      BY <1>5, <3>1 DEF Works
    <3>3. row'[j].attempts = row[j].attempts
      BY <1>1, <2>1, <3>1, AttemptsHeld DEF WrittenBy
    <3> QED
      BY <1>1, <2>1, <3>1, <3>2, <3>3
  <2> QED
    BY <1>2, <2>2, <2>3
<1> QED
  BY <1>3, <1>4, <1>5, PassSteps DEF Moves, Frees, Working

\* Every step keeps the account of attempts, calls and claims.
LEMMA BudgetStep == TypeOK /\ TypeOK' /\ ClaimInv /\ BudgetInv /\ [Next]_vars => BudgetInv'
<1> SUFFICES ASSUME TypeOK, TypeOK', ClaimInv, BudgetInv, [Next]_vars PROVE BudgetInv'
  OBVIOUS
<1>1. CallsInOrder'
  BY CallsStep DEF BudgetInv
<1>2. ASSUME NEW q \in Passes, pass'[q].pc \in Working \union {"claim"},
             NEW t \in pass'[q].todo
      PROVE  t.attempts < MaxAttempts
  <2>1. CASE pass'[q] = pass[q]
    BY <1>2, <2>1 DEF BudgetInv
  <2>2. CASE Frees(q)
    BY <1>2, <2>2 DEF BudgetInv, Frees, Working
  <2>3. CASE Takes(q) \/ Works(q)
    BY <1>2, <2>3 DEF BudgetInv, Takes, Works
  <2> QED
    BY <2>1, <2>2, <2>3, PassSteps DEF Moves
<1>3. ASSUME Disciplined PROVE Frugal'
  BY <1>3, FrugalRows, FrugalPasses DEF Frugal, Unsent, Working
<1>4. ASSUME ~Limited, NEW j \in Jobs
      PROVE  /\ claims'[j] = base'[j] + row'[j].attempts
             /\ row'[j].attempts <= MaxAttempts
             /\ row'[j].status = "NONE" => row'[j].attempts = 0
  <2>0. /\ claims[j] \in Nat /\ base[j] \in Nat /\ row[j].attempts \in Nat
        /\ claims[j] = base[j] + row[j].attempts
        /\ row[j].attempts <= MaxAttempts /\ MaxAttempts \in Nat \ {0}
        /\ row[j].status = "NONE" => row[j].attempts = 0
    BY <1>4, MailAssumption DEF TypeOK, Row, BudgetInv, MailAssumption
  <2>1. RowStep(j)
    BY RowSteps
  <2>2. CASE Rests(j) \/ Hides(j) \/ PausedWithMate(j) \/ CancelledRow(j) \/ BouncedRow(j)
    BY <2>0, <2>2 DEF Rests, Hides, PausedWithMate, CancelledRow, BouncedRow, SameContent, Timeless
  <2>3. CASE CreatedRow(j) \/ ResetRow(j)
    BY <2>0, <2>3 DEF CreatedRow, ResetRow, Timeless
  <2>4. ASSUME NEW p \in Passes, ClaimedBy(p, j)
        PROVE  /\ claims'[j] = base'[j] + row'[j].attempts
               /\ row'[j].attempts <= MaxAttempts /\ row'[j].status = "PROCESSING"
    <3>1. row[j].attempts < MaxAttempts
      BY <2>4 DEF ClaimedBy, BudgetInv
    <3> QED
      BY <2>0, <2>4, <3>1 DEF ClaimedBy
  <2>5. ASSUME NEW p \in Passes, RecoveredBy(p, j) \/ WrittenBy(p, j)
        PROVE  row'[j].attempts = row[j].attempts /\ Timeless(j) /\ row'[j].status # "NONE"
    <3>1. pass[p].pc = "write" => pass[p].out # "paused"
      BY <1>4 DEF BudgetInv
    <3> QED
      BY <2>5, <3>1 DEF RecoveredBy, WrittenBy, SameContent
  <2> QED
    BY <2>0, <2>1, <2>2, <2>3, <2>4, <2>5 DEF RowStep, Timeless
<1>5. ASSUME Disciplined, NEW j \in Jobs
      PROVE  /\ row'[j].attempts <= MaxAttempts
             /\ row'[j].status = "NONE" => row'[j].attempts = 0
  <2>1. row[j].status = "NONE" => row[j].attempts = 0
    BY <1>5 DEF BudgetInv
  <2> QED
    BY <1>5, <2>1, FrugalRows, AttemptsMove
<1>6. ASSUME ~Limited, NEW q \in Passes PROVE pass'[q].pc = "write" => pass'[q].out # "paused"
  <2>1. pass[q].pc = "write" => pass[q].out # "paused"
    BY <1>6 DEF BudgetInv
  <2> QED
    BY <1>6, <2>1, PassSteps DEF Moves, Frees, Takes, Works, WithinLimits
<1> QED
  BY <1>1, <1>2, <1>3, <1>4, <1>5, <1>6 DEF BudgetInv, Working, Disciplined

\* Calls of claims made since the last reset are bounded by the attempts.
LEMMA NewCalls ==
  ASSUME TypeOK, BudgetInv, ~Limited \/ Disciplined, NEW j \in Jobs
  PROVE  Cardinality({c \in calls[j] : c > base[j]}) <= MaxAttempts
<1> DEFINE S == {c \in calls[j] : c > base[j]}
           I == (base[j] + 1)..claims[j]
<1>1. /\ claims[j] \in Nat /\ base[j] \in Nat /\ row[j].attempts \in Nat
      /\ row[j].attempts <= MaxAttempts /\ MaxAttempts \in Nat
      /\ calls[j] \subseteq Nat
  BY MailAssumption DEF TypeOK, Row, BudgetInv, MailAssumption
<1>2. CASE ~Limited
  <2>0. claims[j] = base[j] + row[j].attempts
    BY <1>2 DEF BudgetInv
  <2>1. S \subseteq I
    BY <1>1 DEF BudgetInv, CallsInOrder
  <2>2. base[j] + 1 \in Int /\ claims[j] \in Int
    BY <1>1
  <2>3. /\ IsFiniteSet(I)
        /\ Cardinality(I) = IF base[j] + 1 > claims[j] THEN 0 ELSE claims[j] - (base[j] + 1) + 1
    BY ONLY <2>2, FS_Interval
  <2>4. Cardinality(I) = row[j].attempts
    BY <1>1, <2>0, <2>3
  <2>5. Cardinality(S) <= Cardinality(I) /\ Cardinality(S) \in Nat
    BY <2>1, <2>3, FS_Subset, FS_CardinalityType
  <2> QED
    BY <1>1, <2>4, <2>5
<1>3. CASE Disciplined
  <2>1. IsFiniteSet(calls[j]) /\ Cardinality(calls[j]) \in Nat
    BY CallsFinite DEF BudgetInv
  <2>2. Cardinality(calls[j]) <= row[j].attempts
    BY <1>3 DEF BudgetInv, Frugal
  <2>3. Cardinality(S) <= Cardinality(calls[j]) /\ Cardinality(S) \in Nat
    <3>1. S \subseteq calls[j]
      OBVIOUS
    <3> QED
      BY ONLY <2>1, <3>1, FS_Subset, FS_CardinalityType
  <2> QED
    BY <1>1, <2>1, <2>2, <2>3
<1> QED
  BY <1>2, <1>3

\* Claims older than the last reset that called the provider after it ...
Late(j) == {c \in since[j] : c <= base[j]}

\* ... and passes that hold such a claim and have not called yet.
Callers(j) ==
  {p \in Passes : /\ pass[p].cur = j /\ pass[p].mine <= base[j]
                  /\ pass[p].pc \in {"reread", "check", "limit", "send"}}

\* A reset finds at most every pass at work on the job, and each of them calls once.
SinceInv ==
  \A j \in Jobs :
    /\ base[j] <= claims[j]
    /\ since[j] \subseteq calls[j]
    /\ Cardinality(Late(j)) + Cardinality(Callers(j)) <= Cardinality(Passes)

\* What is counted is finite.
LEMMA LateFinite ==
  ASSUME TypeOK, CallsInOrder, SinceInv, NEW j \in Jobs
  PROVE  IsFiniteSet(Late(j)) /\ IsFiniteSet(Callers(j))
<1>1. IsFiniteSet(calls[j])
  BY CallsFinite
<1>2. Late(j) \subseteq calls[j]
  BY DEF Late, SinceInv
<1>3. IsFiniteSet(Passes) /\ Callers(j) \subseteq Passes
  BY MailAssumption DEF MailAssumption, Callers
<1>4. IsFiniteSet(Late(j))
  BY ONLY <1>1, <1>2, FS_Subset
<1>5. IsFiniteSet(Callers(j))
  BY ONLY <1>3, FS_Subset
<1> QED
  BY <1>4, <1>5

\* Subsets of two finite sets count no more than they do ...
LEMMA CountsFall ==
  ASSUME NEW L, NEW P, IsFiniteSet(L), IsFiniteSet(P), NEW L1, NEW P1,
         L1 \subseteq L, P1 \subseteq P
  PROVE  Cardinality(L1) + Cardinality(P1) <= Cardinality(L) + Cardinality(P)
<1>1. /\ IsFiniteSet(L1) /\ IsFiniteSet(P1)
      /\ Cardinality(L1) <= Cardinality(L) /\ Cardinality(P1) <= Cardinality(P)
  BY FS_Subset
<1>2. /\ Cardinality(L) \in Nat /\ Cardinality(P) \in Nat
      /\ Cardinality(L1) \in Nat /\ Cardinality(P1) \in Nat
  BY <1>1, FS_CardinalityType
<1> QED
  BY <1>1, <1>2

\* ... nor does it matter that one of them gains what the other loses.
LEMMA CountMovesOver ==
  ASSUME NEW L, NEW P, IsFiniteSet(L), IsFiniteSet(P), NEW L1, NEW P1, NEW x, NEW p \in P,
         L1 \subseteq L \union {x}, P1 \subseteq P \ {p}
  PROVE  Cardinality(L1) + Cardinality(P1) <= Cardinality(L) + Cardinality(P)
<1>1. /\ IsFiniteSet(L \union {x})
      /\ Cardinality(L \union {x}) = IF x \in L THEN Cardinality(L) ELSE Cardinality(L) + 1
  BY FS_AddElement
<1>2. /\ IsFiniteSet(P \ {p})
      /\ Cardinality(P \ {p}) = Cardinality(P) - 1
  BY FS_RemoveElement
<1>3. Cardinality(L1) + Cardinality(P1) <= Cardinality(L \union {x}) + Cardinality(P \ {p})
  BY ONLY <1>1, <1>2, L1 \subseteq L \union {x}, P1 \subseteq P \ {p}, CountsFall
<1>4. /\ Cardinality(L) \in Nat /\ Cardinality(P) \in Nat
      /\ Cardinality(L1) \in Nat /\ Cardinality(P1) \in Nat
  <2>1. IsFiniteSet(L1) /\ IsFiniteSet(P1)
    BY ONLY <1>1, <1>2, L1 \subseteq L \union {x}, P1 \subseteq P \ {p}, FS_Subset
  <2> QED
    BY <2>1, FS_CardinalityType
<1> QED
  BY <1>1, <1>2, <1>3, <1>4

\* Nothing has been called in the empty queue.
LEMMA SinceInit == Init => SinceInv
<1> SUFFICES ASSUME Init, NEW j \in Jobs
             PROVE  /\ base[j] <= claims[j] /\ since[j] \subseteq calls[j]
                    /\ Cardinality(Late(j)) + Cardinality(Callers(j)) <= Cardinality(Passes)
  BY DEF SinceInv
<1>1. base[j] = 0 /\ claims[j] = 0 /\ since[j] = {}
  BY DEF Init
<1>2. \A p \in Passes : pass[p].pc = "idle"
  BY DEF Init, IdlePass
<1>3. Late(j) = {} /\ Callers(j) = {}
  BY <1>1, <1>2 DEF Late, Callers
<1>4. Cardinality({}) = 0
  BY ONLY FS_EmptySet
<1>5. Cardinality(Passes) \in Nat
  BY MailAssumption, FS_CardinalityType DEF MailAssumption
<1>6. Cardinality(Late(j)) = 0 /\ Cardinality(Callers(j)) = 0
  BY ONLY <1>3, <1>4
<1> QED
  BY <1>1, <1>5, <1>6

\* A step of a pass adds its claim to what was called, or nothing, and resets no row.
LEMMA SinceMoves ==
  ASSUME TypeOK, NEW p \in Passes,
         StartPass(p) \/ PassStep(p) \/ StatementFails(p) \/ AbortPass(p)
  PROVE  /\ UNCHANGED base
         /\ \/ UNCHANGED since
            \/ /\ pass[p].pc = "send" /\ pass'[p].pc = "write"
               /\ since' = [since EXCEPT ![pass[p].cur] = @ \union {pass[p].mine}]
               /\ calls' = [calls EXCEPT ![pass[p].cur] = @ \union {pass[p].mine}]
<1> USE DEF history
<1>1. CASE CallProvider(p)
  BY <1>1 DEF CallProvider, TypeOK, Pass
<1>2. CASE ~CallProvider(p)
  BY <1>2 DEF PassStep, StartPass, Beat, ScanStaleLocks, RecoverLock, FetchDue, Claim, ClaimMisses,
     Reread, CheckSuppression, RenderFails, CheckLimit, NothingToSend,
     WriteOutcome, PauseMates, EndPass, StatementFails, AbortPass
<1> QED
  BY <1>1, <1>2

\* Steps of passes keep the count: a pass with an older claim calls and is done.
LEMMA SincePass ==
  ASSUME TypeOK, TypeOK', CallsInOrder, SinceInv, [Next]_vars, NEW p \in Passes,
         StartPass(p) \/ PassStep(p) \/ StatementFails(p) \/ AbortPass(p)
  PROVE  SinceInv'
<1> SUFFICES ASSUME NEW j \in Jobs
             PROVE  /\ base'[j] <= claims'[j]
                    /\ since'[j] \subseteq calls'[j]
                    /\ Cardinality(Late(j)') + Cardinality(Callers(j)') <= Cardinality(Passes)
  BY DEF SinceInv
<1>1. Moves(p)
  BY PassMoves
<1>2. /\ UNCHANGED base
      /\ \/ UNCHANGED since
         \/ /\ pass[p].pc = "send" /\ pass'[p].pc = "write"
            /\ since' = [since EXCEPT ![pass[p].cur] = @ \union {pass[p].mine}]
            /\ calls' = [calls EXCEPT ![pass[p].cur] = @ \union {pass[p].mine}]
  BY SinceMoves
<1>3. /\ base[j] \in Nat /\ claims[j] \in Nat /\ claims'[j] \in Nat /\ claims[j] <= claims'[j]
      /\ base[j] <= claims[j] /\ since[j] \subseteq calls[j]
      /\ since \in [Jobs -> SUBSET Nat] /\ calls \in [Jobs -> SUBSET Nat]
  BY ClaimsGrow DEF TypeOK, SinceInv
<1>4. base'[j] <= claims'[j]
  BY <1>2, <1>3
<1>5. since'[j] \subseteq calls'[j]
  <2>1. calls[j] \subseteq calls'[j]
    BY <1>1, <1>3 DEF Moves, Frees, Takes, Works
  <2> QED
    BY <1>2, <1>3, <2>1
<1>6. Callers(j)' \subseteq Callers(j)
  <2> SUFFICES ASSUME NEW q \in Passes, pass'[q].cur = j, pass'[q].mine <= base[j],
                      pass'[q].pc \in {"reread", "check", "limit", "send"}
               PROVE  /\ pass[q].cur = j /\ pass[q].mine <= base[j]
                      /\ pass[q].pc \in {"reread", "check", "limit", "send"}
    BY <1>2 DEF Callers
  <2>1. CASE pass'[q] = pass[q]
    BY <2>1
  <2>2. CASE q = p /\ Frees(p)
    BY <2>2, MailAssumption DEF Frees, MailAssumption
  <2>3. CASE q = p /\ Takes(p)
    BY <1>3, <2>3 DEF Takes
  <2>4. CASE q = p /\ Works(p)
    BY <2>4 DEF Works, Working
  <2> QED
    BY <1>1, <2>1, <2>2, <2>3, <2>4 DEF Moves
<1>7. IsFiniteSet(Late(j)) /\ IsFiniteSet(Callers(j))
  BY LateFinite
<1>8. Cardinality(Late(j)') + Cardinality(Callers(j)') <= Cardinality(Late(j)) + Cardinality(Callers(j))
  <2>1. CASE Late(j)' \subseteq Late(j)
    BY ONLY <1>6, <1>7, <2>1, CountsFall
  <2>2. CASE ~(Late(j)' \subseteq Late(j))
    <3>1. /\ pass[p].pc = "send" /\ pass'[p].pc = "write" /\ pass[p].cur = j
          /\ since'[j] = since[j] \union {pass[p].mine} /\ pass[p].mine <= base[j]
      BY <1>2, <1>3, <2>2 DEF Late
    <3>2. Late(j)' \subseteq Late(j) \union {pass[p].mine}
      BY <1>2, <3>1 DEF Late
    <3>3. p \in Callers(j)
      BY <3>1 DEF Callers
    <3>4. p \notin Callers(j)'
      BY <3>1 DEF Callers
    <3>5. Callers(j)' \subseteq Callers(j) \ {p}
      BY <1>6, <3>4
    <3> QED
      BY ONLY <1>7, <3>2, <3>3, <3>5, CountMovesOver
  <2> QED
    BY <2>1, <2>2
<1>9. Cardinality(Late(j)) + Cardinality(Callers(j)) <= Cardinality(Passes)
  BY DEF SinceInv
<1>10. /\ Cardinality(Late(j)) + Cardinality(Callers(j)) \in Nat
       /\ Cardinality(Late(j)') + Cardinality(Callers(j)') \in Nat
       /\ Cardinality(Passes) \in Nat
  <2>1. /\ IsFiniteSet(Passes) /\ Callers(j)' \subseteq Callers(j)
        /\ IsFiniteSet(Late(j) \union {pass[p].mine})
        /\ Late(j)' \subseteq Late(j) \union {pass[p].mine}
    <3>1. IsFiniteSet(Passes)
      BY MailAssumption DEF MailAssumption
    <3>2. IsFiniteSet(Late(j) \union {pass[p].mine})
      BY ONLY <1>7, FS_AddElement
    <3>3. Late(j)' \subseteq Late(j) \union {pass[p].mine}
      BY <1>2, <1>3 DEF Late
    <3> QED
      BY <1>6, <3>1, <3>2, <3>3
  <2>2. IsFiniteSet(Late(j)') /\ IsFiniteSet(Callers(j)')
    BY ONLY <1>7, <2>1, FS_Subset
  <2>3. /\ Cardinality(Late(j)) \in Nat /\ Cardinality(Callers(j)) \in Nat
        /\ Cardinality(Late(j)') \in Nat /\ Cardinality(Callers(j)') \in Nat
        /\ Cardinality(Passes) \in Nat
    BY ONLY <1>7, <2>1, <2>2, FS_CardinalityType
  <2> QED
    BY <2>3
<1> QED
  BY <1>4, <1>5, <1>8, <1>9, <1>10

\* What is not a step of a pass: it calls nothing, and a row that it resets starts anew.
LEMMA SinceOthers ==
  ASSUME TypeOK, TypeOK', [Next]_vars, NEW j \in Jobs,
         \A p \in Passes : ~(StartPass(p) \/ PassStep(p) \/ StatementFails(p) \/ AbortPass(p))
  PROVE  /\ UNCHANGED <<pass, calls, claims>>
         /\ \/ base'[j] = base[j] /\ since'[j] = since[j]
            \/ base'[j] = claims[j] /\ since'[j] = {}
<1> USE DEF history
<1>0. base \in [Jobs -> Nat] /\ since \in [Jobs -> SUBSET Nat]
  BY DEF TypeOK
<1>1. ASSUME NEW c \in Clients, RequestStep(c)
      PROVE  /\ UNCHANGED <<pass, calls, claims>>
             /\ \/ base'[j] = base[j] /\ since'[j] = since[j]
                \/ base'[j] = claims[j] /\ since'[j] = {}
  <2>1. CASE RefreshWrites(c) \/ RetryWrites(c)
    BY <1>0, <2>1 DEF RefreshWrites, RetryWrites
  <2>2. CASE ~(RefreshWrites(c) \/ RetryWrites(c))
    BY <1>1, <2>2 DEF RequestStep, CreateWrites, CancelWrites,
       ArchiveWrites, BounceMarksDead, CreateReads, RefreshReads, RetryReads, CancelReads,
       ArchiveReads, BounceSuppresses
  <2> QED
    BY <2>1, <2>2
<1>2. CASE ResumePaused
  <2>1. PICK b \in {BatchOf[k] : k \in Jobs} :
          LET resumed == {k \in Jobs : /\ row[k].status = "PAUSED_LIMIT_REACHED"
                                       /\ b = 0 \/ BatchOf[k] = b}
          IN /\ base' = [k \in Jobs |-> IF k \in resumed THEN claims[k] ELSE base[k]]
             /\ since' = [k \in Jobs |-> IF k \in resumed THEN {} ELSE since[k]]
    BY <1>2, Zenon DEF ResumePaused
  <2>2. UNCHANGED <<pass, calls, claims>>
    BY <1>2, Zenon DEF ResumePaused
  <2> QED
    BY <2>1, <2>2
<1>3. ASSUME \/ ArchiveOld \/ HeartbeatAges \/ MinutePasses \/ DayRolls \/ UNCHANGED vars
             \/ \E r \in Recipients : Suppress(r)
             \/ \E k \in Jobs : BecomesDue(k) \/ WindowCloses(k) \/ LockAges(k)
      PROVE  UNCHANGED <<pass, calls, claims, base, since>>
  BY <1>3 DEF ArchiveOld, HeartbeatAges, MinutePasses, DayRolls, vars, Suppress, BecomesDue,
     WindowCloses, LockAges
<1> QED
  BY <1>1, <1>2, <1>3 DEF Next

\* Every step keeps the count of late calls.
LEMMA SinceStep ==
  TypeOK /\ TypeOK' /\ CallsInOrder /\ SinceInv /\ [Next]_vars => SinceInv'
<1> SUFFICES ASSUME TypeOK, TypeOK', CallsInOrder, SinceInv, [Next]_vars PROVE SinceInv'
  OBVIOUS
<1>1. CASE \E p \in Passes : StartPass(p) \/ PassStep(p) \/ StatementFails(p) \/ AbortPass(p)
  BY <1>1, SincePass
<1>2. ASSUME ~\E p \in Passes : StartPass(p) \/ PassStep(p) \/ StatementFails(p) \/ AbortPass(p),
             NEW j \in Jobs
      PROVE  /\ base'[j] <= claims'[j] /\ since'[j] \subseteq calls'[j]
             /\ Cardinality(Late(j)') + Cardinality(Callers(j)') <= Cardinality(Passes)
  <2>1. /\ UNCHANGED <<pass, calls, claims>>
        /\ \/ base'[j] = base[j] /\ since'[j] = since[j]
           \/ base'[j] = claims[j] /\ since'[j] = {}
    BY <1>2, SinceOthers
  <2>2. /\ base[j] <= claims[j] /\ since[j] \subseteq calls[j] /\ claims[j] \in Nat
        /\ Cardinality(Late(j)) + Cardinality(Callers(j)) <= Cardinality(Passes)
    BY DEF SinceInv, TypeOK
  <2>3. CASE base'[j] = base[j] /\ since'[j] = since[j]
    <3>1. Late(j)' = Late(j) /\ Callers(j)' = Callers(j)
      BY <2>1, <2>3 DEF Late, Callers
    <3> QED
      BY <2>1, <2>2, <2>3, <3>1
  <2>4. CASE base'[j] = claims[j] /\ since'[j] = {}
    <3>1. Late(j)' = {} /\ Callers(j)' \subseteq Passes
      BY <2>4 DEF Late, Callers
    <3>2. IsFiniteSet(Passes)
      BY MailAssumption DEF MailAssumption
    <3>3. /\ Cardinality(Callers(j)') <= Cardinality(Passes)
          /\ IsFiniteSet(Callers(j)')
      BY ONLY <3>1, <3>2, FS_Subset
    <3>4. Cardinality(Callers(j)') \in Nat /\ Cardinality({}) = 0
      BY ONLY <3>3, FS_CardinalityType, FS_EmptySet
    <3>5. Cardinality(Late(j)') = 0
      BY ONLY <3>1, <3>4
    <3> QED
      BY <2>1, <2>2, <2>4, <3>3, <3>4, <3>5
  <2> QED
    BY <2>1, <2>3, <2>4
<1> QED
  BY <1>1, <1>2 DEF SinceInv

\* The calls since the last reset are those of newer claims, and the late ones.
LEMMA BudgetBound ==
  ASSUME TypeOK, BudgetInv, SinceInv
  PROVE  SendBudget
<1> SUFFICES ASSUME ~Limited \/ Disciplined, NEW j \in Jobs
             PROVE  Cardinality(since[j]) <= MaxAttempts + LateCalls(j)
  BY DEF SendBudget
<1> DEFINE S == {c \in calls[j] : c > base[j]}
<1>1. /\ Cardinality(S) <= MaxAttempts /\ MaxAttempts \in Nat
      /\ calls[j] \subseteq Nat /\ since[j] \subseteq calls[j] /\ base[j] \in Nat
      /\ IsFiniteSet(Passes)
  BY NewCalls, MailAssumption DEF MailAssumption, TypeOK, SinceInv
<1>2. IsFiniteSet(calls[j]) /\ IsFiniteSet(Late(j)) /\ IsFiniteSet(Callers(j))
  BY CallsFinite, LateFinite DEF BudgetInv
<1>3. IsFiniteSet(S) /\ S \subseteq calls[j]
  <2>1. S \subseteq calls[j]
    OBVIOUS
  <2> QED
    BY ONLY <1>2, <2>1, FS_Subset
<1>4. since[j] \subseteq S \union Late(j)
  BY <1>1 DEF Late
<1>5. /\ IsFiniteSet(S \union Late(j))
      /\ Cardinality(S \union Late(j)) = Cardinality(S) + Cardinality(Late(j)) - Cardinality(S \intersect Late(j))
  BY ONLY <1>2, <1>3, FS_Union
<1>6. IsFiniteSet(S \intersect Late(j))
  BY ONLY <1>3, FS_Subset, S \intersect Late(j) \subseteq S
<1>7. Cardinality(since[j]) <= Cardinality(S \union Late(j)) /\ IsFiniteSet(since[j])
  BY ONLY <1>4, <1>5, FS_Subset
<1>8. /\ Cardinality(since[j]) \in Nat /\ Cardinality(S) \in Nat /\ Cardinality(Late(j)) \in Nat
      /\ Cardinality(S \intersect Late(j)) \in Nat /\ Cardinality(Callers(j)) \in Nat
      /\ Cardinality(Passes) \in Nat
  BY ONLY <1>1, <1>2, <1>3, <1>6, <1>7, FS_CardinalityType
<1>9. Cardinality(Late(j)) <= LateCalls(j)
  <2>1. CASE base[j] = 0
    <3>1. Late(j) = {}
      BY <1>1, <2>1 DEF Late, BudgetInv, CallsInOrder
    <3>2. Cardinality({}) = 0
      BY ONLY FS_EmptySet
    <3>3. Cardinality(Late(j)) = 0
      BY ONLY <3>1, <3>2
    <3> QED
      BY <2>1, <3>3 DEF LateCalls
  <2>2. CASE base[j] # 0
    <3>1. Cardinality(Late(j)) + Cardinality(Callers(j)) <= Cardinality(Passes)
      BY DEF SinceInv
    <3> QED
      BY <1>8, <2>2, <3>1 DEF LateCalls
  <2> QED
    BY <2>1, <2>2
<1>10. LateCalls(j) \in Nat
  BY <1>8 DEF LateCalls
<1> HIDE DEF S
<1> QED
  BY <1>1, <1>5, <1>7, <1>8, <1>9, <1>10

\* Since its last reset no job reaches the provider more than MaxAttempts times, and once
\* more for each pass that the reset may have found at work: without send limits however
\* passes overlap, crash, outlive their locks or race with requests, and with limits as
\* long as claims are timely and nobody resets a row.
THEOREM SendsAreBounded == Spec => []SendBudget
<1>1. Spec => [](TypeOK /\ ClaimInv /\ BudgetInv)
  BY TypeInit, TypeStep, ClaimInvInit, ClaimInvStep, BudgetInit, BudgetStep, PTL DEF Spec
<1>2. BudgetInv => CallsInOrder
  BY DEF BudgetInv
<1>3. Spec => [](TypeOK /\ BudgetInv /\ SinceInv)
  BY <1>1, <1>2, TypeInit, TypeStep, SinceInit, SinceStep, PTL DEF Spec
<1> QED
  BY <1>3, BudgetBound, PTL

-----------------------------------------------------------------------------
(* Suppressed recipients *)

\* A pass that is past the suppression check holds a claim that is no newer than
\* the suppression.
SuppressionInv ==
  /\ CallsInOrder
  /\ SuppressedNeverMailed
  /\ \A p \in Passes :
       /\ pass[p].pc \in {"limit", "send"} /\ pass[p].cur \in BulkJobs
       /\ RecipientOf[pass[p].cur] \in suppressed
       => pass[p].mine <= cutoff[pass[p].cur]

\* In the empty queue nothing was sent and no pass has a job.
LEMMA SuppressionInit == Init => SuppressionInv
<1> SUFFICES ASSUME Init PROVE SuppressionInv
  OBVIOUS
<1>1. /\ \A p \in Passes : pass[p].pc = "idle"
      /\ \A j \in Jobs : calls[j] = {}
  BY DEF Init, IdlePass
<1> QED
  BY <1>1, MailAssumption
     DEF SuppressionInv, SuppressedNeverMailed, CallsInOrder, Working, MailAssumption

\* Every step keeps it: an address that joins the list sets the cutoff of its jobs
\* to their latest claims, and a pass goes on only if it finds the address absent.
LEMMA SuppressionStep == TypeOK /\ TypeOK' /\ SuppressionInv /\ [Next]_vars => SuppressionInv'
<1> SUFFICES ASSUME TypeOK, TypeOK', SuppressionInv, [Next]_vars PROVE SuppressionInv'
  OBVIOUS
<1>1. CallsInOrder'
  BY CallsStep DEF SuppressionInv
<1>2. /\ BulkJobs \subseteq Jobs /\ calls \in [Jobs -> SUBSET Nat]
      /\ cutoff \in [Jobs -> Nat] /\ claims \in [Jobs -> Nat]
  BY MailAssumption DEF MailAssumption, TypeOK
<1>3. CASE UNCHANGED <<suppressed, cutoff>>
  <2>1. CASE UNCHANGED <<pass, calls>>
    BY <1>1, <1>3, <2>1 DEF SuppressionInv, SuppressedNeverMailed
  <2>2. ASSUME NEW p \in Passes, Moves(p)
        PROVE  SuppressionInv'
    <3>1. ASSUME NEW j \in BulkJobs, RecipientOf[j] \in suppressed, NEW c \in calls'[j]
          PROVE  c <= cutoff[j]
      <4>1. \/ c \in calls[j]
            \/ pass[p].pc = "send" /\ pass[p].cur = j /\ c = pass[p].mine
        BY <1>2, <2>2, <3>1 DEF Moves, Frees, Takes, Works
      <4> QED
        BY <3>1, <4>1 DEF SuppressionInv, SuppressedNeverMailed
    <3>2. ASSUME NEW q \in Passes,
                 pass'[q].pc \in {"limit", "send"}, pass'[q].cur \in BulkJobs,
                 RecipientOf[pass'[q].cur] \in suppressed
          PROVE  pass'[q].mine <= cutoff[pass'[q].cur]
      <4>1. CASE q # p
        BY <2>2, <3>2, <4>1 DEF Moves, SuppressionInv
      <4>2. CASE q = p
        <5>1. /\ pass'[p].cur = pass[p].cur /\ pass'[p].mine = pass[p].mine
              /\ pass'[p].pc = "limit" =>
                   \/ pass[p].pc = "reread" /\ pass[p].cur \notin BulkJobs
                   \/ pass[p].pc = "check" /\ RecipientOf[pass[p].cur] \notin suppressed
              /\ pass'[p].pc = "send" => pass[p].pc = "limit"
          BY <2>2, <3>2, <4>2 DEF Moves, Frees, Takes, Works
        <5> QED
          BY <3>2, <4>2, <5>1 DEF SuppressionInv
      <4> QED
        BY <4>1, <4>2
    <3> QED
      BY <1>1, <1>3, <3>1, <3>2 DEF SuppressionInv, SuppressedNeverMailed
  <2> QED
    BY <2>1, <2>2, PassSteps
<1>4. ASSUME NEW r, Suppressing(r), UNCHANGED <<row, pass, calls, claims>>
      PROVE  SuppressionInv'
  <2>1. ASSUME NEW j \in Jobs, RecipientOf[j] \in suppressed'
        PROVE  \/ RecipientOf[j] \in suppressed /\ cutoff'[j] = cutoff[j]
               \/ cutoff'[j] = claims[j]
    BY <1>4, <2>1 DEF Suppressing
  <2>2. ASSUME NEW j \in BulkJobs, RecipientOf[j] \in suppressed', NEW c \in calls[j]
        PROVE  c <= cutoff'[j]
    BY <1>2, <2>1, <2>2 DEF SuppressionInv, SuppressedNeverMailed, CallsInOrder
  <2>3. ASSUME NEW q \in Passes,
               pass[q].pc \in {"limit", "send"}, pass[q].cur \in BulkJobs,
               RecipientOf[pass[q].cur] \in suppressed'
        PROVE  pass[q].mine <= cutoff'[pass[q].cur]
    <3>1. pass[q].mine <= claims[pass[q].cur]
      BY <2>3 DEF SuppressionInv, CallsInOrder, Working
    <3> QED
      BY <1>2, <2>1, <2>3, <3>1 DEF SuppressionInv
  <2> QED
    BY <1>1, <1>4, <2>2, <2>3 DEF SuppressionInv, SuppressedNeverMailed
<1> QED
  BY <1>3, <1>4, SuppressionSteps

\* No bulk message goes to a recipient who was suppressed before its job was
\* claimed, for any interleaving of passes, retries, resumptions and lost locks.
THEOREM SuppressionIsRespected == Spec => []SuppressedNeverMailed
<1>1. SuppressionInv => SuppressedNeverMailed
  BY DEF SuppressionInv
<1> QED
  BY TypeInit, TypeStep, SuppressionInit, SuppressionStep, <1>1, PTL DEF Spec

-----------------------------------------------------------------------------
(* The daily limit *)

\* A pass that passed the limit check and has not yet recorded its message.
Pending == {p \in Passes : \/ pass[p].pc = "send"
                           \/ pass[p].pc = "write" /\ pass[p].out = "sent"}

\* What was counted and what may still be counted stay below the limit and one
\* message per other pass.
OvershootInv ==
  (Limited /\ DayLimit > 0) =>
    /\ IsFiniteSet(SentToday)
    /\ Cardinality(SentToday) + Cardinality(Pending) <= DayLimit + Cardinality(Passes) - 1

\* In the empty queue nothing was sent or is about to be.
LEMMA OvershootInit == Init => OvershootInv
<1> SUFFICES ASSUME Init, Limited, DayLimit > 0
             PROVE  /\ IsFiniteSet(SentToday)
                    /\ Cardinality(SentToday) + Cardinality(Pending)
                         <= DayLimit + Cardinality(Passes) - 1
  BY DEF OvershootInv
<1>1. /\ \A p \in Passes : pass[p].pc = "idle"
      /\ \A j \in Jobs : row[j].status = "NONE"
  BY DEF Init, IdlePass, NoRow
<1>2. SentToday = {} /\ Pending = {}
  BY <1>1 DEF SentToday, Pending
<1>3. IsFiniteSet({}) /\ Cardinality({}) = 0
  BY FS_EmptySet
<1>4. Cardinality(Passes) \in Nat /\ DayLimit \in Nat
  BY FS_CardinalityType, MailAssumption DEF MailAssumption
<1> QED
  BY <1>2, <1>3, <1>4

\* Only the write of an accepted message adds to the count; it is then no longer
\* pending.  Only the limit check makes a message pending.
LEMMA OvershootStep == TypeOK /\ TypeOK' /\ OvershootInv /\ [Next]_vars => OvershootInv'
<1> SUFFICES ASSUME TypeOK, TypeOK', OvershootInv, [Next]_vars, Limited, DayLimit > 0
             PROVE  /\ IsFiniteSet(SentToday')
                    /\ Cardinality(SentToday') + Cardinality(Pending')
                         <= DayLimit + Cardinality(Passes) - 1
  BY DEF OvershootInv
<1>1. /\ IsFiniteSet(SentToday)
      /\ Cardinality(SentToday) + Cardinality(Pending) <= DayLimit + Cardinality(Passes) - 1
  BY DEF OvershootInv
<1>2. /\ IsFiniteSet(Passes) /\ Cardinality(Passes) \in Nat /\ DayLimit \in Nat
      /\ IsFiniteSet(Pending) /\ Cardinality(Pending) \in Nat
      /\ Cardinality(Pending) <= Cardinality(Passes)
      /\ IsFiniteSet(Pending') /\ Cardinality(Pending') \in Nat
      /\ Cardinality(Pending') <= Cardinality(Passes)
      /\ Cardinality(SentToday) \in Nat
  <2>1. IsFiniteSet(Passes) /\ DayLimit \in Nat
    BY MailAssumption DEF MailAssumption
  <2>2. Pending \subseteq Passes /\ Pending' \subseteq Passes
    BY DEF Pending
  <2>3. /\ IsFiniteSet(Pending) /\ Cardinality(Pending) <= Cardinality(Passes)
        /\ IsFiniteSet(Pending') /\ Cardinality(Pending') <= Cardinality(Passes)
    BY <2>1, <2>2, FS_Subset
  <2> QED
    BY <1>1, <2>1, <2>3, FS_CardinalityType
<1>3. \A q \in Passes :
        \/ q \in Pending' => q \in Pending
        \/ pass[q].pc = "limit" /\ WithinLimits(pass[q].bulk) /\ Moves(q)
  <2> SUFFICES ASSUME NEW q \in Passes, q \in Pending', q \notin Pending
               PROVE  pass[q].pc = "limit" /\ WithinLimits(pass[q].bulk) /\ Moves(q)
    OBVIOUS
  <2>1. pass'[q] # pass[q]
    BY DEF Pending
  <2>2. Moves(q)
    BY <2>1, PassSteps DEF Moves
  <2>3. Works(q)
    BY <2>2 DEF Moves, Frees, Takes, Pending
  <2> QED
    BY <2>2, <2>3 DEF Works, Pending
<1>4. \A j \in Jobs : j \in SentToday' =>
        \/ j \in SentToday
        \/ \E p \in Passes : WrittenBy(p, j) /\ pass[p].out = "sent"
  <2> SUFFICES ASSUME NEW j \in Jobs, Counted(j)', ~Counted(j)
               PROVE  \E p \in Passes : WrittenBy(p, j) /\ pass[p].out = "sent"
    BY DEF SentToday, Counted
  <2>1. row'[j].status = "SENT"
    BY DEF Counted
  <2> QED
    BY <2>1, RowSteps DEF RowStep, Rests, Hides, ClaimedBy, RecoveredBy, WrittenBy,
       PausedWithMate, CreatedRow, ResetRow, CancelledRow, BouncedRow
<1>5. CASE SentToday' \subseteq SentToday
  <2>1. /\ IsFiniteSet(SentToday') /\ Cardinality(SentToday') <= Cardinality(SentToday)
        /\ Cardinality(SentToday') \in Nat
    BY <1>1, <1>5, FS_Subset, FS_CardinalityType
  <2>2. CASE Pending' \subseteq Pending
    <3>1. Cardinality(Pending') <= Cardinality(Pending)
      BY <1>2, <2>2, FS_Subset
    <3> QED
      BY <1>1, <1>2, <2>1, <3>1
  <2>3. ASSUME NEW q \in Passes, WithinLimits(pass[q].bulk)
        PROVE  Cardinality(SentToday') + Cardinality(Pending') <= DayLimit + Cardinality(Passes) - 1
    <3>1. Cardinality(SentToday) < DayLimit
      BY <2>3 DEF WithinLimits
    <3> QED
      BY <1>2, <2>1, <3>1
  <2>4. Pending' \subseteq Pending \/ \E q \in Passes : WithinLimits(pass[q].bulk)
    BY <1>3 DEF Pending
  <2> QED
    BY <2>1, <2>2, <2>3, <2>4
<1>6. CASE ~(SentToday' \subseteq SentToday)
  <2>1. PICK j \in Jobs, p \in Passes : WrittenBy(p, j) /\ pass[p].out = "sent"
    BY <1>4, <1>6 DEF SentToday
  <2>2. p \in Pending /\ p \notin Pending' /\ pass'[p] # pass[p]
    BY <2>1 DEF WrittenBy, Pending
  <2>3. \A q \in Passes : q # p => pass'[q] = pass[q]
    BY <2>2, PassSteps DEF Moves
  <2>4. Pending' = Pending \ {p}
    BY <2>2, <2>3 DEF Pending
  <2>5. Cardinality(Pending') = Cardinality(Pending) - 1
    BY <1>2, <2>2, <2>4, FS_RemoveElement
  <2>6. SentToday' \subseteq SentToday \union {j}
    <3> SUFFICES ASSUME NEW i \in Jobs, i \in SentToday', i \notin SentToday
                 PROVE  i = j
      BY DEF SentToday
    <3>1. PICK q \in Passes : WrittenBy(q, i)
      BY <1>4
    <3>2. pass'[q] # pass[q]
      BY <3>1 DEF WrittenBy
    <3>3. q = p
      BY <2>3, <3>2
    <3> QED
      BY <2>1, <3>1, <3>3 DEF WrittenBy
  <2>7. /\ IsFiniteSet(SentToday \union {j})
        /\ Cardinality(SentToday \union {j}) <= Cardinality(SentToday) + 1
        /\ Cardinality(SentToday \union {j}) \in Nat
    <3>1. /\ IsFiniteSet(SentToday \union {j})
          /\ Cardinality(SentToday \union {j}) =
               IF j \in SentToday THEN Cardinality(SentToday) ELSE Cardinality(SentToday) + 1
      BY <1>1, FS_AddElement
    <3> QED
      BY <1>2, <3>1
  <2>8. /\ IsFiniteSet(SentToday')
        /\ Cardinality(SentToday') <= Cardinality(SentToday \union {j})
        /\ Cardinality(SentToday') \in Nat
    BY <2>6, <2>7, FS_Subset, FS_CardinalityType
  <2> QED
    BY <1>1, <1>2, <2>5, <2>7, <2>8
<1> QED
  BY <1>5, <1>6

\* checkBeforeSend reads the count before the send, so concurrent passes overshoot
\* the daily limit; the overshoot is at most one message for each further pass.
THEOREM OvershootIsBounded == Spec => []LimitOvershoot
<1>1. TypeOK /\ OvershootInv => LimitOvershoot
  <2> SUFFICES ASSUME OvershootInv, Limited, DayLimit > 0
               PROVE  Cardinality(SentToday) <= DayLimit + Cardinality(Passes) - 1
    BY DEF LimitOvershoot
  <2>1. /\ IsFiniteSet(SentToday)
        /\ Cardinality(SentToday) + Cardinality(Pending) <= DayLimit + Cardinality(Passes) - 1
    BY DEF OvershootInv
  <2>2. IsFiniteSet(Passes) /\ DayLimit \in Nat /\ Pending \subseteq Passes
    BY MailAssumption DEF MailAssumption, Pending
  <2>3. IsFiniteSet(Pending)
    BY <2>2, FS_Subset
  <2>4. /\ Cardinality(Pending) \in Nat /\ Cardinality(SentToday) \in Nat
        /\ Cardinality(Passes) \in Nat
    BY <2>1, <2>2, <2>3, FS_CardinalityType
  <2> QED
    BY <2>1, <2>2, <2>4
<1> QED
  BY TypeInit, TypeStep, OvershootInit, OvershootStep, <1>1, PTL DEF Spec

-----------------------------------------------------------------------------
(* Final rows *)

\* While no request disturbs the worker, only rows that are done are archived or
\* about to be, a bounce names a message, only a sent row carries one, and a held
\* row is being processed or was just paused.
FinalInv ==
  /\ CallsInOrder
  /\ Undisturbed =>
       /\ \A j \in Jobs : /\ row[j].archived => row[j].status \in Final
                          /\ row[j].msg # 0 => row[j].status \in {"SENT", "DEAD"}
       /\ \A c \in Clients : /\ req[c].op = "archive" =>
                                  req[c].job \in Jobs /\ row[req[c].job].status \in Final
                             /\ req[c].op = "bounce" => req[c].msg >= 1
       /\ \A p \in Passes : pass[p].cur # NoJob =>
            row[pass[p].cur].status \in {"PROCESSING", "PAUSED_LIMIT_REACHED"}

\* The empty queue has no archived row and no request.
LEMMA FinalInit == Init => FinalInv
<1> SUFFICES ASSUME Init PROVE FinalInv
  OBVIOUS
<1>1. /\ \A p \in Passes : pass[p].pc = "idle" /\ pass[p].cur = NoJob
      /\ \A j \in Jobs : ~row[j].archived /\ row[j].msg = 0 /\ calls[j] = {}
      /\ \A c \in Clients : req[c].op = "none"
  BY DEF Init, IdlePass, NoRow, IdleRequest
<1> QED
  BY <1>1 DEF FinalInv, CallsInOrder, Working

\* Without requests that disturb it, a row is not reset or cancelled, ...
LEMMA NoDisturbance ==
  ASSUME Undisturbed, RequestsInOps, NEW j \in Jobs
  PROVE  ~ResetRow(j) /\ ~CancelledRow(j)
BY DEF Undisturbed, Disciplined, RequestsInOps, ResetRow, CancelledRow

\* ... a bounce finds only sent rows, the lock of a held row is not recovered, ...
LEMMA HeldRows ==
  ASSUME TypeOK, ClaimInv, FinalInv, Undisturbed, NEW j \in Jobs
  PROVE  /\ BouncedRow(j) => row[j].status \in {"SENT", "DEAD"}
         /\ \A p, q \in Passes : pass[q].cur = j => ~RecoveredBy(p, j)
<1>1. BouncedRow(j) => row[j].status \in {"SENT", "DEAD"}
  <2> SUFFICES ASSUME BouncedRow(j) PROVE row[j].status \in {"SENT", "DEAD"}
    OBVIOUS
  <2>1. row[j].msg >= 1
    BY DEF BouncedRow, FinalInv
  <2>2. row[j].msg # 0
    BY <2>1
  <2> QED
    BY <2>2 DEF FinalInv
<1>2. ASSUME NEW p \in Passes, NEW q \in Passes, pass[q].cur = j, RecoveredBy(p, j)
      PROVE  FALSE
  <2>1. LockHeld /\ ScanIsCurrent
    BY DEF ClaimInv, Undisturbed
  <2>2. row[j].age = 0
    BY <1>2, <2>1 DEF LockHeld, RecoveredBy
  <2>3. row[j].age > 0
    BY <1>2, <2>1 DEF ScanIsCurrent, RecoveredBy
  <2> QED
    BY <2>2, <2>3
<1> QED
  BY <1>1, <1>2

\* ... and so a final row stays final, and a sent one becomes at most DEAD.
LEMMA FinalStays ==
  ASSUME TypeOK, ClaimInv, FinalInv, Undisturbed, [Next]_vars,
         NEW j \in Jobs, row[j].status \in Final
  PROVE  /\ row'[j].status \in Final
         /\ row[j].status = "SENT" => row'[j].status \in {"SENT", "DEAD"}
<1>1. RowStep(j)
  BY RowSteps
<1>2. ~ResetRow(j) /\ ~CancelledRow(j)
  BY NoDisturbance DEF ClaimInv
<1>3. \A p \in Passes : ~ClaimedBy(p, j) /\ ~RecoveredBy(p, j) /\ ~WrittenBy(p, j)
  <2>1. \A p \in Passes : pass[p].cur # j
    BY MailAssumption DEF FinalInv, Final, MailAssumption
  <2> QED
    BY <2>1 DEF ClaimedBy, RecoveredBy, WrittenBy, Final, Due
<1>4. ~PausedWithMate(j) /\ ~CreatedRow(j)
  BY DEF PausedWithMate, CreatedRow, Final, Due
<1>5. Rests(j) \/ Hides(j) \/ BouncedRow(j)
  BY <1>1, <1>2, <1>3, <1>4 DEF RowStep
<1> QED
  BY <1>5, HeldRows DEF Rests, Hides, BouncedRow, Final

\* Every step keeps the invariant.
LEMMA FinalStep ==
  TypeOK /\ TypeOK' /\ ClaimInv /\ FinalInv /\ [Next]_vars => FinalInv'
<1> SUFFICES ASSUME TypeOK, TypeOK', ClaimInv, FinalInv, [Next]_vars PROVE FinalInv'
  OBVIOUS
<1>1. CallsInOrder'
  BY CallsStep DEF FinalInv
<1>2. ASSUME Undisturbed, NEW j \in Jobs
      PROVE  /\ row'[j].archived => row'[j].status \in Final
             /\ row'[j].msg # 0 => row'[j].status \in {"SENT", "DEAD"}
  <2>1. RowStep(j) /\ ~ResetRow(j) /\ ~CancelledRow(j)
    BY <1>2, RowSteps, NoDisturbance DEF ClaimInv
  <2>2. /\ row[j].archived => row[j].status \in Final
        /\ row[j].msg # 0 => row[j].status \in {"SENT", "DEAD"}
        /\ \A c \in Clients : req[c].op = "archive" /\ req[c].job = j => row[j].status \in Final
        /\ \A p \in Passes : pass[p].cur = j =>
             row[j].status \in {"PROCESSING", "PAUSED_LIMIT_REACHED"}
    BY <1>2, MailAssumption DEF FinalInv, MailAssumption
  <2>3. CASE Rests(j) \/ Hides(j)
    BY <2>2, <2>3 DEF Rests, Hides, SameContent
  <2>4. ASSUME NEW p \in Passes, ClaimedBy(p, j) \/ RecoveredBy(p, j)
        PROVE  ~row'[j].archived /\ row'[j].msg = 0
    BY <2>2, <2>4 DEF ClaimedBy, RecoveredBy, SameContent, Final, Due, TypeOK, Row
  <2>5. ASSUME NEW p \in Passes, WrittenBy(p, j)
        PROVE  ~row'[j].archived /\ (row'[j].msg # 0 => row'[j].status = "SENT")
    <3>1. row[j].status \notin Final /\ row[j].msg = 0
      BY <2>2, <2>5 DEF WrittenBy, Final
    <3> QED
      BY <2>2, <2>5, <3>1 DEF WrittenBy, TypeOK, Row
  <2>6. CASE PausedWithMate(j)
    BY <2>2, <2>6 DEF PausedWithMate, SameContent, Due
  <2>7. CASE CreatedRow(j)
    BY <2>7 DEF CreatedRow
  <2>8. CASE BouncedRow(j)
    BY <2>8 DEF BouncedRow, Final
  <2> QED
    BY <2>1, <2>3, <2>4, <2>5, <2>6, <2>7, <2>8 DEF RowStep
<1>3. ASSUME Undisturbed, NEW c \in Clients
      PROVE  /\ req'[c].op = "archive" =>
                  req'[c].job \in Jobs /\ row'[req'[c].job].status \in Final
             /\ req'[c].op = "bounce" => req'[c].msg >= 1
  <2>1. CASE req'[c] = req[c]
    <3>1. /\ req[c].op = "archive" => req[c].job \in Jobs /\ row[req[c].job].status \in Final
          /\ req[c].op = "bounce" => req[c].msg >= 1
      BY <1>3 DEF FinalInv
    <3> QED
      BY <1>3, <2>1, <3>1, FinalStays
  <2>2. CASE req'[c].op = "bounce" /\ req'[c].job \in Jobs /\ req'[c].msg \in calls[req'[c].job]
    BY <2>2 DEF FinalInv, CallsInOrder, TypeOK
  <2> QED
    BY <2>1, <2>2, RequestSteps
<1>4. ASSUME Undisturbed, NEW q \in Passes, pass'[q].cur # NoJob
      PROVE  row'[pass'[q].cur].status \in {"PROCESSING", "PAUSED_LIMIT_REACHED"}
  <2>1. PICK j \in Jobs : pass'[q].cur = j
    BY <1>4 DEF TypeOK, Pass
  <2>2. CASE Takes(q)
    BY <2>1, <2>2 DEF Takes
  <2>3. CASE pass[q].cur = j
    <3>1. row[j].status \in {"PROCESSING", "PAUSED_LIMIT_REACHED"}
      BY <1>4, <2>1, <2>3 DEF FinalInv
    <3>2. RowStep(j) /\ ~ResetRow(j) /\ ~CancelledRow(j)
      BY <1>4, <2>1, RowSteps, NoDisturbance DEF ClaimInv
    <3>3. ~BouncedRow(j) /\ \A p \in Passes : ~RecoveredBy(p, j)
      BY <1>4, <2>1, <2>3, <3>1, HeldRows
    <3>4. /\ ~PausedWithMate(j) /\ ~CreatedRow(j)
          /\ \A p \in Passes : ~ClaimedBy(p, j)
      BY <3>1 DEF PausedWithMate, CreatedRow, ClaimedBy, Due
    <3>5. ASSUME NEW p \in Passes, WrittenBy(p, j)
          PROVE  row'[j].status = "PAUSED_LIMIT_REACHED"
      <4>1. p = q
        BY <1>4, <2>1, <2>3, <3>5 DEF WrittenBy, ClaimInv, ExclusiveProcessing, Undisturbed
      <4>2. pass'[q].pc # "claim"
        BY <1>4, <2>1 DEF TypeOK, Working
      <4> QED
        BY <3>5, <4>1, <4>2 DEF WrittenBy
    <3>6. Rests(j) \/ Hides(j) \/ \E p \in Passes : WrittenBy(p, j)
      BY <3>2, <3>3, <3>4 DEF RowStep
    <3>7. row'[j].status \in {"PROCESSING", "PAUSED_LIMIT_REACHED"}
      BY <3>1, <3>5, <3>6 DEF Rests, Hides
    <3> QED
      BY <2>1, <3>7
  <2>4. pass[q].cur = j \/ Takes(q)
    BY <1>4, <2>1, PassSteps DEF Moves, Frees, Works
  <2> QED
    BY <2>2, <2>3, <2>4
<1> QED
  BY <1>1, <1>2, <1>3, <1>4 DEF FinalInv, Undisturbed, Disciplined, Final

\* Only rows the worker is done with are archived: ArchiveReads checks the status
\* before ArchiveWrites, and no step in between makes a final row live again.
THEOREM ArchivedRowsAreFinal == Spec => []ArchivedIsFinal
<1>1. FinalInv => ArchivedIsFinal
  BY DEF FinalInv, ArchivedIsFinal
<1> QED
  BY TypeInit, TypeStep, ClaimInvInit, ClaimInvStep, FinalInit, FinalStep, <1>1, PTL DEF Spec

\* A sent job is never claimed, failed or cancelled again; a bounce makes it DEAD.
THEOREM SentJobsStaySent == Spec => SentIsFinal
<1>1. ASSUME TypeOK, ClaimInv, FinalInv, [Next]_vars
      PROVE  [Undisturbed => \A j \in Jobs :
                row[j].status = "SENT" => row'[j].status \in {"SENT", "DEAD"}]_vars
  BY <1>1, FinalStays DEF Final
<1> QED
  BY TypeInit, TypeStep, ClaimInvInit, ClaimInvStep, FinalInit, FinalStep, <1>1, PTL
     DEF Spec, SentIsFinal

-----------------------------------------------------------------------------
(* Each job as the outbox has it *)

\* A pass that has handed its message over and is about to store that.
Delivered(p) == pass[p].pc = "write" /\ pass[p].out = "sent"

\* What a pass at work knows of its job: its claim is the last one, its row is as it
\* was claimed until the outcome is written, and whether the message was handed over.
Holding(p) ==
  pass[p].pc \in Working =>
    /\ pass[p].mine = claims[pass[p].cur]
    /\ Unsent(p) => pass[p].mine \notin calls[pass[p].cur]
    /\ Delivered(p) => pass[p].mine \in calls[pass[p].cur]
    /\ Unsent(p) \/ Delivered(p) =>
         /\ row[pass[p].cur].status = "PROCESSING"
         /\ pass[p].pc # "reread" => pass[p].snap = row[pass[p].cur].attempts

OutboxInv ==
  /\ FinalInv
  /\ Undisturbed =>
       /\ \A j \in Jobs : /\ row[j].status = "NONE" => row[j].attempts = 0
                          /\ row[j].status = "PROCESSING" => row[j].attempts > 0
       /\ \A p \in Passes : Holding(p)

\* The empty queue has no row, and nobody works.
LEMMA OutboxInvInit == Init => OutboxInv
<1> SUFFICES ASSUME Init PROVE OutboxInv
  OBVIOUS
<1>1. /\ \A p \in Passes : pass[p].pc = "idle"
      /\ \A j \in Jobs : row[j].status = "NONE" /\ row[j].attempts = 0
  BY DEF Init, IdlePass, NoRow
<1> QED
  BY <1>1, FinalInit DEF OutboxInv, Holding, Working

\* A row that a pass works on is changed by nobody else.
LEMMA HeldRowStep ==
  ASSUME TypeOK, ClaimInv, FinalInv, Undisturbed, [Next]_vars,
         NEW p \in Passes, NEW j \in Jobs, pass[p].cur = j
  PROVE  Rests(j) \/ Hides(j) \/ WrittenBy(p, j)
<1>1. RowStep(j) /\ ~ResetRow(j) /\ ~CancelledRow(j)
  BY RowSteps, NoDisturbance DEF ClaimInv
<1>2. j # NoJob
  BY MailAssumption DEF MailAssumption
<1>3. row[j].status \in {"PROCESSING", "PAUSED_LIMIT_REACHED"}
  BY <1>2 DEF FinalInv
<1>4. ~BouncedRow(j) /\ \A q \in Passes : ~RecoveredBy(q, j)
  BY <1>3, HeldRows
<1>5. /\ ~PausedWithMate(j) /\ ~CreatedRow(j)
      /\ \A q \in Passes : ~ClaimedBy(q, j)
  BY <1>3 DEF PausedWithMate, CreatedRow, ClaimedBy, Due
<1>6. \A q \in Passes : WrittenBy(q, j) => q = p
  BY <1>2 DEF WrittenBy, ClaimInv, ExclusiveProcessing, Undisturbed
<1> QED
  BY <1>1, <1>4, <1>5, <1>6 DEF RowStep

\* What a pass knows stays true while it does nothing, ...
LEMMA HoldingKept ==
  ASSUME TypeOK, ClaimInv, OutboxInv, Undisturbed, [Next]_vars,
         NEW p \in Passes, pass'[p] = pass[p],
         UNCHANGED calls \/ \E q \in Passes \ {p} : Moves(q)
  PROVE  Holding(p)'
<1> SUFFICES ASSUME pass[p].pc \in Working PROVE Holding(p)'
  BY DEF Holding
<1>1. PICK j \in Jobs : pass[p].cur = j
  BY DEF TypeOK, Pass
<1>2. Rests(j) \/ Hides(j)
  <2>1. ~WrittenBy(p, j)
    BY DEF WrittenBy
  <2> QED
    BY <1>1, <2>1, HeldRowStep DEF OutboxInv
<1>3. calls'[j] = calls[j]
  <2>1. ASSUME NEW q \in Passes \ {p}, pass[q].cur = j PROVE FALSE
    BY <1>1, <2>1, MailAssumption
    DEF ClaimInv, ExclusiveProcessing, Undisturbed, MailAssumption
  <2> QED
    BY <2>1 DEF Moves, Frees, Takes, Works, TypeOK
<1>4. /\ row'[j].status = row[j].status /\ row'[j].attempts = row[j].attempts
      /\ claims'[j] = claims[j]
  BY <1>2 DEF Rests, Hides, SameContent, Timeless
<1>5. Holding(p)
  BY DEF OutboxInv
<1> QED
  BY <1>1, <1>3, <1>4, <1>5 DEF Holding, Unsent, Delivered

\* ... when it takes a job, ...
LEMMA HoldingTaken ==
  ASSUME TypeOK, OutboxInv, NEW p \in Passes, Takes(p)
  PROVE  Holding(p)'
<1>1. PICK j \in Jobs : pass'[p].cur = j
  BY DEF Takes
<1>2. /\ pass'[p].mine = claims'[j] /\ claims'[j] = claims[j] + 1
      /\ row'[j].status = "PROCESSING" /\ pass'[p].pc = "reread"
  BY <1>1 DEF Takes
<1>3. claims[j] + 1 \notin calls[j]
  <2>1. \A c \in calls[j] : c \in Nat /\ c <= claims[j] /\ claims[j] \in Nat
    BY DEF OutboxInv, FinalInv, CallsInOrder, TypeOK
  <2> QED
    BY <2>1
<1>4. calls' = calls
  BY DEF Takes
<1> QED
  BY <1>1, <1>2, <1>3, <1>4 DEF Holding, Unsent, Delivered

\* ... and when it goes on.
LEMMA HoldingWorks ==
  ASSUME TypeOK, ClaimInv, OutboxInv, Undisturbed, [Next]_vars, NEW p \in Passes, Works(p)
  PROVE  Holding(p)'
<1>1. PICK j \in Jobs : pass[p].cur = j
  BY DEF TypeOK, Pass, Works
<1>2. /\ pass'[p].cur = j /\ pass'[p].mine = pass[p].mine
      /\ pass[p].mine = claims[j]
  BY <1>1 DEF Works, OutboxInv, Holding
<1>3. Rests(j) \/ Hides(j) \/ WrittenBy(p, j)
  BY <1>1, HeldRowStep DEF OutboxInv
<1>4. claims'[j] = claims[j]
  BY <1>3 DEF Rests, Hides, SameContent, WrittenBy, Timeless
<1>5. CASE ~(Unsent(p) \/ Delivered(p))'
  BY <1>2, <1>4, <1>5 DEF Holding
<1>6. CASE (Unsent(p) \/ Delivered(p))'
  <2>1. /\ row'[j].status = row[j].status /\ row'[j].attempts = row[j].attempts
    <3>1. pass'[p].pc \notin {"mates", "claim"}
      BY <1>6 DEF Unsent, Delivered
    <3> QED
      BY <1>3, <3>1 DEF Rests, Hides, SameContent, WrittenBy
  <2>2. Unsent(p) /\ pass[p].pc # "write"
    BY <1>6 DEF Unsent, Delivered, Works
  <2>3. /\ pass[p].mine \notin calls[j] /\ row[j].status = "PROCESSING"
        /\ pass[p].pc # "reread" => pass[p].snap = row[j].attempts
    BY <1>1, <2>2 DEF OutboxInv, Holding, Works
  <2>4. pass'[p].snap = row'[j].attempts
    BY <1>1, <2>1, <2>3 DEF Works
  <2>5. Unsent(p)' => pass'[p].mine \notin calls'[j]
    BY <1>2, <2>2, <2>3 DEF Unsent, Works
  <2>6. Delivered(p)' => pass'[p].mine \in calls'[j]
    BY <1>1, <1>2 DEF Delivered, Works, TypeOK
  <2> QED
    BY <1>2, <1>4, <2>1, <2>3, <2>4, <2>5, <2>6 DEF Holding
<1> QED
  BY <1>5, <1>6

\* Every step keeps the invariant.
LEMMA OutboxInvStep ==
  TypeOK /\ TypeOK' /\ ClaimInv /\ OutboxInv /\ [Next]_vars => OutboxInv'
<1> SUFFICES ASSUME TypeOK, TypeOK', ClaimInv, OutboxInv, [Next]_vars PROVE OutboxInv'
  OBVIOUS
<1>1. FinalInv'
  BY FinalStep DEF OutboxInv
<1>2. ASSUME Undisturbed, NEW j \in Jobs
      PROVE  /\ row'[j].status = "NONE" => row'[j].attempts = 0
             /\ row'[j].status = "PROCESSING" => row'[j].attempts > 0
  <2>1. RowStep(j) /\ ~ResetRow(j) /\ ~CancelledRow(j)
    BY <1>2, RowSteps, NoDisturbance DEF ClaimInv
  <2>2. /\ row[j].status = "NONE" => row[j].attempts = 0
        /\ row[j].status = "PROCESSING" => row[j].attempts > 0
        /\ row[j].attempts \in Nat
    BY <1>2 DEF OutboxInv, TypeOK, Row
  <2>3. CASE Rests(j) \/ Hides(j)
    BY <2>2, <2>3 DEF Rests, Hides, SameContent
  <2>4. ASSUME NEW p \in Passes, ClaimedBy(p, j) PROVE row'[j].attempts > 0
    <3>1. row'[j].attempts = row[j].attempts + 1
      BY <2>4 DEF ClaimedBy
    <3> QED
      BY <2>2, <3>1
  <2>5. CASE \/ PausedWithMate(j) \/ CreatedRow(j) \/ BouncedRow(j)
             \/ \E p \in Passes : RecoveredBy(p, j) \/ WrittenBy(p, j)
    BY <2>5 DEF PausedWithMate, CreatedRow, BouncedRow, RecoveredBy, WrittenBy
  <2>6. ASSUME NEW p \in Passes, ClaimedBy(p, j) PROVE row'[j].status = "PROCESSING"
    BY <2>6 DEF ClaimedBy
  <2> QED
    BY <2>1, <2>3, <2>4, <2>5, <2>6 DEF RowStep
<1>3. ASSUME Undisturbed, NEW p \in Passes PROVE Holding(p)'
  <2>1. CASE UNCHANGED <<pass, calls>>
    BY <1>3, <2>1, HoldingKept
  <2>2. ASSUME NEW q \in Passes, Moves(q) PROVE Holding(p)'
    <3>1. CASE q # p
      <4>1. pass'[p] = pass[p]
        BY <2>2, <3>1 DEF Moves
      <4> QED
        BY <1>3, <2>2, <3>1, <4>1, HoldingKept
    <3>2. CASE q = p /\ Frees(p)
      BY <3>2 DEF Frees, Holding, Working
    <3>3. CASE q = p /\ (Takes(p) \/ Works(p))
      BY <1>3, <3>3, HoldingTaken, HoldingWorks
    <3> QED
      BY <2>2, <3>1, <3>2, <3>3 DEF Moves
  <2> QED
    BY <2>1, <2>2, PassSteps
<1> QED
  BY <1>1, <1>2, <1>3 DEF OutboxInv, Undisturbed, Disciplined

\* Membership as a value.
LEMMA MembershipValue ==
  ASSUME NEW h, NEW c, NEW S, h = (c \in S)
  PROVE  (c \in S => h = TRUE) /\ (c \notin S => h = FALSE)
<1>1. CASE c \in S
  BY <1>1, Zenon
<1>2. CASE c \notin S
  <2>1. (c \in S) = FALSE
    BY <1>2, SMT
  <2> QED
    BY <1>2, <2>1, Zenon
<1> QED
  BY <1>1, <1>2

\* What the outbox shows of a job ...
LEMMA OutboxOf ==
  ASSUME NEW j \in Jobs
  PROVE  /\ outbox[j] = Outbox!Entry(OutboxState(row[j].status), row[j].attempts, outbox[j].handed)
         /\ claims[j] \in calls[j] => outbox[j].handed = TRUE
         /\ claims[j] \notin calls[j] => outbox[j].handed = FALSE
         /\ outbox[j].state = OutboxState(row[j].status)
         /\ outbox[j].attempts = row[j].attempts
<1>1. outbox[j] = [state |-> OutboxState(row[j].status), attempts |-> row[j].attempts,
                   handed |-> claims[j] \in calls[j]]
  BY DEF outbox
<1>2. /\ outbox[j].handed = (claims[j] \in calls[j])
      /\ outbox[j].state = OutboxState(row[j].status) /\ outbox[j].attempts = row[j].attempts
  BY <1>1
<1>3. outbox[j] = [state |-> OutboxState(row[j].status), attempts |-> row[j].attempts,
                   handed |-> outbox[j].handed]
  BY <1>1, <1>2
<1>4. outbox[j] = Outbox!Entry(OutboxState(row[j].status), row[j].attempts, outbox[j].handed)
  BY <1>3 DEF Outbox!Entry
<1>5. /\ claims[j] \in calls[j] => outbox[j].handed = TRUE
      /\ claims[j] \notin calls[j] => outbox[j].handed = FALSE
  BY <1>2, MembershipValue, Zenon
<1> QED
  BY <1>2, <1>4, <1>5

\* ... and after a step.
LEMMA OutboxAfter ==
  ASSUME NEW j \in Jobs
  PROVE  /\ outbox'[j] = Outbox!Entry(OutboxState(row'[j].status), row'[j].attempts, outbox'[j].handed)
         /\ (claims'[j] \in calls'[j] => outbox'[j].handed = TRUE)
         /\ (claims'[j] \notin calls'[j] => outbox'[j].handed = FALSE)
<1>1. outbox'[j] = [state |-> OutboxState(row'[j].status), attempts |-> row'[j].attempts,
                    handed |-> claims'[j] \in calls'[j]]
  BY DEF outbox
<1>2. outbox'[j].handed = (claims'[j] \in calls'[j])
  BY <1>1
<1>3. outbox'[j] = [state |-> OutboxState(row'[j].status), attempts |-> row'[j].attempts,
                    handed |-> outbox'[j].handed]
  BY <1>1, <1>2
<1>4. outbox'[j] = Outbox!Entry(OutboxState(row'[j].status), row'[j].attempts, outbox'[j].handed)
  BY <1>3 DEF Outbox!Entry
<1>5. /\ claims'[j] \in calls'[j] => outbox'[j].handed = TRUE
      /\ claims'[j] \notin calls'[j] => outbox'[j].handed = FALSE
  BY <1>2, MembershipValue, Zenon
<1> QED
  BY <1>4, <1>5

\* An entry whose state alone changes.
LEMMA Becoming ==
  ASSUME NEW j \in Jobs, row'[j].attempts = row[j].attempts, claims'[j] = claims[j],
         calls'[j] = calls[j]
  PROVE  /\ Outbox!Becomes(j, OutboxState(row'[j].status))
         /\ row'[j].status = row[j].status => outbox'[j] = outbox[j]
<1>1. outbox'[j].handed = outbox[j].handed
  BY OutboxOf, OutboxAfter
<1>2. outbox'[j] = Outbox!Entry(OutboxState(row'[j].status), row[j].attempts, outbox[j].handed)
  BY <1>1, OutboxAfter
<1>3. outbox[j] = Outbox!Entry(OutboxState(row[j].status), row[j].attempts, outbox[j].handed)
  BY OutboxOf
<1>4. outbox[j].attempts = row[j].attempts
  BY OutboxOf
<1>5. row'[j].status = row[j].status => outbox'[j] = outbox[j]
  BY <1>2, <1>3, Zenon
<1> QED
  BY <1>2, <1>4, <1>5, Zenon DEF Outbox!Becomes

\* The message is handed over: nothing else happens to the job.
LEMMA OutboxHandsOver ==
  ASSUME TypeOK, TypeOK', ClaimInv, OutboxInv, Undisturbed, [Next]_vars,
         NEW j \in Jobs, calls'[j] # calls[j]
  PROVE  Outbox!HandOver(j)
<1>1. PICK p \in Passes : /\ pass[p].pc = "send" /\ pass[p].cur = j
                          /\ calls' = [calls EXCEPT ![j] = @ \union {pass[p].mine}]
  BY PassSteps DEF Moves, Frees, Takes, Works, TypeOK
<1>2. /\ row[j].status = "PROCESSING"
      /\ pass[p].mine = claims[j] /\ claims[j] \notin calls[j]
  BY <1>1 DEF OutboxInv, Holding, Unsent, Working
<1>3. Rests(j) \/ Hides(j)
  <2>1. ~WrittenBy(p, j)
    BY <1>1 DEF WrittenBy
  <2> QED
    BY <1>1, <2>1, HeldRowStep DEF OutboxInv
<1>4. /\ row'[j].status = row[j].status /\ row'[j].attempts = row[j].attempts
      /\ claims'[j] = claims[j]
  BY <1>3 DEF Rests, Hides, SameContent, Timeless
<1>5. claims'[j] \in calls'[j]
  BY <1>1, <1>2, <1>4 DEF TypeOK
<1>6. /\ OutboxState(row[j].status) = "taken" /\ ~outbox[j].handed
      /\ outbox'[j] = Outbox!Entry(OutboxState(row[j].status), row[j].attempts, TRUE)
  <2>1. outbox'[j].handed = TRUE
    BY <1>5, OutboxAfter
  <2> QED
    BY <1>2, <1>4, <2>1, OutboxOf, OutboxAfter DEF OutboxState, Due
<1> QED
  BY <1>6, OutboxOf DEF Outbox!HandOver, Outbox!In

\* A claim takes the job, ...
LEMMA OutboxTakes ==
  ASSUME TypeOK, TypeOK', ClaimInv, OutboxInv, Undisturbed,
         NEW j \in Jobs, NEW p \in Passes, ClaimedBy(p, j), calls'[j] = calls[j]
  PROVE  Outbox!TakeUp(j)
<1>1. /\ row[j].status \in Due /\ row'[j].status = "PROCESSING"
      /\ row'[j].attempts = row[j].attempts + 1 /\ claims'[j] = claims[j] + 1
  BY DEF ClaimedBy
<1>2. row[j].attempts < MaxAttempts
  BY <1>1 DEF ClaimInv, NoStrandedJob, Undisturbed
<1>3. claims'[j] \notin calls'[j]
  <2>1. \A c \in calls[j] : c \in Nat /\ c <= claims[j] /\ claims[j] \in Nat
    BY DEF OutboxInv, FinalInv, CallsInOrder, TypeOK
  <2> QED
    BY <1>1, <2>1
<1>4. OutboxState(row[j].status) = "waiting" /\ OutboxState(row'[j].status) = "taken"
  BY <1>1 DEF OutboxState, Due
<1>5. outbox'[j] = Outbox!Entry("taken", row[j].attempts + 1, FALSE)
  <2>1. outbox'[j].handed = FALSE
    BY <1>3, OutboxAfter
  <2> QED
    BY <1>1, <1>4, <2>1, OutboxAfter
<1> QED
  BY <1>2, <1>4, <1>5, OutboxOf DEF Outbox!TakeUp, Outbox!In, Outbox!HasAttempts, Outbox!Entry

\* ... recovery returns it or gives it up, ...
LEMMA OutboxRecovers ==
  ASSUME TypeOK, TypeOK', ClaimInv, ClaimInv', Undisturbed,
         NEW j \in Jobs, NEW p \in Passes, RecoveredBy(p, j), calls'[j] = calls[j]
  PROVE  Outbox!Return(j) \/ Outbox!GiveUp(j)
<1>1. /\ SameContent(j) /\ row[j].status = "PROCESSING" /\ row'[j].status \in {"QUEUED", "DEAD"}
  BY DEF RecoveredBy
<1>2. row'[j].status = "QUEUED" => row'[j].attempts < MaxAttempts
  BY DEF ClaimInv, NoStrandedJob, Undisturbed, Disciplined, Due
<1>3. /\ OutboxState(row[j].status) = "taken"
      /\ row'[j].status = "QUEUED" => OutboxState(row'[j].status) = "waiting"
      /\ row'[j].status = "DEAD" => OutboxState(row'[j].status) = "over"
  BY <1>1 DEF OutboxState, Due
<1>4. Outbox!Becomes(j, OutboxState(row'[j].status)) /\ Outbox!In(j, "taken")
  BY <1>1, <1>3, Becoming, OutboxOf DEF Outbox!In, SameContent, Timeless
<1>5. row'[j].status = "QUEUED" => Outbox!HasAttempts(j)
  BY <1>1, <1>2, OutboxOf DEF Outbox!HasAttempts, SameContent
<1> QED
  BY <1>1, <1>3, <1>4, <1>5 DEF Outbox!Return, Outbox!GiveUp

\* ... and an outcome ends the take: sent after it was handed over, paused when it was not,
\* else back or given up.
LEMMA OutboxEnds ==
  ASSUME TypeOK, TypeOK', ClaimInv, ClaimInv', OutboxInv, Undisturbed,
         NEW j \in Jobs, NEW p \in Passes, WrittenBy(p, j), calls'[j] = calls[j]
  PROVE  \/ Outbox!Sent(j) \/ Outbox!Pause(j) \/ Outbox!Return(j) \/ Outbox!GiveUp(j)
         \/ Outbox!PauseBreaks(j)
<1>0. /\ pass[p].pc = "write" /\ pass[p].cur = j /\ claims'[j] = claims[j]
      /\ row'[j].status \in Statuses \ {"NONE", "QUEUED", "PROCESSING"}
      /\ row[j].attempts \in Nat
  BY DEF WrittenBy, Timeless, TypeOK, Row
<1>1. Holding(p) /\ pass[p].mine = claims[j]
  BY <1>0 DEF OutboxInv, Holding, Working
<1>2. CASE pass[p].out = "sent"
  <2>1. row[j].status = "PROCESSING" /\ claims[j] \in calls[j]
    BY <1>0, <1>1, <1>2 DEF Holding, Delivered, Working
  <2>2. row'[j].status = "SENT" /\ row'[j].attempts = row[j].attempts
    BY <1>2 DEF WrittenBy
  <2>3. OutboxState(row[j].status) = "taken" /\ OutboxState(row'[j].status) = "sent"
    BY <2>1, <2>2 DEF OutboxState, Due
  <2>4. Outbox!Sent(j)
    BY <1>0, <2>1, <2>2, <2>3, OutboxOf, Becoming DEF Outbox!Sent, Outbox!In
  <2> QED
    BY <2>4
<1>3. CASE pass[p].out = "paused"
  <2>1. /\ row[j].status = "PROCESSING" /\ claims[j] \notin calls[j]
        /\ pass[p].snap = row[j].attempts
    BY <1>0, <1>1, <1>3 DEF Holding, Unsent, Working
  <2>2. row[j].attempts > 0
    BY <2>1 DEF OutboxInv
  <2>3. row'[j].status = "PAUSED_LIMIT_REACHED" /\ row'[j].attempts = row[j].attempts - 1
    BY <1>0, <1>3, <2>1, <2>2 DEF WrittenBy, PausedAttempts
  <2>4. OutboxState(row[j].status) = "taken" /\ OutboxState(row'[j].status) = "paused"
    BY <2>1, <2>3 DEF OutboxState, Due
  <2>5. outbox'[j] = Outbox!Entry("paused", row[j].attempts - 1, FALSE)
    <3>1. outbox'[j].handed = FALSE
      BY <1>0, <2>1, OutboxAfter
    <3>2. outbox'[j] = Outbox!Entry(OutboxState(row'[j].status), row'[j].attempts, outbox'[j].handed)
      BY OutboxAfter
    <3> QED
      BY <2>3, <2>4, <3>1, <3>2, Zenon
  <2>6. Outbox!Pause(j)
    BY <2>1, <2>4, <2>5, OutboxOf DEF Outbox!Pause, Outbox!In
  <2> QED
    BY <2>6
<1>4. CASE pass[p].out \notin {"sent", "paused"}
  <2>1. /\ row'[j].attempts = row[j].attempts
        /\ row'[j].status \in {"FAILED", "DEAD", "CANCELLED"}
    BY <1>0, <1>4 DEF WrittenBy, Statuses
  <2>2. row[j].status \in {"PROCESSING", "PAUSED_LIMIT_REACHED"}
    BY <1>0, MailAssumption DEF OutboxInv, FinalInv, MailAssumption
  <2>3. row'[j].status = "FAILED" => row'[j].attempts < MaxAttempts
    BY DEF ClaimInv, NoStrandedJob, Undisturbed, Disciplined, Due
  <2>4. /\ OutboxState(row[j].status) \in {"taken", "paused"}
        /\ IF row'[j].status = "FAILED" THEN OutboxState(row'[j].status) = "waiting"
                                        ELSE OutboxState(row'[j].status) = "over"
    BY <2>1, <2>2 DEF OutboxState, Due
  <2>5. /\ Outbox!Becomes(j, OutboxState(row'[j].status))
        /\ Outbox!In(j, "taken") \/ Outbox!In(j, "paused")
    BY <1>0, <2>1, <2>4, OutboxOf, Becoming DEF Outbox!In
  <2>6. row'[j].status = "FAILED" => Outbox!HasAttempts(j)
    BY <2>1, <2>3, OutboxOf DEF Outbox!HasAttempts
  <2> QED
    BY <2>4, <2>5, <2>6 DEF Outbox!Return, Outbox!GiveUp, Outbox!PauseBreaks
<1> QED
  BY <1>2, <1>3, <1>4

\* Requests and the pause of a batch.
LEMMA OutboxMoved ==
  ASSUME TypeOK, TypeOK', ClaimInv, OutboxInv, Undisturbed,
         NEW j \in Jobs, calls'[j] = calls[j],
         PausedWithMate(j) \/ CreatedRow(j) \/ BouncedRow(j)
  PROVE  Outbox!PauseRest(j) \/ Outbox!Accept(j) \/ Outbox!Bounce(j) \/ outbox'[j] = outbox[j]
<1>1. CASE PausedWithMate(j)
  <2>1. /\ OutboxState(row[j].status) = "waiting" /\ OutboxState(row'[j].status) = "paused"
        /\ SameContent(j)
    BY <1>1 DEF PausedWithMate, OutboxState, Due
  <2> QED
    BY <2>1, Becoming, OutboxOf DEF Outbox!PauseRest, Outbox!In, SameContent, Timeless
<1>2. CASE CreatedRow(j)
  <2>1. /\ OutboxState(row[j].status) = "absent" /\ OutboxState(row'[j].status) = "waiting"
        /\ row'[j].attempts = row[j].attempts /\ claims'[j] = claims[j]
    BY <1>2 DEF CreatedRow, OutboxState, Due, OutboxInv, Timeless
  <2> QED
    BY <2>1, Becoming, OutboxOf DEF Outbox!Accept, Outbox!In
<1>3. CASE BouncedRow(j)
  <2>1. row[j].status \in {"SENT", "DEAD"}
    BY <1>3, HeldRows DEF OutboxInv
  <2>2. /\ OutboxState(row[j].status) \in {"sent", "over"}
        /\ OutboxState(row'[j].status) = "over" /\ SameContent(j)
    BY <1>3, <2>1 DEF BouncedRow, OutboxState, Due
  <2>3. Outbox!Becomes(j, "over")
    BY <2>2, Becoming DEF SameContent, Timeless
  <2>4. CASE OutboxState(row[j].status) = "sent"
    BY <2>3, <2>4, OutboxOf DEF Outbox!Bounce, Outbox!In
  <2>5. CASE OutboxState(row[j].status) = "over"
    <3>1. outbox'[j] = Outbox!Entry("over", row[j].attempts, outbox[j].handed)
      <4>1. outbox'[j].handed = outbox[j].handed
        BY <2>2, OutboxOf, OutboxAfter DEF SameContent, Timeless
      <4> QED
        BY <2>2, <4>1, OutboxAfter DEF SameContent
    <3> QED
      BY <2>5, <3>1, OutboxOf
  <2> QED
    BY <2>2, <2>4, <2>5
<1> QED
  BY <1>1, <1>2, <1>3

\* Every step of the queue is for each job a step of the outbox or none.
LEMMA OutboxStep ==
  ASSUME TypeOK, TypeOK', ClaimInv, ClaimInv', OutboxInv, Undisturbed, [Next]_vars
  PROVE  Outbox!Next
<1>1. ASSUME NEW j \in Jobs PROVE outbox'[j] = outbox[j] \/ Outbox!Step(j)
  <2>1. CASE calls'[j] # calls[j]
    BY <2>1, OutboxHandsOver DEF Outbox!Step
  <2>2. CASE calls'[j] = calls[j]
    <3>1. RowStep(j) /\ ~ResetRow(j) /\ ~CancelledRow(j)
      BY RowSteps, NoDisturbance DEF ClaimInv
    <3>2. CASE Rests(j) \/ Hides(j)
      <4>1. SameContent(j) /\ row'[j].status = row[j].status
        BY <3>2 DEF Rests, Hides
      <4> QED
        BY <2>2, <4>1, Becoming DEF SameContent, Timeless
    <3>3. ASSUME NEW p \in Passes, ClaimedBy(p, j) \/ RecoveredBy(p, j) \/ WrittenBy(p, j)
          PROVE  Outbox!Step(j)
      BY <2>2, <3>3, OutboxTakes, OutboxRecovers, OutboxEnds DEF Outbox!Step
    <3>4. CASE PausedWithMate(j) \/ CreatedRow(j) \/ BouncedRow(j)
      BY <2>2, <3>4, OutboxMoved DEF Outbox!Step
    <3> QED
      BY <3>1, <3>2, <3>3, <3>4 DEF RowStep
  <2> QED
    BY <2>1, <2>2
<1>2. outbox' \in [Jobs -> Outbox!Job]
  <2>1. ASSUME NEW j \in Jobs PROVE outbox'[j] \in Outbox!Job
    <3>1. row'[j].attempts \in Nat /\ OutboxState(row'[j].status) \in Outbox!States
      BY DEF TypeOK, Row, OutboxState, Outbox!States
    <3> QED
      <4>1. /\ outbox'[j].handed \in BOOLEAN
            /\ outbox'[j] = Outbox!Entry(OutboxState(row'[j].status), row'[j].attempts,
                                 outbox'[j].handed)
        BY OutboxAfter
      <4>2. \A s \in Outbox!States, a \in Nat, h \in BOOLEAN : Outbox!Entry(s, a, h) \in Outbox!Job
        BY DEF Outbox!Entry, Outbox!Job
      <4> QED
        BY <3>1, <4>1, <4>2, Zenon
  <2> QED
    BY <2>1 DEF outbox
<1> QED
  BY <1>1, <1>2 DEF Outbox!Next

\* The empty queue is the empty outbox.
LEMMA OutboxInit == Init => Outbox!Init
<1> SUFFICES ASSUME Init PROVE Outbox!Init
  OBVIOUS
<1>1. \A j \in Jobs : /\ row[j].status = "NONE" /\ row[j].attempts = 0
                      /\ claims[j] \notin calls[j]
  BY DEF Init, NoRow
<1>2. OutboxState("NONE") = "absent"
  BY DEF OutboxState, Due
<1>3. ASSUME NEW j \in Jobs PROVE outbox[j] = Outbox!Absent
  <2>1. outbox[j].handed = FALSE
    BY <1>1, OutboxOf
  <2> QED
    BY <1>1, <1>2, <2>1, OutboxOf DEF Outbox!Absent, Outbox!Entry
<1>4. outbox = [j \in Jobs |-> outbox[j]]
  BY DEF outbox
<1> QED
  BY <1>3, <1>4 DEF Outbox!Init

\* While no request disturbs the worker, the queue keeps the promise of the outbox to every
\* job, whatever passes overlap, crash or recover: bounded takes, one hand-over for each,
\* SENT only after one (mail.worker.ts:186-413).
THEOREM OutboxIsImplemented ==
  ASSUME Undisturbed
  PROVE  Spec => ImplementsOutbox
<1>1. TypeOK /\ TypeOK' /\ ClaimInv /\ ClaimInv' /\ OutboxInv /\ [Next]_vars
        => [Outbox!Next]_outbox
  BY OutboxStep
<1> QED
  BY TypeInit, TypeStep, ClaimInvInit, ClaimInvStep, OutboxInvInit, OutboxInvStep, OutboxInit,
     <1>1, PTL DEF Spec, ImplementsOutbox, Outbox!Spec
=============================================================================
