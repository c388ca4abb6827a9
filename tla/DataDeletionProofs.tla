-------------------------- MODULE DataDeletionProofs --------------------------
(***************************************************************************)
(* Proofs about DataDeletion, for any number of users, requests, backups   *)
(* and administrators at work: erasure is authorised, and what is reported *)
(* as completed is erased.                                                 *)
(***************************************************************************)
EXTENDS DataDeletion, TLAPS

\* The program points of an attempt after it has read the request.
Attempting == {"check", "start", "finish", "failed"} \union Erasing

\* What a request knows when it writes, however long ago it read.
Knows(c) ==
  /\ Reached(c, "insert") => handler[c].user \in Users
  /\ ~Reached(c, "idle") /\ ~Reached(c, "insert") =>
       handler[c].row \in Requests /\ request[handler[c].row].status # "none"
  /\ Reached(c, "decide") => handler[c].status \in Decisions
  /\ Reached(c, "plan") => handler[c].row \in approved
  /\ handler[c].pc \in {"dryStart", "dryEnd", "verify", "read"} \union Attempting =>
       exec[handler[c].row].status # "none"
  /\ Reached(c, "verify") => handler[c].backup \in Entries /\ WasCompleted(handler[c].backup)
  /\ handler[c].pc \in {"read"} \union Attempting => exec[handler[c].row].backup # NoBackup
  /\ handler[c].pc \in Attempting => handler[c].user = request[handler[c].row].user
  /\ handler[c].pc \in {"session", "account", "finish"} => "profile" \notin rows[handler[c].user]
  /\ Reached(c, "finish") => handler[c].user \in anonymous

Types ==
  /\ catalog \in [Entries -> Backups!Entry]
  /\ request \in [Requests -> RequestRow]
  /\ exec \in [Requests -> ExecRow]
  /\ rows \in [Users -> SUBSET Kinds]
  /\ anonymous \subseteq Users
  /\ handler \in [Handlers -> Handler]
  /\ approved \subseteq Requests
  /\ \A r \in Requests : request[r].status # "none" => request[r].user \in Users
  /\ \A b \in Entries : Available(b) => WasCompleted(b)

\* What the rows say of each other.
RequestsAgree == \A r \in Requests : request[r].status = "APPROVED" => r \in approved
ExecsAgree ==
  \A r \in Requests :
    /\ exec[r].status # "none" => r \in approved /\ request[r].status # "none"
    /\ exec[r].backup # NoBackup => exec[r].status # "none" /\ WasCompleted(exec[r].backup)
ErasedAgree ==
  \A u \in Users : Erased(u) =>
    \E r \in Requests : request[r].status # "none" /\ request[r].user = u
                        /\ exec[r].backup # NoBackup

IInv ==
  /\ Types /\ (\A c \in Handlers : Knows(c))
  /\ RequestsAgree /\ ExecsAgree /\ ErasedAgree /\ CompletedIsErased

\* What no step undoes.
Monotone ==
  /\ \A r \in Requests : request[r].status # "none" =>
       request'[r].status # "none" /\ request'[r].user = request[r].user
  /\ approved \subseteq approved'
  /\ \A r \in Requests :
       /\ exec[r].status # "none" => exec'[r].status # "none"
       /\ exec[r].backup # NoBackup => exec'[r].backup # NoBackup
  /\ \A b \in Entries : WasCompleted(b) => WasCompleted(b)'
  /\ \A u \in Users : "profile" \notin rows[u] => "profile" \notin rows'[u]
  /\ anonymous \subseteq anonymous'

\* So a request that does not move keeps what it knows.
LEMMA KnowsKept ==
  ASSUME IInv, Monotone, NEW d \in Handlers, handler'[d] = handler[d]
  PROVE  Knows(d)'
<1>1. Knows(d) /\ handler[d] \in Handler
  BY DEF IInv, Types
<1>2. handler[d].pc \in Attempting => handler[d].user \in Users
  BY <1>1 DEF IInv, Types, Knows, Attempting, Erasing, Reached
<1>3. Reached(d, "verify") => WasCompleted(handler[d].backup)'
  <2> SUFFICES ASSUME Reached(d, "verify") PROVE WasCompleted(handler[d].backup)'
    OBVIOUS
  <2>1. PICK b \in Entries : b = handler[d].backup /\ WasCompleted(b)
    BY <1>1 DEF Knows
  <2>2. WasCompleted(b)'
    BY <2>1 DEF Monotone
  <2> QED
    BY <2>1, <2>2 DEF WasCompleted
<1>4. handler[d].pc \in {"session", "account", "finish"} => "profile" \notin rows'[handler[d].user]
  BY <1>1, <1>2 DEF Knows, Monotone, Attempting, Erasing
<1>5. Reached(d, "finish") => handler[d].user \in anonymous'
  BY <1>1 DEF Knows, Monotone
<1>6. ~Reached(d, "idle") /\ ~Reached(d, "insert") =>
        /\ handler[d].row \in Requests
        /\ request'[handler[d].row].status # "none"
        /\ request'[handler[d].row].user = request[handler[d].row].user
  BY <1>1 DEF Knows, Monotone
<1>7. /\ handler[d].pc \in {"dryStart", "dryEnd", "verify", "read"} \union Attempting =>
           exec'[handler[d].row].status # "none"
      /\ handler[d].pc \in {"read"} \union Attempting => exec'[handler[d].row].backup # NoBackup
  BY <1>1 DEF Knows, Monotone, Attempting, Erasing, Reached
<1>8. Reached(d, "plan") => handler[d].row \in approved'
  BY <1>1 DEF Knows, Monotone
<1>9. handler[d].pc \in Attempting => handler[d].user = request'[handler[d].row].user
  BY <1>1, <1>6 DEF Knows, Attempting, Erasing, Reached
<1> QED
  BY <1>1, <1>3, <1>4, <1>5, <1>6, <1>7, <1>8, <1>9 DEF Knows, Reached

\* The idle request is well typed.
LEMMA IdleType == IdleHandler \in Handler
BY DEF IdleHandler, Handler

\* A request that ends knows nothing.
LEMMA EndKnows ==
  ASSUME handler \in [Handlers -> Handler], NEW c \in Handlers, Finish(c)
  PROVE  /\ handler' \in [Handlers -> Handler] /\ Knows(c)'
         /\ \A d \in Handlers \ {c} : handler'[d] = handler[d]
<1>1. handler' \in [Handlers -> Handler] /\ handler'[c] = IdleHandler
      /\ \A d \in Handlers \ {c} : handler'[d] = handler[d]
  BY IdleType DEF Finish
<1>2. handler'[c].pc = "idle"
  BY <1>1 DEF IdleHandler
<1> QED
  BY <1>1, <1>2 DEF Knows, Reached, Attempting, Erasing

\* A request that moves on keeps its other fields.
LEMMA GotoFields ==
  ASSUME handler \in [Handlers -> Handler], NEW c \in Handlers, NEW pc \in {"dryEnd", "start", "finish", "failed"} \union Erasing,
         Proceed(c, pc)
  PROVE  /\ handler' \in [Handlers -> Handler]
         /\ handler'[c].pc = pc /\ handler'[c].row = handler[c].row /\ handler'[c].user = handler[c].user
         /\ handler'[c].backup = handler[c].backup
         /\ \A d \in Handlers \ {c} : handler'[d] = handler[d]
<1>1. /\ [handler[c] EXCEPT !.pc = pc] \in Handler
      /\ [handler[c] EXCEPT !.pc = pc].pc = pc /\ [handler[c] EXCEPT !.pc = pc].row = handler[c].row
      /\ [handler[c] EXCEPT !.pc = pc].user = handler[c].user
      /\ [handler[c] EXCEPT !.pc = pc].backup = handler[c].backup
  BY DEF Handler
<1> QED
  BY <1>1 DEF Proceed

\* The same of a request that forgets something.
MovesOn(c, pc) ==
  /\ handler' \in [Handlers -> Handler]
  /\ handler'[c].pc = pc /\ handler'[c].row = handler[c].row /\ handler'[c].user = handler[c].user
  /\ \A d \in Handlers \ {c} : handler'[d] = handler[d]

LEMMA ForgetFields ==
  ASSUME handler \in [Handlers -> Handler], NEW c \in Handlers, NEW pc \in {"start"} \union Erasing,
         NEW r \in {[handler[c] EXCEPT !.pc = pc, !.backup = NoBackup],
                    [handler[c] EXCEPT !.pc = pc, !.address = FALSE],
                    [handler[c] EXCEPT !.pc = pc, !.found = FALSE]},
         handler' = [handler EXCEPT ![c] = r]
  PROVE  MovesOn(c, pc)
<1>1. handler[c] \in Handler
  OBVIOUS
<1>2. r \in Handler /\ r.pc = pc /\ r.row = handler[c].row /\ r.user = handler[c].user
  BY <1>1 DEF Handler
<1> QED
  BY <1>2 DEF MovesOn

\* A request that begins is what its handler has read.
LEMMA BeginFields ==
  ASSUME handler \in [Handlers -> Handler], NEW c \in Handlers, NEW op, NEW r \in Handler,
         Take(c, op, r)
  PROVE  /\ handler' \in [Handlers -> Handler] /\ handler'[c] = r
         /\ \A d \in Handlers \ {c} : handler'[d] = handler[d]
BY DEF Take

-----------------------------------------------------------------------------
(* What no step undoes *)

\* An entry that becomes something else keeps its stamp.
LEMMA BecomeStep ==
  ASSUME catalog \in [Entries -> Backups!Entry], NEW i \in Entries, NEW s \in Backups!States,
         Backups!Become(i, s)
  PROVE  catalog' = [catalog EXCEPT ![i] = [state |-> s, at |-> catalog[i].at]]
<1>1. catalog[i] \in Backups!Entry
  OBVIOUS
<1>2. [catalog[i] EXCEPT !.state = s] = [state |-> s, at |-> catalog[i].at]
  BY <1>1 DEF Backups!Entry
<1>3. catalog' = [catalog EXCEPT ![i] = [catalog[i] EXCEPT !.state = s]]
  BY DEF Backups!Become
<1> QED
  BY <1>2, <1>3

\* What was completed at some time stays so, whatever becomes of it.
LEMMA CatalogMonotone ==
  ASSUME DataDeletionAssumption, catalog \in [Entries -> Backups!Entry],
         \A b \in Entries : Available(b) => WasCompleted(b),
         Backups!Next \/ (\E b \in Entries : BackupUndone(b))
  PROVE  /\ catalog' \in [Entries -> Backups!Entry]
         /\ \A b \in Entries : Available(b)' => WasCompleted(b)'
         /\ \A b \in Entries : WasCompleted(b) => WasCompleted(b)'
<1>1. \A j \in Entries : catalog[j].state \in Backups!States /\ catalog[j].at \in Nat
  BY DEF Backups!Entry
<1>2. ASSUME NEW i \in Entries, NEW s \in Backups!States \ {"completed"}, Backups!Become(i, s)
      PROVE  /\ catalog' \in [Entries -> Backups!Entry]
             /\ \A b \in Entries : Available(b)' => WasCompleted(b)'
             /\ \A b \in Entries : WasCompleted(b) => WasCompleted(b)'
  <2>1. catalog' = [catalog EXCEPT ![i] = [state |-> s, at |-> catalog[i].at]]
    BY <1>2, BecomeStep
  <2>2. catalog' \in [Entries -> Backups!Entry]
    BY <1>1, <2>1 DEF Backups!Entry
  <2>3. \A b \in Entries : catalog'[b].at = catalog[b].at
    BY <2>1
  <2>4. \A b \in Entries : catalog'[b].state = "completed" => catalog[b].state = "completed"
    BY <2>1
  <2> QED
    BY <2>2, <2>3, <2>4 DEF WasCompleted, Available
<1>3. ASSUME NEW i \in Entries, Backups!Complete(i)
      PROVE  /\ catalog' \in [Entries -> Backups!Entry]
             /\ \A b \in Entries : Available(b)' => WasCompleted(b)'
             /\ \A b \in Entries : WasCompleted(b) => WasCompleted(b)'
  <2>1. PICK n \in Stamps : catalog' = [catalog EXCEPT ![i] = [state |-> "completed", at |-> n]]
    BY <1>3 DEF Backups!Complete
  <2>2. n \in Nat /\ n # 0
    BY DEF DataDeletionAssumption
  <2>3. catalog' \in [Entries -> Backups!Entry]
    BY <1>1, <2>1, <2>2 DEF Backups!Entry, Backups!States
  <2>4. /\ catalog'[i].at # 0
        /\ \A b \in Entries \ {i} : catalog'[b] = catalog[b]
    BY <2>1, <2>2
  <2> QED
    BY <2>3, <2>4 DEF WasCompleted, Available
<1>4. CASE Backups!Next
  <2>1. PICK i \in Entries : Backups!Begin(i) \/ Backups!Complete(i) \/ Backups!Fail(i) \/ Backups!Retire(i)
    BY <1>4 DEF Backups!Next
  <2> QED
    BY <1>2, <1>3, <2>1 DEF Backups!Begin, Backups!Fail, Backups!Retire, Backups!States
<1>5. CASE \E b \in Entries : BackupUndone(b)
  <2>1. PICK b \in Entries : BackupUndone(b)
    BY <1>5
  <2>2. Backups!Become(b, "failed")
    BY <2>1 DEF BackupUndone, Backups!Become
  <2> QED
    BY <1>2, <2>2 DEF Backups!States
<1> QED
  BY <1>4, <1>5

\* A step that leaves the rows alone keeps them.
LEMMA IdleMonotone ==
  ASSUME UNCHANGED <<catalog, request, exec, rows, anonymous, approved>>
  PROVE  Monotone
BY DEF Monotone, WasCompleted, Available

\* What was completed stays so while the list of backups does not change.
LEMMA SameCompleted ==
  ASSUME catalog' = catalog
  PROVE  \A b \in Entries : WasCompleted(b)' <=> WasCompleted(b)
BY DEF WasCompleted, Available

-----------------------------------------------------------------------------
(* Steps, by what they write *)

\* A step that only reads.
LEMMA ReadStep ==
  ASSUME IInv, UNCHANGED <<catalog, request, exec, rows, anonymous, approved>>,
         NEW c \in Handlers, handler' \in [Handlers -> Handler],
         \A d \in Handlers \ {c} : handler'[d] = handler[d], Knows(c)'
  PROVE  IInv'
<1>1. \A d \in Handlers : Knows(d)'
  BY IdleMonotone, KnowsKept
<1>2. Types'
  BY DEF IInv, Types, WasCompleted, Available
<1>3. RequestsAgree' /\ ExecsAgree' /\ ErasedAgree' /\ CompletedIsErased'
  BY DEF IInv, RequestsAgree, ExecsAgree, ErasedAgree, CompletedIsErased, WasCompleted, Available, Erased
<1> QED
  BY <1>1, <1>2, <1>3 DEF IInv

\* What a step that writes the status of an execution does to the rows.
LEMMA StatusStep ==
  ASSUME IInv, UNCHANGED <<catalog, request, rows, anonymous, approved>>,
         NEW r \in Requests, NEW s \in ExecStatuses \ {"none"},
         exec' = [exec EXCEPT ![r].status = s],
         r \in approved, request[r].status # "none",
         s = "EXECUTION_COMPLETED" =>
           request[r].user \in anonymous /\ "profile" \notin rows[request[r].user]
  PROVE  /\ Monotone /\ RequestsAgree' /\ ExecsAgree' /\ ErasedAgree' /\ CompletedIsErased'
         /\ exec' \in [Requests -> ExecRow]
         /\ exec'[r].status = s
         /\ \A q \in Requests : exec'[q].backup = exec[q].backup
<1>1. exec \in [Requests -> ExecRow]
  BY DEF IInv, Types
<1>2. exec[r] \in ExecRow /\ [exec[r] EXCEPT !.status = s] \in ExecRow
      /\ [exec[r] EXCEPT !.status = s].status = s
      /\ [exec[r] EXCEPT !.status = s].backup = exec[r].backup
  BY <1>1 DEF ExecRow
<1>3. /\ exec' \in [Requests -> ExecRow] /\ exec'[r].status = s
      /\ \A q \in Requests : exec'[q].backup = exec[q].backup
      /\ \A q \in Requests \ {r} : exec'[q].status = exec[q].status
  BY <1>1, <1>2
<1>4. Monotone
  BY <1>3, SameCompleted DEF Monotone
<1>5. ExecsAgree'
  <2> SUFFICES ASSUME NEW q \in Requests
               PROVE  /\ exec'[q].status # "none" => q \in approved' /\ request'[q].status # "none"
                      /\ exec'[q].backup # NoBackup => exec'[q].status # "none" /\ WasCompleted(exec[q].backup)
    BY <1>3 DEF ExecsAgree, WasCompleted, Available
  <2> QED
    BY <1>3 DEF IInv, ExecsAgree
<1>6. RequestsAgree' /\ ErasedAgree' /\ CompletedIsErased'
  BY <1>3 DEF IInv, RequestsAgree, ErasedAgree, Erased, CompletedIsErased
<1> QED
  BY <1>3, <1>4, <1>5, <1>6

\* A step of c that writes the status of an execution.
LEMMA StatusWritten ==
  ASSUME IInv, UNCHANGED <<catalog, request, rows, anonymous, approved>>,
         NEW r \in Requests, NEW s \in ExecStatuses \ {"none"},
         exec' = [exec EXCEPT ![r].status = s],
         r \in approved, request[r].status # "none",
         s = "EXECUTION_COMPLETED" =>
           request[r].user \in anonymous /\ "profile" \notin rows[request[r].user],
         NEW c \in Handlers, handler' \in [Handlers -> Handler],
         \A d \in Handlers \ {c} : handler'[d] = handler[d], Knows(c)'
  PROVE  IInv'
<1>1. /\ Monotone /\ RequestsAgree' /\ ExecsAgree' /\ ErasedAgree' /\ CompletedIsErased'
      /\ exec' \in [Requests -> ExecRow]
  BY StatusStep
<1>2. \A d \in Handlers : Knows(d)'
  BY <1>1, KnowsKept
<1>3. Types'
  BY <1>1 DEF IInv, Types, WasCompleted, Available
<1> QED
  BY <1>1, <1>2, <1>3 DEF IInv

\* A step of c that erases rows of a user, or anonymizes the account, for a request
\* whose execution has a backup.
LEMMA ErasedStep ==
  ASSUME IInv, UNCHANGED <<catalog, request, exec, approved>>,
         NEW r \in Requests, request[r].status # "none", exec[r].backup # NoBackup,
         rows' \in [Users -> SUBSET Kinds], anonymous' \subseteq Users,
         anonymous \subseteq anonymous', anonymous' \subseteq anonymous \union {request[r].user},
         \A u \in Users : "profile" \notin rows[u] => "profile" \notin rows'[u],
         \A u \in Users \ {request[r].user} : rows'[u] = rows[u]
  PROVE  /\ Monotone /\ Types' = (Types /\ handler' \in [Handlers -> Handler])
         /\ RequestsAgree' /\ ExecsAgree' /\ ErasedAgree' /\ CompletedIsErased'
<1>1. Monotone
  BY SameCompleted DEF Monotone
<1>2. Types' = (Types /\ handler' \in [Handlers -> Handler])
  BY DEF IInv, Types, WasCompleted, Available
<1>3. RequestsAgree' /\ ExecsAgree'
  BY DEF IInv, RequestsAgree, ExecsAgree, WasCompleted, Available
<1>4. ErasedAgree'
  BY DEF IInv, ErasedAgree, Erased
<1>5. CompletedIsErased'
  <2> SUFFICES ASSUME NEW q \in Requests, exec[q].status = "EXECUTION_COMPLETED"
               PROVE  request[q].user \in anonymous' /\ "profile" \notin rows'[request[q].user]
    BY DEF CompletedIsErased
  <2>1. request[q].user \in anonymous /\ "profile" \notin rows[request[q].user]
        /\ anonymous \subseteq Users
    BY DEF IInv, CompletedIsErased, Types
  <2> QED
    BY <2>1
<1> QED
  BY <1>1, <1>2, <1>3, <1>4, <1>5

LEMMA ErasedWritten ==
  ASSUME IInv, UNCHANGED <<catalog, request, exec, approved>>,
         NEW r \in Requests, request[r].status # "none", exec[r].backup # NoBackup,
         rows' \in [Users -> SUBSET Kinds], anonymous' \subseteq Users,
         anonymous \subseteq anonymous', anonymous' \subseteq anonymous \union {request[r].user},
         \A u \in Users : "profile" \notin rows[u] => "profile" \notin rows'[u],
         \A u \in Users \ {request[r].user} : rows'[u] = rows[u],
         NEW c \in Handlers, handler' \in [Handlers -> Handler],
         \A d \in Handlers \ {c} : handler'[d] = handler[d], Knows(c)'
  PROVE  IInv'
<1>1. /\ Monotone /\ Types' = (Types /\ handler' \in [Handlers -> Handler])
      /\ RequestsAgree' /\ ExecsAgree' /\ ErasedAgree' /\ CompletedIsErased'
  BY ErasedStep
<1>2. \A d \in Handlers : Knows(d)'
  BY <1>1, KnowsKept
<1>3. Types'
  BY <1>1 DEF IInv
<1> QED
  BY <1>1, <1>2, <1>3 DEF IInv

-----------------------------------------------------------------------------
(* Requests and decisions *)

\* A request that ends without writing.
LEMMA EndStep ==
  ASSUME IInv, NEW c \in Handlers, Finish(c),
         UNCHANGED <<catalog, request, exec, rows, anonymous, approved>>
  PROVE  IInv'
<1>1. handler \in [Handlers -> Handler]
  BY DEF IInv, Types
<1>2. /\ handler' \in [Handlers -> Handler] /\ Knows(c)'
      /\ \A d \in Handlers \ {c} : handler'[d] = handler[d]
  BY <1>1, EndKnows
<1> QED
  BY <1>2, ReadStep

\* A request of a user.
LEMMA CreateStep ==
  ASSUME DataDeletionAssumption, IInv, NEW c \in Handlers, CreateReads(c) \/ CreateInserts(c)
  PROVE  IInv'
<1>1. handler \in [Handlers -> Handler]
  BY DEF IInv, Types
<1>2. CASE CreateReads(c)
  <2>1. PICK u \in Users : Take(c, "request", [IdleHandler EXCEPT !.pc = "insert", !.user = u])
    BY <1>2 DEF CreateReads
  <2> DEFINE r == [IdleHandler EXCEPT !.pc = "insert", !.user = u]
  <2>2. r \in Handler /\ r.pc = "insert" /\ r.user = u
    BY IdleType DEF Handler, IdleHandler
  <2>3. /\ handler' \in [Handlers -> Handler] /\ handler'[c] = r
        /\ \A d \in Handlers \ {c} : handler'[d] = handler[d]
    <3> HIDE DEF r
    <3> QED
      BY <1>1, <2>1, <2>2, BeginFields DEF r
  <2>4. Knows(c)'
    <3> HIDE DEF r
    <3> QED
      BY <2>2, <2>3 DEF Knows, Reached, Attempting, Erasing
  <2> QED
    BY <1>2, <2>3, <2>4, ReadStep DEF CreateReads
<1>3. CASE CreateInserts(c)
  <2>1. UNCHANGED <<catalog, exec, rows, anonymous, approved>> /\ Reached(c, "insert") /\ Finish(c)
    BY <1>3 DEF CreateInserts
  <2>2. /\ handler' \in [Handlers -> Handler] /\ Knows(c)'
        /\ \A d \in Handlers \ {c} : handler'[d] = handler[d]
    BY <1>1, <2>1, EndKnows
  <2>3. PICK r \in Requests :
          /\ request[r].status = "none"
          /\ request' = [request EXCEPT ![r] = [status |-> "PENDING", user |-> handler[c].user]]
    BY <1>3 DEF CreateInserts
  <2>4. handler[c].user \in Users /\ request \in [Requests -> RequestRow]
    BY <2>1 DEF IInv, Knows, Types
  <2>5. /\ request' \in [Requests -> RequestRow]
        /\ request'[r].status = "PENDING" /\ request'[r].user \in Users
        /\ \A q \in Requests \ {r} : request'[q] = request[q]
    BY <2>3, <2>4 DEF RequestRow
  <2>6. Monotone
    BY <2>1, <2>3, <2>5, SameCompleted DEF Monotone
  <2>7. \A d \in Handlers : Knows(d)'
    BY <2>2, <2>6, KnowsKept
  <2>8. Types' /\ RequestsAgree'
    BY <2>1, <2>2, <2>3, <2>5 DEF IInv, Types, RequestsAgree, WasCompleted, Available
  <2>9. exec[r].status = "none" /\ exec[r].backup = NoBackup
    BY <2>3 DEF IInv, ExecsAgree
  <2>10. ExecsAgree' /\ ErasedAgree' /\ CompletedIsErased'
    BY <2>1, <2>3, <2>5, <2>9 DEF IInv, ExecsAgree, ErasedAgree, CompletedIsErased, Erased,
      WasCompleted, Available
  <2> QED
    BY <2>7, <2>8, <2>10 DEF IInv
<1> QED
  BY <1>2, <1>3

\* A decision: of the user, or of an administrator.
LEMMA DecideStep ==
  ASSUME DataDeletionAssumption, IInv, NEW c \in Handlers, DecideReads(c) \/ DecideWrites(c)
  PROVE  IInv'
<1>1. handler \in [Handlers -> Handler]
  BY DEF IInv, Types
<1>2. CASE DecideReads(c)
  <2>1. PICK q \in Requests, decision \in Decisions :
          /\ request[q].status = "PENDING"
          /\ Take(c, "decide", [IdleHandler EXCEPT !.pc = "decide", !.row = q, !.status = decision])
    BY <1>2 DEF DecideReads
  <2> DEFINE r == [IdleHandler EXCEPT !.pc = "decide", !.row = q, !.status = decision]
  <2>2. r \in Handler /\ r.pc = "decide" /\ r.row = q /\ r.status \in Decisions
    BY IdleType DEF Handler, IdleHandler
  <2>3. /\ handler' \in [Handlers -> Handler] /\ handler'[c] = r
        /\ \A d \in Handlers \ {c} : handler'[d] = handler[d]
    <3> HIDE DEF r
    <3> QED
      BY <1>1, <2>1, <2>2, BeginFields DEF r
  <2>4. Knows(c)'
    <3> HIDE DEF r
    <3> QED
      BY <1>2, <2>1, <2>2, <2>3 DEF DecideReads, Knows, Reached, Attempting, Erasing
  <2> QED
    BY <1>2, <2>3, <2>4, ReadStep DEF DecideReads
<1>3. CASE DecideWrites(c)
  <2> DEFINE q == handler[c].row
             s == handler[c].status
  <2>1. /\ UNCHANGED <<catalog, exec, rows, anonymous>> /\ Reached(c, "decide") /\ Finish(c)
        /\ request' = [request EXCEPT ![q].status = s]
        /\ approved' = IF s = "APPROVED" THEN approved \union {q} ELSE approved
    BY <1>3 DEF DecideWrites
  <2>2. /\ handler' \in [Handlers -> Handler] /\ Knows(c)'
        /\ \A d \in Handlers \ {c} : handler'[d] = handler[d]
    BY <1>1, <2>1, EndKnows
  <2>3. q \in Requests /\ request[q].status # "none" /\ s \in Decisions
        /\ request \in [Requests -> RequestRow]
    BY <2>1 DEF IInv, Knows, Types, Reached
  <2> HIDE DEF q, s
  <2>4. request[q] \in RequestRow /\ [request[q] EXCEPT !.status = s] \in RequestRow
        /\ [request[q] EXCEPT !.status = s].status = s
        /\ [request[q] EXCEPT !.status = s].user = request[q].user
    BY <2>3 DEF RequestRow
  <2>5. /\ request' \in [Requests -> RequestRow] /\ request'[q].status = s
        /\ \A i \in Requests : request'[i].user = request[i].user
        /\ \A i \in Requests \ {q} : request'[i].status = request[i].status
    BY <2>1, <2>3, <2>4
  <2>6. approved \subseteq approved' /\ approved' \subseteq Requests
        /\ (s = "APPROVED" => q \in approved')
    BY <2>1, <2>3 DEF IInv, Types
  <2>7. s # "none"
    BY <2>3 DEF Decisions
  <2>8. Monotone
    BY <2>1, <2>5, <2>6, <2>7, SameCompleted DEF Monotone
  <2>9. \A d \in Handlers : Knows(d)'
    BY <2>2, <2>8, KnowsKept
  <2>10. Types' /\ RequestsAgree'
    BY <2>1, <2>2, <2>3, <2>5, <2>6 DEF IInv, Types, RequestsAgree, WasCompleted, Available
  <2>11. ExecsAgree' /\ ErasedAgree' /\ CompletedIsErased'
    BY <2>1, <2>5, <2>6, <2>7 DEF IInv, ExecsAgree, ErasedAgree, CompletedIsErased, Erased,
      WasCompleted, Available
  <2> QED
    BY <2>9, <2>10, <2>11 DEF IInv
<1> QED
  BY <1>2, <1>3

-----------------------------------------------------------------------------
(* Planning, dry run and backup *)

\* The plan of an execution.
LEMMA PlanStep ==
  ASSUME DataDeletionAssumption, IInv, NEW c \in Handlers, PlanReads(c) \/ PlanCreates(c)
  PROVE  IInv'
<1>1. handler \in [Handlers -> Handler]
  BY DEF IInv, Types
<1>2. CASE PlanReads(c)
  <2>1. PICK q \in Requests :
          /\ request[q].status = "APPROVED"
          /\ Take(c, "plan", [IdleHandler EXCEPT !.pc = "plan", !.row = q])
    BY <1>2 DEF PlanReads
  <2> DEFINE r == [IdleHandler EXCEPT !.pc = "plan", !.row = q]
  <2>2. r \in Handler /\ r.pc = "plan" /\ r.row = q
    BY IdleType DEF Handler, IdleHandler
  <2>3. /\ handler' \in [Handlers -> Handler] /\ handler'[c] = r
        /\ \A d \in Handlers \ {c} : handler'[d] = handler[d]
    <3> HIDE DEF r
    <3> QED
      BY <1>1, <2>1, <2>2, BeginFields DEF r
  <2>4. UNCHANGED <<catalog, request, exec, rows, anonymous, approved>>
    BY <1>2 DEF PlanReads
  <2>5. q \in approved /\ request[q].status # "none"
    BY <2>1 DEF IInv, RequestsAgree
  <2>6. Knows(c)'
    <3> HIDE DEF r
    <3> QED
      BY <2>1, <2>2, <2>3, <2>4, <2>5 DEF Knows, Reached, Attempting, Erasing
  <2> QED
    BY <2>3, <2>4, <2>6, ReadStep
<1>3. CASE PlanCreates(c)
  <2> DEFINE q == handler[c].row
  <2>1. /\ UNCHANGED <<catalog, request, rows, anonymous, approved>> /\ Reached(c, "plan") /\ Finish(c)
        /\ \/ exec' = [exec EXCEPT ![q].status = "DRY_RUN_PENDING"]
           \/ UNCHANGED exec
    BY <1>3 DEF PlanCreates
  <2>2. /\ handler' \in [Handlers -> Handler] /\ Knows(c)'
        /\ \A d \in Handlers \ {c} : handler'[d] = handler[d]
    BY <1>1, <2>1, EndKnows
  <2>3. q \in Requests /\ request[q].status # "none" /\ q \in approved
    BY <2>1 DEF IInv, Knows, Reached
  <2> HIDE DEF q
  <2>4. CASE exec' = [exec EXCEPT ![q].status = "DRY_RUN_PENDING"]
    BY <2>1, <2>2, <2>3, <2>4, StatusWritten DEF ExecStatuses
  <2>5. CASE UNCHANGED exec
    BY <2>1, <2>2, <2>5, ReadStep
  <2> QED
    BY <2>1, <2>4, <2>5
<1> QED
  BY <1>2, <1>3

\* The dry run.
LEMMA DryRunStep ==
  ASSUME DataDeletionAssumption, IInv, NEW c \in Handlers,
         DryRunReads(c) \/ DryRunStarts(c) \/ DryRunEnds(c)
  PROVE  IInv'
<1>1. handler \in [Handlers -> Handler]
  BY DEF IInv, Types
<1>2. CASE DryRunReads(c)
  <2>1. PICK q \in Requests :
          /\ exec[q].status = "DRY_RUN_PENDING"
          /\ Take(c, "dryRun", [IdleHandler EXCEPT !.pc = "dryStart", !.row = q])
    BY <1>2 DEF DryRunReads
  <2> DEFINE r == [IdleHandler EXCEPT !.pc = "dryStart", !.row = q]
  <2>2. r \in Handler /\ r.pc = "dryStart" /\ r.row = q
    BY IdleType DEF Handler, IdleHandler
  <2>3. /\ handler' \in [Handlers -> Handler] /\ handler'[c] = r
        /\ \A d \in Handlers \ {c} : handler'[d] = handler[d]
    <3> HIDE DEF r
    <3> QED
      BY <1>1, <2>1, <2>2, BeginFields DEF r
  <2>4. UNCHANGED <<catalog, request, exec, rows, anonymous, approved>>
    BY <1>2 DEF DryRunReads
  <2>5. exec[q].status # "none" /\ request[q].status # "none"
    BY <2>1 DEF IInv, ExecsAgree
  <2>6. Knows(c)'
    <3> HIDE DEF r
    <3> QED
      BY <2>1, <2>2, <2>3, <2>4, <2>5 DEF Knows, Reached, Attempting, Erasing
  <2> QED
    BY <2>3, <2>4, <2>6, ReadStep
<1>3. CASE DryRunStarts(c) \/ DryRunEnds(c)
  <2> DEFINE q == handler[c].row
  <2>1. PICK s \in {"DRY_RUN_STARTED", "DRY_RUN_COMPLETED"} :
          /\ UNCHANGED <<catalog, request, rows, anonymous, approved>>
          /\ exec' = [exec EXCEPT ![q].status = s]
          /\ \/ Reached(c, "dryStart") /\ Proceed(c, "dryEnd")
             \/ Reached(c, "dryEnd") /\ Finish(c)
    BY <1>3 DEF DryRunStarts, DryRunEnds
  <2>2. q \in Requests /\ request[q].status # "none" /\ exec[q].status # "none"
    BY <2>1 DEF IInv, Knows, Reached
  <2>3. q \in approved
    BY <2>2 DEF IInv, ExecsAgree
  <2>4. /\ Monotone /\ exec'[q].status = s
    <3> HIDE DEF q
    <3> QED
      BY <2>1, <2>2, <2>3, StatusStep DEF ExecStatuses
  <2>5. /\ handler' \in [Handlers -> Handler] /\ Knows(c)'
        /\ \A d \in Handlers \ {c} : handler'[d] = handler[d]
    <3>1. CASE Finish(c)
      BY <1>1, <3>1, EndKnows
    <3>2. CASE Reached(c, "dryStart") /\ Proceed(c, "dryEnd")
      <4>1. /\ handler' \in [Handlers -> Handler]
            /\ handler'[c].pc = "dryEnd" /\ handler'[c].row = q
            /\ \A d \in Handlers \ {c} : handler'[d] = handler[d]
        BY <1>1, <3>2, GotoFields
      <4>2. request' = request
        BY <2>1
      <4> QED
        BY <2>2, <2>4, <4>1, <4>2 DEF Knows, Reached, Attempting, Erasing
    <3> QED
      BY <2>1, <3>1, <3>2
  <2> HIDE DEF q
  <2> QED
    BY <2>1, <2>2, <2>3, <2>5, StatusWritten DEF ExecStatuses
<1> QED
  BY <1>2, <1>3

\* The link to a backup.
LEMMA VerifyStep ==
  ASSUME DataDeletionAssumption, IInv, NEW c \in Handlers, VerifyReads(c) \/ VerifyWrites(c)
  PROVE  IInv'
<1>1. handler \in [Handlers -> Handler]
  BY DEF IInv, Types
<1>2. CASE VerifyReads(c)
  <2>1. PICK q \in Requests, b \in Entries :
          /\ exec[q].status # "none" /\ Available(b)
          /\ Take(c, "verify", [IdleHandler EXCEPT !.pc = "verify", !.row = q, !.backup = b])
    BY <1>2 DEF VerifyReads
  <2> DEFINE r == [IdleHandler EXCEPT !.pc = "verify", !.row = q, !.backup = b]
  <2>2. r \in Handler /\ r.pc = "verify" /\ r.row = q /\ r.backup = b
    BY IdleType DEF Handler, IdleHandler
  <2>3. /\ handler' \in [Handlers -> Handler] /\ handler'[c] = r
        /\ \A d \in Handlers \ {c} : handler'[d] = handler[d]
    <3> HIDE DEF r
    <3> QED
      BY <1>1, <2>1, <2>2, BeginFields DEF r
  <2>4. UNCHANGED <<catalog, request, exec, rows, anonymous, approved>>
    BY <1>2 DEF VerifyReads
  <2>5. exec[q].status # "none" /\ request[q].status # "none" /\ WasCompleted(b)'
    <3>1. WasCompleted(b)
      BY <2>1 DEF IInv, Types
    <3> QED
      BY <2>1, <2>4, <3>1, SameCompleted DEF IInv, ExecsAgree
  <2>6. Knows(c)'
    <3> HIDE DEF r
    <3> QED
      BY <2>1, <2>2, <2>3, <2>4, <2>5 DEF Knows, Reached, Attempting, Erasing
  <2> QED
    BY <2>3, <2>4, <2>6, ReadStep
<1>3. CASE VerifyWrites(c)
  <2> DEFINE q == handler[c].row
             b == handler[c].backup
  <2>1. /\ UNCHANGED <<catalog, request, rows, anonymous, approved>> /\ Reached(c, "verify") /\ Finish(c)
        /\ exec' = [exec EXCEPT ![q] = [status |-> "BACKUP_VERIFIED", backup |-> b]]
    BY <1>3 DEF VerifyWrites
  <2>2. /\ handler' \in [Handlers -> Handler] /\ Knows(c)'
        /\ \A d \in Handlers \ {c} : handler'[d] = handler[d]
    BY <1>1, <2>1, EndKnows
  <2>3. q \in Requests /\ request[q].status # "none" /\ exec[q].status # "none"
        /\ b \in Entries /\ WasCompleted(b)
    BY <2>1 DEF IInv, Knows, Reached
  <2> HIDE DEF q, b
  <2>4. exec \in [Requests -> ExecRow] /\ b # NoBackup
    BY <2>3 DEF IInv, Types, DataDeletionAssumption
  <2>5. /\ exec' \in [Requests -> ExecRow]
        /\ exec'[q].status = "BACKUP_VERIFIED" /\ exec'[q].backup = b
        /\ \A i \in Requests \ {q} : exec'[i] = exec[i]
    BY <2>1, <2>3, <2>4 DEF ExecRow, ExecStatuses
  <2>6. Monotone
    BY <2>1, <2>4, <2>5, SameCompleted DEF Monotone
  <2>7. \A d \in Handlers : Knows(d)'
    BY <2>2, <2>6, KnowsKept
  <2>8. Types' /\ RequestsAgree'
    BY <2>1, <2>2, <2>5 DEF IInv, Types, RequestsAgree, WasCompleted, Available
  <2>9. q \in approved
    BY <2>3 DEF IInv, ExecsAgree
  <2>10. ExecsAgree'
    <3> SUFFICES ASSUME NEW i \in Requests
                 PROVE  /\ exec'[i].status # "none" => i \in approved /\ request[i].status # "none"
                        /\ exec'[i].backup # NoBackup =>
                             exec'[i].status # "none" /\ WasCompleted(exec'[i].backup)
      BY <2>1 DEF ExecsAgree, WasCompleted, Available
    <3> QED
      BY <2>3, <2>4, <2>5, <2>9 DEF IInv, ExecsAgree
  <2>11. ErasedAgree' /\ CompletedIsErased'
    BY <2>1, <2>4, <2>5 DEF IInv, ErasedAgree, CompletedIsErased, Erased
  <2> QED
    BY <2>7, <2>8, <2>10, <2>11 DEF IInv
<1> QED
  BY <1>2, <1>3

-----------------------------------------------------------------------------
(* The execution *)

\* What an attempt knows, by the fields of its request: the row, its user, its backup.
LEMMA AttemptFacts ==
  ASSUME IInv, NEW c \in Handlers, handler[c].pc \in Attempting
  PROVE  /\ handler[c].row \in Requests /\ request[handler[c].row].status # "none"
         /\ handler[c].user = request[handler[c].row].user /\ handler[c].user \in Users
         /\ exec[handler[c].row].status # "none" /\ exec[handler[c].row].backup # NoBackup
         /\ handler[c].row \in approved
<1>1. /\ handler[c].row \in Requests /\ request[handler[c].row].status # "none"
      /\ handler[c].user = request[handler[c].row].user
      /\ exec[handler[c].row].status # "none" /\ exec[handler[c].row].backup # NoBackup
  BY DEF IInv, Knows, Reached, Attempting, Erasing
<1>2. handler[c].row \in approved /\ handler[c].user \in Users
  BY <1>1 DEF IInv, ExecsAgree, Types
<1> QED
  BY <1>1, <1>2

\* An attempt that moves on still knows the row, the user and the backup.
LEMMA AttemptMoves ==
  ASSUME IInv, NEW c \in Handlers, handler[c].pc \in Attempting, Monotone,
         NEW pc \in Attempting,
         handler'[c].pc = pc, handler'[c].row = handler[c].row, handler'[c].user = handler[c].user,
         pc \in {"session", "account", "finish"} => "profile" \notin rows'[handler[c].user],
         pc = "finish" => handler[c].user \in anonymous'
  PROVE  Knows(c)'
<1>1. /\ handler[c].row \in Requests /\ request[handler[c].row].status # "none"
      /\ handler[c].user = request[handler[c].row].user
      /\ exec[handler[c].row].status # "none" /\ exec[handler[c].row].backup # NoBackup
  BY AttemptFacts
<1>2. /\ request'[handler[c].row].status # "none"
      /\ request'[handler[c].row].user = request[handler[c].row].user
      /\ exec'[handler[c].row].status # "none" /\ exec'[handler[c].row].backup # NoBackup
  BY <1>1 DEF Monotone
<1> QED
  BY <1>1, <1>2 DEF Knows, Reached, Attempting, Erasing

\* The reads before an attempt starts.
LEMMA ConfirmStep ==
  ASSUME DataDeletionAssumption, IInv, NEW c \in Handlers,
         AttemptConfirms(c) \/ AttemptReads(c) \/ AttemptChecks(c)
  PROVE  IInv'
<1>1. handler \in [Handlers -> Handler]
  BY DEF IInv, Types
<1>2. UNCHANGED <<catalog, request, exec, rows, anonymous, approved>>
  BY DEF AttemptConfirms, AttemptReads, AttemptChecks
<1>3. CASE AttemptConfirms(c)
  <2>1. PICK q \in Requests :
          /\ exec[q].backup # NoBackup
          /\ Take(c, "attempt", [IdleHandler EXCEPT !.pc = "read", !.row = q])
    BY <1>3 DEF AttemptConfirms
  <2> DEFINE r == [IdleHandler EXCEPT !.pc = "read", !.row = q]
  <2>2. r \in Handler /\ r.pc = "read" /\ r.row = q
    BY IdleType DEF Handler, IdleHandler
  <2>3. /\ handler' \in [Handlers -> Handler] /\ handler'[c] = r
        /\ \A d \in Handlers \ {c} : handler'[d] = handler[d]
    <3> HIDE DEF r
    <3> QED
      BY <1>1, <2>1, <2>2, BeginFields DEF r
  <2>4. exec[q].status # "none" /\ request[q].status # "none"
    BY <2>1 DEF IInv, ExecsAgree
  <2>5. Knows(c)'
    <3> HIDE DEF r
    <3> QED
      BY <1>2, <2>1, <2>2, <2>3, <2>4 DEF Knows, Reached, Attempting, Erasing
  <2> QED
    BY <1>2, <2>3, <2>5, ReadStep
<1>4. CASE AttemptReads(c)
  <2> DEFINE q == handler[c].row
             u == request[q].user
  <2>1. CASE Finish(c)
    BY <1>2, <2>1, EndStep
  <2>2. CASE handler' = [handler EXCEPT ![c].pc = "check", ![c].user = u,
                                ![c].backup = exec[q].backup, ![c].address = u \notin anonymous]
    <3>1. /\ q \in Requests /\ request[q].status # "none"
          /\ exec[q].status # "none" /\ exec[q].backup # NoBackup
      BY <1>4 DEF AttemptReads, IInv, Knows, Reached
    <3>2. u \in Users /\ exec[q].backup \in Entries \union {NoBackup}
      BY <3>1 DEF IInv, Types, ExecRow
    <3> HIDE DEF q, u
    <3> DEFINE r == [handler[c] EXCEPT !.pc = "check", !.user = u,
                                   !.backup = exec[q].backup, !.address = u \notin anonymous]
    <3>3. handler[c] \in Handler
      BY <1>1
    <3>4. r \in Handler /\ r.pc = "check" /\ r.row = handler[c].row /\ r.user = u
      BY <3>2, <3>3 DEF Handler
    <3>5. handler' = [handler EXCEPT ![c] = r]
      BY <2>2
    <3> HIDE DEF r
    <3>6. /\ handler' \in [Handlers -> Handler] /\ handler'[c] = r
          /\ \A d \in Handlers \ {c} : handler'[d] = handler[d]
      BY <1>1, <3>4, <3>5
    <3>7. Knows(c)'
      BY <1>2, <3>1, <3>4, <3>6 DEF Knows, Reached, Attempting, Erasing, q, u
    <3> QED
      BY <1>2, <3>6, <3>7, ReadStep
  <2> QED
    BY <1>4, <2>1, <2>2 DEF AttemptReads
<1>5. CASE AttemptChecks(c)
  <2>1. CASE Finish(c)
    BY <1>2, <2>1, EndStep
  <2>2. CASE handler' = [handler EXCEPT ![c].pc = "start", ![c].backup = NoBackup]
    <3>1. /\ handler' \in [Handlers -> Handler]
          /\ handler'[c].pc = "start" /\ handler'[c].row = handler[c].row /\ handler'[c].user = handler[c].user
          /\ \A d \in Handlers \ {c} : handler'[d] = handler[d]
      BY <1>1, <2>2, ForgetFields DEF MovesOn
    <3>2. handler[c].pc \in Attempting
      BY <1>5 DEF AttemptChecks, Reached, Attempting
    <3>3. Knows(c)'
      BY <1>2, <3>1, <3>2, IdleMonotone, AttemptMoves DEF Attempting
    <3> QED
      BY <1>2, <3>1, <3>3, ReadStep
  <2> QED
    BY <1>5, <2>1, <2>2 DEF AttemptChecks
<1> QED
  BY <1>3, <1>4, <1>5

\* The writes of the status of an attempt.
LEMMA AttemptWrites ==
  ASSUME DataDeletionAssumption, IInv, NEW c \in Handlers, AttemptStarts(c) \/ AttemptEnds(c)
  PROVE  IInv'
<1>1. handler \in [Handlers -> Handler]
  BY DEF IInv, Types
<1> DEFINE q == handler[c].row
<1>2. handler[c].pc \in Attempting
  BY DEF AttemptStarts, AttemptEnds, Reached, Attempting, Erasing
<1>3. /\ q \in Requests /\ request[q].status # "none"
      /\ handler[c].user = request[q].user /\ q \in approved
  BY <1>2, AttemptFacts
<1>4. CASE AttemptStarts(c)
  <2>1. /\ UNCHANGED <<catalog, request, rows, anonymous, approved>> /\ Proceed(c, "mail")
        /\ exec' = [exec EXCEPT ![q].status = "EXECUTION_STARTED"]
    BY <1>4 DEF AttemptStarts
  <2>2. /\ handler' \in [Handlers -> Handler]
        /\ handler'[c].pc = "mail" /\ handler'[c].row = handler[c].row /\ handler'[c].user = handler[c].user
        /\ \A d \in Handlers \ {c} : handler'[d] = handler[d]
    BY <1>1, <2>1, GotoFields DEF Erasing
  <2> HIDE DEF q
  <2>3. Monotone
    BY <1>3, <2>1, StatusStep DEF ExecStatuses
  <2>4. Knows(c)'
    BY <1>2, <2>2, <2>3, AttemptMoves DEF Attempting, Erasing
  <2> QED
    BY <1>3, <2>1, <2>2, <2>4, StatusWritten DEF ExecStatuses
<1>5. CASE AttemptEnds(c)
  <2>1. PICK s \in {"EXECUTION_COMPLETED", "EXECUTION_FAILED"} :
          /\ UNCHANGED <<catalog, request, rows, anonymous, approved>> /\ Finish(c)
          /\ exec' = [exec EXCEPT ![q].status = s]
          /\ s = "EXECUTION_COMPLETED" => Reached(c, "finish")
    BY <1>5 DEF AttemptEnds
  <2>2. /\ handler' \in [Handlers -> Handler] /\ Knows(c)'
        /\ \A d \in Handlers \ {c} : handler'[d] = handler[d]
    BY <1>1, <2>1, EndKnows
  <2>3. s = "EXECUTION_COMPLETED" =>
          request[q].user \in anonymous /\ "profile" \notin rows[request[q].user]
    BY <1>3, <2>1 DEF IInv, Knows, Reached
  <2> HIDE DEF q
  <2> QED
    BY <1>3, <2>1, <2>2, <2>3, StatusWritten DEF ExecStatuses
<1> QED
  BY <1>4, <1>5

\* The statements that erase.
LEMMA EraseStep ==
  ASSUME DataDeletionAssumption, IInv, NEW c \in Handlers,
         \/ EraseMail(c) \/ FindProfile(c) \/ EraseProfile(c)
         \/ EraseSessions(c) \/ Anonymize(c) \/ EraseThrows(c)
  PROVE  IInv'
<1>1. handler \in [Handlers -> Handler] /\ rows \in [Users -> SUBSET Kinds] /\ anonymous \subseteq Users
  BY DEF IInv, Types
<1> DEFINE q == handler[c].row
           u == handler[c].user
<1>2. handler[c].pc \in Attempting /\ UNCHANGED <<catalog, request, exec, approved>>
  BY DEF EraseMail, FindProfile, EraseProfile, EraseSessions, Anonymize, EraseThrows, Reached,
    Attempting, Erasing
<1>3. /\ q \in Requests /\ request[q].status # "none" /\ u = request[q].user /\ u \in Users
      /\ exec[q].backup # NoBackup
  BY <1>2, AttemptFacts
<1>4. ASSUME NEW K \in SUBSET Kinds, Erase(c, K)
      PROVE  /\ rows' \in [Users -> SUBSET Kinds] /\ rows'[u] = rows[u] \ K
             /\ \A v \in Users \ {u} : rows'[v] = rows[v]
  BY <1>1, <1>3, <1>4 DEF Erase
\* The step writes no rows.
<1>5. ASSUME UNCHANGED <<rows, anonymous>>, NEW pc \in {"profile", "failed"}, handler'[c].pc = pc,
             handler'[c].row = q, handler'[c].user = u, handler' \in [Handlers -> Handler],
             \A d \in Handlers \ {c} : handler'[d] = handler[d]
      PROVE  IInv'
  <2>1. Knows(c)'
    BY <1>2, <1>5, IdleMonotone, AttemptMoves DEF Attempting, Erasing
  <2> QED
    BY <1>2, <1>5, <2>1, ReadStep
<1>6. CASE FindProfile(c)
  <2> DEFINE f == "profile" \in rows[handler[c].user]
             r == [handler[c] EXCEPT !.pc = "profile", !.found = f]
  <2>1. handler[c] \in Handler /\ f \in BOOLEAN
    BY <1>1
  <2>2. r \in Handler /\ r.pc = "profile" /\ r.row = q /\ r.user = u
    <3> HIDE DEF f
    <3> QED
      BY <2>1 DEF Handler, Erasing
  <2>3. handler' = [handler EXCEPT ![c] = r] /\ UNCHANGED <<rows, anonymous>>
    BY <1>6 DEF FindProfile
  <2> HIDE DEF r, q, u
  <2>4. /\ handler' \in [Handlers -> Handler] /\ handler'[c] = r
        /\ \A d \in Handlers \ {c} : handler'[d] = handler[d]
    BY <1>1, <2>2, <2>3
  <2> QED
    BY <1>5, <2>2, <2>3, <2>4
<1>7. CASE UNCHANGED <<rows, anonymous>> /\ Proceed(c, "failed")
  <2>1. /\ handler' \in [Handlers -> Handler] /\ handler'[c].pc = "failed"
        /\ handler'[c].row = q /\ handler'[c].user = u
        /\ \A d \in Handlers \ {c} : handler'[d] = handler[d]
    BY <1>1, <1>7, GotoFields
  <2> QED
    BY <1>5, <1>7, <2>1
\* The step erases rows of some kinds and goes on.
<1>8. ASSUME NEW K \in SUBSET Kinds, Erase(c, K), anonymous' = anonymous,
             NEW pc \in Erasing, MovesOn(c, pc),
             pc \in {"session", "account"} => "profile" \notin rows[u] \ K
      PROVE  IInv'
  <2>1. /\ handler' \in [Handlers -> Handler] /\ handler'[c].pc = pc
        /\ handler'[c].row = q /\ handler'[c].user = u
        /\ \A d \in Handlers \ {c} : handler'[d] = handler[d]
    BY <1>8 DEF MovesOn
  <2>2. /\ rows' \in [Users -> SUBSET Kinds] /\ rows'[u] = rows[u] \ K
        /\ \A v \in Users \ {u} : rows'[v] = rows[v]
    BY <1>4, <1>8
  <2>3. \A v \in Users : "profile" \notin rows[v] => "profile" \notin rows'[v]
    BY <2>2
  <2>4. Monotone
    BY <1>2, <1>8, <2>3, SameCompleted DEF Monotone
  <2>5. pc \in Attempting /\ pc # "finish"
    BY DEF Attempting, Erasing
  <2>6. Knows(c)'
    BY <1>2, <1>8, <2>1, <2>2, <2>4, <2>5, AttemptMoves
  <2> HIDE DEF q
  <2> QED
    BY <1>1, <1>2, <1>3, <1>8, <2>1, <2>2, <2>3, <2>6, ErasedWritten
<1>9. CASE EraseMail(c)
  <2>1. MovesOn(c, "find")
    BY <1>1, <1>9, ForgetFields DEF EraseMail, Erasing
  <2> QED
    BY <1>8, <1>9, <2>1 DEF EraseMail, Kinds, Erasing
<1>10. CASE EraseProfile(c)
  <2>1. CASE Proceed(c, "failed") /\ UNCHANGED rows
    BY <1>7, <1>10, <2>1 DEF EraseProfile
  <2>2. CASE /\ handler' = [handler EXCEPT ![c].pc = "session", ![c].found = FALSE]
             /\ Erase(c, {"profile"})
    <3>1. MovesOn(c, "session")
      BY <1>1, <2>2, ForgetFields DEF Erasing
    <3> QED
      BY <1>8, <1>10, <2>2, <3>1 DEF EraseProfile, Kinds, Erasing
  <2> QED
    BY <1>10, <2>1, <2>2 DEF EraseProfile
<1>11. CASE EraseSessions(c)
  <2>1. "profile" \notin rows[u]
    BY <1>11 DEF EraseSessions, IInv, Knows, Reached
  <2>2. MovesOn(c, "account")
    BY <1>1, <1>11, GotoFields DEF EraseSessions, MovesOn, Erasing
  <2> QED
    BY <1>8, <1>11, <2>1, <2>2 DEF EraseSessions, Kinds, Erasing
<1>12. CASE Anonymize(c)
  <2>1. /\ rows' = rows /\ anonymous' = anonymous \union {u} /\ Proceed(c, "finish")
        /\ "profile" \notin rows[u]
    BY <1>12 DEF Anonymize, IInv, Knows, Reached
  <2>2. /\ handler' \in [Handlers -> Handler] /\ handler'[c].pc = "finish"
        /\ handler'[c].row = q /\ handler'[c].user = u
        /\ \A d \in Handlers \ {c} : handler'[d] = handler[d]
    BY <1>1, <2>1, GotoFields
  <2>3. Monotone
    BY <1>2, <2>1, SameCompleted DEF Monotone
  <2>4. Knows(c)'
    BY <1>2, <2>1, <2>2, <2>3, AttemptMoves DEF Attempting
  <2> HIDE DEF q
  <2> QED
    BY <1>1, <1>2, <1>3, <2>1, <2>2, <2>4, ErasedWritten
<1>13. CASE EraseThrows(c)
  BY <1>7, <1>13 DEF EraseThrows
<1> QED
  BY <1>6, <1>9, <1>10, <1>11, <1>12, <1>13

-----------------------------------------------------------------------------
(* The rest of the system *)

LEMMA UserStep ==
  ASSUME IInv, NEW u \in Users, UserActs(u)
  PROVE  IInv'
<1>1. rows \in [Users -> SUBSET Kinds] /\ UNCHANGED <<catalog, request, exec, anonymous, handler, approved>>
  BY DEF IInv, Types, UserActs
<1>2. PICK k \in Kinds \ {"profile"} : rows' = [rows EXCEPT ![u] = @ \union {k}]
  <2>1. PICK k \in (IF u \in anonymous THEN {"session"} ELSE {"mail", "session"}) :
          rows' = [rows EXCEPT ![u] = @ \union {k}]
    BY DEF UserActs
  <2>2. k \in Kinds \ {"profile"}
    BY <2>1 DEF Kinds
  <2> QED
    BY <2>1, <2>2
<1>3. /\ rows' \in [Users -> SUBSET Kinds]
      /\ \A v \in Users : "profile" \in rows'[v] <=> "profile" \in rows[v]
  BY <1>1, <1>2
<1>4. Monotone
  BY <1>1, <1>3, SameCompleted DEF Monotone
<1>5. \A d \in Handlers : Knows(d)'
  BY <1>1, <1>4, KnowsKept
<1>6. Types' /\ RequestsAgree' /\ ExecsAgree'
  BY <1>1, <1>3 DEF IInv, Types, RequestsAgree, ExecsAgree, WasCompleted, Available
<1>7. ErasedAgree'
  BY <1>1, <1>3 DEF IInv, ErasedAgree, Erased
<1>8. CompletedIsErased'
  <2>1. anonymous \subseteq Users
    BY DEF IInv, Types
  <2> QED
    BY <1>1, <1>3, <2>1 DEF IInv, CompletedIsErased
<1> QED
  BY <1>5, <1>6, <1>7, <1>8 DEF IInv

LEMMA BackupsStep ==
  ASSUME DataDeletionAssumption, IInv, BackupStep \/ (\E b \in Entries : BackupUndone(b))
  PROVE  IInv'
<1>1. /\ Backups!Next \/ (\E b \in Entries : BackupUndone(b))
      /\ UNCHANGED <<request, exec, rows, anonymous, handler, approved>>
  BY DEF BackupStep, BackupUndone
<1>2. /\ catalog' \in [Entries -> Backups!Entry]
      /\ \A b \in Entries : Available(b)' => WasCompleted(b)'
      /\ \A b \in Entries : WasCompleted(b) => WasCompleted(b)'
  BY <1>1, CatalogMonotone DEF IInv, Types
<1>3. Monotone
  BY <1>1, <1>2 DEF Monotone
<1>4. \A d \in Handlers : Knows(d)'
  BY <1>1, <1>3, KnowsKept
<1>5. Types' /\ RequestsAgree'
  BY <1>1, <1>2 DEF IInv, Types, RequestsAgree
<1>6. ExecsAgree'
  <2> SUFFICES ASSUME NEW r \in Requests
               PROVE  /\ exec[r].status # "none" => r \in approved /\ request[r].status # "none"
                      /\ exec[r].backup # NoBackup => exec[r].status # "none" /\ WasCompleted(exec[r].backup)'
    BY <1>1 DEF ExecsAgree, WasCompleted, Available
  <2>1. CASE exec[r].backup = NoBackup
    BY <2>1 DEF IInv, ExecsAgree
  <2>2. CASE exec[r].backup # NoBackup
    <3>1. WasCompleted(exec[r].backup) /\ exec[r].status # "none" /\ r \in approved /\ request[r].status # "none"
      BY <2>2 DEF IInv, ExecsAgree
    <3>2. PICK b \in Entries : b = exec[r].backup
      BY <3>1 DEF WasCompleted
    <3>3. WasCompleted(b)'
      BY <1>2, <3>1, <3>2
    <3> QED
      BY <1>1, <3>1, <3>2, <3>3 DEF WasCompleted, Available
  <2> QED
    BY <2>1, <2>2
<1>7. ErasedAgree' /\ CompletedIsErased'
  BY <1>1 DEF IInv, ErasedAgree, Erased, CompletedIsErased
<1> QED
  BY <1>4, <1>5, <1>6, <1>7 DEF IInv

-----------------------------------------------------------------------------
(* The invariant *)

LEMMA InitIInv ==
  ASSUME DataDeletionAssumption, DeletionInit
  PROVE  IInv
<1>1. catalog \in [Entries -> Backups!Entry] /\ \A b \in Entries : Available(b) => WasCompleted(b)
  BY DEF DeletionInit, Backups!Init, Backups!Absent, Backups!Entry, Backups!States, Available
<1>2. /\ request \in [Requests -> RequestRow] /\ exec \in [Requests -> ExecRow]
      /\ rows \in [Users -> SUBSET Kinds] /\ anonymous \subseteq Users /\ approved \subseteq Requests
  BY DEF DeletionInit, RequestRow, ExecRow, ExecStatuses
<1>3. handler \in [Handlers -> Handler] /\ \A c \in Handlers : handler[c].pc = "idle"
  BY IdleType DEF DeletionInit, IdleHandler
<1>4. /\ \A r \in Requests : request[r].status = "none" /\ exec[r].status = "none"
                             /\ exec[r].backup = NoBackup
      /\ \A u \in Users : rows[u] = Kinds
      /\ anonymous = {}
  BY DEF DeletionInit
<1>5. Types /\ \A c \in Handlers : Knows(c)
  BY <1>1, <1>2, <1>3, <1>4 DEF Types, Knows, Reached, Attempting, Erasing
<1>6. RequestsAgree /\ ExecsAgree /\ ErasedAgree /\ CompletedIsErased
  BY <1>4 DEF RequestsAgree, ExecsAgree, ErasedAgree, CompletedIsErased, Erased, Kinds
<1> QED
  BY <1>5, <1>6 DEF IInv

LEMMA NextIInv ==
  ASSUME DataDeletionAssumption, IInv, [DeletionNext]_deletionVars
  PROVE  IInv'
<1>1. CASE UNCHANGED deletionVars
  <2>1. UNCHANGED <<catalog, request, exec, rows, anonymous, approved, handler>>
    BY <1>1 DEF deletionVars
  <2>2. \A d \in Handlers : Knows(d)'
    BY <2>1, IdleMonotone, KnowsKept
  <2> QED
    BY <2>1, <2>2 DEF IInv, Types, RequestsAgree, ExecsAgree, ErasedAgree, CompletedIsErased, Erased,
      WasCompleted, Available
<1>2. ASSUME NEW c \in Handlers, Review(c) PROVE IInv'
  BY <1>2, CreateStep, DecideStep DEF Review
<1>3. ASSUME NEW c \in Handlers, Prepare(c) PROVE IInv'
  BY <1>3, PlanStep, DryRunStep, VerifyStep DEF Prepare
<1>4. ASSUME NEW c \in Handlers, Execute(c) PROVE IInv'
  BY <1>4, ConfirmStep, AttemptWrites, EraseStep DEF Execute
<1>5. ASSUME NEW c \in Handlers, RequestDies(c) PROVE IInv'
  BY <1>5, EndStep DEF RequestDies
<1>6. ASSUME NEW u \in Users, UserActs(u) PROVE IInv'
  BY <1>6, UserStep
<1>7. CASE BackupStep \/ (\E b \in Entries : BackupUndone(b))
  BY <1>7, BackupsStep
<1> QED
  BY <1>1, <1>2, <1>3, <1>4, <1>5, <1>6, <1>7 DEF DeletionNext

LEMMA Invariance ==
  ASSUME DataDeletionAssumption
  PROVE  DeletionSpec => []IInv
<1>1. DeletionInit => IInv
  BY InitIInv
<1>2. IInv /\ [DeletionNext]_deletionVars => IInv'
  BY NextIInv
<1> QED
  BY <1>1, <1>2, PTL DEF DeletionSpec

-----------------------------------------------------------------------------
(* Theorems *)

\* The rows, and the requests at work on them, have their types in every reachable state.
THEOREM TypeCorrect ==
  ASSUME DataDeletionAssumption
  PROVE  DeletionSpec => []DeletionTypeOK
<1>1. IInv => DeletionTypeOK
  BY DEF IInv, Types, Knows, DeletionTypeOK, Reached
<1> QED
  BY <1>1, Invariance, PTL

\* attemptExecution erases nothing of a user without an approved request of that user
\* whose execution has a backup that was completed, whoever else decides or verifies.
THEOREM ErasureIsAuthorised ==
  ASSUME DataDeletionAssumption
  PROVE  DeletionSpec => []ErasureAuthorised
<1>1. IInv => ErasureAuthorised
  <2> SUFFICES ASSUME IInv PROVE ErasureAuthorised
    OBVIOUS
  <2>1. \A r \in Requests : exec[r].status # "none" => r \in approved
    BY DEF IInv, ExecsAgree
  <2>2. ASSUME NEW u \in Users, Erased(u)
        PROVE  \E r \in approved : request[r].user = u /\ WasCompleted(exec[r].backup)
    <3>1. PICK r \in Requests : request[r].user = u /\ exec[r].backup # NoBackup
      BY <2>2 DEF IInv, ErasedAgree
    <3>2. r \in approved /\ WasCompleted(exec[r].backup)
      BY <3>1 DEF IInv, ExecsAgree
    <3> QED
      BY <3>1, <3>2
  <2> QED
    BY <2>1, <2>2 DEF ErasureAuthorised
<1> QED
  BY <1>1, Invariance, PTL

\* What attemptExecution reports as EXECUTION_COMPLETED has been erased, although
\* attempts overlap and statements fail.
THEOREM CompletionIsTrue ==
  ASSUME DataDeletionAssumption
  PROVE  DeletionSpec => []CompletedIsErased
<1>1. IInv => CompletedIsErased
  BY DEF IInv
<1> QED
  BY <1>1, Invariance, PTL
=============================================================================
