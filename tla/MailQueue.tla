----------------------------- MODULE MailQueue -----------------------------
(***************************************************************************)
(* The durable mail queue: EmailJob rows in Postgres, the worker passes    *)
(* that claim and send them (backend/src/mail/mail.worker.ts), the API     *)
(* requests that create, retry, cancel, archive and resume them            *)
(* (mail.service.ts), the send limits (mail-limit.service.ts) and what a   *)
(* provider webhook does to a row (mail.webhook.service.ts).               *)
(*                                                                         *)
(* A pass is one call of processDueJobs.  The interval timer starts a pass *)
(* whether or not the previous one has ended, and every worker process has *)
(* its own timer, so passes overlap.  Each database statement is one step; *)
(* everything between two awaits belongs to the step that follows.         *)
(*                                                                         *)
(* The deletion of an account deletes the rows of its address, too         *)
(* (data-deletion-execution.service.ts:434); here rows stay.               *)
(*                                                                         *)
(* Time is abstract.  lockedAt is the ordinal of the claim that wrote it   *)
(* (two claims of a row never have the same timestamp); its age, the       *)
(* schedule, the idempotency window and the limit windows move by actions. *)
(***************************************************************************)
EXTENDS Integers, FiniteSets

CONSTANTS
  Jobs,          \* idempotency keys; a key has at most one EmailJob row
  BulkJobs,      \* the jobs of type BULK, the others are TRANSACTIONAL
  Passes,        \* calls of processDueJobs that may be in progress at once
  Clients,       \* API requests that may be in progress at once
  Recipients,    \* e-mail addresses
  RecipientOf,   \* [Jobs -> Recipients]
  BatchOf,       \* [Jobs -> Nat]: batchKey, else campaignId; 0 for none
  NoJob,
  MaxAttempts,   \* EmailJob.maxAttempts
  Take,          \* rows a pass processes per type (perRunLimit)
  Limited,       \* the provider is one that checkBeforeSend limits
  DayLimit,      \* monthly and daily limits, one window
  MinuteLimit,   \* per-type per-minute limit
  SlowSends,     \* a claim may outlive processingWarningMs while its pass lives
  Ops,           \* requests and events of the environment that occur
  Delays,        \* whether a new job is due at once (no later scheduledAt)
  Windows,       \* whether a new job has an idempotencyUntil in the future
  MaxRequests,   \* bound on API requests and provider events
  MaxFaults      \* bound on aborted passes and failed database statements

AllOps == {"create", "refresh", "retry", "cancel", "archive", "resume",
           "suppress", "bounce"}

ASSUME MailAssumption ==
  /\ BulkJobs \subseteq Jobs
  /\ RecipientOf \in [Jobs -> Recipients]
  /\ BatchOf \in [Jobs -> Nat]
  /\ NoJob \notin Jobs
  /\ IsFiniteSet(Passes)
  /\ MaxAttempts \in Nat \ {0}
  /\ Take \in Nat \ {0}
  /\ Limited \in BOOLEAN /\ SlowSends \in BOOLEAN
  /\ DayLimit \in Nat /\ MinuteLimit \in Nat
  /\ Ops \subseteq AllOps
  /\ Delays \subseteq BOOLEAN /\ Windows \subseteq BOOLEAN
  /\ MaxRequests \in Nat /\ MaxFaults \in Nat

VARIABLES
  row,         \* the EmailJob table
  suppressed,  \* the EmailSuppression table: addresses
  heartbeat,   \* the shared WorkerHeartbeat is younger than heartbeatStaleMs
  pass,        \* local state of each worker pass
  req,         \* local state of each API request
  served,      \* requests and events so far
  faults,      \* faults so far
  claims,      \* per job, claims so far: the clock of lockedAt
  base,        \* history: claims[j] when the row was last reset to QUEUED, 0 attempts
  calls,       \* history: claims of j that reached the provider
  since,       \* history: those of them that did so since the last reset
  cutoff       \* history: claims[j] when j's recipient was first suppressed

vars == <<row, suppressed, heartbeat, pass, req, served, faults,
          claims, base, calls, since, cutoff>>
history == <<base, calls, since, cutoff>>

Statuses == {"NONE", "QUEUED", "PROCESSING", "FAILED", "SENT", "DEAD",
             "CANCELLED", "PAUSED_LIMIT_REACHED"}
Due == {"QUEUED", "FAILED"}
Final == {"SENT", "DEAD", "CANCELLED"}

Row == [status: Statuses, attempts: Nat, lockedAt: Nat, age: {0, 1, 2},
        due: BOOLEAN, archived: BOOLEAN, retryable: BOOLEAN,
        window: BOOLEAN, sentAt: {"null", "minute", "day", "old"}, msg: Nat]

NoRow == [status |-> "NONE", attempts |-> 0, lockedAt |-> 0, age |-> 0,
          due |-> FALSE, archived |-> FALSE, retryable |-> FALSE,
          window |-> FALSE, sentAt |-> "null", msg |-> 0]

Item == [job: Jobs, lockedAt: Nat, attempts: Nat]
Outcomes == {"none", "suppressed", "unrenderable", "paused", "sent",
             "retryable", "permanent"}
Pass == [pc: {"idle", "beat", "scan", "recover", "claim", "reread", "check", "limit",
              "send", "write", "mates"},
         bulk: BOOLEAN, wasStale: BOOLEAN, todo: SUBSET Item,
         cur: Jobs \union {NoJob}, mine: Nat, snap: Nat, out: Outcomes]
IdlePass == [pc |-> "idle", bulk |-> FALSE, wasStale |-> FALSE, todo |-> {},
             cur |-> NoJob, mine |-> 0, snap |-> 0, out |-> "none"]
Request == [op: AllOps \union {"none"}, job: Jobs \union {NoJob}, msg: Nat]
IdleRequest == [op |-> "none", job |-> NoJob, msg |-> 0]

Init ==
  /\ row = [j \in Jobs |-> NoRow]
  /\ suppressed = {}
  /\ heartbeat = FALSE
  /\ pass = [p \in Passes |-> IdlePass]
  /\ req = [c \in Clients |-> IdleRequest]
  /\ served = 0
  /\ faults = 0
  /\ claims = [j \in Jobs |-> 0]
  /\ base = [j \in Jobs |-> 0]
  /\ calls = [j \in Jobs |-> {}]
  /\ since = [j \in Jobs |-> {}]
  /\ cutoff = [j \in Jobs |-> 0]

ItemOf(j) == [job |-> j, lockedAt |-> row[j].lockedAt, attempts |-> row[j].attempts]

\* prisma.emailJob.update({where: {id}}): no guard on what the row has become.
Unlocked(r) == [r EXCEPT !.lockedAt = 0, !.age = 0]

-----------------------------------------------------------------------------
(* Worker pass *)

\* processDueJobs reads the shared heartbeat of the previous pass.
StartPass(p) ==
  /\ pass[p].pc = "idle"
  /\ pass' = [pass EXCEPT ![p] = [IdlePass EXCEPT !.pc = "beat",
                                                  !.wasStale = ~heartbeat]]
  /\ UNCHANGED <<row, suppressed, heartbeat, req, served, faults, claims, history>>

\* writeHeartbeat(now).
Beat(p) ==
  /\ pass[p].pc = "beat"
  /\ heartbeat' = TRUE
  /\ pass' = [pass EXCEPT ![p].pc = "scan"]
  /\ UNCHANGED <<row, suppressed, req, served, faults, claims, history>>

\* Mutant of StaleLock: recovers every PROCESSING row, however young its lock.
StaleLockAnyAge(j, wasStale) == row[j].status = "PROCESSING" /\ ~row[j].archived

\* Mutant of StaleLock: recovers only after the worker's heartbeat went stale.
StaleLockByHeartbeat(j, wasStale) ==
  /\ row[j].status = "PROCESSING" /\ ~row[j].archived
  /\ wasStale /\ row[j].age >= 1

StaleLock(j, wasStale) ==
  /\ row[j].status = "PROCESSING"
  /\ ~row[j].archived
  /\ row[j].age = 2 \/ (wasStale /\ row[j].age = 1)

\* The findMany of recoverStaleLocks, the last use of wasStale.
ScanStaleLocks(p) ==
  /\ pass[p].pc = "scan"
  /\ pass' = [pass EXCEPT ![p].pc = "recover", ![p].wasStale = FALSE,
                          ![p].todo = {ItemOf(j) : j \in
                             {k \in Jobs : StaleLock(k, pass[p].wasStale)}}]
  /\ UNCHANGED <<row, suppressed, heartbeat, req, served, faults, claims, history>>

\* Mutant of Recovered: an off-by-one in the retry budget.
RecoveredOffByOne(r, attempts) ==
  [Unlocked(r) EXCEPT !.status = IF attempts <= MaxAttempts THEN "QUEUED" ELSE "DEAD",
                      !.retryable = TRUE, !.due = TRUE]

\* Mutant of Recovered: gives the lost attempt back.
RecoveredWithRefund(r, attempts) ==
  [Unlocked(r) EXCEPT !.status = "QUEUED", !.attempts = attempts - 1,
                      !.retryable = TRUE, !.due = TRUE]

Recovered(r, attempts) ==
  IF attempts < MaxAttempts
  THEN [Unlocked(r) EXCEPT !.status = "QUEUED", !.retryable = TRUE, !.due = TRUE]
  ELSE [Unlocked(r) EXCEPT !.status = "DEAD", !.retryable = TRUE, !.due = TRUE]

\* Mutant of RecoverLock: updates by id, without the guard.
RecoverLockById(p) ==
  /\ pass[p].pc = "recover"
  /\ \E t \in pass[p].todo :
       /\ row' = [row EXCEPT ![t.job] = Recovered(@, t.attempts)]
       /\ pass' = [pass EXCEPT ![p].todo = @ \ {t}]
  /\ UNCHANGED <<suppressed, heartbeat, req, served, faults, claims, history>>

\* One guarded updateMany of recoverStaleLocks.
RecoverLock(p) ==
  /\ pass[p].pc = "recover"
  /\ \E t \in pass[p].todo :
       /\ row' = IF row[t.job].status = "PROCESSING" /\ row[t.job].lockedAt = t.lockedAt
                 THEN [row EXCEPT ![t.job] = Recovered(@, t.attempts)]
                 ELSE row
       /\ pass' = [pass EXCEPT ![p].todo = @ \ {t}]
  /\ UNCHANGED <<suppressed, heartbeat, req, served, faults, claims, history>>

DueJobs(bulk) ==
  {j \in Jobs : /\ row[j].status \in Due /\ row[j].due /\ ~row[j].archived
                /\ (j \in BulkJobs) = bulk}

\* What a findMany, or a slice, that ends after n rows leaves of S; the order is open.
Fillings(S, n) == {B \in SUBSET S : Cardinality(B) <= n /\ (B = S \/ Cardinality(B) = n)}

\* processQueueType: the findMany of take * 4 rows, which does not look at the
\* attempts, then the filter and the slice.  TRANSACTIONAL rows come first.
FetchDue(p) ==
  /\ pass[p].todo = {}
  /\ pass[p].pc = "recover" \/ (pass[p].pc = "claim" /\ ~pass[p].bulk)
  /\ LET bulk == pass[p].pc = "claim" IN
     \E found \in Fillings(DueJobs(bulk), 4 * Take) :
       \E batch \in Fillings({j \in found : row[j].attempts < MaxAttempts}, Take) :
         pass' = [pass EXCEPT ![p].pc = "claim", ![p].bulk = bulk,
                              ![p].todo = {ItemOf(j) : j \in batch}]
  /\ UNCHANGED <<row, suppressed, heartbeat, req, served, faults, claims, history>>

Claimable(t) ==
  /\ row[t.job].status \in Due
  /\ row[t.job].due
  /\ ~row[t.job].archived
  /\ row[t.job].attempts = t.attempts

\* The compare-and-set updateMany that claims the row.
Claim(p) ==
  /\ pass[p].pc = "claim"
  /\ \E t \in pass[p].todo :
       /\ Claimable(t)
       /\ row' = [row EXCEPT ![t.job].status = "PROCESSING",
                             ![t.job].attempts = t.attempts + 1,
                             ![t.job].lockedAt = claims[t.job] + 1,
                             ![t.job].age = 0]
       /\ claims' = [claims EXCEPT ![t.job] = @ + 1]
       /\ pass' = [pass EXCEPT ![p].pc = "reread", ![p].todo = @ \ {t},
                               ![p].cur = t.job, ![p].mine = claims[t.job] + 1]
  /\ UNCHANGED <<suppressed, heartbeat, req, served, faults, history>>

\* claimed.count = 0: another pass or a request was faster.
ClaimMisses(p) ==
  /\ pass[p].pc = "claim"
  /\ \E t \in pass[p].todo :
       /\ ~Claimable(t)
       /\ pass' = [pass EXCEPT ![p].todo = @ \ {t}]
  /\ UNCHANGED <<row, suppressed, heartbeat, req, served, faults, claims, history>>

\* findUnique after the claim: the row as it is now, not as it was claimed.
Reread(p) ==
  /\ pass[p].pc = "reread"
  /\ pass' = [pass EXCEPT ![p].pc = IF pass[p].cur \in BulkJobs THEN "check" ELSE "limit",
                          ![p].snap = row[pass[p].cur].attempts]
  /\ UNCHANGED <<row, suppressed, heartbeat, req, served, faults, claims, history>>

\* Mutant of CheckSuppression: checks on the first attempt only.
CheckSuppressionOnce(p) ==
  /\ pass[p].pc = "check"
  /\ pass' = IF pass[p].snap = 1 /\ RecipientOf[pass[p].cur] \in suppressed
             THEN [pass EXCEPT ![p].pc = "write", ![p].out = "suppressed"]
             ELSE [pass EXCEPT ![p].pc = "limit"]
  /\ UNCHANGED <<row, suppressed, heartbeat, req, served, faults, claims, history>>

CheckSuppression(p) ==
  /\ pass[p].pc = "check"
  /\ pass' = IF RecipientOf[pass[p].cur] \in suppressed
             THEN [pass EXCEPT ![p].pc = "write", ![p].out = "suppressed"]
             ELSE [pass EXCEPT ![p].pc = "limit"]
  /\ UNCHANGED <<row, suppressed, heartbeat, req, served, faults, claims, history>>

\* renderMailTemplate throws.
RenderFails(p) ==
  /\ pass[p].pc = "limit"
  /\ pass' = [pass EXCEPT ![p].pc = "write", ![p].out = "unrenderable"]
  /\ UNCHANGED <<row, suppressed, heartbeat, req, served, faults, claims, history>>

SentToday == {j \in Jobs : row[j].status = "SENT" /\ row[j].sentAt \in {"minute", "day"}}
SentThisMinute(bulk) ==
  {j \in Jobs : row[j].status = "SENT" /\ row[j].sentAt = "minute" /\ (j \in BulkJobs) = bulk}

\* Mutant of WithinLimits: allows the message after the last one.
WithinLimitsPlusOne(bulk) ==
  Limited => /\ Cardinality(SentToday) <= DayLimit
             /\ Cardinality(SentThisMinute(bulk)) <= MinuteLimit

\* checkBeforeSend allows the send.
WithinLimits(bulk) ==
  Limited => /\ Cardinality(SentToday) < DayLimit
             /\ Cardinality(SentThisMinute(bulk)) < MinuteLimit

CheckLimit(p) ==
  /\ pass[p].pc = "limit"
  /\ pass' = IF WithinLimits(pass[p].bulk)
             THEN [pass EXCEPT ![p].pc = "send"]
             ELSE [pass EXCEPT ![p].pc = "write", ![p].out = "paused"]
  /\ UNCHANGED <<row, suppressed, heartbeat, req, served, faults, claims, history>>

\* sendRenderedMessage; an accepted message may still come back as an error.
CallProvider(p) ==
  /\ pass[p].pc = "send"
  /\ calls' = [calls EXCEPT ![pass[p].cur] = @ \union {pass[p].mine}]
  /\ since' = [since EXCEPT ![pass[p].cur] = @ \union {pass[p].mine}]
  /\ \E out \in {"sent", "retryable", "permanent"} :
       pass' = [pass EXCEPT ![p].pc = "write", ![p].out = out]
  /\ UNCHANGED <<row, suppressed, heartbeat, req, served, faults, claims, base, cutoff>>

\* Mutant of NothingToSend: counts as sent.
NothingToSendButSent(p) ==
  /\ pass[p].pc = "send"
  /\ pass' = [pass EXCEPT ![p].pc = "write", ![p].out = "sent"]
  /\ UNCHANGED <<row, suppressed, heartbeat, req, served, faults, claims, history>>

\* An empty subject or body: BadRequestException, which is not retryable.
NothingToSend(p) ==
  /\ pass[p].pc = "send"
  /\ pass' = [pass EXCEPT ![p].pc = "write", ![p].out = "permanent"]
  /\ UNCHANGED <<row, suppressed, heartbeat, req, served, faults, claims, history>>

\* Mutant of PausedAttempts: without the Math.max.
PausedAttemptsUnclamped(snap) == snap - 1

\* pauseJobForLimit gives the attempt back.
PausedAttempts(snap) == IF snap > 0 THEN snap - 1 ELSE 0

\* What the final update of processClaimedJob writes, by outcome.
Written(r, out, snap, mine) ==
  LET u == Unlocked(r) IN
  CASE out = "suppressed"   -> [u EXCEPT !.status = "CANCELLED", !.retryable = FALSE]
    [] out = "unrenderable" -> [u EXCEPT !.status = "DEAD", !.retryable = FALSE, !.due = TRUE]
    [] out = "paused"       -> [u EXCEPT !.status = "PAUSED_LIMIT_REACHED",
                                  !.attempts = PausedAttempts(snap),
                                  !.retryable = TRUE, !.due = TRUE]
    [] out = "sent"         -> [u EXCEPT !.status = "SENT", !.retryable = FALSE,
                                  !.due = TRUE, !.sentAt = "minute", !.msg = mine]
    [] out = "permanent"    -> [u EXCEPT !.status = "DEAD", !.retryable = FALSE, !.due = TRUE]
    [] OTHER                -> IF snap < MaxAttempts
                               THEN [u EXCEPT !.status = "FAILED", !.retryable = TRUE, !.due = FALSE]
                               ELSE [u EXCEPT !.status = "DEAD", !.retryable = TRUE, !.due = TRUE]

NextClaim(l) == [l EXCEPT !.pc = "claim", !.cur = NoJob, !.mine = 0, !.snap = 0, !.out = "none"]

WriteOutcome(p) ==
  /\ pass[p].pc = "write"
  /\ row' = [row EXCEPT ![pass[p].cur] = Written(@, pass[p].out, pass[p].snap, pass[p].mine)]
  /\ pass' = IF pass[p].out = "paused" /\ pass[p].cur \in BulkJobs
             THEN [pass EXCEPT ![p].pc = "mates"]
             ELSE [pass EXCEPT ![p] = NextClaim(@)]
  /\ UNCHANGED <<suppressed, heartbeat, req, served, faults, claims, history>>

\* pausePendingBulkJobs: one updateMany over the rest of the batch.
PauseMates(p) ==
  /\ pass[p].pc = "mates"
  /\ row' = [j \in Jobs |->
       IF /\ j # pass[p].cur /\ j \in BulkJobs
          /\ BatchOf[pass[p].cur] # 0 /\ BatchOf[j] = BatchOf[pass[p].cur]
          /\ row[j].status \in Due /\ ~row[j].archived
       THEN [Unlocked(row[j]) EXCEPT !.status = "PAUSED_LIMIT_REACHED",
                                     !.retryable = TRUE, !.due = TRUE]
       ELSE row[j]]
  /\ pass' = [pass EXCEPT ![p] = NextClaim(@)]
  /\ UNCHANGED <<suppressed, heartbeat, req, served, faults, claims, history>>

\* Both types are done: the closing writeHeartbeat.
EndPass(p) ==
  /\ pass[p].pc = "claim" /\ pass[p].bulk /\ pass[p].todo = {}
  /\ pass' = [pass EXCEPT ![p] = IdlePass]
  /\ heartbeat' = TRUE
  /\ UNCHANGED <<row, suppressed, req, served, faults, claims, history>>

\* A statement inside the try of processClaimedJob fails: the catch block
\* classifies the error, whatever has already happened to the message.
StatementFails(p) ==
  /\ faults < MaxFaults
  /\ \/ pass[p].pc \in {"check", "limit", "send", "mates"}
     \/ pass[p].pc = "write" /\ pass[p].out \notin {"retryable", "permanent"}
  /\ \E out \in {"retryable", "permanent"} :
       pass' = [pass EXCEPT ![p].pc = "write", ![p].out = out]
  /\ faults' = faults + 1
  /\ UNCHANGED <<row, suppressed, heartbeat, req, served, claims, history>>

\* The process dies, or a statement outside that try fails.
AbortPass(p) ==
  /\ faults < MaxFaults
  /\ pass[p].pc # "idle"
  /\ pass' = [pass EXCEPT ![p] = IdlePass]
  /\ faults' = faults + 1
  /\ UNCHANGED <<row, suppressed, heartbeat, req, served, claims, history>>

PassStep(p) ==
  \/ Beat(p) \/ ScanStaleLocks(p) \/ RecoverLock(p) \/ FetchDue(p)
  \/ Claim(p) \/ ClaimMisses(p) \/ Reread(p)
  \/ CheckSuppression(p) \/ RenderFails(p) \/ CheckLimit(p)
  \/ CallProvider(p) \/ NothingToSend(p)
  \/ WriteOutcome(p) \/ PauseMates(p) \/ EndPass(p)

-----------------------------------------------------------------------------
(* API requests: each reads the row, awaits, then updates it by id *)

Begin(c, op, j, m) ==
  /\ op \in Ops /\ served < MaxRequests /\ req[c].op = "none"
  /\ req' = [req EXCEPT ![c] = [op |-> op, job |-> j, msg |-> m]]
  /\ served' = served + 1

Finish(c, op) ==
  /\ req[c].op = op
  /\ req' = [req EXCEPT ![c] = IdleRequest]

\* createJob finds no row for the key.
CreateReads(c, j) ==
  /\ row[j].status = "NONE"
  /\ Begin(c, "create", j, 0)
  /\ UNCHANGED <<row, suppressed, heartbeat, pass, faults, claims, history>>

\* The create; idempotencyKey is unique, so the slower of two fails.
CreateWrites(c) ==
  /\ Finish(c, "create")
  /\ LET j == req[c].job IN
     IF row[j].status = "NONE"
     THEN \E due \in Delays, window \in Windows :
            row' = [row EXCEPT ![j] = [NoRow EXCEPT !.status = "QUEUED",
                                         !.due = due, !.window = window]]
     ELSE row' = row
  /\ UNCHANGED <<suppressed, heartbeat, pass, served, faults, claims, history>>

\* createJob finds a row it does not hand back to the caller.
Reusable(r) ==
  \/ r.status = "PROCESSING"
  \/ r.window /\ r.status \in {"QUEUED", "FAILED", "PAUSED_LIMIT_REACHED", "SENT"}

RefreshReads(c, j) ==
  /\ row[j].status # "NONE" /\ ~Reusable(row[j])
  /\ Begin(c, "refresh", j, 0)
  /\ UNCHANGED <<row, suppressed, heartbeat, pass, faults, claims, history>>

Reset(r, due) ==
  [Unlocked(r) EXCEPT !.status = "QUEUED", !.attempts = 0, !.due = due,
     !.archived = FALSE, !.retryable = FALSE, !.sentAt = "null", !.msg = 0]

\* Recipient, batch and maxAttempts are written again, as they were: a key names its
\* recipient or the link it mails, and its campaign, and no caller sets maxAttempts.
RefreshWrites(c) ==
  /\ Finish(c, "refresh")
  /\ \E due \in Delays, window \in Windows :
       row' = [row EXCEPT ![req[c].job] = [Reset(@, due) EXCEPT !.window = window]]
  /\ base' = [base EXCEPT ![req[c].job] = claims[req[c].job]]
  /\ since' = [since EXCEPT ![req[c].job] = {}]
  /\ UNCHANGED <<suppressed, heartbeat, pass, served, faults, claims, calls, cutoff>>

\* retryJob: the checks of assertRetryAllowed; force is the administrator's.
RetryReads(c, j) ==
  /\ row[j].status \in {"FAILED", "DEAD", "PAUSED_LIMIT_REACHED"}
  /\ \E force \in BOOLEAN : row[j].status = "DEAD" => row[j].retryable \/ force
  /\ Begin(c, "retry", j, 0)
  /\ UNCHANGED <<row, suppressed, heartbeat, pass, faults, claims, history>>

RetryWrites(c) ==
  /\ Finish(c, "retry")
  /\ row' = [row EXCEPT ![req[c].job] = Reset(@, TRUE)]
  /\ base' = [base EXCEPT ![req[c].job] = claims[req[c].job]]
  /\ since' = [since EXCEPT ![req[c].job] = {}]
  /\ UNCHANGED <<suppressed, heartbeat, pass, served, faults, claims, calls, cutoff>>

CancelReads(c, j) ==
  /\ row[j].status = "QUEUED"
  /\ Begin(c, "cancel", j, 0)
  /\ UNCHANGED <<row, suppressed, heartbeat, pass, faults, claims, history>>

CancelWrites(c) ==
  /\ Finish(c, "cancel")
  /\ row' = [row EXCEPT ![req[c].job] = [Unlocked(@) EXCEPT !.status = "CANCELLED",
                                           !.due = TRUE, !.retryable = FALSE]]
  /\ UNCHANGED <<suppressed, heartbeat, pass, served, faults, claims, history>>

\* Mutant of ArchiveReads: archives failed jobs, too.
ArchiveReadsFailed(c, j) ==
  /\ row[j].status \in Final \union {"FAILED"}
  /\ Begin(c, "archive", j, 0)
  /\ UNCHANGED <<row, suppressed, heartbeat, pass, faults, claims, history>>

ArchiveReads(c, j) ==
  /\ row[j].status \in Final
  /\ Begin(c, "archive", j, 0)
  /\ UNCHANGED <<row, suppressed, heartbeat, pass, faults, claims, history>>

ArchiveWrites(c) ==
  /\ Finish(c, "archive")
  /\ row' = [row EXCEPT ![req[c].job].archived = TRUE]
  /\ UNCHANGED <<suppressed, heartbeat, pass, served, faults, claims, history>>

\* archiveOldJobs: one updateMany over the final rows that are old enough.
ArchiveOld ==
  /\ "archive" \in Ops /\ served < MaxRequests /\ served' = served + 1
  /\ \E old \in SUBSET {j \in Jobs : row[j].status \in Final /\ ~row[j].archived} :
       /\ old # {}
       /\ row' = [j \in Jobs |-> IF j \in old THEN [row[j] EXCEPT !.archived = TRUE]
                                               ELSE row[j]]
  /\ UNCHANGED <<suppressed, heartbeat, pass, req, faults, claims, history>>

\* resumePausedJobs: one updateMany, over one batch or over every paused row.
ResumePaused ==
  /\ "resume" \in Ops /\ served < MaxRequests /\ served' = served + 1
  /\ \E b \in {BatchOf[j] : j \in Jobs} :
       LET resumed == {j \in Jobs : /\ row[j].status = "PAUSED_LIMIT_REACHED"
                                    /\ b = 0 \/ BatchOf[j] = b}
       IN /\ row' = [j \in Jobs |-> IF j \in resumed
                        THEN [Reset(row[j], TRUE) EXCEPT !.sentAt = row[j].sentAt,
                                                         !.msg = row[j].msg]
                        ELSE row[j]]
          /\ base' = [j \in Jobs |-> IF j \in resumed THEN claims[j] ELSE base[j]]
          /\ since' = [j \in Jobs |-> IF j \in resumed THEN {} ELSE since[j]]
  /\ UNCHANGED <<suppressed, heartbeat, pass, req, faults, claims, calls, cutoff>>

Suppressing(r) ==
  /\ suppressed' = suppressed \union {r}
  /\ cutoff' = [j \in Jobs |-> IF RecipientOf[j] = r /\ r \notin suppressed
                               THEN claims[j] ELSE cutoff[j]]

\* suppress, and the transaction of unsubscribeByToken.
Suppress(r) ==
  /\ "suppress" \in Ops /\ served < MaxRequests /\ served' = served + 1
  /\ Suppressing(r)
  /\ UNCHANGED <<row, heartbeat, pass, req, faults, claims, base, calls, since>>

\* A bounce or complaint for an accepted message: first the suppression ...
BounceSuppresses(c, j) ==
  /\ \E m \in calls[j] : Begin(c, "bounce", j, m)
  /\ Suppressing(RecipientOf[j])
  /\ UNCHANGED <<row, heartbeat, pass, faults, claims, base, calls, since>>

\* ... then the rows that carry its providerMessageId.
BounceMarksDead(c) ==
  /\ Finish(c, "bounce")
  /\ row' = IF row[req[c].job].msg = req[c].msg
            THEN [row EXCEPT ![req[c].job].status = "DEAD"] ELSE row
  /\ UNCHANGED <<suppressed, heartbeat, pass, served, faults, claims, history>>

RequestStep(c) ==
  \/ CreateWrites(c) \/ RefreshWrites(c) \/ RetryWrites(c) \/ CancelWrites(c)
  \/ ArchiveWrites(c) \/ BounceMarksDead(c)
  \/ \E j \in Jobs : \/ CreateReads(c, j) \/ RefreshReads(c, j) \/ RetryReads(c, j)
                     \/ CancelReads(c, j) \/ ArchiveReads(c, j) \/ BounceSuppresses(c, j)

-----------------------------------------------------------------------------
(* Time *)

\* scheduledAt is reached.
BecomesDue(j) ==
  /\ row[j].status \in Due /\ ~row[j].due
  /\ row' = [row EXCEPT ![j].due = TRUE]
  /\ UNCHANGED <<suppressed, heartbeat, pass, req, served, faults, claims, history>>

\* idempotencyUntil is reached.
WindowCloses(j) ==
  /\ row[j].window
  /\ row' = [row EXCEPT ![j].window = FALSE]
  /\ UNCHANGED <<suppressed, heartbeat, pass, req, served, faults, claims, history>>

HoldsLock(p, j) == pass[p].cur = j /\ pass[p].mine = row[j].lockedAt

\* A lock passes processingWarningMs (age 1), then processingStaleMs (age 2).
\* One claim takes seconds: only with SlowSends does a live pass see it happen.
LockAges(j) ==
  /\ row[j].status = "PROCESSING" /\ row[j].age < 2
  /\ SlowSends \/ \A p \in Passes : ~HoldsLock(p, j)
  /\ row' = [row EXCEPT ![j].age = @ + 1]
  /\ UNCHANGED <<suppressed, heartbeat, pass, req, served, faults, claims, history>>

HeartbeatAges ==
  /\ heartbeat /\ heartbeat' = FALSE
  /\ UNCHANGED <<row, suppressed, pass, req, served, faults, claims, history>>

\* Sent rows leave the per-minute window ...
MinutePasses ==
  /\ Limited /\ \E j \in Jobs : row[j].sentAt = "minute"
  /\ row' = [j \in Jobs |-> IF row[j].sentAt = "minute"
                            THEN [row[j] EXCEPT !.sentAt = "day"] ELSE row[j]]
  /\ UNCHANGED <<suppressed, heartbeat, pass, req, served, faults, claims, history>>

\* ... and later the calendar windows of the day and the month.
DayRolls ==
  /\ Limited /\ \E j \in Jobs : row[j].sentAt = "day"
  /\ row' = [j \in Jobs |-> IF row[j].sentAt = "day"
                            THEN [row[j] EXCEPT !.sentAt = "old"] ELSE row[j]]
  /\ UNCHANGED <<suppressed, heartbeat, pass, req, served, faults, claims, history>>

Next ==
  \/ \E p \in Passes : StartPass(p) \/ PassStep(p) \/ StatementFails(p) \/ AbortPass(p)
  \/ \E c \in Clients : RequestStep(c)
  \/ ArchiveOld \/ ResumePaused
  \/ \E r \in Recipients : Suppress(r)
  \/ \E j \in Jobs : BecomesDue(j) \/ WindowCloses(j) \/ LockAges(j)
  \/ HeartbeatAges \/ MinutePasses \/ DayRolls

Spec == Init /\ [][Next]_vars

\* The timer keeps starting passes and a live pass keeps running; schedules are
\* reached, locks without a live pass grow old, limit windows end.  Nothing is
\* assumed of requests, of the heartbeat's age or of faults.
FairSpec ==
  /\ Spec
  /\ \A p \in Passes : WF_vars(StartPass(p)) /\ WF_vars(PassStep(p))
  /\ \A j \in Jobs : WF_vars(BecomesDue(j)) /\ WF_vars(LockAges(j))
  /\ WF_vars(MinutePasses) /\ WF_vars(DayRolls)

-----------------------------------------------------------------------------
(* Properties *)

\* The program points at which a pass works on the job it claimed.
Working == {"reread", "check", "limit", "send", "write", "mates"}

\* Every variable has its type, and a pass has a job exactly while it works on one.
TypeOK ==
  /\ row \in [Jobs -> Row]
  /\ suppressed \subseteq Recipients
  /\ heartbeat \in BOOLEAN
  /\ pass \in [Passes -> Pass]
  /\ \A p \in Passes : pass[p].pc \in Working <=> pass[p].cur # NoJob
  /\ req \in [Clients -> Request]
  /\ served \in Nat /\ faults \in Nat
  /\ claims \in [Jobs -> Nat] /\ base \in [Jobs -> Nat]
  /\ calls \in [Jobs -> SUBSET Nat] /\ since \in [Jobs -> SUBSET Nat]
  /\ cutoff \in [Jobs -> Nat]

\* No pass outlives its lock and no request puts a claimed row back.
Disciplined == ~SlowSends /\ Ops \intersect {"refresh", "retry", "resume"} = {}

\* Overlapping passes and lock recovery never let two passes work on one job:
\* the claim of processQueueType and the guard of recoverStaleLocks exclude it.
ExclusiveProcessing ==
  Disciplined => \A p, q \in Passes : pass[p].cur = pass[q].cur /\ pass[p].cur # NoJob => p = q

\* A job waiting for the worker can still be claimed: its budget is not spent,
\* so buildDueEmailJobWhere and the attempts filter will pick it up.
NoStrandedJob ==
  Disciplined => \A j \in Jobs : row[j].status \in Due => row[j].attempts < MaxAttempts

\* Why the last two hold.  A held job is not up for claiming, a held lock is the
\* claim of its holder and does not age, ...
LockHeld ==
  \A p \in Passes, j \in Jobs : pass[p].cur = j =>
    /\ row[j].status \notin {"NONE", "QUEUED", "FAILED"}
    /\ row[j].status = "PROCESSING" => row[j].lockedAt = pass[p].mine /\ row[j].age = 0

\* ... what a pass is about to recover is an old lock or no longer the same lock, ...
ScanIsCurrent ==
  \A p \in Passes : pass[p].pc = "recover" => \A t \in pass[p].todo :
    /\ t.lockedAt <= claims[t.job]
    /\ row[t.job].status = "PROCESSING" /\ row[t.job].lockedAt = t.lockedAt =>
         row[t.job].age > 0 /\ row[t.job].attempts = t.attempts

\* ... and a holder's count of attempts is not behind the row's.
SnapIsCurrent ==
  \A p \in Passes : pass[p].pc \in Working \ {"reread"} =>
    row[pass[p].cur].attempts <= pass[p].snap

LocksInOrder == \A j \in Jobs : row[j].lockedAt <= claims[j]
RequestsInOps == \A c \in Clients : req[c].op \in Ops \union {"none"}

\* The inductive invariant of the claim protocol of a single-minded queue.
ClaimInv ==
  /\ RequestsInOps
  /\ LocksInOrder
  /\ Disciplined => LockHeld /\ ScanIsCurrent /\ SnapIsCurrent
  /\ ExclusiveProcessing
  /\ NoStrandedJob

\* Nor does a request cancel a job, which may have been sent since it was read.
Undisturbed == Disciplined /\ "cancel" \notin Ops

\* archiveJob and archiveOldJobs hide only rows the worker is done with.
ArchivedIsFinal ==
  Undisturbed => \A j \in Jobs : row[j].archived => row[j].status \in Final

\* Once SENT, a job is not sent, failed or cancelled again, however passes overlap;
\* only a bounce of the message makes it DEAD.
SentIsFinal ==
  [][Undisturbed => \A j \in Jobs :
       row[j].status = "SENT" => row'[j].status \in {"SENT", "DEAD"}]_vars

\* The life of a job in MailOutbox, which its row and its claims show.
OutboxState(status) ==
  CASE status = "NONE"                 -> "absent"
    [] status \in Due                  -> "waiting"
    [] status = "PROCESSING"           -> "taken"
    [] status = "PAUSED_LIMIT_REACHED" -> "paused"
    [] status = "SENT"                 -> "sent"
    [] OTHER                           -> "over"

outbox == [j \in Jobs |-> [state |-> OutboxState(row[j].status), attempts |-> row[j].attempts,
                           handed |-> claims[j] \in calls[j]]]

Outbox == INSTANCE MailOutbox

\* In an undisturbed queue, passes, crashes, recovery, bounces and archiving together do to
\* a job what the outbox says: a take hands the message over at most once, and SENT is
\* never a guess (mail.worker.ts:301-480).
ImplementsOutbox == Outbox!Spec

\* A bulk message whose recipient was suppressed before the job was claimed
\* never reaches the provider, on any attempt, retry or resumption.
SuppressedNeverMailed ==
  \A j \in BulkJobs : RecipientOf[j] \in suppressed => \A c \in calls[j] : c <= cutoff[j]

\* A request that resets a row may find passes at work on it, each with a claim made
\* before (mail.service.ts:628, 693): each of them may still call the provider once.
LateCalls(j) == IF base[j] = 0 THEN 0 ELSE Cardinality(Passes)

\* Since its last reset a job reaches the provider at most MaxAttempts times, and once
\* more for each pass that the reset may have found at work, whatever crashes, overlaps,
\* recovers stale locks or races with a request.  With sending limits, which give
\* attempts back, this is claimed as long as claims are timely and nobody resets a row.
SendBudget ==
  (~Limited \/ Disciplined) =>
    \A j \in Jobs : Cardinality(since[j]) <= MaxAttempts + LateCalls(j)

\* checkBeforeSend counts before the send: the passes in progress can overshoot
\* the daily limit, by fewer messages than there are passes.
LimitOvershoot ==
  (Limited /\ DayLimit > 0) => Cardinality(SentToday) <= DayLimit + Cardinality(Passes) - 1

\* Every queued job is sooner or later sent, given up, cancelled or paused,
\* through crashed passes, stale locks and backoff.
Unsettled == {"QUEUED", "PROCESSING", "FAILED"}
EveryJobSettles == \A j \in Jobs : row[j].status \in Unsettled ~> row[j].status \notin Unsettled

\* mail.service.ts:970: a job paused by rate limiting "will retry automatically
\* when the limit window clears".
PausedRetriesItself ==
  \A j \in Jobs : row[j].status = "PAUSED_LIMIT_REACHED" ~> row[j].status # "PAUSED_LIMIT_REACHED"
=============================================================================
