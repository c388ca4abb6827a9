---------------------------- MODULE MailOutbox ----------------------------
(***************************************************************************)
(* What the mail queue promises of every job, each change one step: a job  *)
(* is taken a bounded number of times, each take hands its message to the  *)
(* provider at most once, and only a take that did so ends as sent.  The   *)
(* jobs are independent.  MailQueue shows how passes, claims, stale locks  *)
(* and requests keep this.                                                 *)
(***************************************************************************)
EXTENDS Naturals

CONSTANTS
  Jobs,
  MaxAttempts

VARIABLE outbox

States == {"absent", "waiting", "taken", "paused", "sent", "over"}
Job == [state : States, attempts : Nat, handed : BOOLEAN]
Entry(state, attempts, handed) ==
  [state |-> state, attempts |-> attempts, handed |-> handed]
Absent == Entry("absent", 0, FALSE)

Init == outbox = [j \in Jobs |-> Absent]

In(j, state) == outbox[j].state = state
Becomes(j, state) == outbox'[j] = Entry(state, outbox[j].attempts, outbox[j].handed)
HasAttempts(j) == outbox[j].attempts < MaxAttempts

Accept(j) == In(j, "absent") /\ Becomes(j, "waiting")

TakeUp(j) ==
  /\ In(j, "waiting") /\ HasAttempts(j)
  /\ outbox'[j] = Entry("taken", outbox[j].attempts + 1, FALSE)

\* The message goes to the provider, whatever the answer.
HandOver(j) ==
  /\ In(j, "taken") /\ ~outbox[j].handed
  /\ outbox'[j] = Entry("taken", outbox[j].attempts, TRUE)

Sent(j) ==
  /\ In(j, "taken") /\ outbox[j].handed
  /\ Becomes(j, "sent")

\* The take failed, or whoever took the job is gone.
Return(j) ==
  /\ In(j, "taken") /\ HasAttempts(j)
  /\ Becomes(j, "waiting")

GiveUp(j) == In(j, "taken") /\ Becomes(j, "over")

\* A send limit is reached: the take is undone, and the rest of the batch paused.
Pause(j) ==
  /\ In(j, "taken") /\ ~outbox[j].handed
  /\ outbox'[j] = Entry("paused", outbox[j].attempts - 1, FALSE)

PauseRest(j) == In(j, "waiting") /\ Becomes(j, "paused")

\* ... which fails, and counts as a failure of the job that was paused first.
PauseBreaks(j) ==
  /\ In(j, "paused")
  /\ \/ HasAttempts(j) /\ Becomes(j, "waiting")
     \/ Becomes(j, "over")

Bounce(j) == In(j, "sent") /\ Becomes(j, "over")

Step(j) ==
  \/ Accept(j) \/ TakeUp(j) \/ HandOver(j) \/ Sent(j) \/ Return(j) \/ GiveUp(j)
  \/ Pause(j) \/ PauseRest(j) \/ PauseBreaks(j) \/ Bounce(j)

Next ==
  /\ outbox' \in [Jobs -> Job]
  /\ \A j \in Jobs : outbox'[j] = outbox[j] \/ Step(j)

Spec == Init /\ [][Next]_outbox
=============================================================================
