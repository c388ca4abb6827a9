---------------------------- MODULE AuthThrottle ----------------------------
(***************************************************************************)
(* How logins are slowed down (auth/auth-throttle.service.ts, called by    *)
(* auth.service.ts): the AuthRateLimit row of one action and key, which    *)
(* requests read before they compare the password and change after it.     *)
(* Rows of other keys are never touched.  Each database statement is one   *)
(* step.                                                                   *)
(***************************************************************************)
EXTENDS Naturals, FiniteSets

CONSTANTS
  Logins,       \* login requests that may be in progress at once
  Limit,        \* attempts that block: AUTH_LOGIN_MAX_ATTEMPTS
  MaxDeaths     \* bound on requests that die

AuthThrottleAssumption ==
  /\ IsFiniteSet(Logins)
  /\ Limit \in Nat \ {0}
  /\ MaxDeaths \in Nat

VARIABLES
  row,      \* the AuthRateLimit row; 0 attempts: there is none
  pc,       \* how far each request is
  tries,    \* history: wrong passwords compared since the row was last deleted
  deaths    \* history: requests that died

throttleVars == <<row, pc, tries, deaths>>

Row == [attempts: Nat,
        old: BOOLEAN,         \* firstAttemptAt + windowMs has passed
        blocked: BOOLEAN]     \* blockedUntil lies ahead
NoRow == [attempts |-> 0, old |-> FALSE, blocked |-> FALSE]
RowExists == row.attempts > 0

ThrottleInit ==
  /\ row = NoRow
  /\ pc = [c \in Logins |-> "idle"]
  /\ tries = 0
  /\ deaths = 0

LoginAt(c, here) == pc[c] = here
LoginGoto(c, there) == pc' = [pc EXCEPT ![c] = there]

\* Deleting the row starts a new count.
Delete == row' = NoRow /\ tries' = 0

\* assertNotBlocked reads the row.  A block makes the request fail ...
CheckReads(c) ==
  /\ LoginAt(c, "idle") /\ ~row.blocked
  /\ LoginGoto(c, IF RowExists /\ row.old THEN "clear" ELSE "compare")
  /\ UNCHANGED <<row, tries, deaths>>

\* ... and a window that has passed is deleted, by a delete that throws if another
\* request was faster.
CheckClears(c) ==
  /\ LoginAt(c, "clear")
  /\ IF RowExists THEN Delete /\ LoginGoto(c, "compare")
     ELSE LoginGoto(c, "idle") /\ UNCHANGED <<row, tries>>
  /\ UNCHANGED deaths

CompareWrong(c) ==
  /\ LoginAt(c, "compare")
  /\ tries' = tries + 1
  /\ LoginGoto(c, "expire")
  /\ UNCHANGED <<row, deaths>>

\* The right password of an account that is not ACTIVE is counted as a failure too.
CompareRight(c) ==
  /\ LoginAt(c, "compare")
  /\ LoginGoto(c, "reset") \/ LoginGoto(c, "expire")
  /\ UNCHANGED <<row, tries, deaths>>

Reset(c) ==
  /\ LoginAt(c, "reset")
  /\ Delete
  /\ LoginGoto(c, "idle")
  /\ UNCHANGED deaths

\* recordFailure deletes a row whose window has passed, blocked or not, ...
FailureExpires(c) ==
  /\ LoginAt(c, "expire")
  /\ IF row.old THEN Delete ELSE UNCHANGED <<row, tries>>
  /\ LoginGoto(c, "count")
  /\ UNCHANGED deaths

\* Mutant of FailureCounts: blocks at the limit only.
FailureCountsExactly(c) ==
  /\ LoginAt(c, "count")
  /\ row' = [row EXCEPT !.attempts = @ + 1]
  /\ LoginGoto(c, IF row.attempts + 1 > Limit THEN "block" ELSE "idle")
  /\ UNCHANGED <<tries, deaths>>

\* ... counts in one statement ...
FailureCounts(c) ==
  /\ LoginAt(c, "count")
  /\ row' = [row EXCEPT !.attempts = @ + 1]
  /\ LoginGoto(c, IF row.attempts + 1 >= Limit THEN "block" ELSE "idle")
  /\ UNCHANGED <<tries, deaths>>

\* ... and blocks in another, which throws if the row has gone.
FailureBlocks(c) ==
  /\ LoginAt(c, "block")
  /\ row' = IF RowExists THEN [row EXCEPT !.blocked = TRUE] ELSE row
  /\ LoginGoto(c, "idle")
  /\ UNCHANGED <<tries, deaths>>

RequestDies(c) ==
  /\ ~LoginAt(c, "idle") /\ deaths < MaxDeaths
  /\ deaths' = deaths + 1
  /\ LoginGoto(c, "idle")
  /\ UNCHANGED <<row, tries>>

WindowPasses ==
  /\ RowExists /\ ~row.old
  /\ row' = [row EXCEPT !.old = TRUE]
  /\ UNCHANGED <<pc, tries, deaths>>

\* As configured, a block lasts at least as long as the window that led to it.
BlockPasses ==
  /\ row.blocked /\ row.old
  /\ row' = [row EXCEPT !.blocked = FALSE]
  /\ UNCHANGED <<pc, tries, deaths>>

Login(c) ==
  \/ CheckReads(c) \/ CheckClears(c) \/ CompareWrong(c) \/ CompareRight(c) \/ Reset(c)
  \/ FailureExpires(c) \/ FailureCounts(c) \/ FailureBlocks(c) \/ RequestDies(c)

ThrottleNext == (\E c \in Logins : Login(c)) \/ WindowPasses \/ BlockPasses

ThrottleSpec == ThrottleInit /\ [][ThrottleNext]_throttleVars

-----------------------------------------------------------------------------
(* A row that is blocked or old is there.                                    *)
ThrottleTypeOK ==
  /\ row \in Row
  /\ pc \in [Logins -> {"idle", "clear", "compare", "reset", "expire", "count", "block"}]
  /\ tries \in Nat
  /\ deaths \in 0 .. MaxDeaths
  /\ row.old \/ row.blocked => RowExists

(* The password is checked before the failure is counted, and the count      *)
(* before the block is written.  Even so, concurrent requests compare at     *)
(* most one wrong password each beyond the limit, and one more for every     *)
(* request that dies before it has written.                                  *)
GuessBound == tries <= (Limit - 1) + Cardinality(Logins) + deaths
=============================================================================
