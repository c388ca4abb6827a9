---------------------------- MODULE LoginTokens ----------------------------
(***************************************************************************)
(* What the sessions promise of every login, each change one step: it      *)
(* begins with one refresh token, a refresh exchanges that token for one   *)
(* that was never handed out, and once it has ended no token is its own    *)
(* again.  AccountAccess shows how concurrent refreshes, revocations and   *)
(* changes of the account keep this; RefreshFlight follows one login in    *)
(* the browser.                                                            *)
(***************************************************************************)

CONSTANT Tokens    \* ids of AuthSession rows, which their tokens name

VARIABLES
  valid,       \* the tokens of each login that work; a login has its first one's name
  handedOut    \* the tokens handed out so far

Init ==
  /\ valid = [l \in Tokens |-> {}]
  /\ handedOut = {}

Fresh(t) == t \notin handedOut /\ handedOut' = handedOut \union {t}

Open(l) ==
  /\ Fresh(l) /\ valid[l] = {}
  /\ valid' = [valid EXCEPT ![l] = {l}]

Exchange(l, new) ==
  /\ \E old \in Tokens : valid[l] = {old}
  /\ Fresh(new)
  /\ valid' = [valid EXCEPT ![l] = {new}]

\* Logins end: a logout, an expiry, a replay, a new password or a deactivation.
EndSome ==
  /\ handedOut' = handedOut
  /\ valid' \in [Tokens -> SUBSET Tokens]
  /\ \A l \in Tokens : valid'[l] \in {valid[l], {}}

Next ==
  \/ EndSome
  \/ \E l \in Tokens : Open(l)
  \/ \E l, new \in Tokens : Exchange(l, new)

Spec == Init /\ [][Next]_<<valid, handedOut>>
=============================================================================
