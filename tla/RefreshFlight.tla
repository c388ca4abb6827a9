--------------------------- MODULE RefreshFlight ---------------------------
(***************************************************************************)
(* How the browser keeps a login alive (src/app/lib/api/http.ts and        *)
(* authSession.ts, in production): the tabs share the refresh cookie, each *)
(* has an access token in memory and one refreshPromise, which the calls   *)
(* that were answered 401 await.  The server is AuthSessionService as      *)
(* AccountAccess details it: a refresh rotates the token of the cookie, a  *)
(* token that was rotated before makes it revoke every session, and an     *)
(* access token is good until it expires.                                  *)
(*                                                                         *)
(* Refresh tokens are numbered in the order of issue; an access token has  *)
(* the number of the refresh token issued with it.                         *)
(*                                                                         *)
(* The module has any number of tabs, but what it promises, SignedIn, is   *)
(* promised of one tab only: two tabs refresh with one cookie, neither     *)
(* knows of the other's refresh, and the second is taken for a theft.      *)
(***************************************************************************)
EXTENDS Naturals

CONSTANTS
  Tabs,
  Calls,       \* API calls that may be in progress at once
  TabOf,       \* [Calls -> Tabs]
  NoCall,
  MaxTokens,   \* bound on the tokens issued
  MaxTrouble   \* bound on refreshes that are lost, cut off or turned away

RefreshFlightAssumption ==
  /\ TabOf \in [Calls -> Tabs]
  /\ NoCall \notin Calls
  /\ MaxTokens \in Nat \ {0} /\ MaxTrouble \in Nat

VARIABLES
  issued,    \* refresh tokens issued so far
  live,      \* the one of a session that is not revoked, or 0
  valid,     \* access tokens that have not expired
  cookie,    \* the refresh token in the cookie, or 0
  memory,    \* memoryAccessToken of each tab, or 0
  promise,   \* refreshPromise of each tab: the call that began it
  call,      \* the API calls
  flight,    \* the refresh that a call began
  orphans,   \* refreshes the browser has given up and the server may still see
  trouble    \* history: refreshes so far that were given up or turned away

browserVars == <<issued, live, valid, cookie, memory, promise, call, flight, orphans, trouble>>

Tokens == 0 .. MaxTokens
Call == [pc: {"idle", "sent", "await", "again"}, token: Tokens, on: Calls \union {NoCall}]
IdleCall == [pc |-> "idle", token |-> 0, on |-> NoCall]
Flight == [pc: {"none", "sent", "rotated", "refused"}, token: Tokens]
NoFlight == [pc |-> "none", token |-> 0]

\* The user has logged in; a tab that was opened or reloaded since has no access token.
BrowserInit ==
  /\ issued = 1 /\ live = 1 /\ valid = {1} /\ cookie = 1
  /\ memory \in [Tabs -> {0, 1}]
  /\ promise = [t \in Tabs |-> NoCall]
  /\ call = [q \in Calls |-> IdleCall]
  /\ flight = [q \in Calls |-> NoFlight]
  /\ orphans = {}
  /\ trouble = 0

CallAt(q, pc) == call[q].pc = pc
Waiting(q) == {p \in Calls : CallAt(p, "await") /\ call[p].on = q}

-----------------------------------------------------------------------------
(* API calls *)

Send(q) ==
  /\ CallAt(q, "idle")
  /\ call' = [call EXCEPT ![q] = [IdleCall EXCEPT !.pc = "sent", !.token = memory[TabOf[q]]]]
  /\ UNCHANGED <<issued, live, valid, cookie, memory, promise, flight, orphans, trouble>>

\* An answer other than 401; or the 401 of a repeated call, which is final.
Answered(q) ==
  /\ \/ CallAt(q, "sent") /\ call[q].token \in valid
     \/ CallAt(q, "again")
  /\ call' = [call EXCEPT ![q] = IdleCall]
  /\ UNCHANGED <<issued, live, valid, cookie, memory, promise, flight, orphans, trouble>>

Denied(q) == CallAt(q, "sent") /\ call[q].token \notin valid

\* Mutant of BeginRefresh: without the single flight.
BeginRefreshAlways(q) ==
  /\ Denied(q)
  /\ promise' = [promise EXCEPT ![TabOf[q]] = q]
  /\ call' = [call EXCEPT ![q] = [@ EXCEPT !.pc = "await", !.on = q]]
  /\ flight' = [flight EXCEPT ![q] = [pc |-> "sent", token |-> cookie]]
  /\ UNCHANGED <<issued, live, valid, cookie, memory, orphans, trouble>>

\* tryRefreshToken: the first call that is denied begins a refresh ...
BeginRefresh(q) ==
  /\ Denied(q) /\ promise[TabOf[q]] = NoCall
  /\ promise' = [promise EXCEPT ![TabOf[q]] = q]
  /\ call' = [call EXCEPT ![q] = [@ EXCEPT !.pc = "await", !.on = q]]
  /\ flight' = [flight EXCEPT ![q] = [pc |-> "sent", token |-> cookie]]
  /\ UNCHANGED <<issued, live, valid, cookie, memory, orphans, trouble>>

\* ... and the others await it.
AwaitRefresh(q) ==
  /\ Denied(q) /\ promise[TabOf[q]] # NoCall
  /\ call' = [call EXCEPT ![q] = [@ EXCEPT !.pc = "await", !.on = promise[TabOf[q]]]]
  /\ UNCHANGED <<issued, live, valid, cookie, memory, promise, flight, orphans, trouble>>

-----------------------------------------------------------------------------
(* The server *)

\* A refresh with token k: rotate, or find that k was rotated before, or only refuse.
Rotate(k) ==
  /\ k = live /\ k # 0 /\ issued < MaxTokens
  /\ issued' = issued + 1 /\ live' = issued' /\ valid' = valid \union {issued'}

Refuse(k) ==
  /\ k # live \/ k = 0
  /\ live' = IF k \in 1 .. (issued - 1) THEN 0 ELSE live
  /\ UNCHANGED <<issued, valid>>

ServerRotates(q) ==
  /\ flight[q].pc = "sent" /\ Rotate(flight[q].token)
  /\ flight' = [flight EXCEPT ![q] = [pc |-> "rotated", token |-> issued']]
  /\ UNCHANGED <<cookie, memory, promise, call, orphans, trouble>>

ServerRefuses(q) ==
  /\ flight[q].pc = "sent" /\ Refuse(flight[q].token)
  /\ flight' = [flight EXCEPT ![q].pc = "refused"]
  /\ UNCHANGED <<cookie, memory, promise, call, orphans, trouble>>

\* The rate limit, or an error of the server.
ServerTurnsAway(q) ==
  /\ flight[q].pc = "sent" /\ trouble < MaxTrouble
  /\ flight' = [flight EXCEPT ![q].pc = "refused"]
  /\ trouble' = trouble + 1
  /\ UNCHANGED <<issued, live, valid, cookie, memory, promise, call, orphans>>

ServerSeesOrphan(k) ==
  /\ k \in orphans
  /\ Rotate(k) \/ Refuse(k)
  /\ orphans' = orphans \ {k}
  /\ UNCHANGED <<cookie, memory, promise, call, flight, trouble>>

AccessExpires(n) ==
  /\ n \in valid
  /\ valid' = valid \ {n}
  /\ UNCHANGED <<issued, live, cookie, memory, promise, call, flight, orphans, trouble>>

-----------------------------------------------------------------------------
(* The end of a refresh *)

Settle(q) ==
  /\ promise' = [promise EXCEPT ![TabOf[q]] = NoCall]
  /\ flight' = [flight EXCEPT ![q] = NoFlight]

\* The cookie and the tab have the new tokens, and those who waited call again.
RefreshArrives(q) ==
  LET new == flight[q].token
  IN /\ flight[q].pc = "rotated"
     /\ cookie' = new /\ memory' = [memory EXCEPT ![TabOf[q]] = new]
     /\ call' = [p \in Calls |-> IF p \in Waiting(q)
                                 THEN [IdleCall EXCEPT !.pc = "again", !.token = new] ELSE call[p]]
     /\ Settle(q)
     /\ UNCHANGED <<issued, live, valid, orphans, trouble>>

\* Mutant of RefusalArrives: only the call that began the refresh fails.
RefusalArrivesAlone(q) ==
  /\ flight[q].pc = "refused"
  /\ memory' = [memory EXCEPT ![TabOf[q]] = 0]
  /\ call' = [call EXCEPT ![q] = IdleCall]
  /\ Settle(q)
  /\ UNCHANGED <<issued, live, valid, cookie, orphans, trouble>>

\* Any other answer clears the session of the tab; those who waited fail.
RefusalArrives(q) ==
  /\ flight[q].pc = "refused"
  /\ memory' = [memory EXCEPT ![TabOf[q]] = 0]
  /\ call' = [p \in Calls |-> IF p \in Waiting(q) THEN IdleCall ELSE call[p]]
  /\ Settle(q)
  /\ UNCHANGED <<issued, live, valid, cookie, orphans, trouble>>

\* The timeout or a broken connection: the browser will not see the answer, the
\* server may still see the request.
RefreshGivenUp(q) ==
  /\ flight[q].pc # "none" /\ trouble < MaxTrouble
  /\ orphans' = IF flight[q].pc = "sent" THEN orphans \union {flight[q].token} ELSE orphans
  /\ call' = [p \in Calls |-> IF p \in Waiting(q) THEN IdleCall ELSE call[p]]
  /\ Settle(q)
  /\ trouble' = trouble + 1
  /\ UNCHANGED <<issued, live, valid, cookie, memory>>

\* A tab whose refresh is not in progress is reloaded.
Reload(t) ==
  /\ promise[t] = NoCall
  /\ memory' = [memory EXCEPT ![t] = 0]
  /\ call' = [q \in Calls |-> IF TabOf[q] = t THEN IdleCall ELSE call[q]]
  /\ UNCHANGED <<issued, live, valid, cookie, promise, flight, orphans, trouble>>

-----------------------------------------------------------------------------
CallStep(q) == Send(q) \/ Answered(q) \/ BeginRefresh(q) \/ AwaitRefresh(q)
FlightStep(q) ==
  \/ ServerRotates(q) \/ ServerRefuses(q) \/ ServerTurnsAway(q)
  \/ RefreshArrives(q) \/ RefusalArrives(q) \/ RefreshGivenUp(q)

BrowserNext ==
  \/ \E q \in Calls : CallStep(q) \/ FlightStep(q)
  \/ \E k \in Tokens : ServerSeesOrphan(k) \/ AccessExpires(k)
  \/ \E t \in Tabs : Reload(t)

BrowserSpec == BrowserInit /\ [][BrowserNext]_browserVars

-----------------------------------------------------------------------------
(* A call that waits does so for a refresh in flight, which its tab awaits.  *)
BrowserTypeOK ==
  /\ issued \in 1 .. MaxTokens /\ live \in {0, issued}
  /\ valid \subseteq 1 .. issued /\ cookie \in Tokens
  /\ memory \in [Tabs -> Tokens]
  /\ promise \in [Tabs -> Calls \union {NoCall}]
  /\ call \in [Calls -> Call]
  /\ flight \in [Calls -> Flight]
  /\ orphans \subseteq Tokens
  /\ trouble \in 0 .. MaxTrouble
  /\ \A q \in Calls : CallAt(q, "await") => flight[call[q].on].pc # "none"

(* SECURITY_NOTES.md: simultaneous 401 responses do not trigger the reuse    *)
(* revocation.  However many calls are denied, tokens expire and pages are   *)
(* reloaded, as long as every refresh is answered the login stays alive, and *)
(* between refreshes the cookie holds its token.                             *)
SignedIn ==
  trouble = 0 =>
    /\ live = issued
    /\ (\A q \in Calls : flight[q].pc = "none") => cookie = live
=============================================================================
