------------------------- MODULE RefreshFlightProofs -------------------------
(***************************************************************************)
(* Proofs about RefreshFlight, for any number of API calls in progress: a  *)
(* call that waits has a refresh to wait for, and a browser with one tab   *)
(* stays signed in as long as its refreshes are answered.  With two tabs   *)
(* it does not: each of them refreshes with the same cookie.  The server   *)
(* it meets keeps the promise of LoginTokens, as AccountAccess does.       *)
(***************************************************************************)
EXTENDS RefreshFlight, TLAPS

OneTab == \A s, t \in Tabs : s = t

Flying(q) == flight[q].pc # "none"

\* A tab awaits the only refresh that one of its calls has in flight.
SingleFlight ==
  /\ \A q \in Calls : Flying(q) => promise[TabOf[q]] = q
  /\ \A t \in Tabs : promise[t] # NoCall => Flying(promise[t]) /\ TabOf[promise[t]] = t

\* While every refresh has been answered, the session of the cookie lives, and the
\* refresh in flight has its token or the one that replaced it.
Alive ==
  trouble = 0 =>
    /\ orphans = {} /\ live = issued
    /\ (\A q \in Calls : ~Flying(q)) => cookie = live
    /\ \A q \in Calls : /\ flight[q].pc # "refused"
                        /\ flight[q].pc = "sent" => flight[q].token = live
                        /\ flight[q].pc = "rotated" => flight[q].token = live

Calling ==
  /\ call \in [Calls -> Call]
  /\ \A q \in Calls : CallAt(q, "await") => call[q].on \in Calls /\ flight[call[q].on].pc # "none"

Numbers ==
  /\ issued \in 1 .. MaxTokens /\ live \in {0, issued}
  /\ valid \subseteq 1 .. issued /\ cookie \in Tokens
  /\ memory \in [Tabs -> Tokens]
  /\ orphans \subseteq Tokens
  /\ trouble \in 0 .. MaxTrouble

Flights ==
  /\ promise \in [Tabs -> Calls \union {NoCall}]
  /\ flight \in [Calls -> Flight]

IInv == Numbers /\ Flights /\ Calling /\ SingleFlight

LEMMA InvIsType ==
  ASSUME IInv
  PROVE  BrowserTypeOK
BY DEF IInv, Numbers, Flights, Calling, Flying, BrowserTypeOK

LEMMA InitInv ==
  ASSUME RefreshFlightAssumption, BrowserInit
  PROVE  IInv /\ Alive
<1>1. IdleCall \in Call /\ IdleCall.pc = "idle" /\ NoFlight \in Flight /\ NoFlight.pc = "none"
  BY DEF RefreshFlightAssumption, IdleCall, Call, NoFlight, Flight, Tokens
<1>2. Numbers
  BY DEF RefreshFlightAssumption, BrowserInit, Numbers, Tokens
<1>3. Flights /\ Calling
  BY <1>1 DEF BrowserInit, Flights, Calling, CallAt
<1>4. SingleFlight /\ Alive
  BY <1>1 DEF BrowserInit, SingleFlight, Flying, Alive
<1> QED
  BY <1>2, <1>3, <1>4 DEF IInv

-----------------------------------------------------------------------------
(* Calls *)

\* Calls of which each goes on as it was, or does not wait, or waits for a flight.
LEMMA CallingStep ==
  ASSUME Calling, call' \in [Calls -> Call],
         \A p \in Calls : flight[p].pc # "none" => flight'[p].pc # "none",
         \A p \in Calls : \/ call'[p] = call[p]
                          \/ call'[p].pc # "await"
                          \/ call'[p].on \in Calls /\ flight'[call'[p].on].pc # "none"
  PROVE  Calling'
BY DEF Calling, CallAt

\* With one tab and no refresh awaited, nothing is in flight.
LEMMA NothingFlies ==
  ASSUME RefreshFlightAssumption, OneTab, SingleFlight, NEW q \in Calls, promise[TabOf[q]] = NoCall
  PROVE  \A p \in Calls : ~Flying(p)
BY DEF RefreshFlightAssumption, OneTab, SingleFlight

LEMMA CallStepInv ==
  ASSUME RefreshFlightAssumption, IInv, NEW q \in Calls, CallStep(q)
  PROVE  IInv' /\ (OneTab /\ Alive => Alive')
<1>1. /\ Numbers /\ Flights /\ Calling /\ SingleFlight
      /\ call[q] \in Call /\ call \in [Calls -> Call] /\ TabOf[q] \in Tabs
  BY DEF IInv, Calling, RefreshFlightAssumption
<1>2. UNCHANGED <<issued, live, valid, cookie, memory, orphans, trouble>>
  BY DEF CallStep, Send, Answered, BeginRefresh, AwaitRefresh
<1>3. Numbers'
  BY <1>1, <1>2 DEF Numbers
<1>4. IdleCall \in Call /\ IdleCall.pc = "idle"
  BY DEF IdleCall, Call, Tokens, RefreshFlightAssumption
<1>5. CASE Send(q) \/ Answered(q)
  <2>1. UNCHANGED <<promise, flight>>
    BY <1>5 DEF Send, Answered
  <2>2. PICK r \in Call : r.pc # "await" /\ call' = [call EXCEPT ![q] = r]
    <3>1. CASE Send(q)
      <4>1. memory[TabOf[q]] \in Tokens
        BY <1>1 DEF Numbers
      <4>2. [IdleCall EXCEPT !.pc = "sent", !.token = memory[TabOf[q]]] \in Call
            /\ [IdleCall EXCEPT !.pc = "sent", !.token = memory[TabOf[q]]].pc = "sent"
        BY <1>4, <4>1 DEF Call
      <4> QED
        BY <3>1, <4>2 DEF Send
    <3>2. CASE Answered(q)
      BY <1>4, <3>2 DEF Answered
    <3> QED
      BY <1>5, <3>1, <3>2
  <2>3. Calling'
    BY <1>1, <2>1, <2>2, CallingStep
  <2> QED
    BY <1>1, <1>2, <1>3, <2>1, <2>3 DEF IInv, Flights, SingleFlight, Flying, Alive
<1>6. ASSUME NEW o \in Calls, call' = [call EXCEPT ![q] = [@ EXCEPT !.pc = "await", !.on = o]]
      PROVE  /\ call' \in [Calls -> Call] /\ call'[q].on = o
             /\ \A p \in Calls \ {q} : call'[p] = call[p]
  <2> DEFINE r == [call[q] EXCEPT !.pc = "await", !.on = o]
  <2>1. r \in Call /\ r.on = o
    BY <1>1 DEF Call
  <2>2. call' = [call EXCEPT ![q] = r]
    BY <1>6
  <2> HIDE DEF r
  <2> QED
    BY <1>1, <2>1, <2>2
<1>7. CASE BeginRefresh(q)
  <2>1. /\ promise[TabOf[q]] = NoCall /\ promise' = [promise EXCEPT ![TabOf[q]] = q]
        /\ flight' = [flight EXCEPT ![q] = [pc |-> "sent", token |-> cookie]]
        /\ call' = [call EXCEPT ![q] = [@ EXCEPT !.pc = "await", !.on = q]]
    BY <1>7 DEF BeginRefresh
  <2>2. cookie \in Tokens /\ q # NoCall
    BY <1>1 DEF Numbers, RefreshFlightAssumption
  <2>3. /\ promise' \in [Tabs -> Calls \union {NoCall}] /\ promise'[TabOf[q]] = q
        /\ \A t \in Tabs \ {TabOf[q]} : promise'[t] = promise[t]
        /\ flight' \in [Calls -> Flight]
        /\ flight'[q].pc = "sent" /\ flight'[q].token = cookie
        /\ \A p \in Calls \ {q} : flight'[p] = flight[p]
    BY <1>1, <2>1, <2>2 DEF Flights, Flight
  <2>4. Calling'
    BY <1>1, <1>6, <2>1, <2>3, CallingStep
  <2>5. \A p \in Calls : TabOf[p] = TabOf[q] => ~Flying(p)
    BY <1>1, <2>1, <2>2 DEF SingleFlight, RefreshFlightAssumption
  <2>6. SingleFlight'
    <3>1. \A p \in Calls : TabOf[p] \in Tabs
      BY DEF RefreshFlightAssumption
    <3>2. \A p \in Calls : flight'[p].pc # "none" => promise'[TabOf[p]] = p
      BY <1>1, <2>3, <2>5, <3>1 DEF SingleFlight, Flying
    <3>3. ASSUME NEW t \in Tabs, promise'[t] # NoCall
          PROVE  flight'[promise'[t]].pc # "none" /\ TabOf[promise'[t]] = t
      <4>1. CASE t = TabOf[q]
        BY <2>3, <4>1
      <4>2. CASE t # TabOf[q]
        <5>1. /\ promise[t] \in Calls /\ promise'[t] = promise[t]
              /\ flight[promise[t]].pc # "none" /\ TabOf[promise[t]] = t
          BY <1>1, <2>3, <3>3, <4>2 DEF SingleFlight, Flights, Flying
        <5> QED
          BY <2>3, <5>1
      <4> QED
        BY <4>1, <4>2
    <3> QED
      BY <3>2, <3>3 DEF SingleFlight, Flying
  <2>7. OneTab /\ Alive => Alive'
    <3> SUFFICES ASSUME OneTab, Alive, trouble = 0 PROVE Alive'
      BY <1>2 DEF Alive
    <3>1. \A p \in Calls : ~Flying(p)
      BY <1>1, <2>1, NothingFlies
    <3>2. cookie = live
      BY <3>1 DEF Alive
    <3> QED
      BY <1>2, <2>3, <3>1, <3>2 DEF Alive, Flying
  <2> QED
    BY <1>3, <2>3, <2>4, <2>6, <2>7 DEF IInv, Flights
<1>8. CASE AwaitRefresh(q)
  <2> DEFINE o == promise[TabOf[q]]
  <2>1. UNCHANGED <<promise, flight>> /\ o # NoCall
        /\ call' = [call EXCEPT ![q] = [@ EXCEPT !.pc = "await", !.on = o]]
    BY <1>8 DEF AwaitRefresh
  <2>2. o \in Calls /\ flight[o].pc # "none"
    BY <1>1, <2>1 DEF Flights, SingleFlight, Flying
  <2> HIDE DEF o
  <2>3. Calling'
    BY <1>1, <1>6, <2>1, <2>2, CallingStep
  <2> QED
    BY <1>1, <1>2, <1>3, <2>1, <2>3 DEF IInv, Flights, SingleFlight, Flying, Alive
<1> QED
  BY <1>5, <1>7, <1>8 DEF CallStep

-----------------------------------------------------------------------------
(* The server *)

\* A refresh in flight changes, and stays in flight.
LEMMA StillFlies ==
  ASSUME IInv, NEW q \in Calls, Flying(q), UNCHANGED <<promise, call>>,
         NEW f \in Flight, f.pc # "none", flight' = [flight EXCEPT ![q] = f]
  PROVE  /\ Flights' /\ Calling' /\ SingleFlight'
         /\ flight'[q] = f /\ \A p \in Calls \ {q} : flight'[p] = flight[p]
<1>1. /\ flight' \in [Calls -> Flight] /\ flight'[q] = f
      /\ \A p \in Calls \ {q} : flight'[p] = flight[p]
      /\ \A p \in Calls : flight'[p].pc # "none" <=> flight[p].pc # "none"
  BY DEF IInv, Flights, Flying
<1>2. Calling'
  BY <1>1, CallingStep DEF IInv, Calling
<1>3. SingleFlight'
  BY <1>1 DEF IInv, SingleFlight, Flights, Flying
<1> QED
  BY <1>1, <1>2, <1>3 DEF IInv, Flights

\* With one tab, a refresh in flight is the only one.
LEMMA FliesAlone ==
  ASSUME RefreshFlightAssumption, OneTab, SingleFlight, NEW q \in Calls, Flying(q)
  PROVE  \A p \in Calls \ {q} : ~Flying(p)
BY DEF RefreshFlightAssumption, OneTab, SingleFlight

LEMMA ServerStepInv ==
  ASSUME RefreshFlightAssumption, IInv, NEW q \in Calls,
         ServerRotates(q) \/ ServerRefuses(q) \/ ServerTurnsAway(q)
  PROVE  IInv' /\ (OneTab /\ Alive => Alive')
<1>1. /\ Numbers /\ SingleFlight /\ MaxTokens \in Nat /\ MaxTrouble \in Nat
      /\ flight[q] \in Flight /\ flight[q].pc = "sent" /\ Flying(q)
      /\ UNCHANGED <<cookie, memory, promise, call, orphans>>
  BY DEF IInv, Flights, Flying, RefreshFlightAssumption, ServerRotates, ServerRefuses, ServerTurnsAway
<1>2. CASE ServerRotates(q)
  <2> DEFINE f == [pc |-> "rotated", token |-> issued']
  <2>1. /\ issued' = issued + 1 /\ live' = issued' /\ valid' = valid \union {issued'}
        /\ issued < MaxTokens /\ flight' = [flight EXCEPT ![q] = f] /\ trouble' = trouble
    BY <1>2 DEF ServerRotates, Rotate
  <2>2. issued' \in 1 .. MaxTokens /\ valid' \subseteq 1 .. issued' /\ issued' \in Tokens
    BY <1>1, <2>1 DEF Numbers, Tokens
  <2>3. f \in Flight /\ f.pc = "rotated" /\ f.token = live'
    BY <2>1, <2>2 DEF Flight
  <2> HIDE DEF f
  <2>4. /\ Flights' /\ Calling' /\ SingleFlight'
        /\ flight'[q] = f /\ \A p \in Calls \ {q} : flight'[p] = flight[p]
    BY <1>1, <2>1, <2>3, StillFlies
  <2>5. Numbers'
    BY <1>1, <2>1, <2>2 DEF Numbers
  <2>6. OneTab /\ Alive => Alive'
    <3> SUFFICES ASSUME OneTab, Alive, trouble = 0 PROVE Alive'
      BY <2>1 DEF Alive
    <3>1. \A p \in Calls \ {q} : flight'[p].pc = "none"
      BY <1>1, <2>4, FliesAlone DEF Flying
    <3> QED
      BY <1>1, <2>1, <2>3, <2>4, <3>1 DEF Alive, Flying
  <2> QED
    BY <2>4, <2>5, <2>6 DEF IInv
<1>3. CASE ServerRefuses(q) \/ ServerTurnsAway(q)
  <2> DEFINE f == [flight[q] EXCEPT !.pc = "refused"]
  <2>1. f \in Flight /\ f.pc = "refused" /\ flight' = [flight EXCEPT ![q] = f]
    <3>1. f \in Flight /\ f.pc = "refused"
      BY <1>1 DEF Flight
    <3>2. flight' = [flight EXCEPT ![q] = f]
      BY <1>3 DEF ServerRefuses, ServerTurnsAway
    <3> QED
      BY <3>1, <3>2
  <2> HIDE DEF f
  <2>2. Flights' /\ Calling' /\ SingleFlight'
    BY <1>1, <2>1, StillFlies
  <2>3. Numbers'
    BY <1>1, <1>3 DEF ServerRefuses, ServerTurnsAway, Refuse, Numbers
  <2>4. OneTab /\ Alive => Alive'
    <3>1. CASE ServerTurnsAway(q)
      <4>1. trouble' # 0
        BY <1>1, <3>1 DEF ServerTurnsAway, Numbers
      <4> QED
        BY <4>1 DEF Alive
    <3>2. CASE ServerRefuses(q)
      <4>1. trouble' = trouble /\ (flight[q].token # live \/ flight[q].token = 0)
        BY <3>2 DEF ServerRefuses, Refuse
      <4>2. ~(Alive /\ trouble = 0)
        BY <1>1, <4>1 DEF Alive, Numbers
      <4> QED
        BY <4>1, <4>2 DEF Alive
    <3> QED
      BY <1>3, <3>1, <3>2
  <2> QED
    BY <2>2, <2>3, <2>4 DEF IInv
<1> QED
  BY <1>2, <1>3

\* The server sees what the browser has given up, or an access token expires.
LEMMA TokenStepInv ==
  ASSUME RefreshFlightAssumption, IInv, NEW k \in Tokens, ServerSeesOrphan(k) \/ AccessExpires(k)
  PROVE  IInv' /\ (Alive => Alive')
<1>1. Numbers /\ MaxTokens \in Nat /\ UNCHANGED <<cookie, memory, promise, call, flight, trouble>>
  BY DEF IInv, RefreshFlightAssumption, ServerSeesOrphan, AccessExpires
<1>2. Flights' /\ Calling' /\ SingleFlight'
  BY <1>1 DEF IInv, Flights, Calling, CallAt, SingleFlight, Flying
<1>3. CASE AccessExpires(k)
  BY <1>1, <1>2, <1>3 DEF AccessExpires, IInv, Numbers, Alive, Flying
<1>4. CASE ServerSeesOrphan(k)
  <2>1. Numbers'
    <3>1. CASE Rotate(k)
      <4>1. issued' = issued + 1 /\ live' = issued' /\ valid' = valid \union {issued'}
            /\ issued < MaxTokens /\ orphans' = orphans \ {k}
        BY <1>4, <3>1 DEF ServerSeesOrphan, Rotate
      <4>2. issued' \in 1 .. MaxTokens /\ valid' \subseteq 1 .. issued'
        BY <1>1, <4>1 DEF Numbers
      <4> QED
        BY <1>1, <4>1, <4>2 DEF Numbers
    <3>2. CASE Refuse(k)
      BY <1>1, <1>4, <3>2 DEF ServerSeesOrphan, Refuse, Numbers
    <3> QED
      BY <1>4, <3>1, <3>2 DEF ServerSeesOrphan
  <2>2. Alive => trouble # 0
    BY <1>4 DEF ServerSeesOrphan, Alive
  <2> QED
    BY <1>1, <1>2, <2>1, <2>2 DEF IInv, Alive
<1> QED
  BY <1>3, <1>4

-----------------------------------------------------------------------------
(* The end of a refresh *)

\* A flight ends: its tab awaits nothing, and neither does any call.
LEMMA SettleInv ==
  ASSUME RefreshFlightAssumption, IInv, NEW q \in Calls, Flying(q), Settle(q),
         NEW r \in Call, r.pc # "await",
         call' = [p \in Calls |-> IF p \in Waiting(q) THEN r ELSE call[p]]
  PROVE  /\ Flights' /\ Calling' /\ SingleFlight'
         /\ flight'[q].pc = "none" /\ \A p \in Calls \ {q} : flight'[p] = flight[p]
<1>1. NoFlight \in Flight /\ NoFlight.pc = "none" /\ TabOf \in [Calls -> Tabs]
  BY DEF RefreshFlightAssumption, NoFlight, Flight, Tokens
<1>2. /\ flight' \in [Calls -> Flight] /\ flight'[q].pc = "none"
      /\ \A p \in Calls \ {q} : flight'[p] = flight[p]
      /\ promise' \in [Tabs -> Calls \union {NoCall}] /\ promise'[TabOf[q]] = NoCall
      /\ \A t \in Tabs \ {TabOf[q]} : promise'[t] = promise[t]
  BY <1>1 DEF IInv, Flights, Settle
<1>3. Calling'
  <2>1. call' \in [Calls -> Call]
    BY DEF IInv, Calling
  <2> SUFFICES ASSUME NEW p \in Calls, call'[p].pc = "await"
               PROVE  call'[p].on \in Calls /\ flight'[call'[p].on].pc # "none"
    BY <2>1 DEF Calling, CallAt
  <2>2. p \notin Waiting(q) /\ call'[p] = call[p]
    OBVIOUS
  <2>3. call[p].on \in Calls /\ flight[call[p].on].pc # "none" /\ call[p].on # q
    BY <2>2 DEF IInv, Calling, Waiting, CallAt
  <2> QED
    BY <1>2, <2>2, <2>3
<1>4. SingleFlight'
  <2>1. \A p \in Calls : flight'[p].pc # "none" => promise'[TabOf[p]] = p
    <3> SUFFICES ASSUME NEW p \in Calls, flight'[p].pc # "none" PROVE promise'[TabOf[p]] = p
      OBVIOUS
    <3>1. p # q /\ promise[TabOf[p]] = p /\ promise[TabOf[q]] = q
      BY <1>2 DEF IInv, SingleFlight, Flying
    <3> QED
      BY <1>1, <1>2, <3>1
  <2>2. ASSUME NEW t \in Tabs, promise'[t] # NoCall
        PROVE  flight'[promise'[t]].pc # "none" /\ TabOf[promise'[t]] = t
    <3>1. t # TabOf[q] /\ promise'[t] = promise[t] /\ promise[t] \in Calls
      BY <1>2, <2>2 DEF IInv, Flights
    <3>2. flight[promise[t]].pc # "none" /\ TabOf[promise[t]] = t
      BY <2>2, <3>1 DEF IInv, SingleFlight, Flying
    <3> QED
      BY <1>2, <3>1, <3>2
  <2> QED
    BY <2>1, <2>2 DEF SingleFlight, Flying
<1> QED
  BY <1>2, <1>3, <1>4 DEF Flights

LEMMA EndStepInv ==
  ASSUME RefreshFlightAssumption, IInv, NEW q \in Calls,
         RefreshArrives(q) \/ RefusalArrives(q) \/ RefreshGivenUp(q)
  PROVE  IInv' /\ (OneTab /\ Alive => Alive')
<1>1. /\ Numbers /\ SingleFlight /\ flight[q] \in Flight /\ Flying(q) /\ Settle(q)
      /\ MaxTrouble \in Nat /\ TabOf[q] \in Tabs
      /\ UNCHANGED <<issued, live, valid>>
  BY DEF IInv, Flights, Flying, RefreshFlightAssumption, RefreshArrives, RefusalArrives, RefreshGivenUp
<1>2. IdleCall \in Call /\ IdleCall.pc = "idle"
  BY DEF IdleCall, Call, Tokens, RefreshFlightAssumption
<1>3. CASE RefreshArrives(q)
  <2> DEFINE new == flight[q].token
             r == [IdleCall EXCEPT !.pc = "again", !.token = new]
  <2>1. new \in Tokens
    BY <1>1 DEF Flight
  <2>2. r \in Call /\ r.pc = "again"
    <3> HIDE DEF new
    <3> QED
      BY <1>2, <2>1 DEF Call
  <2>3. /\ cookie' = new /\ memory' = [memory EXCEPT ![TabOf[q]] = new]
        /\ UNCHANGED <<orphans, trouble>>
        /\ call' = [p \in Calls |-> IF p \in Waiting(q) THEN r ELSE call[p]]
    BY <1>3 DEF RefreshArrives
  <2>4. /\ Flights' /\ Calling' /\ SingleFlight'
        /\ flight'[q].pc = "none" /\ \A p \in Calls \ {q} : flight'[p] = flight[p]
    <3> HIDE DEF r
    <3> QED
      BY <1>1, <2>2, <2>3, SettleInv
  <2>5. Numbers'
    BY <1>1, <2>1, <2>3 DEF Numbers
  <2>6. OneTab /\ Alive => Alive'
    <3> SUFFICES ASSUME OneTab, Alive, trouble = 0 PROVE Alive'
      BY <2>3 DEF Alive
    <3>1. \A p \in Calls : flight'[p].pc = "none"
      BY <1>1, <2>4, FliesAlone DEF Flying
    <3>2. new = live
      BY <1>3 DEF RefreshArrives, Alive
    <3> QED
      BY <1>1, <2>3, <3>1, <3>2 DEF Alive
  <2> QED
    BY <2>4, <2>5, <2>6 DEF IInv
<1>4. CASE RefusalArrives(q) \/ RefreshGivenUp(q)
  <2>1. call' = [p \in Calls |-> IF p \in Waiting(q) THEN IdleCall ELSE call[p]] /\ cookie' = cookie
    BY <1>4 DEF RefusalArrives, RefreshGivenUp
  <2>2. Flights' /\ Calling' /\ SingleFlight'
    BY <1>1, <1>2, <2>1, SettleInv
  <2>3. Numbers'
    <3>1. CASE RefusalArrives(q)
      <4>1. 0 \in Tokens
        BY DEF Tokens, RefreshFlightAssumption
      <4> QED
        BY <1>1, <3>1, <4>1 DEF RefusalArrives, Numbers
    <3>2. CASE RefreshGivenUp(q)
      <4>1. orphans' \subseteq Tokens
        BY <1>1, <3>2 DEF RefreshGivenUp, Numbers, Flight
      <4>2. trouble' \in 0 .. MaxTrouble
        BY <1>1, <3>2 DEF RefreshGivenUp, Numbers
      <4> QED
        BY <1>1, <3>2, <4>1, <4>2 DEF RefreshGivenUp, Numbers
    <3> QED
      BY <1>4, <3>1, <3>2
  <2>4. Alive => Alive'
    <3>1. CASE RefusalArrives(q)
      <4>1. Alive => trouble' # 0
        BY <3>1 DEF RefusalArrives, Alive
      <4> QED
        BY <4>1 DEF Alive
    <3>2. CASE RefreshGivenUp(q)
      <4>1. trouble' # 0
        BY <1>1, <3>2 DEF RefreshGivenUp, Numbers
      <4> QED
        BY <4>1 DEF Alive
    <3> QED
      BY <1>4, <3>1, <3>2
  <2> QED
    BY <2>2, <2>3, <2>4 DEF IInv
<1> QED
  BY <1>3, <1>4

LEMMA ReloadInv ==
  ASSUME RefreshFlightAssumption, IInv, NEW t \in Tabs, Reload(t)
  PROVE  IInv' /\ (Alive => Alive')
<1>1. /\ memory' = [memory EXCEPT ![t] = 0]
      /\ call' = [q \in Calls |-> IF TabOf[q] = t THEN IdleCall ELSE call[q]]
      /\ UNCHANGED <<issued, live, valid, cookie, promise, flight, orphans, trouble>>
  BY DEF Reload
<1>2. IdleCall \in Call /\ IdleCall.pc = "idle" /\ 0 \in Tokens
  BY DEF IdleCall, Call, Tokens, RefreshFlightAssumption
<1>3. Calling'
  <2>1. /\ call' \in [Calls -> Call]
        /\ \A p \in Calls : call'[p] = call[p] \/ call'[p].pc # "await"
    BY <1>1, <1>2 DEF IInv, Calling
  <2> QED
    BY <1>1, <2>1, CallingStep DEF IInv
<1>4. Numbers'
  BY <1>1, <1>2 DEF IInv, Numbers
<1> QED
  BY <1>1, <1>3, <1>4 DEF IInv, Flights, SingleFlight, Flying, Alive

-----------------------------------------------------------------------------
(* The invariant *)

LEMMA NextInv ==
  ASSUME RefreshFlightAssumption, IInv, [BrowserNext]_browserVars
  PROVE  IInv' /\ (OneTab /\ Alive => Alive')
<1>1. CASE UNCHANGED browserVars
  <2>1. UNCHANGED <<issued, live, valid, cookie, memory, promise, call, flight, orphans, trouble>>
    BY <1>1 DEF browserVars
  <2> QED
    BY <2>1 DEF IInv, Numbers, Flights, Calling, CallAt, SingleFlight, Flying, Alive
<1>2. ASSUME NEW q \in Calls, CallStep(q) PROVE IInv' /\ (OneTab /\ Alive => Alive')
  BY <1>2, CallStepInv
<1>3. ASSUME NEW q \in Calls, FlightStep(q) PROVE IInv' /\ (OneTab /\ Alive => Alive')
  BY <1>3, ServerStepInv, EndStepInv DEF FlightStep
<1>4. ASSUME NEW k \in Tokens, ServerSeesOrphan(k) \/ AccessExpires(k) PROVE IInv' /\ (Alive => Alive')
  BY <1>4, TokenStepInv
<1>5. ASSUME NEW t \in Tabs, Reload(t) PROVE IInv' /\ (Alive => Alive')
  BY <1>5, ReloadInv
<1> QED
  BY <1>1, <1>2, <1>3, <1>4, <1>5 DEF BrowserNext

-----------------------------------------------------------------------------
(* The server *)

\* The login of the browser, in the terms of LoginTokens: its first token is 1.
loginTokens == [l \in 1 .. MaxTokens |-> IF l = 1 /\ live # 0 THEN {live} ELSE {}]
tokensSoFar == 1 .. issued

Server == INSTANCE LoginTokens
            WITH Tokens <- 1 .. MaxTokens, valid <- loginTokens, handedOut <- tokensSoFar

\* A refresh with the live token exchanges it.
LEMMA RotationExchanges ==
  ASSUME RefreshFlightAssumption, Numbers, NEW k \in Tokens, Rotate(k)
  PROVE  Server!Next
<1>1. /\ live # 0 /\ live \in 1 .. MaxTokens /\ issued \in Nat /\ MaxTokens \in Nat
      /\ issued' = issued + 1 /\ live' = issued + 1 /\ issued + 1 \in 1 .. MaxTokens
      /\ 1 \in 1 .. MaxTokens
  BY DEF Rotate, Numbers, RefreshFlightAssumption
<1>2. loginTokens[1] = {live} /\ loginTokens'[1] = {issued + 1}
  BY <1>1 DEF loginTokens
<1>3. Server!Fresh(issued + 1)
  BY <1>1 DEF Server!Fresh, tokensSoFar
<1>4. loginTokens' = [loginTokens EXCEPT ![1] = {issued + 1}]
  <2>1. \A l \in 1 .. MaxTokens : l # 1 => loginTokens'[l] = loginTokens[l]
    BY DEF loginTokens
  <2>2. /\ loginTokens = [l \in 1 .. MaxTokens |-> loginTokens[l]]
        /\ loginTokens' = [l \in 1 .. MaxTokens |-> loginTokens'[l]]
    BY DEF loginTokens
  <2> QED
    BY ONLY <1>2, <2>1, <2>2
<1> QED
  BY <1>1, <1>2, <1>3, <1>4 DEF Server!Exchange, Server!Next

\* Any other refresh ends the login or leaves it.
LEMMA RefusalEnds ==
  ASSUME RefreshFlightAssumption, Numbers, NEW k, Refuse(k)
  PROVE  Server!Next
<1>1. MaxTokens \in Nat /\ live \in 0 .. MaxTokens /\ live' \in {0, live} /\ issued' = issued
  BY DEF Refuse, Numbers, RefreshFlightAssumption
<1>2. tokensSoFar' = tokensSoFar
  BY <1>1 DEF tokensSoFar
<1>3. loginTokens' \in [1 .. MaxTokens -> SUBSET (1 .. MaxTokens)]
  BY <1>1 DEF loginTokens
<1>4. \A l \in 1 .. MaxTokens : loginTokens'[l] \in {loginTokens[l], {}}
  BY <1>1 DEF loginTokens
<1> QED
  BY <1>2, <1>3, <1>4 DEF Server!EndSome, Server!Next

\* Whatever the browser does, the server it meets does what the sessions promise.
LEMMA ServerStep ==
  ASSUME RefreshFlightAssumption, IInv, [BrowserNext]_browserVars
  PROVE  [Server!Next]_<<loginTokens, tokensSoFar>>
<1>1. CASE live' = live /\ issued' = issued
  BY <1>1 DEF loginTokens, tokensSoFar
<1>2. Numbers
  BY DEF IInv
<1>3. ASSUME NEW q \in Calls, FlightStep(q)
      PROVE  [Server!Next]_<<loginTokens, tokensSoFar>>
  <2>1. flight[q].token \in Tokens
    BY DEF IInv, Flights, Flight
  <2> QED
    BY <1>1, <1>2, <1>3, <2>1, RotationExchanges, RefusalEnds
      DEF FlightStep, ServerRotates, ServerRefuses, ServerTurnsAway, RefreshArrives,
          RefusalArrives, RefreshGivenUp
<1>4. ASSUME NEW k \in Tokens, ServerSeesOrphan(k) \/ AccessExpires(k)
      PROVE  [Server!Next]_<<loginTokens, tokensSoFar>>
  BY <1>1, <1>2, <1>4, RotationExchanges, RefusalEnds DEF ServerSeesOrphan, AccessExpires
<1>5. ASSUME NEW q \in Calls, CallStep(q)
      PROVE  [Server!Next]_<<loginTokens, tokensSoFar>>
  BY <1>1, <1>5 DEF CallStep, Send, Answered, BeginRefresh, AwaitRefresh
<1>6. ASSUME NEW t \in Tabs, Reload(t)
      PROVE  [Server!Next]_<<loginTokens, tokensSoFar>>
  BY <1>1, <1>6 DEF Reload
<1> QED
  BY <1>1, <1>3, <1>4, <1>5, <1>6 DEF BrowserNext, browserVars

-----------------------------------------------------------------------------
(* Theorems *)

\* A call that waits does so for a refresh in flight, however many tabs there are: no
\* settled refresh leaves a call behind.
THEOREM TypeCorrect ==
  ASSUME RefreshFlightAssumption
  PROVE  BrowserSpec => []BrowserTypeOK
<1>1. BrowserInit => IInv
  BY InitInv
<1>2. IInv /\ [BrowserNext]_browserVars => IInv'
  BY NextInv
<1>3. IInv => BrowserTypeOK
  BY InvIsType
<1> QED
  BY <1>1, <1>2, <1>3, PTL DEF BrowserSpec

\* tryRefreshToken: the single flight keeps a browser with one tab signed in, however
\* many of its calls are denied at once, as long as every refresh is answered.
THEOREM StaysSignedIn ==
  ASSUME RefreshFlightAssumption, OneTab
  PROVE  BrowserSpec => []SignedIn
<1>1. BrowserInit => IInv /\ Alive
  BY InitInv
<1>2. IInv /\ Alive /\ [BrowserNext]_browserVars => IInv' /\ Alive'
  BY NextInv
<1>3. Alive => SignedIn
  BY DEF Alive, SignedIn, Flying
<1> QED
  BY <1>1, <1>2, <1>3, PTL DEF BrowserSpec

\* The server of this module is no other than that of AccountAccess: one login whose
\* tokens change only as LoginTokens says, from any mix of calls, repeats and orphans.
THEOREM ServerKeepsLogins ==
  ASSUME RefreshFlightAssumption
  PROVE  BrowserSpec => [][Server!Next]_<<loginTokens, tokensSoFar>>
<1>1. BrowserInit => IInv
  BY InitInv
<1>2. IInv /\ [BrowserNext]_browserVars => IInv'
  BY NextInv
<1>3. IInv /\ [BrowserNext]_browserVars => [Server!Next]_<<loginTokens, tokensSoFar>>
  BY ServerStep
<1> QED
  BY <1>1, <1>2, <1>3, PTL DEF BrowserSpec
=============================================================================
