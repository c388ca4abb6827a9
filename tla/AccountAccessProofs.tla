------------------------ MODULE AccountAccessProofs ------------------------
(***************************************************************************)
(* Proofs about AccountAccess: the type invariant, that concurrent or      *)
(* repeated refreshes never leave two live sessions of one login and keep  *)
(* the promise of LoginTokens, and that a link sets a password once and    *)
(* only while it is good.                                                  *)
(***************************************************************************)
EXTENDS AccountAccess, TLAPS

\* A request that begins keeps the type of req and gets the record it begins with.
LEMMA BeginType ==
  ASSUME req \in [Clients -> Request], NEW c \in Clients, NEW op, NEW r \in Request,
         Begin(c, op, r)
  PROVE  /\ req' \in [Clients -> Request]
         /\ req'[c].pc = r.pc /\ req'[c].sid = r.sid
         /\ \A d \in Clients \ {c} : req'[d] = req[d]
<1>1. op \in AllOps
  BY AccountAssumption DEF Begin
<1>2. /\ [r EXCEPT !.op = op] \in Request
      /\ [r EXCEPT !.op = op].pc = r.pc /\ [r EXCEPT !.op = op].sid = r.sid
  BY <1>1 DEF Request
<1> QED
  BY <1>2 DEF Begin

\* A request that moves on keeps the type of req and its other fields.
LEMMA GotoType ==
  ASSUME req \in [Clients -> Request], NEW c \in Clients,
         NEW pc \in {"consume", "rotate", "revoke", "setUser", "snap", "newLink", "pending"},
         Goto(c, pc)
  PROVE  /\ req' \in [Clients -> Request]
         /\ req'[c].pc = pc /\ req'[c].sid = req[c].sid
         /\ req'[c].lid = req[c].lid /\ req'[c].op = req[c].op
         /\ \A d \in Clients \ {c} : req'[d] = req[d]
<1>1. /\ [req[c] EXCEPT !.pc = pc] \in Request
      /\ [req[c] EXCEPT !.pc = pc].pc = pc /\ [req[c] EXCEPT !.pc = pc].sid = req[c].sid
      /\ [req[c] EXCEPT !.pc = pc].lid = req[c].lid /\ [req[c] EXCEPT !.pc = pc].op = req[c].op
  BY DEF Request
<1> QED
  BY <1>1 DEF Goto

\* A request that ends leaves its client idle.
LEMMA EndType ==
  ASSUME req \in [Clients -> Request], NEW c \in Clients, End(c)
  PROVE  /\ req' \in [Clients -> Request]
         /\ req'[c].pc = "idle"
         /\ \A d \in Clients \ {c} : req'[d] = req[d]
<1>1. Idle \in Request /\ Idle.pc = "idle"
  BY DEF Request, Idle
<1> QED
  BY <1>1 DEF End

\* A request that notes the sessions it will revoke.
LEMMA StartRevokingType ==
  ASSUME req \in [Clients -> Request], NEW c \in Clients, StartRevoking(c)
  PROVE  /\ req' \in [Clients -> Request]
         /\ \/ req[c].pc = "revoke" /\ req'[c].pc = "revoking"
            \/ req[c].pc = "snap" /\ req'[c].pc = "commit"
         /\ req'[c].lid = req[c].lid /\ req'[c].op = req[c].op
         /\ \A d \in Clients \ {c} : req'[d] = req[d]
<1>1. PICK pc \in {"revoking", "commit"} :
        /\ \/ req[c].pc = "revoke" /\ pc = "revoking"
           \/ req[c].pc = "snap" /\ pc = "commit"
        /\ req' = [req EXCEPT ![c] = [req[c] EXCEPT !.pc = pc, !.snap = LiveSessions]]
  BY DEF StartRevoking, At
<1>2. /\ [req[c] EXCEPT !.pc = pc, !.snap = LiveSessions] \in Request
      /\ [req[c] EXCEPT !.pc = pc, !.snap = LiveSessions].pc = pc
      /\ [req[c] EXCEPT !.pc = pc, !.snap = LiveSessions].lid = req[c].lid
      /\ [req[c] EXCEPT !.pc = pc, !.snap = LiveSessions].op = req[c].op
  BY ZenonT(60) DEF LiveSessions, Request
<1> QED
  BY <1>1, <1>2

\* rotateRefreshSession begins with the session that its token names.
LEMMA RefreshReadsType ==
  ASSUME req \in [Clients -> Request], NEW c \in Clients, RefreshReads(c)
  PROVE  /\ req' \in [Clients -> Request]
         /\ req[c].pc = "idle" /\ req'[c].pc \in {"revoke", "expire", "user"}
         /\ req'[c].sid \in Sessions /\ session[req'[c].sid].state # "none"
         /\ \A d \in Clients \ {c} : req'[d] = req[d]
<1>1. PICK s \in Sessions, pc \in {"revoke", "expire", "user"} :
        session[s].state # "none" /\ Begin(c, "refresh", [Idle EXCEPT !.sid = s, !.pc = pc])
  BY DEF RefreshReads
<1>2. /\ [Idle EXCEPT !.sid = s, !.pc = pc] \in Request
      /\ [Idle EXCEPT !.sid = s, !.pc = pc].sid = s
      /\ [Idle EXCEPT !.sid = s, !.pc = pc].pc = pc
  BY DEF Idle, Request
<1> HIDE DEF Idle
<1>3. req' \in [Clients -> Request] /\ req'[c].pc = pc /\ req'[c].sid = s
      /\ \A d \in Clients \ {c} : req'[d] = req[d]
  BY <1>1, <1>2, BeginType
<1> QED
  BY <1>1, <1>3 DEF Begin

\* The rows that do not exist yet and the idle request are well typed.
LEMMA DefaultTypes == NoRow \in Session /\ NoLinkRow \in Link /\ Idle \in Request
<1>1. NoRow \in Session
  BY DEF NoRow, Session
<1>2. NoLinkRow \in Link
  BY DEF NoLinkRow, Link
<1>3. Idle \in Request
  BY DEF Idle, Request
<1> QED
  BY <1>1, <1>2, <1>3

\* The initial state is well typed.
LEMMA TypeInit == Init => TypeOK
<1> SUFFICES ASSUME Init PROVE TypeOK
  OBVIOUS
<1>1. /\ session \in [Sessions -> Session] /\ link \in [Links -> Link]
      /\ req \in [Clients -> Request] /\ uses \in [Links -> Nat]
  BY DefaultTypes DEF Init
<1>2. \A c \in Clients : req[c].pc \notin Refreshing
  BY DEF Init, Idle, Refreshing
<1>3. \A s \in Sessions : session[s].next = NoSession
  BY DEF Init, NoRow
<1>4. status \in {"PENDING", "ACTIVE", "INACTIVE"} /\ password \in BOOLEAN /\ epoch \in Nat
  BY DEF Init
<1> QED
  BY <1>1, <1>2, <1>3, <1>4 DEF TypeOK

\* Revoking the sessions found keeps the rows well typed and touches live ones only.
LEMMA RevokedType ==
  ASSUME TypeOK, NEW c \in Clients
  PROVE  /\ Revoked(c) \in [Sessions -> Session]
         /\ \A s \in Sessions :
              /\ Revoked(c)[s].next = session[s].next
              /\ session[s].state # "live" => Revoked(c)[s].state = session[s].state
<1>1. \A s \in Sessions :
        session[s] \in Session /\ [session[s] EXCEPT !.state = "revoked"] \in Session
  BY ZenonT(60) DEF TypeOK, Session
<1>2. Revoked(c) \in [Sessions -> Session]
  BY <1>1 DEF Revoked
<1>3. ASSUME NEW s \in Sessions
      PROVE  /\ Revoked(c)[s].next = session[s].next
             /\ session[s].state # "live" => Revoked(c)[s].state = session[s].state
  BY <1>1 DEF Revoked, Live, Session
<1> QED
  BY <1>2, <1>3

\* The requests that refresh after a step are those before it, with the same
\* session, or have a session.
LEMMA RefreshersKept ==
  ASSUME TypeOK, NEW c \in Clients,
         \A d \in Clients \ {c} : req'[d] = req[d],
         req'[c].pc \in Refreshing => req'[c].sid \in Sessions
  PROVE  \A d \in Clients : req'[d].pc \in Refreshing => req'[d].sid \in Sessions
BY DEF TypeOK

\* Every step of a request preserves the types.
LEMMA RequestType ==
  ASSUME TypeOK, NEW c \in Clients, RequestStep(c) \/ Abort(c)
  PROVE  TypeOK'
<1> USE DEF TypeOK
<1>1. CASE StartRevoking(c)
  <2>1. /\ req' \in [Clients -> Request] /\ req'[c].pc \in {"revoking", "commit"}
        /\ \A d \in Clients \ {c} : req'[d] = req[d]
    BY <1>1, StartRevokingType
  <2> QED
    BY <1>1, <2>1, RefreshersKept DEF StartRevoking, Refreshing
<1>2. CASE FinishRevoking(c)
  <2>1. session' \in [Sessions -> Session]
        /\ \A s \in Sessions : session'[s].next # NoSession => session'[s].state = "revoked"
    BY <1>2, RevokedType DEF FinishRevoking
  <2> QED
    BY <1>2, <2>1, EndType, RefreshersKept DEF FinishRevoking, Refreshing
<1>3. CASE LoginReads(c)
  <2>1. /\ [Idle EXCEPT !.pc = "create"] \in Request
        /\ [Idle EXCEPT !.pc = "create"].pc = "create"
    BY DefaultTypes DEF Request
  <2>2. req' \in [Clients -> Request] /\ req'[c].pc = "create"
        /\ \A d \in Clients \ {c} : req'[d] = req[d]
    BY <1>3, <2>1, BeginType DEF LoginReads
  <2> QED
    BY <1>3, <2>2, RefreshersKept DEF LoginReads, Refreshing
<1>4. CASE CreateSession(c)
  <2>1. PICK s \in Sessions :
          /\ session[s].state = "none"
          /\ session' = [session EXCEPT ![s] = [NoRow EXCEPT !.state = "live", !.root = s]]
    BY <1>4 DEF CreateSession
  <2>3. [NoRow EXCEPT !.state = "live", !.root = s] \in Session
    BY DefaultTypes DEF Session
  <2>4. session' \in [Sessions -> Session]
    BY <2>1, <2>3
  <2>5. \A t \in Sessions : session'[t].next # NoSession => session'[t].state = "revoked"
    BY <2>1 DEF NoRow
  <2> QED
    BY <1>4, <2>4, <2>5, EndType, RefreshersKept DEF CreateSession, Refreshing
<1>5. CASE RefreshReads(c)
  BY <1>5, RefreshReadsType, RefreshersKept DEF RefreshReads
<1>6. CASE ExpireSession(c)
  <2>1. session' \in [Sessions -> Session]
    <3>1. \A s \in Sessions : [session[s] EXCEPT !.state = "revoked"] \in Session
      BY DEF Session
    <3> QED
      BY <1>6, <3>1 DEF ExpireSession
  <2>2. \A t \in Sessions : session'[t].next # NoSession => session'[t].state = "revoked"
    BY <1>6 DEF ExpireSession
  <2> QED
    BY <1>6, <2>1, <2>2, EndType, RefreshersKept DEF ExpireSession, Refreshing
<1>7. CASE RefreshReadsUser(c)
  <2>1. req[c].sid \in Sessions
    BY <1>7 DEF RefreshReadsUser, At, Refreshing
  <2>2. req' \in [Clients -> Request] /\ req'[c].sid = req[c].sid
        /\ \A d \in Clients \ {c} : req'[d] = req[d]
    BY <1>7, GotoType DEF RefreshReadsUser
  <2> QED
    BY <1>7, <2>1, <2>2, RefreshersKept DEF RefreshReadsUser
<1>8. CASE Consume(c)
  <2>1. req[c].sid \in Sessions
    BY <1>8 DEF Consume, At, Refreshing
  <2>2. req' \in [Clients -> Request] /\ (req'[c].sid = req[c].sid \/ req'[c].pc = "idle")
        /\ \A d \in Clients \ {c} : req'[d] = req[d]
    BY <1>8, GotoType, EndType DEF Consume
  <2> QED
    BY <1>8, <2>1, <2>2, RefreshersKept DEF Consume, Refreshing
<1>9. CASE Rotate(c)
  <2>1. req[c].sid \in Sessions
    BY <1>9 DEF Rotate, At, Refreshing
  <2>2. PICK n \in Sessions :
          /\ session[n].state = "none"
          /\ session' = [session EXCEPT
               ![req[c].sid].state = "revoked", ![req[c].sid].next = n,
               ![n] = [session[req[c].sid] EXCEPT !.state = "live", !.next = NoSession,
                                                  !.expired = FALSE]]
    BY <1>9 DEF Rotate
  <2>3. session[req[c].sid] \in Session
    BY <2>1
  <2>4. /\ [session[req[c].sid] EXCEPT !.state = "revoked", !.next = n] \in Session
        /\ [session[req[c].sid] EXCEPT !.state = "live", !.next = NoSession,
                                       !.expired = FALSE] \in Session
    BY <2>3 DEF Session
  <2>5. session' \in [Sessions -> Session]
    BY <2>1, <2>2, <2>4
  <2>6. \A t \in Sessions : session'[t].next # NoSession => session'[t].state = "revoked"
    BY <2>1, <2>2, <2>3 DEF Session
  <2> QED
    BY <1>9, <2>5, <2>6, EndType, RefreshersKept DEF Rotate, Refreshing
<1>10. CASE Logout(c)
  <2>1. session' \in [Sessions -> Session]
    BY <1>10 DEF Logout, Session
  <2>2. \A t \in Sessions : session'[t].next # NoSession => session'[t].state = "revoked"
    BY <1>10 DEF Logout
  <2> QED
    BY <1>10, <2>1, <2>2 DEF Logout
<1>11. CASE ChangeReads(c)
  <2>1. [Idle EXCEPT !.pc = "write"] \in Request /\ [Idle EXCEPT !.pc = "write"].pc = "write"
    BY DefaultTypes DEF Request
  <2>2. req' \in [Clients -> Request] /\ req'[c].pc = "write"
        /\ \A d \in Clients \ {c} : req'[d] = req[d]
    BY <1>11, <2>1, BeginType DEF ChangeReads
  <2> QED
    BY <1>11, <2>2, RefreshersKept DEF ChangeReads, Refreshing
<1>12. CASE ChangeWrites(c)
  <2>1. req' \in [Clients -> Request] /\ req'[c].pc = "revoke"
        /\ \A d \in Clients \ {c} : req'[d] = req[d]
    BY <1>12, GotoType DEF ChangeWrites
  <2> QED
    BY <1>12, <2>1, RefreshersKept DEF ChangeWrites, Refreshing
<1>13. CASE SetupReads(c)
  <2>1. PICK l \in Links :
          Begin(c, "setup", [Idle EXCEPT !.pc = "consumeLink", !.lid = l, !.was = status])
    BY <1>13 DEF SetupReads
  <2>2. /\ [Idle EXCEPT !.pc = "consumeLink", !.lid = l, !.was = status] \in Request
        /\ [Idle EXCEPT !.pc = "consumeLink", !.lid = l, !.was = status].pc = "consumeLink"
    BY DefaultTypes DEF Request
  <2>3. req' \in [Clients -> Request] /\ req'[c].pc = "consumeLink"
        /\ \A d \in Clients \ {c} : req'[d] = req[d]
    BY <2>1, <2>2, BeginType
  <2> QED
    BY <1>13, <2>3, RefreshersKept DEF SetupReads, Refreshing
<1>14. CASE ConsumeLink(c) \/ SetUser(c)
  <2>1. req' \in [Clients -> Request] /\ req'[c].pc \in {"setUser", "snap", "idle"}
        /\ \A d \in Clients \ {c} : req'[d] = req[d]
    BY <1>14, EndType, GotoType DEF ConsumeLink, SetUser
  <2> QED
    BY <1>14, <2>1, RefreshersKept DEF ConsumeLink, SetUser, Refreshing
<1>15. CASE CommitSetup(c)
  <2>1. session' \in [Sessions -> Session]
        /\ \A s \in Sessions : session'[s].next # NoSession => session'[s].state = "revoked"
    BY <1>15, RevokedType DEF CommitSetup
  <2>2. link' \in [Links -> Link] /\ uses' \in [Links -> Nat]
    <3>1. \A l \in Links : [link[l] EXCEPT !.used = TRUE] \in Link
      BY DEF Link
    <3>2. link' = [link EXCEPT ![req[c].lid].used = TRUE]
          /\ uses' = [uses EXCEPT ![req[c].lid] = @ + 1]
      BY <1>15 DEF CommitSetup
    <3>3. link' \in [Links -> Link]
      BY <3>1, <3>2
    <3>4. uses' \in [Links -> Nat]
      <4>1. \A l \in Links : uses[l] \in Nat /\ uses[l] + 1 \in Nat
        OBVIOUS
      <4> HIDE DEF TypeOK
      <4>2. uses \in [Links -> Nat]
        BY DEF TypeOK
      <4> QED
        BY <3>2, <4>1, <4>2
    <3> QED
      BY <3>3, <3>4
  <2>3. status' \in {"PENDING", "ACTIVE", "INACTIVE"} /\ password' \in BOOLEAN /\ epoch' \in Nat
    BY <1>15 DEF CommitSetup
  <2> QED
    BY <1>15, <2>1, <2>2, <2>3, EndType, RefreshersKept DEF CommitSetup, Refreshing
<1>16. CASE DeactivateStarts(c)
  <2>1. [Idle EXCEPT !.pc = "snap"] \in Request /\ [Idle EXCEPT !.pc = "snap"].pc = "snap"
    BY DefaultTypes DEF Request
  <2>2. req' \in [Clients -> Request] /\ req'[c].pc = "snap"
        /\ \A d \in Clients \ {c} : req'[d] = req[d]
    BY <1>16, <2>1, BeginType DEF DeactivateStarts
  <2> QED
    BY <1>16, <2>2, RefreshersKept DEF DeactivateStarts, Refreshing
<1>17. CASE CommitDeactivate(c)
  <2>1. session' \in [Sessions -> Session]
        /\ \A s \in Sessions : session'[s].next # NoSession => session'[s].state = "revoked"
    BY <1>17, RevokedType DEF CommitDeactivate
  <2> QED
    BY <1>17, <2>1, EndType, RefreshersKept DEF CommitDeactivate, Refreshing
<1>18. CASE ForgotReads(c) \/ AdminBegins(c)
  <2>1. /\ [Idle EXCEPT !.pc = "findLink"] \in Request
        /\ [Idle EXCEPT !.pc = "findLink"].pc = "findLink"
        /\ [Idle EXCEPT !.pc = "revokeLinks"] \in Request
        /\ [Idle EXCEPT !.pc = "revokeLinks"].pc = "revokeLinks"
    BY DefaultTypes DEF Request
  <2>2. req' \in [Clients -> Request] /\ req'[c].pc \in {"findLink", "revokeLinks"}
        /\ \A d \in Clients \ {c} : req'[d] = req[d]
    BY <1>18, <2>1, BeginType DEF ForgotReads, AdminBegins
  <2> QED
    BY <1>18, <2>2, RefreshersKept DEF ForgotReads, AdminBegins, Refreshing
<1>19. CASE FindLink(c)
  <2>1. req' \in [Clients -> Request]
        /\ req'[c].pc \in {"newLink", "idle", "pending", "dropLink"}
        /\ \A d \in Clients \ {c} : req'[d] = req[d]
    <3>1. CASE Goto(c, "newLink") \/ Issued(c)
      BY <3>1, GotoType, EndType DEF Issued
    <3>2. CASE \E l \in Links : req' = [req EXCEPT ![c].pc = "dropLink", ![c].lid = l]
      <4>1. PICK l \in Links : req' = [req EXCEPT ![c].pc = "dropLink", ![c].lid = l]
        BY <3>2
      <4>2. /\ [req[c] EXCEPT !.pc = "dropLink", !.lid = l] \in Request
            /\ [req[c] EXCEPT !.pc = "dropLink", !.lid = l].pc = "dropLink"
        BY ZenonT(60) DEF Request
      <4>3. req' = [req EXCEPT ![c] = [req[c] EXCEPT !.pc = "dropLink", !.lid = l]]
        BY <4>1
      <4> QED
        BY <4>2, <4>3
    <3> QED
      BY <1>19, <3>1, <3>2 DEF FindLink
  <2> QED
    BY <1>19, <2>1, RefreshersKept DEF FindLink, Refreshing
<1>20. CASE DropLink(c) \/ RevokeLinks(c)
  <2>1. link' \in [Links -> Link]
    <3>1. \A l \in Links : [link[l] EXCEPT !.revoked = TRUE] \in Link
      BY DEF Link
    <3> QED
      BY <1>20, <3>1 DEF DropLink, RevokeLinks
  <2>2. req' \in [Clients -> Request] /\ req'[c].pc = "newLink"
        /\ \A d \in Clients \ {c} : req'[d] = req[d]
    BY <1>20, GotoType DEF DropLink, RevokeLinks
  <2> QED
    BY <1>20, <2>1, <2>2, RefreshersKept DEF DropLink, RevokeLinks, Refreshing
<1>21. CASE NewLink(c)
  <2>1. link' \in [Links -> Link]
    BY <1>21 DEF NewLink, Link, LinkType, LinkTypes
  <2>2. req' \in [Clients -> Request] /\ req'[c].pc \in {"idle", "pending"}
        /\ \A d \in Clients \ {c} : req'[d] = req[d]
    BY <1>21, GotoType, EndType DEF NewLink, Issued
  <2> QED
    BY <1>21, <2>1, <2>2, RefreshersKept DEF NewLink, Refreshing
<1>22. CASE MakePending(c)
  BY <1>22, EndType, RefreshersKept DEF MakePending, Refreshing
<1>23. CASE Abort(c)
  BY <1>23, EndType, RefreshersKept DEF Abort, Refreshing
<1> QED
  BY <1>1, <1>2, <1>3, <1>4, <1>5, <1>6, <1>7, <1>8, <1>9, <1>10, <1>11, <1>12, <1>13,
     <1>14, <1>15, <1>16, <1>17, <1>18, <1>19, <1>20, <1>21, <1>22, <1>23 DEF RequestStep

\* Every step preserves the types.
LEMMA TypeStep == TypeOK /\ [Next]_vars => TypeOK'
<1> SUFFICES ASSUME TypeOK, [Next]_vars PROVE TypeOK'
  OBVIOUS
<1>1. ASSUME NEW c \in Clients, RequestStep(c) \/ Abort(c) PROVE TypeOK'
  BY <1>1, RequestType
<1>2. ASSUME NEW s \in Sessions, SessionExpires(s) PROVE TypeOK'
  <2>1. session' \in [Sessions -> Session]
        /\ \A t \in Sessions : session'[t].next # NoSession => session'[t].state = "revoked"
    BY ZenonT(60), <1>2 DEF SessionExpires, TypeOK, Session
  <2> QED
    BY <1>2, <2>1 DEF SessionExpires, TypeOK
<1>3. ASSUME NEW l \in Links, LinkExpires(l) PROVE TypeOK'
  <2>1. link' \in [Links -> Link]
    BY <1>3 DEF LinkExpires, TypeOK, Link
  <2> QED
    BY <1>3, <2>1 DEF LinkExpires, TypeOK
<1>4. ASSUME UNCHANGED vars PROVE TypeOK'
  BY <1>4 DEF vars, TypeOK
<1> QED
  BY <1>1, <1>2, <1>3, <1>4 DEF Next

\* The type invariant holds in every reachable state.
THEOREM TypeCorrect == Spec => []TypeOK
<1> QED
  BY TypeInit, TypeStep, PTL DEF Spec

-----------------------------------------------------------------------------
(* One live session per login *)

\* A step that gives no session a new row, a new root or a new life, and lets no
\* transaction consume a session, keeps the invariant.
LEMMA RotationKept ==
  ASSUME TypeOK, RotationInv, req' \in [Clients -> Request],
         \A s \in Sessions :
           /\ session'[s].root = session[s].root
           /\ session'[s].state = "none" <=> session[s].state = "none"
           /\ session'[s].state = "live" => session[s].state = "live",
         \A d \in Clients : req'[d].pc = "rotate" => req'[d] = req[d],
         \A d \in Clients : req'[d].pc \in Refreshing =>
           req'[d].sid \in Sessions /\ session[req'[d].sid].state # "none",
         \A s \in Sessions : SessionLocked(s) /\ Live(s) => session'[s].state = "live"
  PROVE  RotationInv'
<1>1. RotatesLive'
  <2> SUFFICES ASSUME NEW d \in Clients, req'[d].pc = "rotate"
               PROVE  session'[req'[d].sid].state = "live"
    BY DEF RotatesLive, At, Live
  <2>1. req'[d] = req[d] /\ req[d].sid \in Sessions /\ Live(req[d].sid)
    BY DEF RotationInv, RotatesLive, At, TypeOK, Refreshing
  <2>2. SessionLocked(req[d].sid)
    BY <2>1 DEF SessionLocked
  <2> QED
    BY <2>1, <2>2
<1>2. RotatesAlone'
  BY DEF RotationInv, RotatesAlone, At
<1>3. RootsExist'
  BY DEF RotationInv, RootsExist
<1>4. OneLivePerLogin'
  BY DEF RotationInv, OneLivePerLogin, LiveSessions, Live
<1>5. RefreshersKnown'
  BY DEF RefreshersKnown
<1> QED
  BY <1>1, <1>2, <1>3, <1>4, <1>5 DEF RotationInv

\* Revoking all sessions is such a step for the sessions that it does not revoke
\* while they are locked.
LEMMA RevokedKeeps ==
  ASSUME TypeOK, NEW c \in Clients, SnapUnlocked(c),
         session' = Revoked(c)
  PROVE  \A s \in Sessions :
           /\ session'[s].root = session[s].root
           /\ session'[s].state = "none" <=> session[s].state = "none"
           /\ session'[s].state = "live" => session[s].state = "live"
           /\ SessionLocked(s) /\ Live(s) => session'[s].state = "live"
<1> SUFFICES ASSUME NEW s \in Sessions
             PROVE  /\ session'[s].root = session[s].root
                    /\ session'[s].state = "none" <=> session[s].state = "none"
                    /\ session'[s].state = "live" => session[s].state = "live"
                    /\ SessionLocked(s) /\ Live(s) => session'[s].state = "live"
  OBVIOUS
<1>1. session[s] \in Session
  BY DEF TypeOK
<1>2. s \in req[c].snap => ~SessionLocked(s)
  BY DEF SnapUnlocked
<1>3. Revoked(c)[s] = IF s \in req[c].snap /\ Live(s)
                      THEN [session[s] EXCEPT !.state = "revoked"] ELSE session[s]
  BY DEF Revoked
<1>4. /\ [session[s] EXCEPT !.state = "revoked"].root = session[s].root
      /\ [session[s] EXCEPT !.state = "revoked"].state = "revoked"
  BY <1>1 DEF Session
<1> QED
  BY <1>2, <1>3, <1>4 DEF Live

\* A step that begins no refresh and moves none on leaves its client elsewhere.
LEMMA RefreshersStay ==
  ASSUME TypeOK, RotationInv, NEW c \in Clients,
         \A d \in Clients \ {c} : req'[d] = req[d],
         req'[c].pc \notin Refreshing
  PROVE  /\ \A d \in Clients : req'[d].pc = "rotate" => req'[d] = req[d]
         /\ \A d \in Clients : req'[d].pc \in Refreshing =>
              req'[d].sid \in Sessions /\ session[req'[d].sid].state # "none"
<1>1. "rotate" \in Refreshing
  BY DEF Refreshing
<1> QED
  BY <1>1 DEF TypeOK, RotationInv, RefreshersKnown

\* The steps that revoke.
LEMMA RotationRevokes ==
  ASSUME TypeOK, TypeOK', RotationInv, NEW c \in Clients,
         \/ FinishRevoking(c) \/ CommitSetup(c) \/ CommitDeactivate(c)
         \/ ExpireSession(c) \/ Abort(c)
  PROVE  RotationInv'
<1>0. req \in [Clients -> Request] /\ session \in [Sessions -> Session]
      /\ req' \in [Clients -> Request]
  BY DEF TypeOK
<1>1. End(c)
  BY DEF FinishRevoking, CommitSetup, CommitDeactivate, ExpireSession, Abort
<1>2. /\ \A d \in Clients : req'[d].pc = "rotate" => req'[d] = req[d]
      /\ \A d \in Clients : req'[d].pc \in Refreshing =>
           req'[d].sid \in Sessions /\ session[req'[d].sid].state # "none"
  BY <1>0, <1>1, EndType, RefreshersStay DEF Refreshing
<1>3. CASE FinishRevoking(c) \/ CommitSetup(c) \/ CommitDeactivate(c)
  BY <1>0, <1>2, <1>3, RevokedKeeps, RotationKept
    DEF FinishRevoking, CommitSetup, CommitDeactivate
<1>4. CASE ExpireSession(c)
  <2>1. req[c].sid \in Sessions /\ session[req[c].sid].state # "none" /\ ~SessionLocked(req[c].sid)
        /\ session' = [session EXCEPT ![req[c].sid].state = "revoked"]
    BY <1>4 DEF ExpireSession, At, Refreshing, TypeOK, RotationInv, RefreshersKnown
  <2>2. \A t \in Sessions : /\ [session[t] EXCEPT !.state = "revoked"].root = session[t].root
                            /\ [session[t] EXCEPT !.state = "revoked"].state = "revoked"
    BY <1>0 DEF Session
  <2>3. \A s \in Sessions :
          /\ session'[s].root = session[s].root
          /\ session'[s].state = "none" <=> session[s].state = "none"
          /\ session'[s].state = "live" => session[s].state = "live"
          /\ SessionLocked(s) /\ Live(s) => session'[s].state = "live"
    BY <1>0, <2>1, <2>2 DEF Live
  <2> QED
    BY <1>0, <1>2, <2>3, RotationKept
<1>5. CASE Abort(c)
  <2>1. session' = session
    BY <1>5 DEF Abort
  <2> QED
    BY <1>0, <1>2, <2>1, RotationKept DEF Live
<1> QED
  BY <1>3, <1>4, <1>5

\* logout revokes a session that no transaction has consumed.
LEMMA RotationLogout ==
  ASSUME TypeOK, TypeOK', RotationInv, NEW c \in Clients, Logout(c)
  PROVE  RotationInv'
<1>0. req \in [Clients -> Request] /\ session \in [Sessions -> Session] /\ req' = req
  BY DEF TypeOK, Logout
<1>1. PICK t \in Sessions :
        /\ session[t].state # "none" /\ ~SessionLocked(t)
        /\ session' = IF Live(t) THEN [session EXCEPT ![t].state = "revoked"] ELSE session
  BY DEF Logout
<1>2. \A s \in Sessions : /\ [session[s] EXCEPT !.state = "revoked"].root = session[s].root
                          /\ [session[s] EXCEPT !.state = "revoked"].state = "revoked"
  BY <1>0 DEF Session
<1>3. \A s \in Sessions :
        /\ session'[s].root = session[s].root
        /\ session'[s].state = "none" <=> session[s].state = "none"
        /\ session'[s].state = "live" => session[s].state = "live"
        /\ SessionLocked(s) /\ Live(s) => session'[s].state = "live"
  BY <1>0, <1>1, <1>2 DEF Live
<1>4. \A d \in Clients : req'[d].pc \in Refreshing =>
        req'[d].sid \in Sessions /\ session[req'[d].sid].state # "none"
  BY <1>0 DEF TypeOK, RotationInv, RefreshersKnown
<1> QED
  BY <1>0, <1>3, <1>4, RotationKept

\* Steps that leave the sessions alone and move a request on.
LEMMA RotationUntouched ==
  ASSUME TypeOK, TypeOK', RotationInv, NEW c \in Clients, session' = session,
         \A d \in Clients \ {c} : req'[d] = req[d],
         req'[c].pc # "rotate",
         req'[c].pc \in Refreshing => session[req'[c].sid].state # "none"
  PROVE  RotationInv'
<1>1. \A s \in Sessions :
        /\ session'[s].root = session[s].root
        /\ session'[s].state = "none" <=> session[s].state = "none"
        /\ session'[s].state = "live" => session[s].state = "live"
        /\ SessionLocked(s) /\ Live(s) => session'[s].state = "live"
  BY DEF Live
<1>2. \A d \in Clients : req'[d].pc = "rotate" => req'[d] = req[d]
  OBVIOUS
<1>3. \A d \in Clients : req'[d].pc \in Refreshing =>
        req'[d].sid \in Sessions /\ session[req'[d].sid].state # "none"
  BY DEF TypeOK, RotationInv, RefreshersKnown
<1>4. req' \in [Clients -> Request]
  BY DEF TypeOK
<1> QED
  BY <1>1, <1>2, <1>3, <1>4, RotationKept

\* createRefreshSession starts a login of its own.
LEMMA RotationCreate ==
  ASSUME TypeOK, TypeOK', RotationInv, NEW c \in Clients, CreateSession(c)
  PROVE  RotationInv'
<1>0. req \in [Clients -> Request] /\ session \in [Sessions -> Session]
  BY DEF TypeOK
<1>1. PICK n \in Sessions :
        /\ session[n].state = "none"
        /\ session' = [session EXCEPT ![n] = [NoRow EXCEPT !.state = "live", !.root = n]]
  BY DEF CreateSession
<1>2. /\ session'[n].state = "live" /\ session'[n].root = n
      /\ \A s \in Sessions \ {n} : session'[s] = session[s]
  BY <1>0, <1>1 DEF NoRow
<1>3. /\ \A d \in Clients : req'[d].pc = "rotate" => req'[d] = req[d]
      /\ \A d \in Clients : req'[d].pc \in Refreshing =>
           req'[d].sid \in Sessions /\ session[req'[d].sid].state # "none"
  BY <1>0, EndType, RefreshersStay DEF CreateSession, Refreshing
<1>4. RefreshersKnown'
  BY <1>1, <1>2, <1>3 DEF RefreshersKnown
<1>5. RotatesLive'
  <2> SUFFICES ASSUME NEW d \in Clients, req'[d].pc = "rotate"
               PROVE  session'[req'[d].sid].state = "live"
    BY DEF RotatesLive, At, Live
  <2>1. req'[d] = req[d] /\ req[d].sid \in Sessions /\ session[req[d].sid].state = "live"
    BY <1>3 DEF RotationInv, RotatesLive, At, Live, TypeOK, Refreshing
  <2> QED
    BY <1>1, <1>2, <2>1
<1>6. RotatesAlone'
  BY <1>3 DEF RotationInv, RotatesAlone, At
<1>7. RootsExist'
  BY <1>1, <1>2 DEF RotationInv, RootsExist
<1>8. OneLivePerLogin'
  <2>1. \A s \in Sessions \ {n} : session[s].state = "live" => session[s].root # n
    BY <1>1 DEF RotationInv, RootsExist
  <2> QED
    BY <1>2, <2>1 DEF RotationInv, OneLivePerLogin, LiveSessions, Live
<1> QED
  BY <1>4, <1>5, <1>6, <1>7, <1>8 DEF RotationInv

\* The guarded updateMany of rotateRefreshSession consumes a live session that no
\* other transaction has consumed.
LEMMA RotationConsume ==
  ASSUME TypeOK, TypeOK', RotationInv, NEW c \in Clients, Consume(c)
  PROVE  RotationInv'
<1>0. req \in [Clients -> Request] /\ session' = session
      /\ req[c].sid \in Sessions /\ session[req[c].sid].state # "none"
      /\ ~SessionLocked(req[c].sid)
  BY DEF TypeOK, Consume, At, Refreshing, RotationInv, RefreshersKnown
<1>1. CASE Goto(c, "revoke") \/ End(c)
  <2>1. req'[c].pc \in {"revoke", "idle"} /\ \A d \in Clients \ {c} : req'[d] = req[d]
    BY <1>0, <1>1, GotoType, EndType
  <2> QED
    BY <1>0, <2>1, RotationUntouched DEF Refreshing
<1>2. CASE Consumable(req[c].sid) /\ Goto(c, "rotate")
  <2>1. /\ req'[c].pc = "rotate" /\ req'[c].sid = req[c].sid
        /\ \A d \in Clients \ {c} : req'[d] = req[d]
    BY <1>0, <1>2, GotoType
  <2>2. \A d \in Clients \ {c} : req[d].pc = "rotate" => req[d].sid # req[c].sid
    BY <1>0 DEF SessionLocked
  <2>3. RefreshersKnown' /\ RotatesLive'
    BY <1>0, <1>2, <2>1
      DEF RotationInv, RefreshersKnown, RotatesLive, At, Live, Consumable
  <2>4. RotatesAlone'
    BY <2>1, <2>2 DEF RotationInv, RotatesAlone, At
  <2>5. RootsExist' /\ OneLivePerLogin'
    BY <1>0 DEF RotationInv, RootsExist, OneLivePerLogin, LiveSessions, Live
  <2> QED
    BY <2>3, <2>4, <2>5 DEF RotationInv
<1> QED
  BY <1>1, <1>2 DEF Consume

\* The committed rotation replaces the only live session of its login.
LEMMA RotationRotate ==
  ASSUME TypeOK, TypeOK', RotationInv, NEW c \in Clients, Rotate(c)
  PROVE  RotationInv'
<1> DEFINE o == req[c].sid
<1>0. /\ req \in [Clients -> Request] /\ session \in [Sessions -> Session]
      /\ o \in Sessions /\ session[o].state = "live" /\ req[c].pc = "rotate"
  BY DEF TypeOK, Rotate, At, Refreshing, RotationInv, RotatesLive, Live
<1>1. PICK n \in Sessions :
        /\ session[n].state = "none"
        /\ session' = [session EXCEPT
             ![o].state = "revoked", ![o].next = n,
             ![n] = [session[o] EXCEPT !.state = "live", !.next = NoSession, !.expired = FALSE]]
  BY DEF Rotate
<1> HIDE DEF o
<1>2. /\ n # o
      /\ session'[n].state = "live" /\ session'[n].root = session[o].root
      /\ session'[o].state = "revoked" /\ session'[o].root = session[o].root
      /\ \A s \in Sessions \ {n, o} : session'[s] = session[s]
  <2>1. session[o] \in Session
    BY <1>0
  <2>2. /\ [session[o] EXCEPT !.state = "live", !.next = NoSession, !.expired = FALSE].state = "live"
        /\ [session[o] EXCEPT !.state = "live", !.next = NoSession, !.expired = FALSE].root
             = session[o].root
        /\ [session[o] EXCEPT !.state = "revoked", !.next = n].state = "revoked"
        /\ [session[o] EXCEPT !.state = "revoked", !.next = n].root = session[o].root
    BY <2>1 DEF Session
  <2>3. n # o
    BY <1>0, <1>1
  <2>4. session'[o] = [session[o] EXCEPT !.state = "revoked", !.next = n]
    BY <1>0, <1>1, <2>3
  <2>5. session'[n] = [session[o] EXCEPT !.state = "live", !.next = NoSession, !.expired = FALSE]
    BY <1>0, <1>1, <2>3
  <2>6. \A s \in Sessions \ {n, o} : session'[s] = session[s]
    BY <1>0, <1>1
  <2> QED
    BY <2>2, <2>3, <2>4, <2>5, <2>6
<1>3. /\ \A d \in Clients : req'[d].pc = "rotate" => req'[d] = req[d] /\ d # c
      /\ \A d \in Clients : req'[d].pc \in Refreshing =>
           req'[d].sid \in Sessions /\ session[req'[d].sid].state # "none"
  BY <1>0, EndType, RefreshersStay DEF Rotate, Refreshing
<1>4. RefreshersKnown'
  BY <1>0, <1>1, <1>2, <1>3 DEF RefreshersKnown
<1>5. RotatesLive'
  <2> SUFFICES ASSUME NEW d \in Clients, req'[d].pc = "rotate"
               PROVE  session'[req'[d].sid].state = "live"
    BY DEF RotatesLive, At, Live
  <2>1. req'[d] = req[d] /\ req[d].sid \in Sessions /\ session[req[d].sid].state = "live"
    BY <1>3 DEF RotationInv, RotatesLive, At, Live, TypeOK, Refreshing
  <2>2. req[d].sid # o
    BY <1>0, <1>3, <2>1 DEF RotationInv, RotatesAlone, At, o
  <2> QED
    BY <1>1, <1>2, <2>1, <2>2
<1>6. RotatesAlone'
  BY <1>3 DEF RotationInv, RotatesAlone, At
<1>7. RootsExist'
  BY <1>0, <1>1, <1>2 DEF RotationInv, RootsExist
<1>8. OneLivePerLogin'
  <2>1. \A s \in Sessions \ {o} : session[s].state = "live" => session[s].root # session[o].root
    BY <1>0 DEF RotationInv, OneLivePerLogin, LiveSessions, Live
  <2> QED
    BY <1>2, <2>1 DEF RotationInv, OneLivePerLogin, LiveSessions, Live
<1> QED
  BY <1>4, <1>5, <1>6, <1>7, <1>8 DEF RotationInv

\* The steps that neither revoke, consume, rotate nor create.
LEMMA RotationOthers ==
  ASSUME TypeOK, TypeOK', RotationInv, NEW c \in Clients,
         \/ StartRevoking(c) \/ LoginReads(c) \/ RefreshReads(c) \/ RefreshReadsUser(c)
         \/ ChangeReads(c) \/ ChangeWrites(c) \/ SetupReads(c) \/ ConsumeLink(c)
         \/ SetUser(c) \/ DeactivateStarts(c) \/ ForgotReads(c) \/ AdminBegins(c) \/ FindLink(c)
         \/ DropLink(c) \/ RevokeLinks(c) \/ NewLink(c) \/ MakePending(c)
  PROVE  RotationInv'
<1>0. req \in [Clients -> Request] /\ req' \in [Clients -> Request]
  BY DEF TypeOK
<1>1. session' = session
  BY DEF StartRevoking, LoginReads, RefreshReads, RefreshReadsUser, ChangeReads, ChangeWrites,
         SetupReads, ConsumeLink, SetUser, DeactivateStarts, ForgotReads, AdminBegins, FindLink,
         DropLink, RevokeLinks, NewLink, MakePending
<1>2. CASE RefreshReadsUser(c)
  <2>1. req[c].sid \in Sessions /\ session[req[c].sid].state # "none"
    BY <1>2 DEF RefreshReadsUser, At, Refreshing, TypeOK, RotationInv, RefreshersKnown
  <2>2. /\ req'[c].sid = req[c].sid /\ req'[c].pc # "rotate"
        /\ \A d \in Clients \ {c} : req'[d] = req[d]
    BY <1>0, <1>2, GotoType DEF RefreshReadsUser
  <2> QED
    BY <1>1, <2>1, <2>2, RotationUntouched
<1>3. CASE RefreshReads(c)
  <2>1. /\ req'[c].pc # "rotate" /\ session[req'[c].sid].state # "none"
        /\ \A d \in Clients \ {c} : req'[d] = req[d]
    BY <1>0, <1>3, RefreshReadsType
  <2> QED
    BY <1>1, <2>1, RotationUntouched
<1>4. CASE \/ LoginReads(c) \/ ChangeReads(c) \/ SetupReads(c) \/ DeactivateStarts(c)
           \/ ForgotReads(c) \/ AdminBegins(c)
  <2>1. PICK r : /\ \E op \in AllOps : req' = [req EXCEPT ![c] = [r EXCEPT !.op = op]]
                 /\ \/ r = [Idle EXCEPT !.pc = "create"]
                    \/ r = [Idle EXCEPT !.pc = "write"]
                    \/ \E l \in Links : r = [Idle EXCEPT !.pc = "consumeLink", !.lid = l, !.was = status]
                    \/ r = [Idle EXCEPT !.pc = "snap"]
                    \/ r = [Idle EXCEPT !.pc = "findLink"]
                    \/ r = [Idle EXCEPT !.pc = "revokeLinks"]
    BY <1>4, AccountAssumption
      DEF LoginReads, ChangeReads, SetupReads, DeactivateStarts, ForgotReads, AdminBegins, Begin
  <2>2. r.pc \notin Refreshing /\ [r EXCEPT !.op = "none"].pc = r.pc
        /\ \A op \in AllOps : [r EXCEPT !.op = op].pc = r.pc
    BY <2>1 DEF Idle, Refreshing
  <2>3. req'[c].pc \notin Refreshing /\ \A d \in Clients \ {c} : req'[d] = req[d]
    BY <1>0, <2>1, <2>2
  <2> QED
    BY <1>1, <2>3, RotationUntouched DEF Refreshing
<1>5. CASE FindLink(c)
  <2>1. \/ End(c) \/ Goto(c, "newLink") \/ Goto(c, "pending")
        \/ \E l \in Links : req' = [req EXCEPT ![c] = [req[c] EXCEPT !.pc = "dropLink", !.lid = l]]
    BY <1>5 DEF FindLink, Issued
  <2>2. /\ req'[c].pc \in {"newLink", "idle", "pending", "dropLink"}
        /\ \A d \in Clients \ {c} : req'[d] = req[d]
    <3>1. CASE End(c) \/ Goto(c, "newLink") \/ Goto(c, "pending")
      BY <1>0, <3>1, GotoType, EndType
    <3>2. ASSUME NEW l \in Links,
                 req' = [req EXCEPT ![c] = [req[c] EXCEPT !.pc = "dropLink", !.lid = l]]
          PROVE  /\ req'[c].pc = "dropLink" /\ \A d \in Clients \ {c} : req'[d] = req[d]
      <4>1. [req[c] EXCEPT !.pc = "dropLink", !.lid = l].pc = "dropLink"
        BY <1>0 DEF Request
      <4> QED
        BY <1>0, <3>2, <4>1
    <3> QED
      BY <2>1, <3>1, <3>2
  <2> QED
    BY <1>1, <2>2, RotationUntouched DEF Refreshing
<1>7. CASE StartRevoking(c)
  <2>1. /\ req'[c].pc \in {"revoking", "commit"} /\ \A d \in Clients \ {c} : req'[d] = req[d]
    BY <1>0, <1>7, StartRevokingType
  <2> QED
    BY <1>1, <2>1, RotationUntouched DEF Refreshing
<1>6. CASE \/ ChangeWrites(c) \/ ConsumeLink(c) \/ SetUser(c) \/ DropLink(c)
           \/ RevokeLinks(c) \/ NewLink(c) \/ MakePending(c)
  <2>1. /\ req'[c].pc \in {"revoke", "setUser", "snap", "newLink", "idle", "pending"}
        /\ \A d \in Clients \ {c} : req'[d] = req[d]
    BY <1>0, <1>6, GotoType, EndType
      DEF ChangeWrites, ConsumeLink, SetUser, DropLink, RevokeLinks, NewLink, MakePending, Issued
  <2> QED
    BY <1>1, <2>1, RotationUntouched DEF Refreshing
<1> QED
  BY <1>2, <1>3, <1>4, <1>5, <1>6, <1>7

\* The invariant of rotation holds initially ...
LEMMA RotationInit == Init => RotationInv
BY DEF Init, RotationInv, RefreshersKnown, RotatesLive, RotatesAlone, RootsExist,
       OneLivePerLogin, LiveSessions, Live, At, Idle, NoRow, Refreshing

\* ... and every step preserves it.
LEMMA RotationStep == TypeOK /\ TypeOK' /\ RotationInv /\ [Next]_vars => RotationInv'
<1> SUFFICES ASSUME TypeOK, TypeOK', RotationInv, [Next]_vars PROVE RotationInv'
  OBVIOUS
<1>1. ASSUME NEW c \in Clients, RequestStep(c) \/ Abort(c) PROVE RotationInv'
  BY <1>1, RotationRevokes, RotationLogout, RotationCreate, RotationConsume, RotationRotate,
     RotationOthers DEF RequestStep
<1>2. ASSUME NEW t \in Sessions, SessionExpires(t) PROVE RotationInv'
  <2>0. session \in [Sessions -> Session] /\ req' = req /\ req' \in [Clients -> Request]
    BY <1>2 DEF TypeOK, SessionExpires
  <2>1. \A s \in Sessions : /\ [session[s] EXCEPT !.expired = TRUE].root = session[s].root
                            /\ [session[s] EXCEPT !.expired = TRUE].state = session[s].state
    BY <2>0 DEF Session
  <2>2. \A s \in Sessions : session'[s].root = session[s].root /\ session'[s].state = session[s].state
    BY <1>2, <2>0, <2>1 DEF SessionExpires
  <2>3. \A d \in Clients : req'[d].pc \in Refreshing =>
          req'[d].sid \in Sessions /\ session[req'[d].sid].state # "none"
    BY <2>0 DEF TypeOK, RotationInv, RefreshersKnown
  <2> QED
    BY <2>0, <2>2, <2>3, RotationKept DEF Live
<1>3. ASSUME UNCHANGED <<session, req>> PROVE RotationInv'
  BY <1>3 DEF RotationInv, RefreshersKnown, RotatesLive, RotatesAlone, RootsExist,
              OneLivePerLogin, LiveSessions, Live, At
<1>4. ASSUME NEW l \in Links, LinkExpires(l) PROVE RotationInv'
  BY <1>3, <1>4 DEF LinkExpires
<1> QED
  BY <1>1, <1>2, <1>3, <1>4 DEF Next, vars

\* Of the sessions that descend from one login at most one is live, for any number
\* of sessions, of requests at once and of refreshes.
THEOREM OneLiveSession == Spec => []OneLivePerLogin
<1>1. RotationInv => OneLivePerLogin
  BY DEF RotationInv
<1> QED
  BY <1>1, RotationInit, RotationStep, TypeCorrect, PTL DEF Spec

\* A transaction that has consumed a session is the only one that did, and finds it
\* live until it commits.
THEOREM RotationIsExclusive == Spec => []RotationInv
BY RotationInit, RotationStep, TypeCorrect, PTL DEF Spec

-----------------------------------------------------------------------------
(* The promise to every login *)

\* What a step does that neither begins a login nor rotates: at most it revokes.
Fades ==
  \A s \in Sessions :
    /\ session'[s].root = session[s].root
    /\ session'[s].state = "none" <=> session[s].state = "none"
    /\ session'[s].state = "live" => session[s].state = "live"

\* Steps of one request.
LEMMA RequestsFade ==
  ASSUME TypeOK, RotationInv, NEW c \in Clients, RequestStep(c) \/ Abort(c)
  PROVE  Fades \/ CreateSession(c) \/ Rotate(c)
<1>0. session \in [Sessions -> Session]
  BY DEF TypeOK
<1>1. CASE session' = session
  BY <1>1 DEF Fades
<1>2. CASE FinishRevoking(c) \/ CommitSetup(c) \/ CommitDeactivate(c)
  BY <1>2, RevokedKeeps DEF FinishRevoking, CommitSetup, CommitDeactivate, Fades
<1>3. ASSUME NEW t \in Sessions, session[t].state # "none",
             session' = [session EXCEPT ![t].state = "revoked"]
      PROVE  Fades
  <2>1. /\ [session[t] EXCEPT !.state = "revoked"].root = session[t].root
        /\ [session[t] EXCEPT !.state = "revoked"].state = "revoked"
    BY <1>0 DEF Session
  <2>2. session'[t].root = session[t].root /\ session'[t].state = "revoked"
    BY <1>0, <1>3, <2>1
  <2>3. \A s \in Sessions \ {t} : session'[s] = session[s]
    BY <1>0, <1>3
  <2> QED
    BY <1>3, <2>2, <2>3 DEF Fades
<1>4. CASE ExpireSession(c)
  <2>1. req[c].sid \in Sessions /\ session[req[c].sid].state # "none"
    BY <1>4 DEF ExpireSession, At, Refreshing, TypeOK, RotationInv, RefreshersKnown
  <2> QED
    BY <1>3, <1>4, <2>1 DEF ExpireSession
<1>5. CASE Logout(c)
  BY <1>1, <1>3, <1>5 DEF Logout
<1> QED
  BY <1>1, <1>2, <1>4, <1>5
    DEF RequestStep, StartRevoking, LoginReads, RefreshReads, RefreshReadsUser, Consume,
        ChangeReads, ChangeWrites, SetupReads, ConsumeLink, SetUser, DeactivateStarts,
        ForgotReads, AdminBegins, FindLink, DropLink, RevokeLinks, NewLink, MakePending, Abort

\* Every step.
LEMMA StepsFade ==
  ASSUME TypeOK, RotationInv, [Next]_vars
  PROVE  Fades \/ \E c \in Clients : CreateSession(c) \/ Rotate(c)
<1>1. ASSUME NEW t \in Sessions, SessionExpires(t) PROVE Fades
  <2>0. session \in [Sessions -> Session]
    BY DEF TypeOK
  <2>1. /\ [session[t] EXCEPT !.expired = TRUE].root = session[t].root
        /\ [session[t] EXCEPT !.expired = TRUE].state = session[t].state
    BY <2>0 DEF Session
  <2> QED
    BY <1>1, <2>0, <2>1 DEF SessionExpires, Fades
<1>2. ASSUME session' = session PROVE Fades
  BY <1>2 DEF Fades
<1>3. ASSUME NEW l \in Links, LinkExpires(l) PROVE Fades
  <2>1. session' = session
    BY <1>3 DEF LinkExpires
  <2> QED
    BY <1>2, <2>1
<1> QED
  BY <1>1, <1>2, <1>3, RequestsFade DEF Next, vars

\* The sessions of a login, by their rows.
LEMMA ValidOf ==
  ASSUME NEW l \in Sessions
  PROVE  /\ valid[l] = {s \in Sessions : session[s].state = "live" /\ session[s].root = l}
         /\ valid'[l] = {s \in Sessions : session'[s].state = "live" /\ session'[s].root = l}
BY DEF valid, LiveSessions, Live

\* A login whose live sessions stay the same keeps its token.
LEMMA SameHolders ==
  ASSUME NEW l \in Sessions,
         \A s \in Sessions : session'[s].state = "live" /\ session'[s].root = l
                            <=> session[s].state = "live" /\ session[s].root = l
  PROVE  valid'[l] = valid[l]
<1>1. \A s : s \in valid'[l] <=> s \in valid[l]
  BY ValidOf
<1>2. valid[l] \subseteq Sessions /\ valid'[l] \subseteq Sessions
  BY ValidOf
<1> QED
  BY ONLY <1>1, <1>2

\* A login has one session or none: what fades, ends.
LEMMA FadingEnds ==
  ASSUME RotationInv, Fades
  PROVE  Logins!EndSome
<1>1. handedOut' = handedOut
  BY DEF Fades, handedOut
<1>2. valid' \in [Sessions -> SUBSET Sessions]
  BY DEF valid, LiveSessions
<1>3. ASSUME NEW l \in Sessions PROVE valid'[l] \in {valid[l], {}}
  <2>1. valid'[l] \subseteq valid[l]
    BY ValidOf DEF Fades
  <2>2. \A s, t \in valid[l] : s = t
    BY ValidOf DEF RotationInv, OneLivePerLogin, LiveSessions, Live
  <2> QED
    BY <2>1, <2>2
<1> QED
  BY <1>1, <1>2, <1>3 DEF Logins!EndSome

\* createRefreshSession opens a login under an id that was never handed out.
LEMMA CreationOpens ==
  ASSUME TypeOK, RotationInv, NEW c \in Clients, CreateSession(c)
  PROVE  Logins!Next
<1>0. session \in [Sessions -> Session]
  BY DEF TypeOK
<1>1. PICK n \in Sessions :
        /\ session[n].state = "none"
        /\ session' = [session EXCEPT ![n] = [NoRow EXCEPT !.state = "live", !.root = n]]
  BY DEF CreateSession
<1>2. /\ session'[n].state = "live" /\ session'[n].root = n
      /\ \A s \in Sessions \ {n} : session'[s] = session[s]
  BY <1>0, <1>1 DEF NoRow
<1>3. Logins!Fresh(n)
  BY <1>1, <1>2 DEF Logins!Fresh, handedOut
<1>4. \A s \in Sessions : session[s].state = "live" => session[s].root # n
  BY <1>1 DEF RotationInv, RootsExist
<1>5. valid[n] = {} /\ valid'[n] = {n}
  BY <1>2, <1>4, ValidOf
<1>6. \A l \in Sessions \ {n} : valid'[l] = valid[l]
  BY <1>1, <1>2, SameHolders
<1>7. valid' = [valid EXCEPT ![n] = {n}]
  BY <1>5, <1>6 DEF valid
<1> QED
  BY <1>3, <1>5, <1>7 DEF Logins!Open, Logins!Next

\* The committed rotation exchanges the token of the session that it consumed.
LEMMA RotationExchanges ==
  ASSUME TypeOK, RotationInv, NEW c \in Clients, Rotate(c)
  PROVE  Logins!Next
<1> DEFINE o == req[c].sid
           l == session[o].root
<1>0. /\ session \in [Sessions -> Session] /\ o \in Sessions /\ session[o].state = "live"
      /\ l \in Sessions
  BY DEF TypeOK, Rotate, At, Refreshing, RotationInv, RotatesLive, Live, RootsExist
<1>1. PICK n \in Sessions :
        /\ session[n].state = "none"
        /\ session' = [session EXCEPT
             ![o].state = "revoked", ![o].next = n,
             ![n] = [session[o] EXCEPT !.state = "live", !.next = NoSession, !.expired = FALSE]]
  BY DEF Rotate
<1> HIDE DEF o
<1>2. /\ session'[n].state = "live" /\ session'[n].root = l
      /\ session'[o].state = "revoked"
      /\ \A s \in Sessions \ {n, o} : session'[s] = session[s]
  <2>1. session[o] \in Session
    BY <1>0
  <2>2. /\ [session[o] EXCEPT !.state = "live", !.next = NoSession, !.expired = FALSE].state = "live"
        /\ [session[o] EXCEPT !.state = "live", !.next = NoSession, !.expired = FALSE].root
             = session[o].root
        /\ [session[o] EXCEPT !.state = "revoked", !.next = n].state = "revoked"
    BY <2>1 DEF Session
  <2>3. n # o
    BY <1>0, <1>1
  <2>4. session'[o] = [session[o] EXCEPT !.state = "revoked", !.next = n]
    BY <1>0, <1>1, <2>3
  <2>5. session'[n] = [session[o] EXCEPT !.state = "live", !.next = NoSession, !.expired = FALSE]
    BY <1>0, <1>1, <2>3
  <2>6. \A s \in Sessions \ {n, o} : session'[s] = session[s]
    BY <1>0, <1>1
  <2> QED
    BY <2>2, <2>3, <2>4, <2>5, <2>6
<1>3. Logins!Fresh(n)
  <2>1. n # o
    BY <1>0, <1>1
  <2> QED
    BY <1>0, <1>1, <1>2, <2>1 DEF Logins!Fresh, handedOut
<1>4. \A s \in Sessions : session[s].state = "live" /\ session[s].root = l => s = o
  BY <1>0 DEF RotationInv, OneLivePerLogin, LiveSessions, Live
<1> HIDE DEF l
<1>5. valid[l] = {o} /\ valid'[l] = {n}
  <2>1. valid[l] = {o}
    BY <1>0, <1>4, ValidOf DEF l
  <2>2. \A s \in Sessions : session'[s].state = "live" /\ session'[s].root = l <=> s = n
    BY <1>1, <1>2, <1>4
  <2> QED
    BY <1>0, <2>1, <2>2, ValidOf
<1>6. \A k \in Sessions \ {l} : valid'[k] = valid[k]
  <2> TAKE k \in Sessions \ {l}
  <2>1. \A s \in Sessions : /\ session'[s].state = "live" /\ session'[s].root = k
                            <=> session[s].state = "live" /\ session[s].root = k
    BY <1>0, <1>1, <1>2 DEF l
  <2> QED
    BY <2>1, SameHolders
<1>7. valid' = [valid EXCEPT ![l] = {n}]
  BY <1>0, <1>5, <1>6 DEF valid
<1> QED
  BY <1>0, <1>3, <1>5, <1>7 DEF Logins!Exchange, Logins!Next

\* However requests interleave, are repeated or cut short, the sessions keep the promise
\* of LoginTokens to every login: one token at a time, each exchanged once and while it
\* works, and an ended login stays ended (auth-session.service.ts:22-181).
THEOREM LoginsAreImplemented == Spec => ImplementsLogins
<1>1. Init => Logins!Init
  <2> SUFFICES ASSUME Init PROVE Logins!Init
    OBVIOUS
  <2>1. \A s \in Sessions : session[s].state = "none"
    BY DEF Init, NoRow
  <2>2. handedOut = {} /\ LiveSessions = {}
    BY <2>1 DEF handedOut, LiveSessions, Live
  <2> QED
    BY <2>2 DEF Logins!Init, valid
<1>2. TypeOK /\ RotationInv /\ [Next]_vars => [Logins!Next]_<<valid, handedOut>>
  BY StepsFade, FadingEnds, CreationOpens, RotationExchanges DEF Logins!Next
<1> QED
  BY <1>1, <1>2, RotationInit, RotationStep, TypeCorrect, PTL
    DEF Spec, ImplementsLogins, Logins!Spec

\* A step that keeps the promise makes no token work that was handed out before.
LEMMA OnlyFreshBegin ==
  ASSUME [Logins!Next]_<<valid, handedOut>>,
         NEW t \in handedOut, NEW l \in Sessions, t \in valid'[l]
  PROVE  t \in valid[l]
<1>1. CASE UNCHANGED <<valid, handedOut>>
  BY <1>1
<1>2. CASE Logins!EndSome
  BY <1>2 DEF Logins!EndSome
<1>3. DOMAIN valid = Sessions /\ valid = [k \in Sessions |-> valid[k]]
  BY DEF valid
<1>4. ASSUME NEW k \in Sessions, Logins!Open(k) PROVE t \in valid[l]
  BY <1>3, <1>4 DEF Logins!Open, Logins!Fresh
<1>5. ASSUME NEW k \in Sessions, NEW n \in Sessions, Logins!Exchange(k, n) PROVE t \in valid[l]
  BY <1>3, <1>5 DEF Logins!Exchange, Logins!Fresh
<1> QED
  BY <1>1, <1>2, <1>4, <1>5 DEF Logins!Next

\* A session that was rotated or revoked stays so.
SpentIsSpent ==
  [][\A t \in Sessions : session[t].state = "revoked" => session'[t].state = "revoked"]_session

\* A refresh token that was exchanged, or whose session was revoked, never works again:
\* not by a rotation that was under way, a replay or a second update of its row.
THEOREM SpentTokensStaySpent == Spec => SpentIsSpent
<1>1. TypeOK /\ TypeOK' /\ RotationInv /\ RotationInv' /\ [Next]_vars =>
        [\A t \in Sessions : session[t].state = "revoked" => session'[t].state = "revoked"]_session
  <2> SUFFICES ASSUME TypeOK, TypeOK', RotationInv, RotationInv', [Next]_vars,
                      NEW t \in Sessions, session[t].state = "revoked"
               PROVE  session'[t].state = "revoked"
    OBVIOUS
  <2>1. [Logins!Next]_<<valid, handedOut>>
    BY StepsFade, FadingEnds, CreationOpens, RotationExchanges DEF Logins!Next
  <2>2. t \in handedOut
    BY DEF handedOut
  <2>3. t \in handedOut'
    BY <2>1, <2>2
      DEF Logins!Next, Logins!EndSome, Logins!Open, Logins!Exchange, Logins!Fresh
  <2>4. session'[t].state # "live"
    <3> SUFFICES ASSUME session'[t].state = "live" PROVE FALSE
      OBVIOUS
    <3>1. session'[t].root \in Sessions
      BY DEF RotationInv, RootsExist
    <3>2. t \in valid'[session'[t].root]
      BY <3>1, ValidOf
    <3>3. t \in valid[session'[t].root]
      BY <2>1, <2>2, <3>1, <3>2, OnlyFreshBegin
    <3> QED
      BY <3>1, <3>3, ValidOf
  <2>5. session'[t].state \in {"none", "live", "revoked"} /\ session'[t].state # "none"
    BY <2>3 DEF TypeOK, Session, handedOut
  <2> QED
    BY <2>4, <2>5
<1> QED
  BY <1>1, RotationInit, RotationStep, TypeCorrect, PTL DEF Spec, SpentIsSpent

-----------------------------------------------------------------------------
(* A link sets a password once, while it is good *)

\* Why a link is used once.  The transaction that has consumed a link holds the lock of
\* its row, so it is the only one with that link, which stays good until it commits.
SettingUp(c) == req[c].op = "setup" /\ req[c].pc \in {"setUser", "snap", "commit"}
LinksKnown == \A c \in Clients : At(c, "consumeLink") \/ SettingUp(c) => req[c].lid \in Links
SetupsAlone ==
  \A c, d \in Clients : SettingUp(c) /\ SettingUp(d) /\ req[c].lid = req[d].lid => c = d
ConsumesUnused == \A c \in Clients : SettingUp(c) => Unused(req[c].lid)
UsesNoted == \A l \in Links : uses[l] <= 1 /\ (uses[l] = 1 => link[l].used)
LinkInv == LinksKnown /\ SetupsAlone /\ ConsumesUnused /\ UsesNoted

\* A step that consumes no link, and revokes none that an open transaction has consumed.
LEMMA LinkQuiet ==
  ASSUME TypeOK, LinkInv, NEW c \in Clients,
         \A d \in Clients \ {c} : req'[d] = req[d],
         req'[c].pc # "consumeLink",
         SettingUp(c)' => SettingUp(c) /\ req'[c].lid = req[c].lid,
         uses' = uses,
         \A l \in Links : link'[l].used = link[l].used,
         \A l \in Links : LinkLocked(l) /\ Unused(l) => Unused(l)'
  PROVE  LinkInv'
<1>1. \A d \in Clients : SettingUp(d)' => SettingUp(d) /\ req'[d].lid = req[d].lid
  BY DEF SettingUp
<1>2. LinksKnown'
  BY <1>1 DEF LinkInv, LinksKnown, At
<1>3. SetupsAlone'
  BY <1>1 DEF LinkInv, SetupsAlone
<1>4. ConsumesUnused'
  <2> SUFFICES ASSUME NEW d \in Clients, SettingUp(d)'
               PROVE  Unused(req[d].lid)' /\ req'[d].lid = req[d].lid
    BY DEF ConsumesUnused, Unused
  <2>1. SettingUp(d) /\ req'[d].lid = req[d].lid
    BY <1>1
  <2>2. req[d].lid \in Links /\ LinkLocked(req[d].lid) /\ Unused(req[d].lid)
    BY <2>1 DEF LinkInv, LinksKnown, ConsumesUnused, SettingUp, LinkLocked
  <2> QED
    BY <2>1, <2>2 DEF Unused
<1>5. UsesNoted'
  BY DEF LinkInv, UsesNoted
<1> QED
  BY <1>2, <1>3, <1>4, <1>5 DEF LinkInv

\* The steps that touch no link, and what their request does next.
LEMMA OtherMoves ==
  ASSUME TypeOK, NEW c \in Clients,
         \/ LoginReads(c) \/ CreateSession(c) \/ RefreshReads(c) \/ ExpireSession(c)
         \/ RefreshReadsUser(c) \/ Consume(c) \/ Rotate(c) \/ ChangeReads(c)
         \/ ForgotReads(c) \/ AdminBegins(c) \/ FindLink(c) \/ MakePending(c)
  PROVE  /\ \A d \in Clients \ {c} : req'[d] = req[d]
         /\ req'[c].pc \notin {"consumeLink", "setUser", "snap", "commit"}
         /\ link' = link /\ uses' = uses
<1>0. req \in [Clients -> Request]
  BY DEF TypeOK
<1>1. CASE LoginReads(c) \/ ChangeReads(c) \/ ForgotReads(c) \/ AdminBegins(c)
  <2>1. PICK r, op : /\ req' = [req EXCEPT ![c] = [r EXCEPT !.op = op]]
                     /\ \/ r = [Idle EXCEPT !.pc = "create"]
                        \/ r = [Idle EXCEPT !.pc = "write"]
                        \/ r = [Idle EXCEPT !.pc = "findLink"]
                        \/ r = [Idle EXCEPT !.pc = "revokeLinks"]
    BY <1>1 DEF LoginReads, ChangeReads, ForgotReads, AdminBegins, Begin
  <2>2. [r EXCEPT !.op = op].pc \in {"create", "write", "findLink", "revokeLinks"}
    BY <2>1 DEF Idle
  <2>3. /\ req'[c].pc \in {"create", "write", "findLink", "revokeLinks"}
        /\ \A d \in Clients \ {c} : req'[d] = req[d]
    BY <1>0, <2>1, <2>2
  <2>4. link' = link /\ uses' = uses
    BY <1>1 DEF LoginReads, ChangeReads, ForgotReads, AdminBegins
  <2> QED
    BY <2>3, <2>4
<1>2. CASE RefreshReads(c)
  BY <1>0, <1>2, RefreshReadsType DEF RefreshReads
<1>3. CASE FindLink(c)
  <2>1. \/ End(c) \/ Goto(c, "newLink") \/ Goto(c, "pending")
        \/ \E l \in Links : req' = [req EXCEPT ![c] = [req[c] EXCEPT !.pc = "dropLink", !.lid = l]]
    BY <1>3 DEF FindLink, Issued
  <2>2. /\ req'[c].pc \in {"newLink", "idle", "pending", "dropLink"}
        /\ \A d \in Clients \ {c} : req'[d] = req[d]
    <3>1. CASE End(c) \/ Goto(c, "newLink") \/ Goto(c, "pending")
      BY <1>0, <3>1, GotoType, EndType
    <3>2. ASSUME NEW l \in Links,
                 req' = [req EXCEPT ![c] = [req[c] EXCEPT !.pc = "dropLink", !.lid = l]]
          PROVE  req'[c].pc = "dropLink" /\ \A d \in Clients \ {c} : req'[d] = req[d]
      <4>1. [req[c] EXCEPT !.pc = "dropLink", !.lid = l].pc = "dropLink"
        BY <1>0 DEF Request
      <4> QED
        BY <1>0, <3>2, <4>1
    <3> QED
      BY <2>1, <3>1, <3>2
  <2> QED
    BY <1>3, <2>2 DEF FindLink, At
<1>4. CASE CreateSession(c) \/ ExpireSession(c) \/ Rotate(c) \/ MakePending(c)
  <2>1. req'[c].pc = "idle" /\ \A d \in Clients \ {c} : req'[d] = req[d]
    BY <1>0, <1>4, EndType DEF CreateSession, ExpireSession, Rotate, MakePending
  <2> QED
    BY <1>4, <2>1 DEF CreateSession, ExpireSession, Rotate, MakePending, At
<1>5. CASE RefreshReadsUser(c) \/ Consume(c)
  <2>1. End(c) \/ Goto(c, "consume") \/ Goto(c, "revoke") \/ Goto(c, "rotate")
    BY <1>5 DEF RefreshReadsUser, Consume
  <2>2. /\ req'[c].pc \in {"idle", "consume", "revoke", "rotate"}
        /\ \A d \in Clients \ {c} : req'[d] = req[d]
    BY <1>0, <2>1, GotoType, EndType
  <2> QED
    BY <1>5, <2>2 DEF RefreshReadsUser, Consume, At
<1> QED
  BY <1>1, <1>2, <1>3, <1>4, <1>5

\* The steps that update the user or the sessions, and an abort, keep or drop the link of
\* the set-up that they belong to.
LEMMA RevokingMoves ==
  ASSUME TypeOK, NEW c \in Clients,
         \/ StartRevoking(c) \/ FinishRevoking(c) \/ ChangeWrites(c) \/ SetUser(c)
         \/ DeactivateStarts(c) \/ CommitDeactivate(c) \/ Abort(c)
  PROVE  /\ \A d \in Clients \ {c} : req'[d] = req[d]
         /\ req'[c].pc # "consumeLink"
         /\ SettingUp(c)' => SettingUp(c) /\ req'[c].lid = req[c].lid
         /\ link' = link /\ uses' = uses
<1>0. req \in [Clients -> Request]
  BY DEF TypeOK
<1>1. CASE StartRevoking(c)
  BY <1>0, <1>1, StartRevokingType DEF StartRevoking, SettingUp
<1>2. CASE FinishRevoking(c) \/ CommitDeactivate(c) \/ Abort(c)
  BY <1>0, <1>2, EndType DEF FinishRevoking, CommitDeactivate, Abort, SettingUp
<1>3. CASE ChangeWrites(c) \/ SetUser(c)
  BY <1>0, <1>3, GotoType DEF ChangeWrites, SetUser, SettingUp, At
<1>4. CASE DeactivateStarts(c)
  <2>1. req' = [req EXCEPT ![c] = [[Idle EXCEPT !.pc = "snap"] EXCEPT !.op = "deactivate"]]
    BY <1>4 DEF DeactivateStarts, Begin
  <2>2. /\ req'[c].pc = "snap" /\ req'[c].op = "deactivate"
        /\ \A d \in Clients \ {c} : req'[d] = req[d]
    BY <1>0, <2>1 DEF Idle
  <2> QED
    BY <1>4, <2>2 DEF DeactivateStarts, SettingUp
<1> QED
  BY <1>1, <1>2, <1>3, <1>4

\* A row of the links keeps its use, and its validity unless it is revoked.
LEMMA LinkRows ==
  ASSUME TypeOK, NEW c \in Clients, DropLink(c) \/ RevokeLinks(c) \/ NewLink(c)
  PROVE  /\ \A d \in Clients \ {c} : req'[d] = req[d]
         /\ req'[c].pc \in {"newLink", "idle", "pending"}
         /\ uses' = uses
         /\ \A l \in Links : link'[l].used = link[l].used
         /\ \A l \in Links : LinkLocked(l) /\ Unused(l) => Unused(l)'
<1>0. req \in [Clients -> Request] /\ link \in [Links -> Link]
  BY DEF TypeOK
<1>1. /\ \A d \in Clients \ {c} : req'[d] = req[d]
      /\ req'[c].pc \in {"newLink", "idle", "pending"}
      /\ uses' = uses
  BY <1>0, GotoType, EndType DEF DropLink, RevokeLinks, NewLink, Issued
<1>2. \A l \in Links : /\ [link[l] EXCEPT !.revoked = TRUE].used = link[l].used
                       /\ \A t : /\ [link[l] EXCEPT !.type = t].used = link[l].used
                                 /\ [link[l] EXCEPT !.type = t].type = t
                                 /\ [link[l] EXCEPT !.type = t].revoked = link[l].revoked
  BY <1>0 DEF Link
<1>3. CASE DropLink(c)
  <2>1. ~LinkLocked(req[c].lid) /\ link' = [link EXCEPT ![req[c].lid] = [@ EXCEPT !.revoked = TRUE]]
    BY <1>3 DEF DropLink
  <2>2. \A l \in Links : l # req[c].lid => link'[l] = link[l]
    BY <1>0, <2>1
  <2>3. \A l \in Links : link'[l].used = link[l].used
    BY <1>0, <1>2, <2>1
  <2> QED
    BY <1>1, <2>1, <2>2, <2>3 DEF Unused
<1>4. CASE RevokeLinks(c)
  <2>1. PICK old : /\ \A l \in old : ~LinkLocked(l)
                   /\ link' = [l \in Links |-> IF l \in old THEN [link[l] EXCEPT !.revoked = TRUE]
                                               ELSE link[l]]
    BY <1>4 DEF RevokeLinks
  <2>2. \A l \in Links : link'[l].used = link[l].used
    BY <1>2, <2>1
  <2>3. \A l \in Links : LinkLocked(l) => link'[l] = link[l]
    BY <2>1
  <2> QED
    BY <1>1, <2>2, <2>3 DEF Unused
<1>5. CASE NewLink(c)
  <2>1. PICK n \in Links : link[n].type = "none"
                           /\ link' = [link EXCEPT ![n] = [@ EXCEPT !.type = LinkType(c)]]
    BY <1>5 DEF NewLink
  <2>2. \A l \in Links : link'[l].used = link[l].used
    BY <1>0, <1>2, <2>1
  <2>3. \A l \in Links : l # n => link'[l] = link[l]
    BY <1>0, <2>1
  <2> QED
    BY <1>1, <2>1, <2>2, <2>3 DEF Unused
<1> QED
  BY <1>3, <1>4, <1>5

\* A set-up that consumes its link is the only one that has: the row was not locked.
LEMMA LinkConsumed ==
  ASSUME TypeOK, LinkInv, NEW c \in Clients, ConsumeLink(c)
  PROVE  LinkInv'
<1>0. req \in [Clients -> Request] /\ link' = link /\ uses' = uses
  BY DEF TypeOK, ConsumeLink
<1>1. CASE End(c)
  <2>1. req'[c].pc = "idle" /\ \A d \in Clients \ {c} : req'[d] = req[d]
    BY <1>0, <1>1, EndType
  <2> QED
    BY <1>0, <2>1, LinkQuiet DEF Unused, SettingUp
<1>2. CASE Unused(req[c].lid) /\ Goto(c, "setUser")
  <2>1. /\ req'[c].pc = "setUser" /\ req'[c].lid = req[c].lid
        /\ \A d \in Clients \ {c} : req'[d] = req[d]
    BY <1>0, <1>2, GotoType
  <2>2. req[c].lid \in Links /\ ~LinkLocked(req[c].lid)
    BY DEF ConsumeLink, LinkInv, LinksKnown
  <2>3. \A d \in Clients \ {c} : SettingUp(d)' => SettingUp(d) /\ req[d].lid # req[c].lid
    BY <2>1, <2>2 DEF SettingUp, LinkLocked
  <2>4. LinksKnown'
    BY <2>1, <2>2, <2>3 DEF LinkInv, LinksKnown, At
  <2>5. SetupsAlone'
    BY <2>1, <2>3 DEF LinkInv, SetupsAlone
  <2>6. ConsumesUnused'
    BY <1>0, <1>2, <2>1, <2>3 DEF LinkInv, ConsumesUnused, Unused
  <2>7. UsesNoted'
    BY <1>0 DEF LinkInv, UsesNoted
  <2> QED
    BY <2>4, <2>5, <2>6, <2>7 DEF LinkInv
<1> QED
  BY <1>1, <1>2 DEF ConsumeLink

\* What the commit of a set-up does to the links.
LEMMA CommitUses ==
  ASSUME TypeOK, LinkInv, NEW c \in Clients, CommitSetup(c)
  PROVE  LET l == req[c].lid
         IN  /\ SettingUp(c) /\ l \in Links /\ Unused(l)
             /\ link'[l].used /\ uses'[l] = uses[l] + 1
             /\ \A k \in Links : k # l => link'[k] = link[k] /\ uses'[k] = uses[k]
<1> DEFINE l == req[c].lid
<1>0. link \in [Links -> Link] /\ uses \in [Links -> Nat]
  BY DEF TypeOK
<1>1. SettingUp(c) /\ l \in Links /\ Unused(l)
  BY DEF CommitSetup, SettingUp, At, LinkInv, LinksKnown, ConsumesUnused
<1>2. /\ link' = [link EXCEPT ![l] = [link[l] EXCEPT !.used = TRUE]]
      /\ uses' = [uses EXCEPT ![l] = uses[l] + 1]
  BY DEF CommitSetup
<1>3. [link[l] EXCEPT !.used = TRUE].used = TRUE
  BY <1>0, <1>1 DEF Link
<1> HIDE DEF l
<1>4. link'[l].used = TRUE /\ uses'[l] = uses[l] + 1
  BY <1>0, <1>1, <1>2, <1>3
<1>5. \A k \in Links : k # l => link'[k] = link[k] /\ uses'[k] = uses[k]
  BY <1>0, <1>1, <1>2
<1> QED
  BY <1>1, <1>4, <1>5 DEF l

\* The commit uses the link that the transaction consumed.
LEMMA LinkCommits ==
  ASSUME TypeOK, LinkInv, NEW c \in Clients, CommitSetup(c)
  PROVE  LinkInv'
<1> DEFINE l == req[c].lid
<1>1. /\ SettingUp(c) /\ l \in Links /\ Unused(l)
      /\ link'[l].used /\ uses'[l] = uses[l] + 1
      /\ \A k \in Links : k # l => link'[k] = link[k] /\ uses'[k] = uses[k]
  BY CommitUses
<1>2. req'[c].pc = "idle" /\ \A d \in Clients \ {c} : req'[d] = req[d]
  BY EndType DEF CommitSetup, TypeOK
<1>3. \A d \in Clients : SettingUp(d)' =>
        SettingUp(d) /\ req'[d] = req[d] /\ req[d].lid # l /\ req[d].lid \in Links
  BY <1>1, <1>2 DEF SettingUp, LinkInv, SetupsAlone, LinksKnown
<1> HIDE DEF l
<1>4. LinksKnown'
  BY <1>2, <1>3 DEF LinkInv, LinksKnown, At
<1>5. SetupsAlone'
  BY <1>3 DEF LinkInv, SetupsAlone
<1>6. ConsumesUnused'
  BY <1>1, <1>3 DEF LinkInv, ConsumesUnused, Unused
<1>7. UsesNoted'
  <2>1. uses[l] = 0
    BY <1>1 DEF LinkInv, UsesNoted, Unused, TypeOK
  <2> QED
    BY <1>1, <2>1 DEF LinkInv, UsesNoted
<1> QED
  BY <1>4, <1>5, <1>6, <1>7 DEF LinkInv

LEMMA LinkInit == Init => LinkInv
BY DEF Init, LinkInv, LinksKnown, SetupsAlone, ConsumesUnused, UsesNoted, SettingUp, At, Idle

\* Every step preserves the invariant of the links.
LEMMA LinkStep == TypeOK /\ LinkInv /\ [Next]_vars => LinkInv'
<1> SUFFICES ASSUME TypeOK, LinkInv, [Next]_vars PROVE LinkInv'
  OBVIOUS
<1>0. req \in [Clients -> Request] /\ link \in [Links -> Link]
  BY DEF TypeOK
<1>1. ASSUME UNCHANGED <<req, link, uses>> PROVE LinkInv'
  BY <1>1 DEF LinkInv, LinksKnown, SetupsAlone, ConsumesUnused, UsesNoted, SettingUp, At, Unused
<1>2. ASSUME NEW c \in Clients, RequestStep(c) \/ Abort(c) PROVE LinkInv'
  <2>1. CASE Logout(c)
    BY <1>1, <2>1 DEF Logout
  <2>2. CASE SetupReads(c)
    <3>1. PICK l \in Links :
            req' = [req EXCEPT ![c] =
              [[Idle EXCEPT !.pc = "consumeLink", !.lid = l, !.was = status] EXCEPT !.op = "setup"]]
      BY <2>2 DEF SetupReads, Begin
    <3>2. /\ req'[c].pc = "consumeLink" /\ req'[c].lid = l
          /\ \A d \in Clients \ {c} : req'[d] = req[d]
      BY <1>0, <3>1 DEF Idle
    <3>3. link' = link /\ uses' = uses
      BY <2>2 DEF SetupReads
    <3>4. \A d \in Clients : SettingUp(d)' => SettingUp(d) /\ req'[d] = req[d]
      BY <3>2 DEF SettingUp
    <3>5. LinksKnown'
      BY <3>2, <3>4 DEF LinkInv, LinksKnown, At
    <3> QED
      BY <3>3, <3>4, <3>5 DEF LinkInv, SetupsAlone, ConsumesUnused, UsesNoted, Unused
  <2>4. CASE DropLink(c) \/ RevokeLinks(c) \/ NewLink(c)
    BY <2>4, LinkRows, LinkQuiet DEF SettingUp
  <2>5. CASE \/ StartRevoking(c) \/ FinishRevoking(c) \/ ChangeWrites(c) \/ SetUser(c)
             \/ DeactivateStarts(c) \/ CommitDeactivate(c) \/ Abort(c)
    BY <2>5, RevokingMoves, LinkQuiet DEF Unused
  <2>6. CASE \/ LoginReads(c) \/ CreateSession(c) \/ RefreshReads(c) \/ ExpireSession(c)
             \/ RefreshReadsUser(c) \/ Consume(c) \/ Rotate(c) \/ ChangeReads(c)
             \/ ForgotReads(c) \/ AdminBegins(c) \/ FindLink(c) \/ MakePending(c)
    BY <2>6, OtherMoves, LinkQuiet DEF Unused, SettingUp
  <2> QED
    BY <1>2, <2>1, <2>2, <2>4, <2>5, <2>6, LinkConsumed, LinkCommits DEF RequestStep
<1>3. ASSUME NEW l \in Links, LinkExpires(l) PROVE LinkInv'
  <2>1. req' = req /\ uses' = uses /\ link' = [link EXCEPT ![l] = [link[l] EXCEPT !.expired = TRUE]]
    BY <1>3 DEF LinkExpires
  <2>2. /\ [link[l] EXCEPT !.expired = TRUE].used = link[l].used
        /\ [link[l] EXCEPT !.expired = TRUE].type = link[l].type
        /\ [link[l] EXCEPT !.expired = TRUE].revoked = link[l].revoked
    BY <1>0 DEF Link
  <2>3. \A k \in Links : /\ link'[k].used = link[k].used
                         /\ link'[k].type = link[k].type /\ link'[k].revoked = link[k].revoked
    BY <1>0, <2>1, <2>2
  <2> QED
    BY <2>1, <2>3
      DEF LinkInv, LinksKnown, SetupsAlone, ConsumesUnused, UsesNoted, SettingUp, At, Unused
<1>4. ASSUME NEW s \in Sessions, SessionExpires(s) PROVE LinkInv'
  BY <1>1, <1>4 DEF SessionExpires
<1> QED
  BY <1>1, <1>2, <1>3, <1>4 DEF Next, vars

\* A link sets a password at most once, for any number of submissions of it at once.
THEOREM LinkWorksOnce == Spec => []LinkUsedOnce
<1>1. LinkInv => LinkUsedOnce
  BY DEF LinkInv, UsesNoted, LinkUsedOnce
<1> QED
  BY <1>1, LinkInit, LinkStep, TypeCorrect, PTL DEF Spec

\* A link sets a password only while it is unspent and unrevoked: a revocation by a new
\* invitation or reset waits for the transaction that has consumed the link, or is seen
\* by the guard of its update (account-action-token.service.ts:133-144).
THEOREM LinksSetWhileGood == Spec => GoodLinksOnly
<1>1. TypeOK /\ LinkInv /\ [Next]_vars =>
        [\A l \in Links : uses'[l] # uses[l] => Unused(l)]_vars
  <2> SUFFICES ASSUME TypeOK, LinkInv, Next, NEW l \in Links, uses'[l] # uses[l]
               PROVE  Unused(l)
    OBVIOUS
  <2>1. ASSUME NEW c \in Clients, CommitSetup(c) PROVE Unused(l)
    BY <2>1, CommitUses
  <2>2. ASSUME NEW c \in Clients, RequestStep(c) \/ Abort(c), ~CommitSetup(c)
        PROVE  uses' = uses
    BY <2>2 DEF RequestStep, Abort, StartRevoking, FinishRevoking, LoginReads, CreateSession,
      RefreshReads, ExpireSession, RefreshReadsUser, Consume, Rotate, Logout, ChangeReads,
      ChangeWrites, SetupReads, ConsumeLink, SetUser, DeactivateStarts, CommitDeactivate,
      ForgotReads, AdminBegins, FindLink, DropLink, RevokeLinks, NewLink, MakePending
  <2> QED
    BY <2>1, <2>2 DEF Next, SessionExpires, LinkExpires
<1> QED
  BY <1>1, LinkInit, LinkStep, TypeCorrect, PTL DEF Spec, GoodLinksOnly
=============================================================================
