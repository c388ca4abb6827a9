--------------------------- MODULE AccountAccess ---------------------------
(***************************************************************************)
(* How one account is entered: its password and status, the refresh        *)
(* sessions (backend/src/auth/auth-session.service.ts), the activation and *)
(* reset links (account-action-token.service.ts) and the requests that     *)
(* change them (auth.service.ts, profile.service.ts,                       *)
(* admin-users.service.ts).  Every statement filters on one user, one      *)
(* session or one link of that user, so accounts do not interact.          *)
(*                                                                         *)
(* Each database statement is one step.  The database runs transactions    *)
(* at READ COMMITTED, the default nothing in the code changes: a row that  *)
(* an open transaction has updated is locked until it ends, and an update  *)
(* of many rows sees the rows committed when it began, waits for the       *)
(* locked ones and leaves out those that no longer match.                  *)
(***************************************************************************)
EXTENDS Naturals, FiniteSets

CONSTANTS
  Sessions,      \* ids of AuthSession rows
  Links,         \* ids of AccountActionToken rows
  Clients,       \* API requests that may be in progress at once
  NoSession,
  NoLink,
  Ops,           \* the requests that occur
  MaxEpochs      \* bound on new passwords and deactivations

AllOps == {"login", "refresh", "logout", "change", "setup", "forgot",
           "invite", "reset", "deactivate"}

ASSUME AccountAssumption ==
  /\ NoSession \notin Sessions
  /\ NoLink \notin Links
  /\ Ops \subseteq AllOps
  /\ MaxEpochs \in Nat

VARIABLES
  status,    \* User.status, the three PENDING_* as one, the blocked ones as one
  password,  \* User.passwordHash is set
  session,   \* the AuthSession rows of the account
  link,      \* its AccountActionToken rows
  req,       \* local state of each request
  epoch,     \* new passwords and deactivations so far
  uses       \* history: how often a link set a password

vars == <<status, password, session, link, req, epoch, uses>>

Session == [state: {"none", "live", "revoked"}, expired: BOOLEAN,
            next: Sessions \union {NoSession},        \* replacedBySessionId
            root: Sessions \union {NoSession}]        \* history: the login's session
NoRow == [state |-> "none", expired |-> FALSE, next |-> NoSession, root |-> NoSession]

LinkTypes == {"activation", "reset"}
Link == [type: LinkTypes \union {"none"}, used: BOOLEAN, revoked: BOOLEAN, expired: BOOLEAN]
NoLinkRow == [type |-> "none", used |-> FALSE, revoked |-> FALSE, expired |-> FALSE]

Request == [op: AllOps \union {"none"},
            pc: {"idle", "create", "user", "consume", "rotate", "expire", "write",
                 "revoke", "revoking", "consumeLink", "setUser", "snap", "commit",
                 "revokeLinks", "findLink", "dropLink", "newLink", "pending"},
            sid: Sessions \union {NoSession}, lid: Links \union {NoLink},
            was: {"PENDING", "ACTIVE", "INACTIVE"}, snap: SUBSET Sessions]
Idle == [op |-> "none", pc |-> "idle", sid |-> NoSession, lid |-> NoLink,
         was |-> "PENDING", snap |-> {}]

Init ==
  /\ status = "PENDING"
  /\ password = FALSE
  /\ session = [s \in Sessions |-> NoRow]
  /\ link = [l \in Links |-> NoLinkRow]
  /\ req = [c \in Clients |-> Idle]
  /\ epoch = 0
  /\ uses = [l \in Links |-> 0]

Live(s) == session[s].state = "live"
LiveSessions == {s \in Sessions : Live(s)}
Unused(l) == link[l].type # "none" /\ ~link[l].used /\ ~link[l].revoked

\* Rows that an open transaction has updated.
SessionLocked(s) == \E c \in Clients : req[c].pc = "rotate" /\ req[c].sid = s
LinkLocked(l) ==
  \E c \in Clients : req[c].pc \in {"setUser", "snap", "commit"} /\ req[c].lid = l
UserLocked == \E c \in Clients : req[c].pc \in {"snap", "commit"}

Begin(c, op, r) ==
  /\ op \in Ops /\ req[c].pc = "idle"
  /\ req' = [req EXCEPT ![c] = [r EXCEPT !.op = op]]

At(c, pc) == req[c].pc = pc
Goto(c, pc) == req' = [req EXCEPT ![c].pc = pc]
End(c) == req' = [req EXCEPT ![c] = Idle]

-----------------------------------------------------------------------------
(* Revoking every session of the user: one updateMany *)

\* It finds the live ones, on its own or inside a transaction.
StartRevoking(c) ==
  /\ At(c, "revoke") \/ At(c, "snap")
  /\ req' = [req EXCEPT ![c].pc = IF At(c, "revoke") THEN "revoking" ELSE "commit",
                        ![c].snap = LiveSessions]
  /\ UNCHANGED <<status, password, session, link, epoch, uses>>

\* The rows it found, unless they were revoked while it waited.
Revoked(c) ==
  [s \in Sessions |-> IF s \in req[c].snap /\ Live(s)
                      THEN [session[s] EXCEPT !.state = "revoked"] ELSE session[s]]

SnapUnlocked(c) == \A s \in req[c].snap : ~SessionLocked(s)

FinishRevoking(c) ==
  /\ At(c, "revoking") /\ SnapUnlocked(c)
  /\ session' = Revoked(c)
  /\ End(c)
  /\ UNCHANGED <<status, password, link, epoch, uses>>

-----------------------------------------------------------------------------
(* Login, refresh and logout *)

\* login compares the password and the status ...
LoginReads(c) ==
  /\ status = "ACTIVE" /\ password
  /\ Begin(c, "login", [Idle EXCEPT !.pc = "create"])
  /\ UNCHANGED <<status, password, session, link, epoch, uses>>

\* ... and createRefreshSession inserts the row.
CreateSession(c) ==
  /\ At(c, "create")
  /\ \E s \in Sessions :
       /\ session[s].state = "none"
       /\ session' = [session EXCEPT ![s] = [NoRow EXCEPT !.state = "live", !.root = s]]
  /\ End(c)
  /\ UNCHANGED <<status, password, link, epoch, uses>>

\* rotateRefreshSession reads the session that its token names.  A token that was
\* rotated before, or whose hash is not that of a live session, revokes them all.
RefreshReads(c) ==
  \E s \in Sessions :
    /\ session[s].state # "none"
    /\ \E pc \in {"revoke", "expire", "user"} :
         /\ CASE session[s].state = "revoked" -> pc = "revoke" /\ session[s].next # NoSession
              [] session[s].expired           -> pc = "expire"
              [] OTHER                        -> pc \in {"user", "revoke"}
         /\ Begin(c, "refresh", [Idle EXCEPT !.sid = s, !.pc = pc])
    /\ UNCHANGED <<status, password, session, link, epoch, uses>>

\* The update by id of an expired session.
ExpireSession(c) ==
  /\ At(c, "expire") /\ ~SessionLocked(req[c].sid)
  /\ session' = [session EXCEPT ![req[c].sid].state = "revoked"]
  /\ End(c)
  /\ UNCHANGED <<status, password, link, epoch, uses>>

RefreshReadsUser(c) ==
  /\ At(c, "user")
  /\ Goto(c, IF status = "ACTIVE" THEN "consume" ELSE "revoke")
  /\ UNCHANGED <<status, password, session, link, epoch, uses>>

\* Mutant of Consumable: trusts the session read before.
ConsumableOnceRead(s) == TRUE

\* Mutant of Consumable: guards against a second rotation only.
ConsumableUnreplaced(s) == session[s].next = NoSession

\* The guard of the consuming updateMany; its expiry test repeats, with the
\* same clock reading, the one that RefreshReads made.
Consumable(s) == Live(s)

\* The transaction consumes the session, or finds that another request did.
Consume(c) ==
  /\ At(c, "consume")
  /\ LET s == req[c].sid IN
       /\ ~SessionLocked(s)
       /\ \/ Consumable(s) /\ Goto(c, "rotate")
          \/ ~Consumable(s) /\ session[s].next # NoSession /\ Goto(c, "revoke")
          \/ ~Consumable(s) /\ session[s].next = NoSession /\ End(c)
  /\ UNCHANGED <<status, password, session, link, epoch, uses>>

\* Mutant of Rotate: notes the successor, and does not revoke.
RotateUnrevoked(c) ==
  /\ At(c, "rotate")
  /\ LET s == req[c].sid IN
     \E n \in Sessions :
       /\ session[n].state = "none"
       /\ session' = [session EXCEPT
            ![s].next = n,
            ![n] = [session[s] EXCEPT !.next = NoSession, !.expired = FALSE]]
  /\ End(c)
  /\ UNCHANGED <<status, password, link, epoch, uses>>

\* It creates the successor and commits.
Rotate(c) ==
  /\ At(c, "rotate")
  /\ LET s == req[c].sid IN
     \E n \in Sessions :
       /\ session[n].state = "none"
       /\ session' = [session EXCEPT
            ![s].state = "revoked", ![s].next = n,
            ![n] = [session[s] EXCEPT !.state = "live", !.next = NoSession,
                                      !.expired = FALSE]]
  /\ End(c)
  /\ UNCHANGED <<status, password, link, epoch, uses>>

\* revokeRefreshSession: one guarded updateMany.
Logout(c) ==
  /\ "logout" \in Ops /\ At(c, "idle")
  /\ \E s \in Sessions :
       /\ session[s].state # "none" /\ ~SessionLocked(s)
       /\ session' = IF Live(s) THEN [session EXCEPT ![s].state = "revoked"] ELSE session
  /\ UNCHANGED <<status, password, link, req, epoch, uses>>

-----------------------------------------------------------------------------
(* Changes of the password and of the status *)

\* changePassword compares the current password ...
ChangeReads(c) ==
  /\ status = "ACTIVE" /\ password /\ epoch < MaxEpochs
  /\ Begin(c, "change", [Idle EXCEPT !.pc = "write"])
  /\ UNCHANGED <<status, password, session, link, epoch, uses>>

\* ... sets the new one, and then revokes the sessions.
ChangeWrites(c) ==
  /\ At(c, "write") /\ ~UserLocked
  /\ epoch' = epoch + 1
  /\ Goto(c, "revoke")
  /\ UNCHANGED <<status, password, session, link, uses>>

\* resolveValidRecord, for a request with the right ref and token.
Acceptable(l) == Unused(l) /\ ~link[l].expired /\ status # "ACTIVE"

\* activate and resetPassword: the transaction reads the link and the user ...
SetupReads(c) ==
  \E l \in Links :
    /\ Acceptable(l) /\ epoch < MaxEpochs
    /\ Begin(c, "setup", [Idle EXCEPT !.pc = "consumeLink", !.lid = l, !.was = status])
    /\ UNCHANGED <<status, password, session, link, epoch, uses>>

\* Mutant of ConsumeLink: consumes by id, without the guard.
ConsumeLinkById(c) ==
  /\ At(c, "consumeLink") /\ ~LinkLocked(req[c].lid)
  /\ Goto(c, "setUser")
  /\ UNCHANGED <<status, password, session, link, epoch, uses>>

\* Mutant of ConsumeLink: guards against a second use only.
ConsumeLinkUnused(c) ==
  /\ At(c, "consumeLink") /\ ~LinkLocked(req[c].lid)
  /\ \/ ~link[req[c].lid].used /\ Goto(c, "setUser")
     \/ link[req[c].lid].used /\ End(c)
  /\ UNCHANGED <<status, password, session, link, epoch, uses>>

\* ... consumes the link, or finds that it is no longer good ...
ConsumeLink(c) ==
  /\ At(c, "consumeLink") /\ ~LinkLocked(req[c].lid)
  /\ \/ Unused(req[c].lid) /\ Goto(c, "setUser")
     \/ ~Unused(req[c].lid) /\ End(c)
  /\ UNCHANGED <<status, password, session, link, epoch, uses>>

\* ... updates the user, before it revokes the sessions ...
SetUser(c) ==
  /\ At(c, "setUser") /\ ~UserLocked
  /\ Goto(c, "snap")
  /\ UNCHANGED <<status, password, session, link, epoch, uses>>

\* ... and commits.  A reset activates only an account that it read as pending.
CommitSetup(c) ==
  /\ At(c, "commit") /\ req[c].op = "setup" /\ SnapUnlocked(c)
  /\ LET l == req[c].lid IN
       /\ link' = [link EXCEPT ![l].used = TRUE]
       /\ uses' = [uses EXCEPT ![l] = @ + 1]
       /\ status' = IF link[l].type = "activation" \/ req[c].was = "PENDING"
                    THEN "ACTIVE" ELSE status
  /\ password' = TRUE
  /\ epoch' = epoch + 1
  /\ session' = Revoked(c)
  /\ End(c)

\* deactivateUser: a transaction that updates the user, then revokes.
DeactivateStarts(c) ==
  /\ ~UserLocked /\ epoch < MaxEpochs
  /\ Begin(c, "deactivate", [Idle EXCEPT !.pc = "snap"])
  /\ UNCHANGED <<status, password, session, link, epoch, uses>>

CommitDeactivate(c) ==
  /\ At(c, "commit") /\ req[c].op = "deactivate" /\ SnapUnlocked(c)
  /\ status' = "INACTIVE"
  /\ session' = Revoked(c)
  /\ epoch' = epoch + 1
  /\ End(c)
  /\ UNCHANGED <<password, link, uses>>

-----------------------------------------------------------------------------
(* Links *)

\* forgotPassword goes on for an ACTIVE account only; an administrator may
\* invite or reset an account in any status.
ForgotReads(c) ==
  /\ status = "ACTIVE"
  /\ Begin(c, "forgot", [Idle EXCEPT !.pc = "findLink"])
  /\ UNCHANGED <<status, password, session, link, epoch, uses>>

AdminBegins(c) ==
  /\ \/ Begin(c, "invite", [Idle EXCEPT !.pc = "revokeLinks"])
     \/ Begin(c, "reset", [Idle EXCEPT !.pc = "findLink"])
  /\ UNCHANGED <<status, password, session, link, epoch, uses>>

LinkType(c) == IF req[c].op = "invite" THEN "activation" ELSE "reset"

\* What follows once the request has a link: an administrator's request ends by
\* making the account pending.
Issued(c) == IF req[c].op = "forgot" THEN End(c) ELSE Goto(c, "pending")

\* issue finds a reset link: it is handed out again, or it cannot be decrypted.
FindLink(c) ==
  /\ At(c, "findLink")
  /\ LET found == {l \in Links : Unused(l) /\ link[l].type = LinkType(c) /\ ~link[l].expired}
     IN \/ found = {} /\ Goto(c, "newLink")
        \/ found # {} /\ Issued(c)
        \/ \E l \in found : req' = [req EXCEPT ![c].pc = "dropLink", ![c].lid = l]
  /\ UNCHANGED <<status, password, session, link, epoch, uses>>

DropLink(c) ==
  /\ At(c, "dropLink") /\ ~LinkLocked(req[c].lid)
  /\ link' = [link EXCEPT ![req[c].lid].revoked = TRUE]
  /\ Goto(c, "newLink")
  /\ UNCHANGED <<status, password, session, epoch, uses>>

\* An invitation revokes the earlier ones.
RevokeLinks(c) ==
  /\ At(c, "revokeLinks")
  /\ LET old == {l \in Links : Unused(l) /\ link[l].type = LinkType(c)} IN
       /\ \A l \in old : ~LinkLocked(l)
       /\ link' = [l \in Links |-> IF l \in old THEN [link[l] EXCEPT !.revoked = TRUE]
                                                ELSE link[l]]
  /\ Goto(c, "newLink")
  /\ UNCHANGED <<status, password, session, epoch, uses>>

NewLink(c) ==
  /\ At(c, "newLink")
  /\ \E l \in Links :
       /\ link[l].type = "none"
       /\ link' = [link EXCEPT ![l].type = LinkType(c)]
  /\ Issued(c)
  /\ UNCHANGED <<status, password, session, epoch, uses>>

MakePending(c) ==
  /\ At(c, "pending") /\ ~UserLocked
  /\ status' = "PENDING"
  /\ End(c)
  /\ UNCHANGED <<password, session, link, epoch, uses>>

-----------------------------------------------------------------------------

SessionExpires(s) ==
  /\ Live(s) /\ ~session[s].expired
  /\ session' = [session EXCEPT ![s].expired = TRUE]
  /\ UNCHANGED <<status, password, link, req, epoch, uses>>

LinkExpires(l) ==
  /\ Unused(l) /\ ~link[l].expired
  /\ link' = [link EXCEPT ![l].expired = TRUE]
  /\ UNCHANGED <<status, password, session, req, epoch, uses>>

\* The process dies or a statement fails; an open transaction rolls back.
Abort(c) ==
  /\ ~At(c, "idle")
  /\ End(c)
  /\ UNCHANGED <<status, password, session, link, epoch, uses>>

RequestStep(c) ==
  \/ StartRevoking(c) \/ FinishRevoking(c)
  \/ LoginReads(c) \/ CreateSession(c)
  \/ RefreshReads(c) \/ ExpireSession(c) \/ RefreshReadsUser(c) \/ Consume(c) \/ Rotate(c)
  \/ Logout(c) \/ ChangeReads(c) \/ ChangeWrites(c)
  \/ SetupReads(c) \/ ConsumeLink(c) \/ SetUser(c) \/ CommitSetup(c)
  \/ DeactivateStarts(c) \/ CommitDeactivate(c)
  \/ ForgotReads(c) \/ AdminBegins(c) \/ FindLink(c) \/ DropLink(c)
  \/ RevokeLinks(c) \/ NewLink(c) \/ MakePending(c)

Next ==
  \/ \E c \in Clients : RequestStep(c) \/ Abort(c)
  \/ \E s \in Sessions : SessionExpires(s)
  \/ \E l \in Links : LinkExpires(l)

Spec == Init /\ [][Next]_vars

-----------------------------------------------------------------------------
(* Properties *)

\* The program points of rotateRefreshSession before its session is settled.
Refreshing == {"user", "expire", "consume", "rotate"}

\* Every variable has its type, a request that refreshes has a session, and a
\* session with a successor is revoked.
TypeOK ==
  /\ status \in {"PENDING", "ACTIVE", "INACTIVE"}
  /\ password \in BOOLEAN
  /\ epoch \in Nat
  /\ session \in [Sessions -> Session]
  /\ link \in [Links -> Link]
  /\ req \in [Clients -> Request]
  /\ uses \in [Links -> Nat]
  /\ \A c \in Clients : req[c].pc \in Refreshing => req[c].sid \in Sessions
  /\ \A s \in Sessions : session[s].next # NoSession => session[s].state = "revoked"

\* Of the sessions that descend from one login at most one is live, whatever
\* refreshes run at the same time, are repeated or are cut short.
OneLivePerLogin ==
  \A s, t \in LiveSessions : session[s].root = session[t].root => s = t

\* Why that holds.  Only one open transaction can have consumed a session, which
\* is live until it commits, and the first session of a login has a new id.
RefreshersKnown ==
  \A c \in Clients : req[c].pc \in Refreshing => session[req[c].sid].state # "none"
RotatesLive == \A c \in Clients : At(c, "rotate") => Live(req[c].sid)
RotatesAlone ==
  \A c, d \in Clients : At(c, "rotate") /\ At(d, "rotate") /\ req[c].sid = req[d].sid => c = d
RootsExist ==
  \A s \in Sessions : session[s].state # "none" =>
    session[s].root \in Sessions /\ session[session[s].root].state # "none"
RotationInv ==
  RefreshersKnown /\ RotatesLive /\ RotatesAlone /\ RootsExist /\ OneLivePerLogin

\* The sessions as the holder of a login sees them.
valid == [l \in Sessions |-> {s \in LiveSessions : session[s].root = l}]
handedOut == {s \in Sessions : session[s].state # "none"}

Logins == INSTANCE LoginTokens WITH Tokens <- Sessions

\* Concurrent refreshes, replays, logouts and changes of the account together do to a
\* login what LoginTokens says: it never has two tokens, its token is exchanged for a
\* new one only while it works, and what has ended does not come back
\* (auth-session.service.ts:22-181).
ImplementsLogins == Logins!Spec

\* A link sets a password at most once, however often it is submitted at once.
LinkUsedOnce == \A l \in Links : uses[l] <= 1

\* When a link sets a password it is still good: an administrator who has revoked it, by a
\* new invitation or reset, need not fear a submission that was read before
\* (account-action-token.service.ts:133-144), nor does it work beside another one.
GoodLinksOnly ==
  [][\A l \in Links : uses'[l] # uses[l] => Unused(l)]_vars

\* MAILRELAY_RUNBOOK.md:191: "Pending Setup uses admin setup invite, Active uses
\* password reset": a reset link that was sent out and is neither spent nor
\* expired can be used.
ResetLinkWorks ==
  \A l \in Links :
    (\A c \in Clients : At(c, "idle")) /\ Unused(l) /\ link[l].type = "reset"
      /\ ~link[l].expired => Acceptable(l)
=============================================================================
