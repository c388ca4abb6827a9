--------------------------- MODULE SubjectGroups ---------------------------
(***************************************************************************)
(* The groups of one subject: students create them and join by code        *)
(* (repositories/subject.repository.ts), teachers and administrators       *)
(* approve, lock and unlock them, change the leader and remove members     *)
(* (subjects/subject-groups.service.ts and admin/admin-groups.service.ts,  *)
(* which have the same statements).                                        *)
(*                                                                         *)
(* A request reads, decides, and writes later.  A transaction that only    *)
(* writes is one step, at its commit: two of the same group both update    *)
(* the group's row and the members', so one waits for the other, or, when  *)
(* a removal has deleted its member and another holds the group, each      *)
(* waits for the other and the database aborts one, which changes nothing. *)
(* The transaction of a join reads before it writes, so it is four steps,  *)
(* under an advisory lock that only joins of the same group take.          *)
(***************************************************************************)
EXTENDS Naturals, FiniteSets

CONSTANTS
  Groups,      \* ids of Group rows
  Students,    \* enrolled students with a profile
  Clients,     \* API requests that may be in progress at once
  NoGroup,
  NoStudent,
  Ops,         \* the requests that occur
  Sizes        \* the values of minGroupSize and maxGroupSize that occur

AllOps == {"create", "join", "approve", "lock", "assign", "remove", "restrict"}

SubjectGroupsAssumption ==
  /\ NoGroup \notin Groups
  /\ NoStudent \notin Students /\ IsFiniteSet(Students)
  /\ Ops \subseteq AllOps
  /\ Sizes \subseteq Nat \ {0} /\ Sizes # {}

VARIABLES
  subject,   \* the Subject row: groupEnabled and the two sizes
  group,     \* the Group rows
  member,    \* the GroupMember row of each student; the database allows one per subject
  req        \* local state of each request

vars == <<subject, group, member, req>>

Subject == [enabled: BOOLEAN, min: Sizes, max: Sizes]
Statuses == {"PENDING", "ACTIVE", "LOCKED"}
Group == [status: Statuses \union {"none"}, leader: Students \union {NoStudent}]
Member == [group: Groups \union {NoGroup}, role: {"none", "MEMBER", "LEADER"}]
NoGroupRow == [status |-> "none", leader |-> NoStudent]
NoMember == [group |-> NoGroup, role |-> "none"]

Request == [op: AllOps \union {"none"},
            pc: {"idle", "insert", "lock", "check", "count", "commit", "activate", "assign",
                 "remove", "restrict"},
            gid: Groups \union {NoGroup}, sid: Students \union {NoStudent},
            leader: Students \union {NoStudent}, status: Statuses,
            subject: Subject, count: Nat]
\* The fields a request has not set yet.
Blank == [enabled |-> TRUE, min |-> CHOOSE n \in Sizes : TRUE, max |-> CHOOSE n \in Sizes : TRUE]
Idle == [op |-> "none", pc |-> "idle", gid |-> NoGroup, sid |-> NoStudent,
         leader |-> NoStudent, status |-> "PENDING", subject |-> Blank, count |-> 0]

Init ==
  /\ subject \in Subject
  /\ group = [g \in Groups |-> NoGroupRow]
  /\ member = [s \in Students |-> NoMember]
  /\ req = [c \in Clients |-> Idle]

Exists(g) == group[g].status # "none"
Members(g) == {s \in Students : member[s].group = g}
Size(g) == Cardinality(Members(g))

\* groupStatusForMemberCount
StatusFor(n, sub) == IF n >= sub.min THEN "ACTIVE" ELSE "PENDING"

Begin(c, op, r) ==
  /\ op \in Ops /\ req[c].pc = "idle"
  /\ req' = [req EXCEPT ![c] = [r EXCEPT !.op = op]]

At(c, pc) == req[c].pc = pc
End(c) == req' = [req EXCEPT ![c] = Idle]

-----------------------------------------------------------------------------
(* Creating a group *)

\* requireStudentCanCreateGroup and createGroup read the subject and find no membership ...
CreateReads(c) ==
  /\ subject.enabled
  /\ \E s \in Students :
       /\ member[s].group = NoGroup
       /\ Begin(c, "create", [Idle EXCEPT !.pc = "insert", !.sid = s,
                                          !.status = StatusFor(1, subject)])
  /\ UNCHANGED <<subject, group, member>>

\* ... and the transaction checks the membership again and inserts both rows.
CreateInserts(c) ==
  /\ At(c, "insert")
  /\ \E g \in Groups :
       /\ ~Exists(g) /\ member[req[c].sid].group = NoGroup
       /\ group' = [group EXCEPT ![g] = [status |-> req[c].status, leader |-> req[c].sid]]
       /\ member' = [member EXCEPT ![req[c].sid] = [group |-> g, role |-> "LEADER"]]
  /\ End(c)
  /\ UNCHANGED subject

CreateConflicts(c) ==
  /\ At(c, "insert") /\ member[req[c].sid].group # NoGroup
  /\ End(c)
  /\ UNCHANGED <<subject, group, member>>

-----------------------------------------------------------------------------
(* Joining by code *)

JoinReads(c) ==
  /\ subject.enabled
  /\ \E g \in Groups, s \in Students :
       /\ group[g].status \in {"PENDING", "ACTIVE"}
       /\ Size(g) < subject.max /\ member[s].group = NoGroup
       /\ Begin(c, "join", [Idle EXCEPT !.pc = "lock", !.gid = g, !.sid = s])
  /\ UNCHANGED <<subject, group, member>>

\* Mutant of JoinLockHeld: the transaction takes no lock.
JoinLockHeldNever(g) == FALSE

\* The program points under the advisory lock.
Locked == {"check", "count", "commit"}

\* pg_advisory_xact_lock, held until the transaction ends.
JoinLockHeld(g) == \E d \in Clients : req[d].pc \in Locked /\ req[d].gid = g

\* The transaction takes the lock ...
JoinLocks(c) ==
  /\ At(c, "lock") /\ ~JoinLockHeld(req[c].gid)
  /\ req' = [req EXCEPT ![c].pc = "check"]
  /\ UNCHANGED <<subject, group, member>>

\* ... reads the group and its subject again ...
JoinChecks(c) ==
  /\ At(c, "check")
  /\ IF subject.enabled /\ group[req[c].gid].status # "LOCKED"
     THEN req' = [req EXCEPT ![c].pc = "count", ![c].subject = subject,
                             ![c].status = group[req[c].gid].status]
     ELSE End(c)
  /\ UNCHANGED <<subject, group, member>>

\* Mutant of JoinCounts: off by one.
JoinCountsOneMore(c) ==
  /\ At(c, "count")
  /\ IF member[req[c].sid].group = NoGroup /\ Size(req[c].gid) <= req[c].subject.max
     THEN req' = [req EXCEPT ![c].pc = "commit", ![c].count = Size(req[c].gid)]
     ELSE End(c)
  /\ UNCHANGED <<subject, group, member>>

\* ... finds no membership and counts the members ...
JoinCounts(c) ==
  /\ At(c, "count")
  /\ IF member[req[c].sid].group = NoGroup /\ Size(req[c].gid) < req[c].subject.max
     THEN req' = [req EXCEPT ![c].pc = "commit", ![c].count = Size(req[c].gid)]
     ELSE End(c)
  /\ UNCHANGED <<subject, group, member>>

\* The status a join leaves: written only when it differs from the one it read.
JoinedStatus(c) ==
  LET r == req[c]
      next == StatusFor(r.count + 1, r.subject)
  IN IF r.status # next THEN next ELSE group[r.gid].status

\* ... inserts the member, unless the unique index has one, and updates the status.
JoinCommits(c) ==
  LET r == req[c]
  IN /\ At(c, "commit") /\ member[r.sid].group = NoGroup
     /\ member' = [member EXCEPT ![r.sid] = [group |-> r.gid, role |-> "MEMBER"]]
     /\ group' = [group EXCEPT ![r.gid].status = JoinedStatus(c)]
     /\ End(c)
     /\ UNCHANGED subject

JoinConflicts(c) ==
  /\ At(c, "commit") /\ member[req[c].sid].group # NoGroup
  /\ End(c)
  /\ UNCHANGED <<subject, group, member>>

-----------------------------------------------------------------------------
(* Teachers and administrators *)

\* approve and unlock count the members they read ...
ApproveReads(c) ==
  /\ \E g \in Groups :
       /\ Exists(g) /\ Size(g) >= subject.min
       /\ Begin(c, "approve", [Idle EXCEPT !.pc = "activate", !.gid = g])
  /\ UNCHANGED <<subject, group, member>>

\* ... and update the status by id.
ApproveWrites(c) ==
  /\ At(c, "activate")
  /\ group' = [group EXCEPT ![req[c].gid].status = "ACTIVE"]
  /\ End(c)
  /\ UNCHANGED <<subject, member>>

\* lock depends on nothing it reads.
LockGroup(g) ==
  /\ "lock" \in Ops /\ Exists(g)
  /\ group' = [group EXCEPT ![g].status = "LOCKED"]
  /\ UNCHANGED <<subject, member, req>>

\* Mutant of LedBy: the roles of the other members are not reset.
LedByToo(g, s, members) ==
  [t \in Students |-> IF members[t].group # g \/ t # s THEN members[t]
                      ELSE [group |-> g, role |-> "LEADER"]]

\* The members of g with s as the only leader.
LedBy(g, s, members) ==
  [t \in Students |-> IF members[t].group # g THEN members[t]
                      ELSE [group |-> g, role |-> IF t = s THEN "LEADER" ELSE "MEMBER"]]

AssignReads(c) ==
  /\ \E g \in Groups :
       /\ Exists(g) /\ group[g].status # "LOCKED"
       /\ \E s \in Members(g) :
            Begin(c, "assign", [Idle EXCEPT !.pc = "assign", !.gid = g, !.leader = s])
  /\ UNCHANGED <<subject, group, member>>

\* One transaction; a member removed meanwhile is the leader all the same.
AssignWrites(c) ==
  LET r == req[c]
  IN /\ At(c, "assign")
     /\ group' = [group EXCEPT ![r.gid].leader = r.leader]
     /\ member' = LedBy(r.gid, r.leader, member)
     /\ End(c)
     /\ UNCHANGED subject

\* The leader and the status after a removal, from the rows read before it.
RemoveReads(c) ==
  /\ \E g \in Groups : \E s \in Members(g) : \E next \in Members(g) \ {s} :
       Begin(c, "remove",
             [Idle EXCEPT !.pc = "remove", !.gid = g, !.sid = s,
                !.leader = IF group[g].leader = s THEN next ELSE group[g].leader,
                !.status = IF Size(g) - 1 >= subject.min THEN group[g].status ELSE "PENDING"])
  /\ UNCHANGED <<subject, group, member>>

\* One transaction: it deletes the member and writes what was computed by id.
RemoveWrites(c) ==
  LET r == req[c]
  IN /\ At(c, "remove") /\ member[r.sid].group = r.gid
     /\ member' = LedBy(r.gid, r.leader, [member EXCEPT ![r.sid] = NoMember])
     /\ group' = [group EXCEPT ![r.gid] = [status |-> r.status, leader |-> r.leader]]
     /\ End(c)
     /\ UNCHANGED subject

\* The delete finds no row: the transaction is rolled back.
RemoveFails(c) ==
  /\ At(c, "remove") /\ member[req[c].sid].group # req[c].gid
  /\ End(c)
  /\ UNCHANGED <<subject, group, member>>

\* updateRestrictions reads the row, fills in the fields of the request, any of them ...
RestrictReads(c) ==
  /\ \E sub \in Subject :
       Begin(c, "restrict", [Idle EXCEPT !.pc = "restrict", !.subject = sub])
  /\ UNCHANGED <<subject, group, member>>

\* ... and writes all of them.
RestrictWrites(c) ==
  /\ At(c, "restrict")
  /\ subject' = req[c].subject
  /\ End(c)
  /\ UNCHANGED <<group, member>>

-----------------------------------------------------------------------------
Join(c) ==
  \/ JoinReads(c) \/ JoinLocks(c) \/ JoinChecks(c) \/ JoinCounts(c)
  \/ JoinCommits(c) \/ JoinConflicts(c)

RequestStep(c) ==
  \/ CreateReads(c) \/ CreateInserts(c) \/ CreateConflicts(c)
  \/ Join(c)
  \/ ApproveReads(c) \/ ApproveWrites(c)
  \/ AssignReads(c) \/ AssignWrites(c)
  \/ RemoveReads(c) \/ RemoveWrites(c) \/ RemoveFails(c)
  \/ RestrictReads(c) \/ RestrictWrites(c)

Next == (\E c \in Clients : RequestStep(c)) \/ (\E g \in Groups : LockGroup(g))

Spec == Init /\ [][Next]_vars

-----------------------------------------------------------------------------
(* A request has the ids it works on, and only existing groups have members. *)
TypeOK ==
  /\ subject \in Subject
  /\ group \in [Groups -> Group]
  /\ member \in [Students -> Member]
  /\ req \in [Clients -> Request]
  /\ \A s \in Students : member[s].group # NoGroup => Exists(member[s].group)
  /\ \A c \in Clients :
       /\ req[c].pc \in Locked \union {"lock", "activate", "assign", "remove"} =>
            req[c].gid \in Groups /\ Exists(req[c].gid)
       /\ req[c].pc \in Locked \union {"insert", "lock", "remove"} => req[c].sid \in Students

(* While a join holds the advisory lock of its group, removals may only      *)
(* lower the number of members it counted, so it still has room.             *)
CountIsSafe ==
  \A c \in Clients : req[c].pc = "commit" =>
    /\ Size(req[c].gid) <= req[c].count
    /\ req[c].count < req[c].subject.max

(* Two joins of one group are never between the lock and the commit.         *)
OneJoinAtATime ==
  \A c, d \in Clients :
    req[c].pc \in Locked /\ req[d].pc \in Locked /\ req[c].gid = req[d].gid => c = d

(* What makes a join safe, in a form that every step preserves.              *)
JoinInv == CountIsSafe /\ OneJoinAtATime

(* However many students join at once, and whatever teachers do meanwhile,   *)
(* a group grows only by a join, and never past the maxGroupSize that this   *)
(* join read under the lock.                                                 *)
GrowsWithinLimit ==
  [][\A g \in Groups : Exists(g) /\ Size(g)' > Size(g) =>
       \E c \in Clients : /\ At(c, "commit") /\ req[c].gid = g
                         /\ Size(g)' <= req[c].subject.max]_vars

(* The role of a member and the leader of its group are in two tables: no    *)
(* member keeps the role LEADER when somebody else leads the group.          *)
LeadersAgree ==
  \A s \in Students : member[s].role = "LEADER" => group[member[s].group].leader = s
=============================================================================
