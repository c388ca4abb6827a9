------------------------- MODULE SubjectGroupsProofs -------------------------
(***************************************************************************)
(* Proofs about SubjectGroups, for any number of students, groups and      *)
(* requests: the types, that joins never grow a group past its limit, and  *)
(* that a member with the role of leader leads its group.                  *)
(***************************************************************************)
EXTENDS SubjectGroups, FiniteSetTheorems, TLAPS

\* The idle request and the missing rows are well typed.
LEMMA DefaultTypes ==
  ASSUME SubjectGroupsAssumption
  PROVE  Idle \in Request /\ NoGroupRow \in Group /\ NoMember \in Member
<1>1. Blank \in Subject
  BY DEF SubjectGroupsAssumption, Blank, Subject
<1>2. Idle \in Request
  BY <1>1 DEF Idle, Request, Statuses
<1> QED
  BY <1>2 DEF NoGroupRow, Group, NoMember, Member, Statuses

\* A request that ends leaves its client idle and the others alone.
LEMMA EndType ==
  ASSUME SubjectGroupsAssumption, req \in [Clients -> Request], NEW c \in Clients, End(c)
  PROVE  /\ req' \in [Clients -> Request]
         /\ req'[c].pc = "idle"
         /\ \A d \in Clients \ {c} : req'[d] = req[d]
<1>1. Idle \in Request /\ Idle.pc = "idle"
  BY DefaultTypes DEF Idle
<1> QED
  BY <1>1 DEF End

\* A request that begins has the fields it begins with.
LEMMA BeginType ==
  ASSUME SubjectGroupsAssumption, req \in [Clients -> Request], NEW c \in Clients,
         NEW op, NEW r \in Request, Begin(c, op, r)
  PROVE  /\ req' \in [Clients -> Request]
         /\ req'[c].pc = r.pc /\ req'[c].gid = r.gid /\ req'[c].sid = r.sid
         /\ req'[c].leader = r.leader
         /\ req[c].pc = "idle"
         /\ \A d \in Clients \ {c} : req'[d] = req[d]
<1>1. op \in AllOps
  BY DEF Begin, SubjectGroupsAssumption
<1>2. /\ [r EXCEPT !.op = op] \in Request
      /\ [r EXCEPT !.op = op].pc = r.pc /\ [r EXCEPT !.op = op].gid = r.gid
      /\ [r EXCEPT !.op = op].sid = r.sid /\ [r EXCEPT !.op = op].leader = r.leader
  BY <1>1 DEF Request
<1> QED
  BY <1>2 DEF Begin

\* What a request needs to know for its next step.
KnowsIds(c) ==
  /\ req[c].pc \in Locked \union {"lock", "activate", "assign", "remove"} =>
       req[c].gid \in Groups /\ Exists(req[c].gid)
  /\ req[c].pc \in Locked \union {"insert", "lock", "remove"} => req[c].sid \in Students

\* The groups that exist still do, so the requests know what they knew.
LEMMA IdsKept ==
  ASSUME TypeOK, NEW c \in Clients,
         \A d \in Clients \ {c} : req'[d] = req[d],
         \A g \in Groups : Exists(g) => Exists(g)',
         KnowsIds(c)'
  PROVE  \A d \in Clients : KnowsIds(d)'
<1> SUFFICES ASSUME NEW d \in Clients, d # c PROVE KnowsIds(d)'
  OBVIOUS
<1>1. req'[d] = req[d] /\ KnowsIds(d)
  BY DEF TypeOK, KnowsIds
<1> QED
  BY <1>1 DEF KnowsIds

LEMMA TypeParts ==
  TypeOK <=>
    /\ subject \in Subject /\ group \in [Groups -> Group] /\ member \in [Students -> Member]
    /\ req \in [Clients -> Request]
    /\ \A s \in Students : member[s].group # NoGroup => Exists(member[s].group)
    /\ \A c \in Clients : KnowsIds(c)
BY DEF TypeOK, KnowsIds

\* The requests that read and decide begin with well typed fields and change nothing else.
LEMMA ReadsType ==
  ASSUME SubjectGroupsAssumption, TypeOK, NEW c \in Clients,
         \/ CreateReads(c) \/ JoinReads(c) \/ ApproveReads(c) \/ AssignReads(c)
         \/ RemoveReads(c) \/ RestrictReads(c)
  PROVE  /\ req' \in [Clients -> Request] /\ KnowsIds(c)'
         /\ req'[c].pc \in {"insert", "lock", "activate", "assign", "remove", "restrict"}
         /\ CreateReads(c) \/ req'[c].pc # "insert"
         /\ \A d \in Clients \ {c} : req'[d] = req[d]
         /\ UNCHANGED <<subject, group, member>>
<1>0. /\ req \in [Clients -> Request] /\ group \in [Groups -> Group] /\ subject \in Subject
      /\ member \in [Students -> Member] /\ Idle \in Request
  BY DefaultTypes DEF TypeOK
<1>1. UNCHANGED <<subject, group, member>>
  BY DEF CreateReads, JoinReads, ApproveReads, AssignReads, RemoveReads, RestrictReads
<1>2. \A g \in Groups : Exists(g) => Exists(g)' /\ group[g].status \in Statuses
  BY <1>0, <1>1 DEF Exists, Group
<1>3. ASSUME NEW s \in Students, NEW g \in Groups, s \in Members(g) PROVE Exists(g)
  BY <1>3 DEF TypeOK, Members, SubjectGroupsAssumption
<1>4. ASSUME NEW op, NEW r \in Request, Begin(c, op, r),
             r.pc \in {"insert", "lock", "activate", "assign", "remove", "restrict"},
             r.pc \in {"lock", "activate", "assign", "remove"} => r.gid \in Groups /\ Exists(r.gid),
             r.pc \in {"insert", "lock", "remove"} => r.sid \in Students
      PROVE  /\ req' \in [Clients -> Request] /\ KnowsIds(c)'
             /\ req'[c].pc \in {"insert", "lock", "activate", "assign", "remove", "restrict"}
             /\ req'[c].pc = r.pc
             /\ \A d \in Clients \ {c} : req'[d] = req[d]
  <2>1. /\ req' \in [Clients -> Request]
        /\ req'[c].pc = r.pc /\ req'[c].gid = r.gid /\ req'[c].sid = r.sid
        /\ \A d \in Clients \ {c} : req'[d] = req[d]
    BY <1>0, <1>4, BeginType
  <2> QED
    BY <1>1, <1>2, <1>4, <2>1 DEF KnowsIds, Exists, Locked
<1>5. CASE CreateReads(c)
  <2>1. PICK s \in Students : Begin(c, "create", [Idle EXCEPT !.pc = "insert", !.sid = s,
                                                              !.status = StatusFor(1, subject)])
    BY <1>5 DEF CreateReads
  <2>2. StatusFor(1, subject) \in Statuses
    BY DEF StatusFor, Statuses
  <2>3. /\ [Idle EXCEPT !.pc = "insert", !.sid = s, !.status = StatusFor(1, subject)] \in Request
        /\ [Idle EXCEPT !.pc = "insert", !.sid = s, !.status = StatusFor(1, subject)].pc = "insert"
        /\ [Idle EXCEPT !.pc = "insert", !.sid = s, !.status = StatusFor(1, subject)].sid = s
    BY <1>0, <2>2 DEF Request
  <2> QED
    BY <1>1, <1>4, <1>5, <2>1, <2>3
<1>6. CASE JoinReads(c)
  <2>1. PICK g \in Groups, s \in Students :
          /\ Exists(g)
          /\ Begin(c, "join", [Idle EXCEPT !.pc = "lock", !.gid = g, !.sid = s])
    BY <1>6 DEF JoinReads, Exists
  <2>2. /\ [Idle EXCEPT !.pc = "lock", !.gid = g, !.sid = s] \in Request
        /\ [Idle EXCEPT !.pc = "lock", !.gid = g, !.sid = s].pc = "lock"
        /\ [Idle EXCEPT !.pc = "lock", !.gid = g, !.sid = s].gid = g
        /\ [Idle EXCEPT !.pc = "lock", !.gid = g, !.sid = s].sid = s
    BY <1>0 DEF Request
  <2> QED
    BY <1>1, <1>4, <2>1, <2>2
<1>7. CASE ApproveReads(c)
  <2>1. PICK g \in Groups :
          Exists(g) /\ Begin(c, "approve", [Idle EXCEPT !.pc = "activate", !.gid = g])
    BY <1>7 DEF ApproveReads
  <2>2. /\ [Idle EXCEPT !.pc = "activate", !.gid = g] \in Request
        /\ [Idle EXCEPT !.pc = "activate", !.gid = g].pc = "activate"
        /\ [Idle EXCEPT !.pc = "activate", !.gid = g].gid = g
    BY <1>0 DEF Request
  <2> QED
    BY <1>1, <1>4, <2>1, <2>2
<1>8. CASE AssignReads(c)
  <2>1. PICK g \in Groups, s \in Students :
          /\ Exists(g)
          /\ Begin(c, "assign", [Idle EXCEPT !.pc = "assign", !.gid = g, !.leader = s])
    BY <1>8 DEF AssignReads, Members
  <2>2. /\ [Idle EXCEPT !.pc = "assign", !.gid = g, !.leader = s] \in Request
        /\ [Idle EXCEPT !.pc = "assign", !.gid = g, !.leader = s].pc = "assign"
        /\ [Idle EXCEPT !.pc = "assign", !.gid = g, !.leader = s].gid = g
    BY <1>0 DEF Request
  <2> QED
    BY <1>1, <1>4, <2>1, <2>2
<1>9. CASE RemoveReads(c)
  <2>1. PICK g \in Groups, s \in Students, next \in Students :
          /\ s \in Members(g)
          /\ Begin(c, "remove",
             [Idle EXCEPT !.pc = "remove", !.gid = g, !.sid = s,
                !.leader = IF group[g].leader = s THEN next ELSE group[g].leader,
                !.status = IF Size(g) - 1 >= subject.min THEN group[g].status ELSE "PENDING"])
    BY <1>9 DEF RemoveReads, Members
  <2>2. PICK leader, status :
          /\ leader = (IF group[g].leader = s THEN next ELSE group[g].leader)
          /\ status = (IF Size(g) - 1 >= subject.min THEN group[g].status ELSE "PENDING")
    OBVIOUS
  <2>3. Exists(g)
    BY <1>3, <2>1
  <2>4. leader \in Students \union {NoStudent} /\ status \in Statuses
    BY <1>0, <1>2, <2>2, <2>3 DEF Group, Statuses
  <2>5. /\ [Idle EXCEPT !.pc = "remove", !.gid = g, !.sid = s, !.leader = leader,
                        !.status = status] \in Request
        /\ [Idle EXCEPT !.pc = "remove", !.gid = g, !.sid = s, !.leader = leader,
                        !.status = status].pc = "remove"
        /\ [Idle EXCEPT !.pc = "remove", !.gid = g, !.sid = s, !.leader = leader,
                        !.status = status].gid = g
        /\ [Idle EXCEPT !.pc = "remove", !.gid = g, !.sid = s, !.leader = leader,
                        !.status = status].sid = s
    BY <1>0, <2>3, <2>4 DEF Request
  <2>6. Begin(c, "remove", [Idle EXCEPT !.pc = "remove", !.gid = g, !.sid = s, !.leader = leader,
                                        !.status = status])
    BY <2>1, <2>2
  <2> QED
    BY <1>1, <1>4, <2>3, <2>5, <2>6
<1>10. CASE RestrictReads(c)
  <2>1. PICK sub \in Subject : Begin(c, "restrict", [Idle EXCEPT !.pc = "restrict", !.subject = sub])
    <3>1. \A n \in Sizes, b \in BOOLEAN : /\ [subject EXCEPT !.min = n] \in Subject
                                          /\ [subject EXCEPT !.max = n] \in Subject
                                          /\ [subject EXCEPT !.enabled = b] \in Subject
      BY <1>0 DEF Subject
    <3> QED
      BY <1>10, <3>1 DEF RestrictReads
  <2>2. /\ [Idle EXCEPT !.pc = "restrict", !.subject = sub] \in Request
        /\ [Idle EXCEPT !.pc = "restrict", !.subject = sub].pc = "restrict"
    BY <1>0 DEF Request
  <2> QED
    BY <1>1, <1>4, <2>1, <2>2
<1> QED
  BY <1>1, <1>5, <1>6, <1>7, <1>8, <1>9, <1>10

\* Changing the leader moves nobody, and leaves one leader in the group.
LEMMA LedByFacts ==
  ASSUME SubjectGroupsAssumption, NEW g \in Groups, NEW s, NEW members \in [Students -> Member]
  PROVE  /\ LedBy(g, s, members) \in [Students -> Member]
         /\ \A t \in Students :
              /\ LedBy(g, s, members)[t].group = members[t].group
              /\ members[t].group # g => LedBy(g, s, members)[t] = members[t]
              /\ members[t].group = g =>
                   LedBy(g, s, members)[t].role = IF t = s THEN "LEADER" ELSE "MEMBER"
<1>1. \A t \in Students : members[t] \in Member
  OBVIOUS
<1>2. \A r \in {"LEADER", "MEMBER"} : [group |-> g, role |-> r] \in Member
  BY DEF Member
<1>3. \A t \in Students : LedBy(g, s, members)[t] =
        IF members[t].group # g THEN members[t]
        ELSE [group |-> g, role |-> IF t = s THEN "LEADER" ELSE "MEMBER"]
  BY DEF LedBy
<1>4. LedBy(g, s, members) \in [Students -> Member]
  BY <1>1, <1>2 DEF LedBy
<1> QED
  BY <1>3, <1>4

\* The steps of a join that take the lock, read and count.
JoinReading(c) == JoinLocks(c) \/ JoinChecks(c) \/ JoinCounts(c)

LEMMA JoinReadingType ==
  ASSUME SubjectGroupsAssumption, TypeOK, NEW c \in Clients, JoinReading(c)
  PROVE  /\ req' \in [Clients -> Request] /\ KnowsIds(c)'
         /\ \A d \in Clients \ {c} : req'[d] = req[d]
         /\ \/ req'[c].pc = "idle"
            \/ At(c, "lock") /\ req'[c].pc = "check" /\ ~JoinLockHeld(req[c].gid)
            \/ At(c, "check") /\ req'[c].pc = "count"
            \/ /\ At(c, "count") /\ req'[c].pc = "commit"
               /\ req'[c].count = Size(req[c].gid)
               /\ req'[c].count < req'[c].subject.max
         /\ req'[c].pc # "idle" => req'[c].gid = req[c].gid /\ req'[c].sid = req[c].sid
         /\ UNCHANGED <<subject, group, member>>
<1>0. /\ req \in [Clients -> Request] /\ group \in [Groups -> Group] /\ subject \in Subject
      /\ req[c] \in Request
  BY DEF TypeOK
<1>1. UNCHANGED <<subject, group, member>>
  BY DEF JoinReading, JoinLocks, JoinChecks, JoinCounts
<1>2. req[c].gid \in Groups /\ Exists(req[c].gid) /\ req[c].sid \in Students
  BY DEF TypeOK, JoinReading, JoinLocks, JoinChecks, JoinCounts, At, Locked
<1>3. CASE End(c)
  <2>1. req' \in [Clients -> Request] /\ req'[c].pc = "idle"
        /\ \A d \in Clients \ {c} : req'[d] = req[d]
    BY <1>0, <1>3, EndType
  <2> QED
    BY <1>1, <2>1 DEF KnowsIds, Locked
<1>4. CASE JoinLocks(c)
  <2>1. req' = [req EXCEPT ![c] = [req[c] EXCEPT !.pc = "check"]]
        /\ At(c, "lock") /\ ~JoinLockHeld(req[c].gid)
    BY <1>4 DEF JoinLocks
  <2>2. PICK r : r = [req[c] EXCEPT !.pc = "check"]
    OBVIOUS
  <2>3. r \in Request /\ r.pc = "check" /\ r.gid = req[c].gid /\ r.sid = req[c].sid
    BY <1>0, <2>2 DEF Request
  <2>4. req' \in [Clients -> Request] /\ req'[c] = r /\ \A d \in Clients \ {c} : req'[d] = req[d]
    BY <1>0, <2>1, <2>2, <2>3
  <2> QED
    BY <1>1, <1>2, <2>1, <2>3, <2>4 DEF KnowsIds, Exists
<1>5. CASE JoinChecks(c) /\ ~End(c)
  <2>1. req' = [req EXCEPT ![c] = [req[c] EXCEPT !.pc = "count", !.subject = subject,
                                                 !.status = group[req[c].gid].status]]
        /\ At(c, "check")
    BY <1>5 DEF JoinChecks
  <2>2. group[req[c].gid].status \in Statuses
    BY <1>0, <1>2 DEF Exists, Group
  <2>3. PICK r : r = [req[c] EXCEPT !.pc = "count", !.subject = subject,
                                    !.status = group[req[c].gid].status]
    OBVIOUS
  <2>4. r \in Request /\ r.pc = "count" /\ r.gid = req[c].gid /\ r.sid = req[c].sid
    BY <1>0, <2>2, <2>3 DEF Request
  <2>5. req' \in [Clients -> Request] /\ req'[c] = r /\ \A d \in Clients \ {c} : req'[d] = req[d]
    BY <1>0, <2>1, <2>3, <2>4
  <2> QED
    BY <1>1, <1>2, <2>1, <2>4, <2>5 DEF KnowsIds, Exists
<1>6. CASE JoinCounts(c) /\ ~End(c)
  <2>1. /\ req' = [req EXCEPT ![c] = [req[c] EXCEPT !.pc = "commit", !.count = Size(req[c].gid)]]
        /\ Size(req[c].gid) < req[c].subject.max /\ At(c, "count")
    BY <1>6 DEF JoinCounts
  <2>2. Size(req[c].gid) \in Nat
    BY FS_CardinalityType, FS_Subset DEF SubjectGroupsAssumption, Size, Members
  <2>3. PICK r : r = [req[c] EXCEPT !.pc = "commit", !.count = Size(req[c].gid)]
    OBVIOUS
  <2>4. /\ r \in Request /\ r.pc = "commit" /\ r.subject = req[c].subject
        /\ r.count = Size(req[c].gid)
        /\ r.gid = req[c].gid /\ r.sid = req[c].sid
    BY <1>0, <2>2, <2>3 DEF Request
  <2>5. req' \in [Clients -> Request] /\ req'[c] = r /\ \A d \in Clients \ {c} : req'[d] = req[d]
    BY <1>0, <2>1, <2>3, <2>4
  <2> QED
    BY <1>1, <1>2, <2>1, <2>4, <2>5 DEF KnowsIds, Exists
<1> QED
  BY <1>3, <1>4, <1>5, <1>6 DEF JoinReading

\* The steps that end a request.
Ends(c) ==
  \/ CreateInserts(c) \/ CreateConflicts(c) \/ JoinCommits(c) \/ JoinConflicts(c)
  \/ ApproveWrites(c) \/ AssignWrites(c) \/ RemoveWrites(c) \/ RemoveFails(c)
  \/ RestrictWrites(c)

LEMMA EndsType ==
  ASSUME SubjectGroupsAssumption, TypeOK, NEW c \in Clients, Ends(c)
  PROVE  /\ req' \in [Clients -> Request] /\ req'[c].pc = "idle" /\ KnowsIds(c)'
         /\ \A d \in Clients \ {c} : req'[d] = req[d]
<1>1. req \in [Clients -> Request] /\ End(c)
  BY DEF TypeOK, Ends, CreateInserts, CreateConflicts, JoinCommits, JoinConflicts,
         ApproveWrites, AssignWrites, RemoveWrites, RemoveFails, RestrictWrites
<1> QED
  BY <1>1, EndType DEF KnowsIds, Locked

\* What a step changes of the group and of the memberships of g, in one place.
LEMMA CreateFacts ==
  ASSUME SubjectGroupsAssumption, TypeOK, NEW c \in Clients, CreateInserts(c)
  PROVE  \E g \in Groups, s \in Students :
           /\ s = req[c].sid /\ ~Exists(g) /\ member[s].group = NoGroup
           /\ group' \in [Groups -> Group] /\ member' \in [Students -> Member]
           /\ group'[g] = [status |-> req[c].status, leader |-> s]
           /\ Exists(g)' /\ \A h \in Groups \ {g} : group'[h] = group[h]
           /\ member'[s] = [group |-> g, role |-> "LEADER"]
           /\ \A t \in Students \ {s} : member'[t] = member[t]
<1>0. /\ group \in [Groups -> Group] /\ member \in [Students -> Member]
      /\ req[c].sid \in Students /\ req[c] \in Request
  BY DEF TypeOK, CreateInserts, At
<1>1. PICK g \in Groups :
        /\ ~Exists(g) /\ member[req[c].sid].group = NoGroup
        /\ group' = [group EXCEPT ![g] = [status |-> req[c].status, leader |-> req[c].sid]]
        /\ member' = [member EXCEPT ![req[c].sid] = [group |-> g, role |-> "LEADER"]]
  BY DEF CreateInserts
<1>2. PICK s \in Students : s = req[c].sid
  BY <1>0
<1>3. req[c].status \in Statuses
  BY <1>0 DEF Request
<1>4. /\ [status |-> req[c].status, leader |-> s] \in Group
      /\ [group |-> g, role |-> "LEADER"] \in Member
      /\ req[c].status # "none"
  BY <1>3 DEF Group, Member, Statuses
<1>5. /\ group' \in [Groups -> Group]
      /\ group'[g] = [status |-> req[c].status, leader |-> s]
      /\ \A h \in Groups \ {g} : group'[h] = group[h]
  BY <1>0, <1>1, <1>2, <1>4
<1>6. /\ member' \in [Students -> Member]
      /\ member'[s] = [group |-> g, role |-> "LEADER"]
      /\ \A t \in Students \ {s} : member'[t] = member[t]
  BY <1>0, <1>1, <1>2, <1>4
<1> QED
  BY <1>1, <1>2, <1>4, <1>5, <1>6 DEF Exists

LEMMA JoinFacts ==
  ASSUME SubjectGroupsAssumption, TypeOK, NEW c \in Clients, JoinCommits(c)
  PROVE  \E g \in Groups, s \in Students :
           /\ g = req[c].gid /\ s = req[c].sid /\ Exists(g) /\ member[s].group = NoGroup
           /\ group' \in [Groups -> Group] /\ member' \in [Students -> Member]
           /\ group'[g].status = JoinedStatus(c) /\ group'[g].leader = group[g].leader
           /\ Exists(g)' /\ \A h \in Groups \ {g} : group'[h] = group[h]
           /\ member'[s] = [group |-> g, role |-> "MEMBER"]
           /\ \A t \in Students \ {s} : member'[t] = member[t]
<1>0. /\ group \in [Groups -> Group] /\ member \in [Students -> Member]
      /\ req[c].sid \in Students /\ req[c].gid \in Groups /\ Exists(req[c].gid)
  BY DEF TypeOK, JoinCommits, At, Locked
<1>1. PICK g \in Groups, s \in Students : g = req[c].gid /\ s = req[c].sid
  BY <1>0
<1>2. /\ member[s].group = NoGroup
      /\ member' = [member EXCEPT ![s] = [group |-> g, role |-> "MEMBER"]]
      /\ group' = [group EXCEPT ![g] = [group[g] EXCEPT !.status = JoinedStatus(c)]]
  BY <1>1 DEF JoinCommits
<1>3. group[g] \in Group /\ group[g].status \in Statuses
  BY <1>0, <1>1 DEF Exists, Group
<1>4. JoinedStatus(c) \in Statuses
  BY <1>1, <1>3 DEF JoinedStatus, StatusFor, Statuses
<1>5. /\ [group[g] EXCEPT !.status = JoinedStatus(c)] \in Group
      /\ [group[g] EXCEPT !.status = JoinedStatus(c)].status = JoinedStatus(c)
      /\ [group[g] EXCEPT !.status = JoinedStatus(c)].leader = group[g].leader
      /\ [group |-> g, role |-> "MEMBER"] \in Member
      /\ JoinedStatus(c) # "none"
  BY <1>3, <1>4 DEF Group, Member, Statuses
<1>6. /\ group' \in [Groups -> Group]
      /\ group'[g] = [group[g] EXCEPT !.status = JoinedStatus(c)]
      /\ \A h \in Groups \ {g} : group'[h] = group[h]
  BY <1>0, <1>2, <1>5
<1>7. /\ member' \in [Students -> Member]
      /\ member'[s] = [group |-> g, role |-> "MEMBER"]
      /\ \A t \in Students \ {s} : member'[t] = member[t]
  BY <1>0, <1>2, <1>5
<1>8. group'[g].status = JoinedStatus(c) /\ group'[g].leader = group[g].leader
  BY <1>5, <1>6
<1>9. Exists(g)'
  BY <1>5, <1>8 DEF Exists
<1>10. Exists(g) /\ member[s].group = NoGroup
  BY <1>0, <1>1, <1>2
<1> QED
  BY <1>1, <1>6, <1>7, <1>8, <1>9, <1>10

\* Approving and locking write the status only.
LEMMA StatusFacts ==
  ASSUME SubjectGroupsAssumption, TypeOK, NEW g \in Groups, NEW status \in Statuses, Exists(g),
         group' = [group EXCEPT ![g].status = status]
  PROVE  /\ group' \in [Groups -> Group]
         /\ \A h \in Groups : group'[h].leader = group[h].leader /\ (Exists(h)' <=> Exists(h))
         /\ \A h \in Groups \ {g} : group'[h] = group[h]
<1>0. group \in [Groups -> Group] /\ group[g] \in Group
  BY DEF TypeOK
<1>1. /\ [group[g] EXCEPT !.status = status] \in Group
      /\ [group[g] EXCEPT !.status = status].status = status
      /\ [group[g] EXCEPT !.status = status].leader = group[g].leader
      /\ status # "none"
  BY <1>0 DEF Group, Statuses
<1>2. /\ group' \in [Groups -> Group]
      /\ group'[g] = [group[g] EXCEPT !.status = status]
      /\ \A h \in Groups \ {g} : group'[h] = group[h]
  BY <1>0, <1>1
<1> QED
  BY <1>1, <1>2 DEF Exists

\* A change of the leader, and a removal with it: nobody joins the group.
LEMMA LeadFacts ==
  ASSUME SubjectGroupsAssumption, TypeOK, NEW c \in Clients, AssignWrites(c) \/ RemoveWrites(c)
  PROVE  \E g \in Groups :
           /\ g = req[c].gid /\ Exists(g)
           /\ group' \in [Groups -> Group] /\ member' \in [Students -> Member]
           /\ group'[g].leader = req[c].leader
           /\ Exists(g)' /\ \A h \in Groups \ {g} : group'[h] = group[h]
           /\ \A t \in Students :
                \/ member'[t].group = member[t].group
                \/ member[t].group = g /\ member'[t] = NoMember
           /\ \A t \in Students : member'[t].group # g =>
                member'[t] = member[t] \/ member'[t] = NoMember
           /\ \A t \in Students : member'[t].group = g /\ member'[t].role = "LEADER" =>
                t = req[c].leader
           /\ subject' = subject
<1>0. /\ group \in [Groups -> Group] /\ member \in [Students -> Member] /\ req[c] \in Request
      /\ req[c].gid \in Groups /\ Exists(req[c].gid) /\ NoMember \in Member
  BY DefaultTypes DEF TypeOK, AssignWrites, RemoveWrites, At
<1>1. PICK g \in Groups : g = req[c].gid
  BY <1>0
<1>2. PICK lead : lead = req[c].leader /\ lead \in Students \union {NoStudent}
  BY <1>0 DEF Request
<1>3. subject' = subject
  BY <1>1 DEF AssignWrites, RemoveWrites
<1>4. CASE AssignWrites(c)
  <2>1. /\ group' = [group EXCEPT ![g] = [group[g] EXCEPT !.leader = lead]]
        /\ member' = LedBy(g, lead, member)
    BY <1>1, <1>2, <1>4 DEF AssignWrites
  <2>2. /\ [group[g] EXCEPT !.leader = lead] \in Group
        /\ [group[g] EXCEPT !.leader = lead].leader = lead
        /\ [group[g] EXCEPT !.leader = lead].status = group[g].status
    BY <1>0, <1>2 DEF Group
  <2>3. /\ group' \in [Groups -> Group] /\ group'[g].leader = lead
        /\ group'[g].status = group[g].status
        /\ \A h \in Groups \ {g} : group'[h] = group[h]
    BY <1>0, <2>1, <2>2
  <2>4. /\ member' \in [Students -> Member]
        /\ \A t \in Students :
             /\ member'[t].group = member[t].group
             /\ member[t].group # g => member'[t] = member[t]
             /\ member[t].group = g => member'[t].role = IF t = lead THEN "LEADER" ELSE "MEMBER"
    BY <1>0, <2>1, LedByFacts
  <2> QED
    BY <1>0, <1>1, <1>2, <1>3, <2>3, <2>4 DEF Exists
<1>5. CASE RemoveWrites(c)
  <2> DEFINE left == [member EXCEPT ![req[c].sid] = NoMember]
  <2>1. /\ group' = [group EXCEPT ![g] = [status |-> req[c].status, leader |-> lead]]
        /\ member' = LedBy(g, lead, left) /\ member[req[c].sid].group = g
    BY <1>1, <1>2, <1>5 DEF RemoveWrites
  <2>2. req[c].status \in Statuses
    BY <1>0 DEF Request
  <2>3. [status |-> req[c].status, leader |-> lead] \in Group /\ req[c].status # "none"
    BY <1>2, <2>2 DEF Group, Statuses
  <2>4. /\ group' \in [Groups -> Group] /\ group'[g].leader = lead
        /\ group'[g].status = req[c].status
        /\ \A h \in Groups \ {g} : group'[h] = group[h]
    BY <1>0, <2>1, <2>3
  <2>5. /\ left \in [Students -> Member]
        /\ \A t \in Students : left[t] = member[t] \/ (left[t] = NoMember /\ member[t].group = g)
    BY <1>0, <2>1
  <2> HIDE DEF left
  <2>6. /\ member' \in [Students -> Member]
        /\ \A t \in Students :
             /\ member'[t].group = left[t].group
             /\ left[t].group # g => member'[t] = left[t]
             /\ left[t].group = g => member'[t].role = IF t = lead THEN "LEADER" ELSE "MEMBER"
    BY <2>1, <2>5, LedByFacts
  <2>7. NoMember.group # g
    BY DEF NoMember, SubjectGroupsAssumption
  <2> QED
    BY <1>0, <1>1, <1>2, <1>3, <2>3, <2>4, <2>5, <2>6, <2>7 DEF Exists
<1> QED
  BY <1>4, <1>5

MembersPlaced == \A s \in Students : member[s].group # NoGroup => Exists(member[s].group)

\* What becomes of a group in a step: the rows stay typed, no group goes away, and only a
\* join and a creation add a member to a group.
LEMMA StepFacts ==
  ASSUME SubjectGroupsAssumption, TypeOK, Next
  PROVE  /\ group' \in [Groups -> Group] /\ member' \in [Students -> Member]
         /\ subject' \in Subject
         /\ \A g \in Groups : Exists(g) => Exists(g)'
         /\ MembersPlaced'
<1>0. /\ group \in [Groups -> Group] /\ member \in [Students -> Member]
      /\ subject \in Subject /\ req \in [Clients -> Request]
      /\ \A s \in Students : member[s].group # NoGroup =>
           member[s].group \in Groups /\ Exists(member[s].group)
  BY DEF TypeOK, Member
<1>1. ASSUME UNCHANGED <<subject, group, member>> PROVE
         /\ group' \in [Groups -> Group] /\ member' \in [Students -> Member]
         /\ subject' \in Subject
         /\ \A g \in Groups : Exists(g) => Exists(g)'
         /\ MembersPlaced'
  BY <1>0, <1>1 DEF Exists, MembersPlaced
<1>2. ASSUME NEW c \in Clients,
             \/ CreateReads(c) \/ JoinReads(c) \/ ApproveReads(c) \/ AssignReads(c)
             \/ RemoveReads(c) \/ RestrictReads(c) \/ CreateConflicts(c)
             \/ JoinReading(c) \/ JoinConflicts(c) \/ RemoveFails(c)
      PROVE  UNCHANGED <<subject, group, member>>
  BY <1>2, ReadsType, JoinReadingType DEF CreateConflicts, JoinConflicts, RemoveFails
<1>3. ASSUME NEW c \in Clients, CreateInserts(c) PROVE
         /\ group' \in [Groups -> Group] /\ member' \in [Students -> Member]
         /\ subject' \in Subject
         /\ \A g \in Groups : Exists(g) => Exists(g)'
         /\ MembersPlaced'
  <2>1. subject' = subject
    BY <1>3 DEF CreateInserts
  <2>2. PICK g \in Groups, s \in Students :
          /\ group' \in [Groups -> Group] /\ member' \in [Students -> Member]
          /\ Exists(g)' /\ \A h \in Groups \ {g} : group'[h] = group[h]
          /\ member'[s] = [group |-> g, role |-> "LEADER"]
          /\ \A t \in Students \ {s} : member'[t] = member[t]
    BY <1>3, CreateFacts
  <2>3. \A h \in Groups : Exists(h) => Exists(h)'
    BY <2>2 DEF Exists
  <2>4. ASSUME NEW t \in Students, member'[t].group # NoGroup PROVE Exists(member[t].group)'
    <3>1. CASE t = s
      BY <2>2, <3>1 DEF Exists
    <3>2. CASE t # s
      BY <1>0, <2>2, <2>3, <2>4, <3>2 DEF Exists
    <3> QED
      BY <3>1, <3>2
  <2> QED
    BY <1>0, <2>1, <2>2, <2>3, <2>4 DEF MembersPlaced
<1>4. ASSUME NEW c \in Clients, JoinCommits(c) PROVE
         /\ group' \in [Groups -> Group] /\ member' \in [Students -> Member]
         /\ subject' \in Subject
         /\ \A g \in Groups : Exists(g) => Exists(g)'
         /\ MembersPlaced'
  <2>1. subject' = subject
    BY <1>4 DEF JoinCommits
  <2>2. PICK g \in Groups, s \in Students :
          /\ group' \in [Groups -> Group] /\ member' \in [Students -> Member]
          /\ Exists(g)' /\ \A h \in Groups \ {g} : group'[h] = group[h]
          /\ member'[s] = [group |-> g, role |-> "MEMBER"]
          /\ \A t \in Students \ {s} : member'[t] = member[t]
    BY <1>4, JoinFacts
  <2>3. \A h \in Groups : Exists(h) => Exists(h)'
    BY <2>2 DEF Exists
  <2>4. ASSUME NEW t \in Students, member'[t].group # NoGroup PROVE Exists(member[t].group)'
    <3>1. CASE t = s
      BY <2>2, <3>1 DEF Exists
    <3>2. CASE t # s
      BY <1>0, <2>2, <2>3, <2>4, <3>2 DEF Exists
    <3> QED
      BY <3>1, <3>2
  <2> QED
    BY <1>0, <2>1, <2>2, <2>3, <2>4 DEF MembersPlaced
<1>5. ASSUME NEW c \in Clients, AssignWrites(c) \/ RemoveWrites(c) PROVE
         /\ group' \in [Groups -> Group] /\ member' \in [Students -> Member]
         /\ subject' \in Subject
         /\ \A g \in Groups : Exists(g) => Exists(g)'
         /\ MembersPlaced'
  <2>1. NoMember.group = NoGroup
    BY DEF NoMember
  <2>2. PICK g \in Groups :
           /\ Exists(g)
           /\ group' \in [Groups -> Group] /\ member' \in [Students -> Member]
           /\ Exists(g)' /\ \A h \in Groups \ {g} : group'[h] = group[h]
           /\ \A t \in Students :
                \/ member'[t].group = member[t].group
                \/ member[t].group = g /\ member'[t] = NoMember
           /\ subject' = subject
    BY <1>5, LeadFacts
  <2> QED
    BY <1>0, <2>1, <2>2 DEF Exists, MembersPlaced
<1>6. ASSUME NEW g \in Groups, NEW status \in Statuses, Exists(g),
             group' = [group EXCEPT ![g].status = status],
             UNCHANGED <<subject, member>>
      PROVE
         /\ group' \in [Groups -> Group] /\ member' \in [Students -> Member]
         /\ subject' \in Subject
         /\ \A h \in Groups : Exists(h) => Exists(h)'
         /\ MembersPlaced'
  BY <1>0, <1>6, StatusFacts DEF MembersPlaced
<1>7. ASSUME NEW c \in Clients, ApproveWrites(c)
      PROVE  \E g \in Groups : /\ Exists(g) /\ group' = [group EXCEPT ![g].status = "ACTIVE"]
                               /\ UNCHANGED <<subject, member>>
  BY <1>7 DEF ApproveWrites, TypeOK, At
<1>8. ASSUME NEW c \in Clients, RestrictWrites(c) PROVE
         /\ group' \in [Groups -> Group] /\ member' \in [Students -> Member]
         /\ subject' \in Subject
         /\ \A h \in Groups : Exists(h) => Exists(h)'
         /\ MembersPlaced'
  <2>1. req[c].subject \in Subject
    BY <1>0 DEF Request
  <2> QED
    BY <1>0, <1>8, <2>1 DEF RestrictWrites, Exists, MembersPlaced
<1>9. "ACTIVE" \in Statuses /\ "LOCKED" \in Statuses
  BY DEF Statuses
<1> QED
  BY <1>1, <1>2, <1>3, <1>4, <1>5, <1>6, <1>7, <1>8, <1>9
    DEF Next, RequestStep, Join, JoinReading, LockGroup

\* What becomes of the requests in a step.
LEMMA RequestFacts ==
  ASSUME SubjectGroupsAssumption, TypeOK, NEW c \in Clients, RequestStep(c)
  PROVE  /\ req' \in [Clients -> Request] /\ KnowsIds(c)'
         /\ \A d \in Clients \ {c} : req'[d] = req[d]
BY ReadsType, JoinReadingType, EndsType DEF RequestStep, Join, JoinReading, Ends

LEMMA TypeInit == ASSUME SubjectGroupsAssumption PROVE Init => TypeOK
BY DefaultTypes
  DEF Init, TypeOK, SubjectGroupsAssumption, Exists, NoMember, NoGroupRow, Idle, Locked

LEMMA TypeStep == ASSUME SubjectGroupsAssumption PROVE TypeOK /\ [Next]_vars => TypeOK'
<1> SUFFICES ASSUME TypeOK, [Next]_vars PROVE TypeOK'
  OBVIOUS
<1>1. CASE UNCHANGED vars
  BY <1>1 DEF vars, TypeOK, Exists
<1>2. ASSUME NEW c \in Clients, RequestStep(c) PROVE TypeOK'
  <2>1. /\ req' \in [Clients -> Request] /\ \A d \in Clients : KnowsIds(d)'
    BY <1>2, RequestFacts, StepFacts, IdsKept DEF Next
  <2>2. /\ group' \in [Groups -> Group] /\ member' \in [Students -> Member]
        /\ subject' \in Subject
        /\ MembersPlaced'
    BY <1>2, StepFacts DEF Next
  <2> QED
    BY <2>1, <2>2 DEF TypeOK, KnowsIds, MembersPlaced
<1>3. ASSUME NEW g \in Groups, LockGroup(g) PROVE TypeOK'
  <2>1. /\ group' \in [Groups -> Group] /\ member' \in [Students -> Member]
        /\ subject' \in Subject
        /\ \A h \in Groups : Exists(h) => Exists(h)'
        /\ MembersPlaced'
    BY <1>3, StepFacts DEF Next
  <2>2. req' = req
    BY <1>3 DEF LockGroup
  <2> QED
    BY <2>1, <2>2 DEF TypeOK, MembersPlaced, Exists
<1> QED
  BY <1>1, <1>2, <1>3 DEF Next

\* The rows and the requests keep their types, and a request has the ids it works on.
THEOREM TypeCorrect == ASSUME SubjectGroupsAssumption PROVE Spec => []TypeOK
BY TypeInit, TypeStep, PTL DEF Spec

-----------------------------------------------------------------------------
(* The leader *)

\* Only members have the role of leader.
LeaderInv ==
  /\ LeadersAgree
  /\ \A s \in Students : member[s].role = "LEADER" => member[s].group \in Groups

LEMMA LeaderInit == Init => LeaderInv
BY DEF Init, LeaderInv, LeadersAgree, NoMember

LEMMA LeaderStep ==
  ASSUME SubjectGroupsAssumption PROVE TypeOK /\ LeaderInv /\ [Next]_vars => LeaderInv'
<1> SUFFICES ASSUME TypeOK, LeaderInv, [Next]_vars PROVE LeaderInv'
  OBVIOUS
<1>0. /\ group \in [Groups -> Group] /\ member \in [Students -> Member]
      /\ \A s \in Students : member[s].group \in Groups => Exists(member[s].group)
      /\ \A s \in Students : member[s].role = "LEADER" =>
           member[s].group \in Groups /\ group[member[s].group].leader = s
  BY DEF TypeOK, LeaderInv, LeadersAgree, SubjectGroupsAssumption
<1>1. ASSUME member' = member, \A g \in Groups : group'[g].leader = group[g].leader
      PROVE  LeaderInv'
  BY <1>0, <1>1 DEF LeaderInv, LeadersAgree
<1>2. ASSUME NEW c \in Clients,
             \/ CreateReads(c) \/ JoinReads(c) \/ ApproveReads(c) \/ AssignReads(c)
             \/ RemoveReads(c) \/ RestrictReads(c) \/ CreateConflicts(c)
             \/ JoinReading(c) \/ JoinConflicts(c) \/ RemoveFails(c) \/ RestrictWrites(c)
      PROVE  LeaderInv'
  BY <1>1, <1>2, ReadsType, JoinReadingType
    DEF CreateConflicts, JoinConflicts, RemoveFails, RestrictWrites
<1>3. ASSUME NEW c \in Clients, CreateInserts(c) PROVE LeaderInv'
  <2>1. PICK g \in Groups, s \in Students :
           /\ ~Exists(g)
           /\ group'[g] = [status |-> req[c].status, leader |-> s]
           /\ \A h \in Groups \ {g} : group'[h] = group[h]
           /\ member'[s] = [group |-> g, role |-> "LEADER"]
           /\ \A t \in Students \ {s} : member'[t] = member[t]
    BY <1>3, CreateFacts
  <2> QED
    BY <1>0, <2>1 DEF LeaderInv, LeadersAgree
<1>4. ASSUME NEW c \in Clients, JoinCommits(c) PROVE LeaderInv'
  <2>1. PICK g \in Groups, s \in Students :
           /\ group'[g].leader = group[g].leader
           /\ \A h \in Groups \ {g} : group'[h] = group[h]
           /\ member'[s] = [group |-> g, role |-> "MEMBER"]
           /\ \A t \in Students \ {s} : member'[t] = member[t]
    BY <1>4, JoinFacts
  <2> QED
    BY <1>0, <2>1 DEF LeaderInv, LeadersAgree
<1>5. ASSUME NEW c \in Clients, AssignWrites(c) \/ RemoveWrites(c) PROVE LeaderInv'
  <2>1. NoMember.role = "none"
    BY DEF NoMember
  <2>2. PICK g \in Groups :
           /\ group'[g].leader = req[c].leader
           /\ \A h \in Groups \ {g} : group'[h] = group[h]
           /\ \A t \in Students : member'[t].group # g =>
                member'[t] = member[t] \/ member'[t] = NoMember
           /\ \A t \in Students : member'[t].group = g /\ member'[t].role = "LEADER" =>
                t = req[c].leader
    BY <1>5, LeadFacts
  <2>3. ASSUME NEW t \in Students, member'[t].role = "LEADER"
        PROVE  member'[t].group \in Groups /\ group'[member'[t].group].leader = t
    <3>1. CASE member'[t].group = g
      BY <2>2, <2>3, <3>1
    <3>2. CASE member'[t].group # g
      BY <1>0, <2>1, <2>2, <2>3, <3>2
    <3> QED
      BY <3>1, <3>2
  <2> QED
    BY <2>3 DEF LeaderInv, LeadersAgree
<1>6. ASSUME NEW c \in Clients, ApproveWrites(c) PROVE LeaderInv'
  <2>1. /\ req[c].gid \in Groups /\ Exists(req[c].gid) /\ member' = member
        /\ group' = [group EXCEPT ![req[c].gid].status = "ACTIVE"]
    BY <1>6 DEF ApproveWrites, TypeOK, At
  <2> QED
    BY <1>1, <2>1, StatusFacts DEF Statuses
<1>7. ASSUME NEW g \in Groups, LockGroup(g) PROVE LeaderInv'
  BY <1>1, <1>7, StatusFacts DEF LockGroup, Statuses
<1>8. CASE UNCHANGED vars
  BY <1>1, <1>8 DEF vars
<1> QED
  BY <1>2, <1>3, <1>4, <1>5, <1>6, <1>7, <1>8 DEF Next, RequestStep, Join, JoinReading

\* However assignments and removals of several requests follow each other, a member with
\* the role of leader is the leader that its group names.
THEOREM LeadersLead == ASSUME SubjectGroupsAssumption PROVE Spec => []LeadersAgree
<1>1. LeaderInv => LeadersAgree
  BY DEF LeaderInv
<1> QED
  BY <1>1, LeaderInit, LeaderStep, TypeInit, TypeStep, PTL DEF Spec

-----------------------------------------------------------------------------
(* Joins and the limit *)

LEMMA SizeNat ==
  ASSUME SubjectGroupsAssumption, NEW g PROVE Size(g) \in Nat /\ IsFiniteSet(Members(g))
BY FS_CardinalityType, FS_Subset DEF SubjectGroupsAssumption, Size, Members

LEMMA SizeNatNext ==
  ASSUME SubjectGroupsAssumption, NEW g PROVE Size(g)' \in Nat /\ IsFiniteSet(Members(g)')
<1>1. Members(g)' \subseteq Students
  BY DEF Members
<1> QED
  BY <1>1, FS_CardinalityType, FS_Subset DEF SubjectGroupsAssumption, Size

LEMMA SizeShrinks ==
  ASSUME SubjectGroupsAssumption, NEW g, Members(g)' \subseteq Members(g)
  PROVE  Size(g)' <= Size(g)
BY SizeNat, FS_Subset DEF Size

\* A commit of a join adds the student that joins.
LEMMA JoinGrows ==
  ASSUME SubjectGroupsAssumption, TypeOK, NEW c \in Clients, JoinCommits(c)
  PROVE  \E g \in Groups :
           /\ g = req[c].gid /\ At(c, "commit")
           /\ Size(g)' = Size(g) + 1
           /\ \A h \in Groups \ {g} : Members(h)' = Members(h)
<1>1. PICK g \in Groups, s \in Students :
           /\ g = req[c].gid /\ member[s].group = NoGroup
           /\ member'[s] = [group |-> g, role |-> "MEMBER"]
           /\ \A t \in Students \ {s} : member'[t] = member[t]
  BY JoinFacts
<1>2. member'[s].group = g
  BY <1>1
<1>3. NoGroup \notin Groups
  BY DEF SubjectGroupsAssumption
<1>4. Members(g)' = Members(g) \union {s} /\ s \notin Members(g)
  BY <1>1, <1>2, <1>3 DEF Members
<1>5. \A h \in Groups \ {g} : Members(h)' = Members(h)
  BY <1>1, <1>2, <1>3 DEF Members
<1>6. Size(g)' = Size(g) + 1
  BY <1>4, SizeNat, FS_AddElement DEF Size
<1> QED
  BY <1>1, <1>5, <1>6 DEF JoinCommits

\* No other step adds a member to a group that exists.
LEMMA OthersShrink ==
  ASSUME SubjectGroupsAssumption, TypeOK, [Next]_vars, NEW g \in Groups, Exists(g),
         \A c \in Clients : JoinCommits(c) => req[c].gid # g
  PROVE  Members(g)' \subseteq Members(g)
<1>1. CASE member' = member
  BY <1>1 DEF Members
<1>2. ASSUME NEW c \in Clients, CreateInserts(c) PROVE Members(g)' \subseteq Members(g)
  <2>1. PICK h \in Groups, s \in Students :
           /\ ~Exists(h)
           /\ member'[s] = [group |-> h, role |-> "LEADER"]
           /\ \A t \in Students \ {s} : member'[t] = member[t]
    BY <1>2, CreateFacts
  <2> QED
    BY <2>1 DEF Members
<1>3. ASSUME NEW c \in Clients, JoinCommits(c) PROVE Members(g)' \subseteq Members(g)
  BY <1>3, JoinGrows
<1>4. ASSUME NEW c \in Clients, AssignWrites(c) \/ RemoveWrites(c)
      PROVE  Members(g)' \subseteq Members(g)
  <2>1. \A t \in Students : member'[t].group = member[t].group \/ member'[t] = NoMember
    BY <1>4, LeadFacts
  <2>2. NoMember.group # g
    BY DEF NoMember, SubjectGroupsAssumption
  <2> QED
    BY <2>1, <2>2 DEF Members
<1>5. ASSUME NEW c \in Clients,
             \/ CreateReads(c) \/ JoinReads(c) \/ ApproveReads(c) \/ AssignReads(c)
             \/ RemoveReads(c) \/ RestrictReads(c) \/ CreateConflicts(c)
             \/ JoinReading(c) \/ JoinConflicts(c) \/ RemoveFails(c) \/ RestrictWrites(c)
             \/ ApproveWrites(c)
      PROVE  member' = member
  BY <1>5, ReadsType, JoinReadingType
    DEF CreateConflicts, JoinConflicts, RemoveFails, RestrictWrites, ApproveWrites
<1>6. ASSUME NEW h \in Groups, LockGroup(h) PROVE member' = member
  BY <1>6 DEF LockGroup
<1> QED
  BY <1>1, <1>2, <1>3, <1>4, <1>5, <1>6 DEF vars, Next, RequestStep, Join, JoinReading

LEMMA JoinInit == Init => JoinInv
BY DEF Init, JoinInv, CountIsSafe, OneJoinAtATime, Idle, Locked

\* What a request that is past the lock was before the step.
LEMMA JoinersBefore ==
  ASSUME SubjectGroupsAssumption, TypeOK, [Next]_vars,
         NEW d \in Clients, req'[d].pc \in Locked
  PROVE  \/ req'[d] = req[d] /\ ~JoinCommits(d)
         \/ /\ At(d, "lock") /\ req'[d].pc = "check"
            /\ req'[d].gid = req[d].gid /\ ~JoinLockHeld(req[d].gid)
            /\ \A e \in Clients \ {d} : req'[e] = req[e]
         \/ At(d, "check") /\ req'[d].pc = "count" /\ req'[d].gid = req[d].gid
         \/ /\ At(d, "count") /\ req'[d].pc = "commit"
            /\ req'[d].gid = req[d].gid /\ member' = member
            /\ req'[d].count = Size(req[d].gid) /\ req'[d].count < req'[d].subject.max
<1>0. "idle" \notin Locked
  BY DEF Locked
<1>1. CASE UNCHANGED vars
  BY <1>0, <1>1, EndsType DEF vars, Ends, JoinCommits
<1>2. ASSUME NEW g \in Groups, LockGroup(g) PROVE req' = req
  BY <1>2 DEF LockGroup
<1>3. JoinCommits(d) => FALSE
  BY <1>0, EndsType DEF Ends
<1>4. ASSUME NEW c \in Clients, RequestStep(c), c # d PROVE req'[d] = req[d]
  BY <1>4, RequestFacts
<1>5. CASE RequestStep(d)
  <2>1. JoinReading(d)
    BY <1>0, <1>5, ReadsType, EndsType DEF RequestStep, Join, JoinReading, Ends, Locked
  <2> QED
    BY <1>0, <2>1, JoinReadingType
<1> QED
  BY <1>1, <1>2, <1>3, <1>4, <1>5 DEF Next

\* Joins of one group stay one at a time, and what they counted stays an upper bound.
LEMMA JoinStep ==
  ASSUME SubjectGroupsAssumption PROVE TypeOK /\ JoinInv /\ [Next]_vars => JoinInv'
<1> SUFFICES ASSUME TypeOK, JoinInv, [Next]_vars PROVE JoinInv'
  OBVIOUS
<1>0. "lock" \notin Locked /\ {"check", "count", "commit"} = Locked
  BY DEF Locked
<1>1. ASSUME NEW d \in Clients, NEW e \in Clients, d # e,
             req'[d].pc \in Locked, req'[e].pc \in Locked, req'[d].gid = req'[e].gid
      PROVE  FALSE
  <2>1. ASSUME NEW x \in {d, e}, ~At(x, "lock")
        PROVE  req[x].pc \in Locked /\ req[x].gid = req'[x].gid
    BY <1>0, <1>1, <2>1, JoinersBefore DEF At
  <2>3. CASE ~At(d, "lock") /\ ~At(e, "lock")
    BY <1>1, <2>1, <2>3 DEF JoinInv, OneJoinAtATime
  <2>4. ASSUME NEW x \in {d, e}, NEW y \in {d, e}, x # y, At(x, "lock") PROVE FALSE
    <3>1. /\ ~JoinLockHeld(req[x].gid) /\ req'[x].gid = req[x].gid
          /\ \A z \in Clients \ {x} : req'[z] = req[z]
      BY <1>0, <1>1, <2>4, JoinersBefore DEF At
    <3>2. y \in Clients /\ req'[y] = req[y]
      BY <1>1, <2>4, <3>1
    <3> QED
      BY <1>1, <2>4, <3>1, <3>2 DEF JoinLockHeld
  <2> QED
    BY <1>1, <2>3, <2>4
<1>2. ASSUME NEW d \in Clients, req'[d].pc = "commit"
      PROVE  \E g : /\ g = req'[d].gid /\ Size(g)' <= req'[d].count
                    /\ req'[d].count < req'[d].subject.max
  <2>1. PICK g : g = req'[d].gid
    OBVIOUS
  <2>2. CASE req'[d] = req[d] /\ ~JoinCommits(d)
    <3>1. /\ At(d, "commit") /\ g \in Groups /\ Exists(g) /\ g = req[d].gid
          /\ Size(g) <= req[d].count /\ req[d].count < req[d].subject.max
      BY <1>2, <2>1, <2>2 DEF TypeOK, JoinInv, CountIsSafe, At, Locked
    <3>2. \A c \in Clients : JoinCommits(c) => req[c].gid # g
      BY <1>0, <2>2, <3>1 DEF JoinInv, OneJoinAtATime, JoinCommits, At
    <3>3. Size(g)' <= Size(g)
      BY <3>1, <3>2, OthersShrink, SizeShrinks
    <3>4. Size(g) \in Nat /\ Size(g)' \in Nat /\ req[d].count \in Nat
      BY SizeNat, SizeNatNext DEF TypeOK, Request
    <3>5. Size(g)' <= req[d].count
      BY <3>1, <3>3, <3>4
    <3> QED
      BY <2>1, <2>2, <3>1, <3>5
  <2>3. CASE /\ req'[d].gid = req[d].gid /\ member' = member
             /\ req'[d].count = Size(req[d].gid) /\ req'[d].count < req'[d].subject.max
    <3>1. Size(g)' = Size(g)
      BY <2>3 DEF Size, Members
    <3> QED
      BY <2>1, <2>3, <3>1, SizeNat
  <2> QED
    BY <1>0, <1>2, <2>2, <2>3, JoinersBefore
<1>3. CountIsSafe'
  BY <1>2 DEF CountIsSafe, Size, Members
<1>4. OneJoinAtATime'
  BY <1>1 DEF OneJoinAtATime
<1> QED
  BY <1>3, <1>4 DEF JoinInv

\* Two joins of a group are never between the lock and the commit, and what a join has
\* counted stays an upper bound, for any number of students and requests.
THEOREM JoinsAreSafe == ASSUME SubjectGroupsAssumption PROVE Spec => []JoinInv
BY JoinInit, JoinStep, TypeInit, TypeStep, PTL DEF Spec

\* A group that exists grows only by a join, up to the limit that the join read.
THEOREM LimitHolds == ASSUME SubjectGroupsAssumption PROVE Spec => GrowsWithinLimit
<1> DEFINE Within == \A g \in Groups : Exists(g) /\ Size(g)' > Size(g) =>
                       \E c \in Clients : /\ At(c, "commit") /\ req[c].gid = g
                                         /\ Size(g)' <= req[c].subject.max
<1>1. TypeOK /\ JoinInv /\ [Next]_vars => Within
  <2> SUFFICES ASSUME TypeOK, JoinInv, [Next]_vars,
                      NEW g \in Groups, Exists(g), Size(g)' > Size(g)
               PROVE  \E c \in Clients : /\ At(c, "commit") /\ req[c].gid = g
                                        /\ Size(g)' <= req[c].subject.max
    OBVIOUS
  <2>1. PICK c \in Clients : JoinCommits(c) /\ req[c].gid = g
    <3>1. Size(g) \in Nat /\ Size(g)' \in Nat
      BY SizeNat, SizeNatNext
    <3>2. ~(Size(g)' <= Size(g))
      BY <3>1
    <3> QED
      BY <3>2, OthersShrink, SizeShrinks
  <2>2. At(c, "commit") /\ Size(g)' = Size(g) + 1
    BY <2>1, JoinGrows
  <2>3. Size(g) <= req[c].count /\ req[c].count < req[c].subject.max
    BY <2>1, <2>2 DEF JoinInv, CountIsSafe, At
  <2>4. Size(g) \in Nat /\ req[c].count \in Nat /\ req[c].subject.max \in Nat
    BY SizeNat DEF TypeOK, Request, Subject, SubjectGroupsAssumption
  <2>5. Size(g)' <= req[c].subject.max
    BY <2>2, <2>3, <2>4
  <2> QED
    BY <2>1, <2>2, <2>5
<1>2. TypeOK /\ JoinInv /\ [Next]_vars => [Within]_vars
  BY <1>1
<1>3. Spec => [][Within]_vars
  BY <1>2, TypeInit, TypeStep, JoinInit, JoinStep, PTL DEF Spec
<1> QED
  BY <1>3 DEF GrowsWithinLimit

=============================================================================
