------------------------------ MODULE MCPeople ------------------------------
(* Small instances for TLC of four components, side by side: the initial    *)
(* state chooses a part, and only the variables of its component change.     *)
(* SubjectGroups has two parts, "group" and "groups".  The components share  *)
(* the model values, so that one group of permutations serves all.           *)
EXTENDS SubjectGroups, RefreshFlight, AuthThrottle, MailWebhook, TLC

CONSTANTS s1, x1, x2, x3, y1, y2, y3, z1, z2

VARIABLE part

\* The calls of one tab.
OneTab == [q \in Calls |-> s1]

ASSUME ThrottleAssumption == AuthThrottleAssumption
ASSUME BrowserAssumption == RefreshFlightAssumption
ASSUME WebhookAssumption == MailWebhookAssumption
ASSUME GroupsAssumption == SubjectGroupsAssumption

\* The parts that do not move begin in one state.
PeopleInit ==
  /\ part \in {"throttle", "browser", "webhook", "group", "groups"}
  /\ ThrottleInit /\ BrowserInit /\ WebhookInit /\ Init
  /\ part # "browser" => memory = [t \in Tabs |-> 1]
  /\ part \notin {"group", "groups"} => subject = Blank

Busy == {c \in Clients : req[c].pc # "idle"}
Involved == {s \in Students : member[s].group # NoGroup \/ \E c \in Clients : req[c].sid = s}

\* Two requests on one group, three students and all the operations ...
OneGroup ==
  /\ Cardinality({g \in Groups : Exists(g)}) <= 1
  /\ Cardinality(Busy) <= 2

\* ... or three requests on two groups, with two students at a time.
TwoGroups ==
  /\ Cardinality(Involved) <= 2
  /\ \A c \in Clients : req[c].op \in {"none", "create", "join", "remove"}
  /\ \A g \in Groups : group[g].status # "LOCKED"

ThrottlePart ==
  part = "throttle" /\ ThrottleNext /\ UNCHANGED <<part, browserVars, webhookVars, vars>>
BrowserPart ==
  part = "browser" /\ BrowserNext /\ UNCHANGED <<part, throttleVars, webhookVars, vars>>
WebhookPart ==
  part = "webhook" /\ WebhookNext /\ UNCHANGED <<part, throttleVars, browserVars, vars>>
OneGroupPart ==
  /\ part = "group" /\ Next /\ OneGroup'
  /\ UNCHANGED <<part, throttleVars, browserVars, webhookVars>>
TwoGroupsPart ==
  /\ part = "groups" /\ Next /\ TwoGroups'
  /\ UNCHANGED <<part, throttleVars, browserVars, webhookVars>>

PeopleNext == ThrottlePart \/ BrowserPart \/ WebhookPart \/ OneGroupPart \/ TwoGroupsPart

PeopleSpec ==
  PeopleInit /\ [][PeopleNext]_<<part, throttleVars, browserVars, webhookVars, vars>>

\* The types of all parts.
PeopleTypeOK == ThrottleTypeOK /\ BrowserTypeOK /\ WebhookTypeOK /\ TypeOK

IdSymmetry == Permutations(Students) \union Permutations(Groups) \union Permutations({y1, y2})
=============================================================================
