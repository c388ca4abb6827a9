-------------------------- MODULE MCAccountAccess ---------------------------
(* Two small instances for TLC, one per value of part.  "sessions": every    *)
(* request but those on reset links, and one link.  "links": the requests on *)
(* links, and no session.                                                    *)
EXTENDS AccountAccess, TLC

CONSTANTS s1, s2, s3, l1, l2, c1, c2, c3

VARIABLE part

LinkOps == {"setup", "forgot", "invite", "reset", "deactivate"}

Rows(table, none) == Cardinality({i \in DOMAIN table : table[i] # none})

Occurs ==
  \/ /\ part = "sessions"
     /\ Rows(link, NoLinkRow) <= 1
     /\ \A c \in Clients : req[c].op \notin {"forgot", "reset"}
  \/ /\ part = "links"
     /\ \A c \in Clients : req[c].op \in LinkOps \union {"none"}

MCInit == part \in {"sessions", "links"} /\ Init

MCNext == UNCHANGED part /\ Next /\ Occurs'

MCSpec == MCInit /\ [][MCNext]_<<part, vars>>

IdSymmetry ==
  Permutations(Sessions) \union Permutations(Links) \union Permutations(Clients)
=============================================================================
