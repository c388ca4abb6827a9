---------------------------- MODULE MCMailQueue ----------------------------
(* Small instances of MailQueue for TLC. *)
EXTENDS MailQueue, TLC

CONSTANTS j1, j2, j3, p1, p2, c1, r1

OneRecipient == [j \in Jobs |-> r1]
NoBatch == [j \in Jobs |-> 0]
OneBatch == [j \in Jobs |-> 1]

PassSymmetry == Permutations(Passes)
PassAndJobSymmetry == Permutations(Passes) \union Permutations(Jobs)
=============================================================================
