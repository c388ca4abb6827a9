----------------------------- MODULE MCBackups -----------------------------
(* Small instances of Backups for TLC. *)
EXTENDS Backups, TLC

CONSTANTS r1, r2, r3, r4, t1, t2, q1, q2, c1, c2

\* Two worker processes with one connection each, and one with two.
OneConnectionEach == [t \in Ticks |-> IF t = t1 THEN {c1} ELSE {c2}]
SharedConnections == [t \in Ticks |-> {c1, c2}]

RunSymmetry == Permutations(Runs)
RunAndRequestSymmetry == Permutations(Runs) \union Permutations(Requests)
=============================================================================
