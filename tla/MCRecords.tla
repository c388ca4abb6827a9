----------------------------- MODULE MCRecords ------------------------------
(* Small instances for TLC of the submissions and of the deletion of         *)
(* accounts, side by side: the initial state chooses one of the components,  *)
(* and only its variables change.  They share the model values.              *)
EXTENDS Submissions, DataDeletion, TLC

CONSTANTS s1, p1, p2, u1, u2, i1, i2, c1, c2

VARIABLE part

\* Alone for one place, with a group for the other.
BothPlaces == Students \X Places

ASSUME SubmissionAssumption == SubmissionsAssumption
ASSUME DeletionAssumption == DataDeletionAssumption

RecordsInit ==
  /\ part \in {"submissions", "deletion"}
  /\ Init /\ DeletionInit

SubmissionsPart == part = "submissions" /\ Next /\ UNCHANGED <<part, deletionVars>>
DeletionPart == part = "deletion" /\ DeletionNext /\ UNCHANGED <<part, vars>>

RecordsNext == SubmissionsPart \/ DeletionPart

RecordsSpec ==
  RecordsInit /\ [][RecordsNext]_<<part, vars, deletionVars>>

\* The types of both parts.
RecordsTypeOK == TypeOK /\ DeletionTypeOK

\* The entries of the list of backups are named like the uploads.
IdSymmetry ==
  UNION {Permutations(s) : s \in {Uploads, Subs, Clients, Places}}
=============================================================================
