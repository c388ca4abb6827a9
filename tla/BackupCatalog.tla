--------------------------- MODULE BackupCatalog ---------------------------
(***************************************************************************)
(* What the list of backups promises its readers, each change one step:    *)
(* a backup that ended can be retired, but never the newest successful     *)
(* one.  Backups shows how BackupsService and BackupRetentionService keep  *)
(* this with reads and writes that others interleave, as long as the audit *)
(* record of a completed backup can be written: when it cannot, the row    *)
(* becomes FAILED, which is no step here.                                  *)
(***************************************************************************)
EXTENDS Naturals

CONSTANTS
  Entries,   \* ids of BackupRun rows
  Stamps     \* moments of completion

VARIABLE catalog

States == {"absent", "running", "completed", "failed", "retired"}
Entry == [state : States, at : Nat]          \* at is 0 until completed
Absent == [state |-> "absent", at |-> 0]

Init == catalog = [i \in Entries |-> Absent]

IsNewest(i) ==
  /\ catalog[i].state = "completed"
  /\ \A j \in Entries : catalog[j].state = "completed" => catalog[j].at <= catalog[i].at

Become(i, state) == catalog' = [catalog EXCEPT ![i].state = state]

Begin(i) ==
  /\ catalog[i].state = "absent"
  /\ Become(i, "running")

\* A run ends, or an artifact that no row names is listed.
Complete(i) ==
  /\ catalog[i].state \in {"running", "absent"}
  /\ \E n \in Stamps :
       /\ \A j \in Entries : catalog[j].at # n
       /\ catalog' = [catalog EXCEPT ![i] = [state |-> "completed", at |-> n]]

Fail(i) ==
  /\ catalog[i].state = "running"
  /\ Become(i, "failed")

Retire(i) ==
  /\ catalog[i].state \in {"completed", "failed"}
  /\ ~IsNewest(i)
  /\ Become(i, "retired")

Next == \E i \in Entries : Begin(i) \/ Complete(i) \/ Fail(i) \/ Retire(i)

Spec == Init /\ [][Next]_catalog
=============================================================================
