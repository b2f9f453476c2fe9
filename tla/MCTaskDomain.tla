---------------------------- MODULE MCTaskDomain ----------------------------
(* Instances of TaskDomain for TLC. *)
EXTENDS TaskDomain, TLC

(* Identities of one kind are interchangeable. *)
Identities == Permutations(Task) \cup Permutations(Artifact)
              \cup Permutations(Activity) \cup Permutations(Lease)
              \cup Permutations(Runner)
=============================================================================
