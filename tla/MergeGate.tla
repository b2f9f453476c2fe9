------------------------------ MODULE MergeGate ------------------------------
(***************************************************************************)
(* What the durable task reducer promises about merging, and nothing about *)
(* how: each task has a revision and the kinds of evidence that have       *)
(* succeeded for exactly that revision.  Its gate opens only on every      *)
(* required kind, and a different revision closes the gate and forgets the *)
(* evidence in the same step.  TaskDomain implements it.                   *)
(***************************************************************************)
CONSTANTS Task, Kind, Revision, NoRevision

VARIABLES required, revision, proven, open
vars == <<required, revision, proven, open>>

Init ==
  /\ required = [t \in Task |-> {}]
  /\ revision = [t \in Task |-> NoRevision]
  /\ proven = [t \in Task |-> {}]
  /\ open = {}

Create(t, kinds) ==
  /\ required[t] = {} /\ kinds # {}
  /\ required' = [required EXCEPT ![t] = kinds]
  /\ UNCHANGED <<revision, proven, open>>

Publish(t, new) ==
  /\ required[t] # {}
  /\ new # revision[t]
  /\ revision' = [revision EXCEPT ![t] = new]
  /\ proven' = [proven EXCEPT ![t] = {}]
  /\ open' = open \ {t}
  /\ UNCHANGED required

Prove(t, kind) ==
  /\ revision[t] # NoRevision
  /\ proven' = [proven EXCEPT ![t] = @ \cup {kind}]
  /\ UNCHANGED <<required, revision, open>>

Open(t) ==
  /\ required[t] # {} /\ required[t] \subseteq proven[t]
  /\ open' = open \cup {t}
  /\ UNCHANGED <<required, revision, proven>>

Next == \E t \in Task :
  \/ \E kinds \in SUBSET Kind : Create(t, kinds)
  \/ \E new \in Revision : Publish(t, new)
  \/ \E kind \in Kind : Prove(t, kind)
  \/ Open(t)

Spec == Init /\ [][Next]_vars
=============================================================================
