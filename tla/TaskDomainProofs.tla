-------------------------- MODULE TaskDomainProofs --------------------------
(***************************************************************************)
(* Proofs about the durable task domain and its effects.  TaskDomain comes *)
(* first, for every set of identities, SHAs and times: its invariant, and  *)
(* that it implements MergeGate.  TaskEffects follows, for every set of    *)
(* effects, identities and callers, any number of concurrent ones and any  *)
(* number of crashes.                                                      *)
(***************************************************************************)
EXTENDS TaskDomain, TaskEffects, TLAPS, SequenceTheorems, FiniteSetTheorems

(* Put keeps a collection well formed.                                    *)
LEMMA PutStore ==
  ASSUME NEW f, NEW S, NEW R, NEW k \in S, NEW v \in R, Store(f, S, R)
  PROVE  Store(Put(f, k, v), S, R)
  BY DEF Put, Store

(* Replacing one stored entity by a well-formed one.                       *)
LEMMA ReplaceStore ==
  ASSUME NEW f, NEW S, NEW R, NEW k \in DOMAIN f, NEW v \in R, Store(f, S, R)
  PROVE  Store([f EXCEPT ![k] = v], S, R)
  BY DEF Store

(* A derived status is one of the statuses of a task.                      *)
LEMMA StatusType ==
  ASSUME NEW t, NEW task, NEW acts, NEW apps
  PROVE  DeriveTaskStatus(t, task, acts, apps) \in TaskStatus
  BY DEF DeriveTaskStatus, TaskStatus

(* The empty collection holds nothing ill formed.                          *)
LEMMA EmptyStore ==
  ASSUME NEW S, NEW R
  PROVE  Store(Nothing, S, R)
  BY DEF Store, Nothing

(* The inductive invariant: what validateTaskState checks, in full.        *)
IInv == TypeOK /\ StoredStateValid

(* The empty state is valid.                                               *)
LEMMA InitIInv == Init => IInv
<1> SUFFICES ASSUME Init PROVE IInv
  OBVIOUS
<1>1. TypeOK
  BY EmptyStore DEF Init, TypeOK
<1>2. StoredStateValid
  BY DEF Init, Nothing, StoredStateValid, References, ArtifactChain,
         EvidenceIsCurrent, Fencing, Provenance, ApprovalBacked, StatusIsDerived
<1> QED BY <1>1, <1>2 DEF IInv

-----------------------------------------------------------------------------
(* A new task has no revision, no evidence and no approval.                *)
LEMMA CreateKeeps ==
  ASSUME IInv, NEW t \in Task, NEW required \in SUBSET EvidenceKind,
         CreateConversationAndTask(t, required)
  PROVE  IInv'
<1> DEFINE rec == [required |-> required, status |-> "awaiting_implementation",
       artifactIds |-> <<>>, current |-> None, base |-> None, head |-> None,
       activityIds |-> {}, approvalIds |-> {}]
<1>0. /\ TypeOK /\ References /\ ArtifactChain /\ EvidenceIsCurrent
      /\ Fencing /\ Provenance /\ ApprovalBacked /\ StatusIsDerived
  BY DEF IInv, StoredStateValid
<1>1. /\ tasks' = Put(tasks, t, rec)
      /\ t \notin DOMAIN tasks
      /\ UNCHANGED <<runners, artifacts, activities, leases, approvals>>
  BY DEF CreateConversationAndTask
<1>2. /\ rec \in TaskRecord
      /\ rec.artifactIds = <<>> /\ rec.current = None
      /\ rec.base = None /\ rec.head = None
      /\ rec.activityIds = {} /\ rec.approvalIds = {}
      /\ rec.status = "awaiting_implementation"
  BY DEF TaskRecord, TaskStatus
<1> HIDE DEF rec
<1>3. /\ DOMAIN tasks' = DOMAIN tasks \cup {t}
      /\ tasks'[t] = rec
      /\ \A u \in DOMAIN tasks : tasks'[u] = tasks[u]
  BY <1>1 DEF Put
<1>4. TypeOK'
  BY <1>0, <1>1, <1>2, PutStore DEF TypeOK
<1>5. References'
  BY <1>0, <1>1, <1>2, <1>3 DEF References
<1>6. ArtifactChain'
  BY <1>0, <1>1, <1>2, <1>3 DEF ArtifactChain, ChainOf, SameRevision
<1>7. EvidenceIsCurrent'
  BY <1>0, <1>1, <1>3 DEF References, EvidenceIsCurrent, SameRevision
<1>8. Fencing' /\ Provenance'
  BY <1>0, <1>1 DEF Fencing, FencedLeases, Provenance, ProvenanceOf
<1>9. ApprovalBacked'
  BY <1>0, <1>1, <1>3 DEF References, ApprovalBacked, BoundEvidence
<1>10. StatusIsDerived'
  BY <1>0, <1>1, <1>2, <1>3 DEF StatusIsDerived, DeriveTaskStatus
<1> QED BY <1>4, <1>5, <1>6, <1>7, <1>8, <1>9, <1>10
           DEF IInv, StoredStateValid

(* A new runner is nobody's yet.                                           *)
LEMMA RegisterKeeps ==
  ASSUME IInv, NEW r \in Runner, NEW capabilities \in SUBSET Capability,
         RegisterRunner(r, capabilities)
  PROVE  IInv'
<1> USE DEF IInv, StoredStateValid
<1>1. /\ runners' = Put(runners, r, capabilities)
      /\ r \notin DOMAIN runners
      /\ UNCHANGED <<tasks, artifacts, activities, leases, approvals>>
  BY DEF RegisterRunner
<1>2. TypeOK'
  BY <1>1, PutStore DEF TypeOK
<1>3. References'
  <2>1. /\ DOMAIN runners \subseteq DOMAIN runners'
        /\ \A s \in DOMAIN runners : runners'[s] = runners[s]
    BY <1>1 DEF Put
  <2> QED BY <1>1, <2>1 DEF References
<1>4. ArtifactChain' /\ EvidenceIsCurrent' /\ Fencing' /\ Provenance'
  BY <1>1 DEF ArtifactChain, ChainOf, EvidenceIsCurrent, Fencing, FencedLeases,
               Provenance, ProvenanceOf
<1>5. ApprovalBacked' /\ StatusIsDerived'
  BY <1>1 DEF ApprovalBacked, BoundEvidence, StatusIsDerived
<1> QED BY <1>2, <1>3, <1>4, <1>5
-----------------------------------------------------------------------------
(* What the status of a task depends on.                                   *)
LEMMA SameStatus ==
  ASSUME NEW t, NEW task1, NEW task2, NEW acts1, NEW acts2, NEW apps1, NEW apps2,
         task1.head = task2.head,
         task1.required = task2.required,
         Approved(t, task1, apps1) <=> Approved(t, task2, apps2),
         \A k \in task1.required :
           EvidenceForCurrentRevision(acts1, t, task1, k) =
           EvidenceForCurrentRevision(acts2, t, task2, k)
  PROVE  DeriveTaskStatus(t, task1, acts1, apps1) =
         DeriveTaskStatus(t, task2, acts2, apps2)
<1>1. MissingKinds(t, task1, acts1) = MissingKinds(t, task2, acts2)
  BY DEF MissingKinds
<1> QED BY <1>1 DEF DeriveTaskStatus

(* The status of one task depends on its own activities and approvals.     *)
LEMMA OtherTaskStatus ==
  ASSUME NEW u, NEW task, NEW acts1, NEW acts2, NEW apps1, NEW apps2,
         \A a : (a \in DOMAIN acts1 /\ acts1[a].task = u) <=>
                (a \in DOMAIN acts2 /\ acts2[a].task = u),
         \A a \in DOMAIN acts1 : acts1[a].task = u => acts1[a] = acts2[a],
         \A p : (p \in DOMAIN apps1 /\ apps1[p].task = u) <=>
                (p \in DOMAIN apps2 /\ apps2[p].task = u),
         \A p \in DOMAIN apps1 : apps1[p].task = u => apps1[p] = apps2[p]
  PROVE  DeriveTaskStatus(u, task, acts1, apps1) =
         DeriveTaskStatus(u, task, acts2, apps2)
<1>1. Approved(u, task, apps1) <=> Approved(u, task, apps2)
  BY DEF Approved
<1>2. ASSUME NEW k
      PROVE  EvidenceForCurrentRevision(acts1, u, task, k) =
             EvidenceForCurrentRevision(acts2, u, task, k)
  BY DEF EvidenceForCurrentRevision
<1> QED BY <1>1, <1>2, SameStatus

(* A publication stales exactly what is not about the new revision.        *)
LEMMA PublishKeeps ==
  ASSUME IInv, NEW t \in Task, NEW x \in Artifact, NEW b \in BaseSha, NEW h \in HeadSha,
         PublishPullRequest(t, x, b, h)
  PROVE  IInv'
<1> DEFINE previous == tasks[t].current
           changed == /\ previous # None
                      /\ \/ artifacts[previous].base # b
                         \/ artifacts[previous].head # h
           staleActs == IF changed THEN Invalidated(t, b, h) ELSE {}
           staleApps == {p \in DOMAIN approvals :
                           /\ changed
                           /\ approvals[p].task = t
                           /\ approvals[p].status = "current"
                           /\ approvals[p].base # b \/ approvals[p].head # h}
           revised == [tasks[t] EXCEPT !.artifactIds = Append(@, x),
                                       !.current = x, !.base = b, !.head = h]
           staleAct(a) == [activities[a] EXCEPT !.status = "stale"]
           staleLease(l) == [leases[l] EXCEPT !.status = "stale"]
           staleApp(p) == [approvals[p] EXCEPT !.status = "stale"]
           status == DeriveTaskStatus(t, revised, activities', approvals')
           artifact == [task |-> t, base |-> b, head |-> h,
                        revision |-> IF previous = None THEN 1
                                     ELSE artifacts[previous].revision + 1,
                        supersedes |-> previous]
<1>0. /\ TypeOK /\ References /\ ArtifactChain /\ EvidenceIsCurrent
      /\ Fencing /\ Provenance /\ ApprovalBacked /\ StatusIsDerived
  BY DEF IInv, StoredStateValid
<1>1. /\ x \notin DOMAIN artifacts
      /\ t \in DOMAIN tasks
      /\ activities' = [a \in DOMAIN activities |->
           IF a \in staleActs THEN staleAct(a) ELSE activities[a]]
      /\ leases' = [l \in DOMAIN leases |->
           IF leases[l].activity \in staleActs /\ leases[l].status = "active"
             THEN staleLease(l) ELSE leases[l]]
      /\ approvals' = [p \in DOMAIN approvals |->
           IF p \in staleApps THEN staleApp(p) ELSE approvals[p]]
      /\ artifacts' = Put(artifacts, x, artifact)
      /\ tasks' = [tasks EXCEPT ![t] = [revised EXCEPT !.status = status]]
      /\ runners' = runners
  BY DEF PublishPullRequest, RevisionAfter
<1>2. /\ tasks[t] \in TaskRecord
      /\ tasks[t].artifactIds \in Seq(Artifact)
      /\ \A a \in DOMAIN activities : activities[a] \in ActivityRecord
      /\ \A l \in DOMAIN leases : leases[l] \in LeaseRecord
      /\ \A p \in DOMAIN approvals : approvals[p] \in ApprovalRecord
  BY <1>0, <1>1 DEF TypeOK, Store, TaskRecord
(* The task after the command, field by field.                             *)
<1>3. /\ DOMAIN tasks' = DOMAIN tasks
      /\ \A u \in DOMAIN tasks : u # t => tasks'[u] = tasks[u]
      /\ tasks'[t].artifactIds = Append(tasks[t].artifactIds, x)
      /\ tasks'[t].current = x
      /\ tasks'[t].base = b /\ tasks'[t].head = h
      /\ tasks'[t].required = tasks[t].required
      /\ tasks'[t].activityIds = tasks[t].activityIds
      /\ tasks'[t].approvalIds = tasks[t].approvalIds
      /\ tasks'[t].status = status
      /\ revised.head = h /\ revised.base = b
      /\ revised.required = tasks[t].required
  <2> HIDE DEF status
  <2> QED BY <1>1, <1>2 DEF TaskRecord
<1>4. /\ DOMAIN activities' = DOMAIN activities
      /\ DOMAIN leases' = DOMAIN leases
      /\ DOMAIN approvals' = DOMAIN approvals
      /\ DOMAIN artifacts' = DOMAIN artifacts \cup {x}
      /\ artifacts'[x] = artifact
      /\ \A y \in DOMAIN artifacts : artifacts'[y] = artifacts[y]
  <2> HIDE DEF artifact, staleActs, staleApps, staleAct, staleLease, staleApp
  <2> QED BY <1>1 DEF Put
(* Every other entity after the command, field by field.                   *)
<1>5. ASSUME NEW a \in DOMAIN activities
      PROVE  /\ activities'[a] \in ActivityRecord
             /\ activities'[a].task = activities[a].task
             /\ activities'[a].kind = activities[a].kind
             /\ activities'[a].base = activities[a].base
             /\ activities'[a].head = activities[a].head
             /\ activities'[a].leaseIds = activities[a].leaseIds
             /\ activities'[a].token = activities[a].token
             /\ activities'[a].evidence = activities[a].evidence
             /\ activities'[a].status =
                  IF a \in staleActs THEN "stale" ELSE activities[a].status
             /\ a \notin staleActs => activities'[a] = activities[a]
  <2>1. activities'[a] = IF a \in staleActs THEN staleAct(a) ELSE activities[a]
    BY <1>1
  <2> HIDE DEF staleActs
  <2> QED BY <1>2, <2>1 DEF ActivityRecord, ActivityStatus
<1>6. ASSUME NEW l \in DOMAIN leases
      PROVE  /\ leases'[l] \in LeaseRecord
             /\ leases'[l].activity = leases[l].activity
             /\ leases'[l].task = leases[l].task
             /\ leases'[l].runner = leases[l].runner
             /\ leases'[l].base = leases[l].base
             /\ leases'[l].head = leases[l].head
             /\ leases'[l].token = leases[l].token
             /\ leases'[l].status =
                  IF leases[l].activity \in staleActs /\ leases[l].status = "active"
                    THEN "stale" ELSE leases[l].status
  <2>1. leases'[l] = IF leases[l].activity \in staleActs /\ leases[l].status = "active"
                       THEN staleLease(l) ELSE leases[l]
    BY <1>1
  <2> HIDE DEF staleActs
  <2> QED BY <1>2, <2>1 DEF LeaseRecord, LeaseStatus
<1>7. ASSUME NEW p \in DOMAIN approvals
      PROVE  /\ approvals'[p] \in ApprovalRecord
             /\ approvals'[p].task = approvals[p].task
             /\ approvals'[p].base = approvals[p].base
             /\ approvals'[p].head = approvals[p].head
             /\ approvals'[p].bindings = approvals[p].bindings
             /\ approvals'[p].status =
                  IF p \in staleApps THEN "stale" ELSE approvals[p].status
             /\ p \notin staleApps => approvals'[p] = approvals[p]
  <2>1. approvals'[p] = IF p \in staleApps THEN staleApp(p) ELSE approvals[p]
    BY <1>1
  <2> HIDE DEF staleApps
  <2> QED BY <1>2, <2>1 DEF ApprovalRecord
(* The task's revision before the command is its current artifact's.       *)
<1>8. /\ previous # None =>
           /\ previous \in DOMAIN artifacts
           /\ artifacts[previous] \in ArtifactRecord
           /\ artifacts[previous].base = tasks[t].base
           /\ artifacts[previous].head = tasks[t].head
           /\ artifacts[previous].revision = Len(tasks[t].artifactIds)
           /\ tasks[t].artifactIds # <<>>
           /\ tasks[t].artifactIds[Len(tasks[t].artifactIds)] = previous
      /\ previous = None => /\ tasks[t].artifactIds = <<>>
                            /\ tasks[t].base = None /\ tasks[t].head = None
      /\ previous \in Artifact \cup {None}
  <2>1. previous \in Artifact \cup {None}
    BY <1>2 DEF TaskRecord
  <2>4. ChainOf(t)
    BY <1>0, <1>1 DEF ArtifactChain
  <2>2. CASE previous # None
    <3>1. /\ tasks[t].artifactIds # <<>>
          /\ tasks[t].artifactIds[Len(tasks[t].artifactIds)] = previous
          /\ SameRevision(artifacts[previous], tasks[t])
      BY <2>2, <2>4 DEF ChainOf
    <3>2. Len(tasks[t].artifactIds) \in DOMAIN tasks[t].artifactIds
      BY <3>1, <1>2
    <3>3. /\ previous \in DOMAIN artifacts
          /\ artifacts[previous].revision = Len(tasks[t].artifactIds)
      BY <3>1, <3>2, <2>4 DEF ChainOf
    <3>4. artifacts[previous] \in ArtifactRecord
      BY <3>3, <1>0 DEF TypeOK, Store
    <3> QED BY <2>1, <2>2, <3>1, <3>3, <3>4 DEF SameRevision
  <2>3. CASE previous = None
    BY <2>1, <2>3, <2>4 DEF ChainOf
  <2> QED BY <2>2, <2>3
(* What is not stale afterwards is about the new revision.                 *)
<1>9. ASSUME NEW a \in DOMAIN activities, activities[a].task = t,
             activities[a].status # "stale", a \notin staleActs
      PROVE  activities[a].base = b /\ activities[a].head = h
  <2>1. /\ activities[a].base = tasks[t].base /\ activities[a].head = tasks[t].head
        /\ activities[a].base # None /\ activities[a].kind \in EvidenceKind
    BY <1>0, <1>2, <1>9, NoneAssumption DEF EvidenceIsCurrent, SameRevision, ActivityRecord
  <2>2. CASE changed
    BY <1>9, <2>1, <2>2 DEF Invalidated
  <2>3. CASE ~changed
    BY <1>8, <2>1, <2>3
  <2> QED BY <2>2, <2>3
<1>10. ASSUME NEW p \in DOMAIN approvals, approvals[p].task = t,
             approvals[p].status = "current", p \notin staleApps
       PROVE  approvals[p].base = b /\ approvals[p].head = h
  <2>1. /\ approvals[p].base = tasks[t].base /\ approvals[p].head = tasks[t].head
        /\ approvals[p].base # None
    BY <1>0, <1>2, <1>10, NoneAssumption DEF EvidenceIsCurrent, SameRevision, ApprovalRecord
  <2>2. CASE changed
    BY <1>10, <2>1, <2>2
  <2>3. CASE ~changed
    BY <1>8, <2>1, <2>3
  <2> QED BY <2>2, <2>3
<1>11. /\ \A a \in staleActs : /\ a \in DOMAIN activities
                               /\ activities[a].task = t
                               /\ activities[a].status # "stale"
                               /\ activities[a].base # b \/ activities[a].head # h
       /\ \A p \in staleApps : approvals[p].task = t
  BY DEF Invalidated
<1>12. artifact \in ArtifactRecord
       /\ artifact.task = t /\ artifact.base = b /\ artifact.head = h
       /\ artifact.revision = Len(tasks[t].artifactIds) + 1
       /\ artifact.supersedes = previous
  <2>1. artifact.revision = Len(tasks[t].artifactIds) + 1
    BY <1>2, <1>8
  <2>2. artifact.revision \in Nat
    BY <1>2, <2>1
  <2> QED BY <1>8, <2>1, <2>2 DEF ArtifactRecord
<1>13. /\ Append(tasks[t].artifactIds, x) \in Seq(Artifact)
       /\ Len(Append(tasks[t].artifactIds, x)) = Len(tasks[t].artifactIds) + 1
       /\ Append(tasks[t].artifactIds, x)[Len(tasks[t].artifactIds) + 1] = x
       /\ \A i \in 1..Len(tasks[t].artifactIds) :
            Append(tasks[t].artifactIds, x)[i] = tasks[t].artifactIds[i]
       /\ DOMAIN tasks[t].artifactIds = 1..Len(tasks[t].artifactIds)
       /\ Append(tasks[t].artifactIds, x) # <<>>
  BY <1>2
<1> HIDE DEF artifact, staleActs, staleApps, status, revised, changed,
             staleAct, staleLease, staleApp
<1>14. TypeOK'
  <2>1. tasks'[t] \in TaskRecord
    <3>1. status \in TaskStatus
      BY StatusType DEF status
    <3>2. revised \in TaskRecord
      BY <1>2, <1>13 DEF TaskRecord, revised
    <3>3. [revised EXCEPT !.status = status] \in TaskRecord
      BY <3>1, <3>2 DEF TaskRecord
    <3> QED BY <1>1, <3>3
  <2>2. Store(tasks', Task, TaskRecord)
    BY <1>0, <1>1, <1>3, <2>1 DEF TypeOK, Store
  <2>3. Store(artifacts', Artifact, ArtifactRecord)
    BY <1>0, <1>1, <1>12, PutStore DEF TypeOK
  <2>4. Store(activities', Activity, ActivityRecord)
    BY <1>0, <1>1, <1>4, <1>5 DEF TypeOK, Store
  <2>5. Store(leases', Lease, LeaseRecord)
    BY <1>0, <1>1, <1>4, <1>6 DEF TypeOK, Store
  <2>6. Store(approvals', Approval, ApprovalRecord)
    BY <1>0, <1>1, <1>4, <1>7 DEF TypeOK, Store
  <2> QED BY <1>0, <1>1, <2>2, <2>3, <2>4, <2>5, <2>6 DEF TypeOK
<1>15. References'
  <2>1. ASSUME NEW u \in DOMAIN tasks
        PROVE  /\ tasks'[u].activityIds = {a \in DOMAIN activities' : activities'[a].task = u}
               /\ tasks'[u].approvalIds = {p \in DOMAIN approvals' : approvals'[p].task = u}
    <3>1. /\ tasks'[u].activityIds = tasks[u].activityIds
          /\ tasks'[u].approvalIds = tasks[u].approvalIds
      BY <1>3
    <3>2. /\ tasks[u].activityIds = {a \in DOMAIN activities : activities[a].task = u}
          /\ tasks[u].approvalIds = {p \in DOMAIN approvals : approvals[p].task = u}
      BY <1>0 DEF References
    <3> QED BY <3>1, <3>2, <1>4, <1>5, <1>7
  <2>2. /\ \A a \in DOMAIN activities' : activities'[a].task \in DOMAIN tasks'
        /\ \A p \in DOMAIN approvals' : approvals'[p].task \in DOMAIN tasks'
    BY <1>0, <1>3, <1>4, <1>5, <1>7 DEF References
  <2>3. ASSUME NEW l \in DOMAIN leases
        PROVE  /\ leases'[l].activity \in DOMAIN activities'
               /\ leases'[l].task = activities'[leases'[l].activity].task
               /\ \E i \in DOMAIN activities'[leases'[l].activity].leaseIds :
                    activities'[leases'[l].activity].leaseIds[i] = l
               /\ leases'[l].runner \in DOMAIN runners'
               /\ "verification" \in runners'[leases'[l].runner]
    BY <1>0, <1>1, <1>4, <1>5, <1>6 DEF References
  <2> QED BY <2>1, <2>2, <2>3, <1>3, <1>4 DEF References
<1>16. ArtifactChain'
  <2>1. ASSUME NEW u \in DOMAIN tasks, u # t
        PROVE  ChainOf(u)'
    <3>1. tasks[u].artifactIds \in Seq(Artifact)
      BY <1>0 DEF TypeOK, Store, TaskRecord
    <3>2. tasks[u].artifactIds # <<>> => Len(tasks[u].artifactIds) \in DOMAIN tasks[u].artifactIds
      BY <3>1
    <3>3. tasks[u].current # None => tasks[u].current \in DOMAIN artifacts
      BY <1>0, <3>2 DEF ArtifactChain, ChainOf
    <3> QED BY <2>1, <3>1, <3>3, <1>0, <1>3, <1>4 DEF ArtifactChain, ChainOf, SameRevision
  <2>2. ChainOf(t)'
    <3> DEFINE ids == tasks[t].artifactIds
               new == Append(ids, x)
    <3>1. ASSUME NEW i \in DOMAIN new
          PROVE  /\ new[i] \in DOMAIN artifacts'
                 /\ artifacts'[new[i]].task = t
                 /\ artifacts'[new[i]].revision = i
                 /\ artifacts'[new[i]].supersedes = IF i = 1 THEN None ELSE new[i - 1]
      <4>1. CASE i = Len(ids) + 1
        <5>1. new[i] = x
          BY <4>1, <1>13
        <5>2. previous = IF i = 1 THEN None ELSE new[i - 1]
          BY <4>1, <1>2, <1>8, <1>13
        <5> QED BY <4>1, <5>1, <5>2, <1>4, <1>12
      <4>2. CASE i # Len(ids) + 1
        <5>1. /\ i \in 1..Len(ids) /\ new[i] = ids[i]
              /\ i # 1 => i - 1 \in 1..Len(ids) /\ new[i - 1] = ids[i - 1]
          BY <4>2, <1>2, <1>13
        <5>2. /\ ids[i] \in DOMAIN artifacts
              /\ artifacts[ids[i]].task = t
              /\ artifacts[ids[i]].revision = i
              /\ artifacts[ids[i]].supersedes = IF i = 1 THEN None ELSE ids[i - 1]
          BY <5>1, <1>0, <1>1, <1>13 DEF ArtifactChain, ChainOf
        <5> QED BY <5>1, <5>2, <1>1, <1>4
      <4> QED BY <4>1, <4>2
    <3>2. x # None
      BY NoneAssumption
    <3>3. new[Len(new)] = x /\ new # <<>>
      BY <1>2, <1>13
    <3>4. SameRevision(artifacts'[x], tasks'[t])
      BY <1>3, <1>4, <1>12 DEF SameRevision
    <3>5. tasks'[t].artifactIds = new /\ tasks'[t].current = x
      BY <1>3
    <3> HIDE DEF new
    <3> QED BY <3>1, <3>2, <3>3, <3>4, <3>5 DEF ChainOf
  <2> QED BY <2>1, <2>2, <1>3 DEF ArtifactChain
<1>17. EvidenceIsCurrent'
  <2>1. ASSUME NEW a \in DOMAIN activities, activities'[a].status # "stale"
        PROVE  SameRevision(activities'[a], tasks'[activities'[a].task])
    <3>1. CASE activities[a].task = t
      BY <2>1, <3>1, <1>3, <1>5, <1>9 DEF SameRevision
    <3>2. CASE activities[a].task # t
      BY <2>1, <3>2, <1>0, <1>3, <1>5, <1>11 DEF References, EvidenceIsCurrent, SameRevision
    <3> QED BY <3>1, <3>2
  <2>2. ASSUME NEW p \in DOMAIN approvals, approvals'[p].status = "current"
        PROVE  SameRevision(approvals'[p], tasks'[approvals'[p].task])
    <3>1. CASE approvals[p].task = t
      BY <2>2, <3>1, <1>3, <1>7, <1>10 DEF SameRevision
    <3>2. CASE approvals[p].task # t
      BY <2>2, <3>2, <1>0, <1>3, <1>7, <1>11 DEF References, EvidenceIsCurrent, SameRevision
    <3> QED BY <3>1, <3>2
  <2> QED BY <2>1, <2>2, <1>4 DEF EvidenceIsCurrent
<1>18. ASSUME NEW a \in DOMAIN activities
       PROVE  FencedLeases(a)' /\ ProvenanceOf(a)'
  <2> DEFINE ids == activities[a].leaseIds
  <2>1. /\ FencedLeases(a) /\ ProvenanceOf(a)
        /\ ids \in Seq(Lease) /\ activities[a].kind \in EvidenceKind
        /\ activities[a].status \in ActivityStatus
    BY <1>0, <1>2 DEF Fencing, Provenance, ActivityRecord
  <2>2. ids # <<>> => Len(ids) \in DOMAIN ids
    BY <2>1
  <2>3. FencedLeases(a)'
    BY <2>1, <2>2, <1>4, <1>5, <1>6 DEF FencedLeases, SameRevision
  <2>4. ProvenanceOf(a)'
    <3> DEFINE final == ids[Len(ids)]
    <3>1. ids # <<>> =>
            /\ final \in DOMAIN leases
            /\ leases[final].activity = a
            /\ leases'[final].status =
                 IF a \in staleActs /\ leases[final].status = "active"
                   THEN "stale" ELSE leases[final].status
      BY <2>1, <2>2, <1>6 DEF FencedLeases
    <3>2. activities[a].kind = "verification" =>
            /\ ids # <<>>
            /\ activities'[a].evidence # None => leases'[final].status = "completed"
            /\ activities'[a].status = "stale" /\ activities'[a].evidence = None =>
                 leases'[final].status = "stale"
      BY <2>1, <3>1, <1>5, <1>11 DEF FencedLeases, ProvenanceOf, ActivityStatus
    <3> QED BY <2>1, <3>2, <1>5 DEF ProvenanceOf, SameRevision
  <2> QED BY <2>3, <2>4
<1>19. ApprovalBacked'
  <2>1. ASSUME NEW p \in DOMAIN approvals, NEW e \in approvals[p].bindings
        PROVE  BoundEvidence(p, e)'
    <3>1. BoundEvidence(p, e)
      BY <1>0 DEF ApprovalBacked
    <3>2. approvals'[p].status = "current" => activities'[e.activity].status = "succeeded"
      <4> SUFFICES ASSUME approvals'[p].status = "current"
                   PROVE  activities'[e.activity].status = "succeeded"
        OBVIOUS
      <4>1. approvals[p].status = "current" /\ p \notin staleApps
        BY <1>7
      <4>2. e.activity \notin staleActs
        BY <3>1, <4>1, <1>10, <1>11 DEF BoundEvidence, SameRevision
      <4> QED BY <3>1, <4>1, <4>2, <1>5 DEF BoundEvidence
    <3>3. activities'[e.activity].status \in {"succeeded", "stale"}
      BY <3>1, <1>5 DEF BoundEvidence
    <3> QED BY <3>1, <3>2, <3>3, <1>4, <1>5, <1>7 DEF BoundEvidence, SameRevision
  <2>2. ASSUME NEW p \in DOMAIN approvals, approvals'[p].status = "current"
        PROVE  \A k \in tasks'[approvals'[p].task].required :
                 \E e \in approvals'[p].bindings : e.kind = k
    BY <2>2, <1>0, <1>3, <1>7 DEF References, ApprovalBacked
  <2> QED BY <2>1, <2>2, <1>4, <1>7 DEF ApprovalBacked
<1>20. StatusIsDerived'
  <2>1. tasks'[t].status = DeriveTaskStatus(t, tasks'[t], activities', approvals')
    <3>1. /\ \A k : EvidenceForCurrentRevision(activities', t, revised, k) =
                    EvidenceForCurrentRevision(activities', t, tasks'[t], k)
          /\ Approved(t, revised, approvals') <=> Approved(t, tasks'[t], approvals')
      BY <1>3 DEF EvidenceForCurrentRevision, Approved, SameRevision
    <3> QED BY <3>1, <1>3, SameStatus DEF status
  <2>2. ASSUME NEW u \in DOMAIN tasks, u # t
        PROVE  tasks'[u].status = DeriveTaskStatus(u, tasks'[u], activities', approvals')
    <3>1. /\ \A a : (a \in DOMAIN activities /\ activities[a].task = u) <=>
                    (a \in DOMAIN activities' /\ activities'[a].task = u)
          /\ \A a \in DOMAIN activities :
               activities[a].task = u => activities[a] = activities'[a]
      BY <2>2, <1>4, <1>5, <1>11
    <3>2. /\ \A p : (p \in DOMAIN approvals /\ approvals[p].task = u) <=>
                    (p \in DOMAIN approvals' /\ approvals'[p].task = u)
          /\ \A p \in DOMAIN approvals :
               approvals[p].task = u => approvals[p] = approvals'[p]
      BY <2>2, <1>4, <1>7, <1>11
    <3>3. DeriveTaskStatus(u, tasks[u], activities, approvals) =
          DeriveTaskStatus(u, tasks[u], activities', approvals')
      BY <3>1, <3>2, OtherTaskStatus
    <3> QED BY <2>2, <3>3, <1>0, <1>3 DEF StatusIsDerived
  <2> QED BY <2>1, <2>2, <1>3 DEF StatusIsDerived
<1> QED BY <1>4, <1>14, <1>15, <1>16, <1>17, <1>18, <1>19, <1>20
           DEF IInv, StoredStateValid, Fencing, Provenance

-----------------------------------------------------------------------------
(* A lease extends its activity's chain by one fencing token.              *)
LEMMA LeaseKeeps ==
  ASSUME IInv, NEW t \in Task, NEW a \in Activity, NEW l \in Lease, NEW r \in Runner,
         NEW at \in Time, NEW expiresAt \in Time, NEW reassign \in BOOLEAN,
         LeaseVerification(t, a, l, r, at, expiresAt, reassign)
  PROVE  IInv'
<1> DEFINE activity == LeasedActivity(a, t)
           ids == activity.leaseIds
           held == HeldLeases(a)
           endedLease(m) == [leases[m] EXCEPT !.status =
                               IF leases[m].expiresAt <= at THEN "expired"
                                                            ELSE "reassigned"]
           ended == [m \in DOMAIN leases |->
                       IF m \in held THEN endedLease(m) ELSE leases[m]]
           newLease == [activity |-> a, task |-> t, runner |-> r,
                        base |-> tasks[t].base, head |-> tasks[t].head,
                        token |-> activity.token + 1, status |-> "active",
                        expiresAt |-> expiresAt]
           newActivity == [activity EXCEPT !.token = @ + 1, !.leaseIds = Append(@, l),
                                           !.evidence = None, !.status = "leased"]
<1>0. /\ TypeOK /\ References /\ ArtifactChain /\ EvidenceIsCurrent
      /\ Fencing /\ Provenance /\ ApprovalBacked /\ StatusIsDerived
  BY DEF IInv, StoredStateValid
<1>1. /\ t \in DOMAIN tasks /\ r \in DOMAIN runners
      /\ "verification" \in runners[r]
      /\ l \notin DOMAIN leases
      /\ tasks[t].head # None
      /\ Leasable(a, t)
      /\ leases' = Put(ended, l, newLease)
      /\ activities' = Put(activities, a, newActivity)
      /\ tasks' = [tasks EXCEPT ![t].activityIds = @ \cup {a}]
      /\ UNCHANGED <<runners, artifacts, approvals>>
  BY DEF LeaseVerification
<1>2. /\ tasks[t] \in TaskRecord
      /\ tasks[t].head \in HeadSha /\ tasks[t].base \in BaseSha
      /\ \A c \in DOMAIN activities : activities[c] \in ActivityRecord
      /\ \A m \in DOMAIN leases : leases[m] \in LeaseRecord
  <2>1. /\ tasks[t] \in TaskRecord
        /\ \A c \in DOMAIN activities : activities[c] \in ActivityRecord
        /\ \A m \in DOMAIN leases : leases[m] \in LeaseRecord
    BY <1>0, <1>1 DEF TypeOK, Store
  <2>2. tasks[t].current # None
    BY <1>0, <1>1 DEF ArtifactChain, ChainOf
  <2>3. /\ tasks[t].artifactIds # <<>>
        /\ tasks[t].artifactIds[Len(tasks[t].artifactIds)] = tasks[t].current
        /\ SameRevision(artifacts[tasks[t].current], tasks[t])
    BY <2>2, <1>0, <1>1 DEF ArtifactChain, ChainOf
  <2>4. tasks[t].artifactIds \in Seq(Artifact)
    BY <2>1 DEF TaskRecord
  <2>5. Len(tasks[t].artifactIds) \in DOMAIN tasks[t].artifactIds
    BY <2>3, <2>4
  <2>6. tasks[t].current \in DOMAIN artifacts
    BY <2>3, <2>5, <1>0, <1>1 DEF ArtifactChain, ChainOf
  <2>7. artifacts[tasks[t].current] \in ArtifactRecord
    BY <2>6, <1>0 DEF TypeOK, Store
  <2> QED BY <2>1, <2>3, <2>7 DEF ArtifactRecord, SameRevision
(* The activity, whether it is stored already or created by this command.  *)
<1>3. /\ activity \in ActivityRecord
      /\ activity.task = t /\ activity.kind = "verification"
      /\ activity.base = tasks[t].base /\ activity.head = tasks[t].head
      /\ ids \in Seq(Lease)
      /\ activity.token = Len(ids)
      /\ a \in DOMAIN activities => /\ activity = activities[a]
                                   /\ activities[a].status \notin {"stale", "succeeded"}
      /\ a \notin DOMAIN activities => ids = <<>>
  <2>1. CASE a \in DOMAIN activities
    <3>1. /\ activity = activities[a] /\ activities[a].task = t
          /\ activities[a].kind = "verification"
          /\ activities[a].status \notin {"stale", "succeeded"}
      BY <2>1, <1>1 DEF LeasedActivity, Leasable
    <3>2. SameRevision(activities[a], tasks[t])
      BY <2>1, <3>1, <1>0 DEF EvidenceIsCurrent
    <3>3. activities[a].token = Len(activities[a].leaseIds)
      BY <2>1, <1>0 DEF Fencing, FencedLeases
    <3> QED BY <2>1, <3>1, <3>2, <3>3, <1>2 DEF SameRevision, ActivityRecord
  <2>2. CASE a \notin DOMAIN activities
    BY <2>2, <1>2 DEF LeasedActivity, ActivityRecord, EvidenceKind, ActivityStatus
  <2> QED BY <2>1, <2>2
<1>4. /\ newLease \in LeaseRecord
      /\ newLease.activity = a /\ newLease.task = t /\ newLease.runner = r
      /\ newLease.base = tasks[t].base /\ newLease.head = tasks[t].head
      /\ newLease.token = Len(ids) + 1
      /\ newLease.status = "active"
  BY <1>2, <1>3 DEF LeaseRecord, LeaseStatus
<1>5. /\ newActivity \in ActivityRecord
      /\ newActivity.task = t /\ newActivity.kind = "verification"
      /\ newActivity.base = tasks[t].base /\ newActivity.head = tasks[t].head
      /\ newActivity.token = Len(ids) + 1
      /\ newActivity.leaseIds = Append(ids, l)
      /\ newActivity.evidence = None
      /\ newActivity.status = "leased"
  <2>1. Append(ids, l) \in Seq(Lease) /\ Len(ids) + 1 \in Nat
    BY <1>3
  <2> HIDE DEF activity
  <2> QED BY <1>2, <1>3, <2>1 DEF ActivityRecord, ActivityStatus
<1>6. /\ Append(ids, l) \in Seq(Lease)
      /\ Len(Append(ids, l)) = Len(ids) + 1
      /\ Append(ids, l)[Len(ids) + 1] = l
      /\ \A i \in 1..Len(ids) : Append(ids, l)[i] = ids[i]
      /\ DOMAIN ids = 1..Len(ids)
      /\ DOMAIN Append(ids, l) = 1..(Len(ids) + 1)
      /\ Append(ids, l) # <<>>
  BY <1>3
<1>7. /\ \A m \in held : /\ a \in DOMAIN activities
                          /\ m \in DOMAIN leases /\ leases[m].status = "active"
                          /\ \E i \in DOMAIN ids : ids[i] = m
      /\ \A i \in DOMAIN ids : a \in DOMAIN activities /\ leases[ids[i]].status = "active"
                                 /\ ids[i] \in DOMAIN leases => ids[i] \in held
  BY <1>3 DEF HeldLeases, ActiveLeases
(* The collections after the command, entity by entity.                    *)
<1>8. /\ DOMAIN activities' = DOMAIN activities \cup {a}
      /\ activities'[a] = newActivity
      /\ \A c \in DOMAIN activities : c # a => activities'[c] = activities[c]
      /\ DOMAIN leases' = DOMAIN leases \cup {l}
      /\ leases'[l] = newLease
      /\ \A m \in DOMAIN leases :
           leases'[m] = IF m \in held THEN endedLease(m) ELSE leases[m]
  <2> HIDE DEF newActivity, newLease, held, endedLease
  <2> QED BY <1>1 DEF Put
<1>9. ASSUME NEW m \in DOMAIN leases
      PROVE  /\ leases'[m] \in LeaseRecord
             /\ leases'[m].activity = leases[m].activity
             /\ leases'[m].task = leases[m].task
             /\ leases'[m].runner = leases[m].runner
             /\ leases'[m].base = leases[m].base
             /\ leases'[m].head = leases[m].head
             /\ leases'[m].token = leases[m].token
             /\ m \in held => leases'[m].status \in {"expired", "reassigned"}
             /\ m \notin held => leases'[m] = leases[m]
  <2> HIDE DEF held
  <2> QED BY <1>2, <1>8 DEF LeaseRecord, LeaseStatus
<1>10. /\ DOMAIN tasks' = DOMAIN tasks
       /\ \A u \in DOMAIN tasks : u # t => tasks'[u] = tasks[u]
       /\ tasks'[t] = [tasks[t] EXCEPT !.activityIds = @ \cup {a}]
       /\ tasks'[t] \in TaskRecord
       /\ tasks'[t].artifactIds = tasks[t].artifactIds
       /\ tasks'[t].current = tasks[t].current
       /\ tasks'[t].base = tasks[t].base /\ tasks'[t].head = tasks[t].head
       /\ tasks'[t].required = tasks[t].required
       /\ tasks'[t].activityIds = tasks[t].activityIds \cup {a}
       /\ tasks'[t].approvalIds = tasks[t].approvalIds
       /\ tasks'[t].status = tasks[t].status
  BY <1>1, <1>2 DEF TaskRecord
<1> HIDE DEF activity, held, endedLease, ended, newLease, newActivity
<1>11. TypeOK'
  <2>1. Store(tasks', Task, TaskRecord)
    BY <1>0, <1>1, <1>10 DEF TypeOK, Store
  <2>2. Store(activities', Activity, ActivityRecord)
    BY <1>0, <1>1, <1>5, PutStore DEF TypeOK
  <2>3. Store(leases', Lease, LeaseRecord)
    <3>1. leases' = [m \in DOMAIN leases' |-> leases'[m]]
      BY <1>1 DEF Put
    <3>2. \A m \in DOMAIN leases' : m \in Lease /\ leases'[m] \in LeaseRecord
      BY <1>0, <1>4, <1>8, <1>9 DEF TypeOK, Store
    <3> QED BY <3>1, <3>2 DEF Store
  <2> QED BY <1>0, <1>1, <2>1, <2>2, <2>3 DEF TypeOK
<1>12. References'
  <2>1. ASSUME NEW u \in DOMAIN tasks
        PROVE  tasks'[u].activityIds = {c \in DOMAIN activities' : activities'[c].task = u}
    <3>1. tasks[u].activityIds = {c \in DOMAIN activities : activities[c].task = u}
      BY <1>0 DEF References
    <3>2. a \in DOMAIN activities => activities[a].task = t
      BY <1>3
    <3>3. activities'[a].task = t
      BY <1>5, <1>8
    <3>4. CASE u = t
      BY <3>1, <3>3, <3>4, <1>8, <1>10
    <3>5. CASE u # t
      BY <3>1, <3>2, <3>3, <3>5, <1>8, <1>10
    <3> QED BY <3>4, <3>5
  <2>2. ASSUME NEW u \in DOMAIN tasks
        PROVE  tasks'[u].approvalIds = {p \in DOMAIN approvals' : approvals'[p].task = u}
    BY <1>0, <1>1, <1>10 DEF References
  <2>3. /\ \A c \in DOMAIN activities' : activities'[c].task \in DOMAIN tasks'
        /\ \A p \in DOMAIN approvals' : approvals'[p].task \in DOMAIN tasks'
    BY <1>0, <1>1, <1>5, <1>8, <1>10 DEF References
  <2>4. ASSUME NEW m \in DOMAIN leases'
        PROVE  /\ leases'[m].activity \in DOMAIN activities'
               /\ leases'[m].task = activities'[leases'[m].activity].task
               /\ \E i \in DOMAIN activities'[leases'[m].activity].leaseIds :
                    activities'[leases'[m].activity].leaseIds[i] = m
               /\ leases'[m].runner \in DOMAIN runners'
               /\ "verification" \in runners'[leases'[m].runner]
    <3>1. CASE m = l
      <4>1. Len(ids) + 1 \in 1..(Len(ids) + 1)
        BY <1>3
      <4> QED BY <3>1, <4>1, <1>1, <1>4, <1>5, <1>6, <1>8
    <3>2. CASE m # l
      <4>1. /\ m \in DOMAIN leases
            /\ leases[m].activity \in DOMAIN activities
            /\ leases[m].task = activities[leases[m].activity].task
            /\ leases[m].runner \in DOMAIN runners
            /\ "verification" \in runners[leases[m].runner]
        BY <3>2, <1>0, <1>8 DEF References
      <4>2. PICK i \in DOMAIN activities[leases[m].activity].leaseIds :
              activities[leases[m].activity].leaseIds[i] = m
        BY <4>1, <1>0 DEF References
      <4>3. CASE leases[m].activity = a
        <5>1. i \in 1..Len(ids) /\ ids[i] = m
          BY <4>1, <4>2, <4>3, <1>3, <1>6
        <5>2. i \in DOMAIN Append(ids, l) /\ Append(ids, l)[i] = m
          BY <5>1, <1>3, <1>6
        <5> QED BY <4>1, <4>3, <5>2, <1>1, <1>3, <1>5, <1>8, <1>9
      <4>4. CASE leases[m].activity # a
        BY <4>1, <4>2, <4>4, <1>1, <1>8, <1>9
      <4> QED BY <4>3, <4>4
    <3> QED BY <3>1, <3>2
  <2> QED BY <2>1, <2>2, <2>3, <2>4, <1>10 DEF References
<1>13. ArtifactChain'
  BY <1>0, <1>1, <1>10 DEF ArtifactChain, ChainOf, SameRevision
<1>14. EvidenceIsCurrent'
  BY <1>0, <1>1, <1>5, <1>8, <1>10 DEF References, EvidenceIsCurrent, SameRevision
<1>15. ASSUME NEW c \in DOMAIN activities, c # a
       PROVE  FencedLeases(c)' /\ ProvenanceOf(c)'
  <2>1. /\ FencedLeases(c) /\ ProvenanceOf(c)
        /\ activities[c].leaseIds \in Seq(Lease)
    BY <1>0, <1>2 DEF Fencing, Provenance, ActivityRecord
  <2>2. activities[c].leaseIds # <<>> =>
          Len(activities[c].leaseIds) \in DOMAIN activities[c].leaseIds
    BY <2>1
  <2>3. \A i \in DOMAIN activities[c].leaseIds :
          /\ activities[c].leaseIds[i] \in DOMAIN leases
          /\ leases[activities[c].leaseIds[i]].activity = c
          /\ leases'[activities[c].leaseIds[i]] = leases[activities[c].leaseIds[i]]
    <3>1. ASSUME NEW m \in held PROVE leases[m].activity = a
      BY <1>0, <1>3, <1>7 DEF Fencing, FencedLeases
    <3> QED BY <2>1, <3>1, <1>9, <1>15 DEF FencedLeases
  <2>4. activities'[c] = activities[c]
    BY <1>8, <1>15
  <2> QED BY <2>1, <2>2, <2>3, <2>4, <1>8 DEF FencedLeases, ProvenanceOf, SameRevision
<1>16. FencedLeases(a)'
  <2>1. ASSUME NEW i \in DOMAIN Append(ids, l)
        PROVE  /\ Append(ids, l)[i] \in DOMAIN leases'
               /\ leases'[Append(ids, l)[i]].activity = a
               /\ SameRevision(leases'[Append(ids, l)[i]], activities'[a])
               /\ leases'[Append(ids, l)[i]].token = i
               /\ leases'[Append(ids, l)[i]].status = "active" => i = Len(ids) + 1
    <3>1. CASE i = Len(ids) + 1
      BY <3>1, <1>4, <1>5, <1>6, <1>8 DEF SameRevision
    <3>2. CASE i # Len(ids) + 1
      <4>1. i \in DOMAIN ids /\ Append(ids, l)[i] = ids[i]
        BY <3>2, <1>3, <1>6
      <4>2. a \in DOMAIN activities
        BY <4>1, <1>3
      <4>3. /\ ids[i] \in DOMAIN leases
            /\ leases[ids[i]].activity = a
            /\ SameRevision(leases[ids[i]], activity)
            /\ leases[ids[i]].token = i
        BY <4>1, <4>2, <1>0, <1>3 DEF Fencing, FencedLeases
      <4>4. leases'[ids[i]].status # "active"
        BY <4>1, <4>2, <4>3, <1>7, <1>9
      <4> QED BY <4>1, <4>3, <4>4, <1>3, <1>5, <1>8, <1>9 DEF SameRevision
    <3> QED BY <3>1, <3>2
  <2>2. leases'[Append(ids, l)[Len(Append(ids, l))]].status = "active"
    BY <1>4, <1>6, <1>8
  <2> DEFINE new == Append(ids, l)
  <2>3. /\ activities'[a].leaseIds = new
        /\ activities'[a].token = Len(new)
        /\ activities'[a].status = "leased"
        /\ Len(new) = Len(ids) + 1
        /\ new # <<>>
    BY <1>5, <1>6, <1>8
  <2> HIDE DEF new
  <2> QED BY <2>1, <2>2, <2>3 DEF FencedLeases, new
<1>17. ProvenanceOf(a)'
  BY <1>5, <1>6, <1>8 DEF ProvenanceOf
<1>18. ApprovalBacked'
  <2>1. ASSUME NEW p \in DOMAIN approvals, NEW e \in approvals[p].bindings
        PROVE  BoundEvidence(p, e)'
    <3>1. BoundEvidence(p, e)
      BY <1>0 DEF ApprovalBacked
    <3>2. e.activity # a
      BY <3>1, <1>3 DEF BoundEvidence
    <3> QED BY <3>1, <3>2, <1>1, <1>8 DEF BoundEvidence
  <2>2. ASSUME NEW p \in DOMAIN approvals, approvals[p].status = "current"
        PROVE  \A k \in tasks'[approvals[p].task].required :
                 \E e \in approvals[p].bindings : e.kind = k
    <3>1. approvals[p].task \in DOMAIN tasks
      BY <1>0 DEF References
    <3>2. tasks'[approvals[p].task].required = tasks[approvals[p].task].required
      BY <3>1, <1>10
    <3> QED BY <2>2, <3>2, <1>0 DEF ApprovalBacked
  <2> QED BY <2>1, <2>2, <1>1 DEF ApprovalBacked
<1>19. StatusIsDerived'
  <2>1. ASSUME NEW u \in DOMAIN tasks
        PROVE  tasks'[u].status = DeriveTaskStatus(u, tasks'[u], activities', approvals')
    <3>1. \A k : EvidenceForCurrentRevision(activities, u, tasks[u], k) =
                 EvidenceForCurrentRevision(activities', u, tasks'[u], k)
      <4>1. \A c : (c \in DOMAIN activities /\ activities[c].status = "succeeded") <=>
                   (c \in DOMAIN activities' /\ activities'[c].status = "succeeded")
        BY <1>3, <1>5, <1>8
      <4>2. \A c \in DOMAIN activities : activities[c].status = "succeeded" =>
                                           activities'[c] = activities[c]
        BY <1>3, <1>8
      <4>3. tasks'[u].base = tasks[u].base /\ tasks'[u].head = tasks[u].head
        BY <1>10
      <4> QED BY <4>1, <4>2, <4>3 DEF EvidenceForCurrentRevision, SameRevision
    <3>2. Approved(u, tasks[u], approvals) <=> Approved(u, tasks'[u], approvals')
      BY <1>1, <1>10 DEF Approved, SameRevision
    <3>3. /\ tasks'[u].head = tasks[u].head /\ tasks'[u].required = tasks[u].required
          /\ tasks'[u].status = tasks[u].status
      BY <1>10
    <3>4. DeriveTaskStatus(u, tasks[u], activities, approvals) =
          DeriveTaskStatus(u, tasks'[u], activities', approvals')
      BY <3>1, <3>2, <3>3, SameStatus
    <3> QED BY <3>3, <3>4, <1>0 DEF StatusIsDerived
  <2> QED BY <2>1, <1>10 DEF StatusIsDerived
<1> QED BY <1>8, <1>11, <1>12, <1>13, <1>14, <1>15, <1>16, <1>17, <1>18, <1>19
           DEF IInv, StoredStateValid, Fencing, Provenance

-----------------------------------------------------------------------------
(* A completion is that of the final lease, for the current revision.      *)
LEMMA CompleteKeeps ==
  ASSUME IInv, NEW l \in Lease, NEW r \in Runner, NEW token \in Token, NEW at \in Time,
         NEW digest \in Digest, NEW success \in BOOLEAN,
         CompleteVerification(l, r, token, at, digest, success)
  PROVE  IInv'
<1>a. PICK a, t : a = leases[l].activity /\ t = leases[l].task
  OBVIOUS
<1> DEFINE ids == activities[a].leaseIds
           outcome == IF success THEN "succeeded" ELSE "failed"
           evidence == [base |-> tasks[t].base, head |-> tasks[t].head, digest |-> digest]
           doneLease == [leases[l] EXCEPT !.status = "completed"]
           doneActivity == [activities[a] EXCEPT !.status = outcome, !.evidence = evidence]
           status == DeriveTaskStatus(t, tasks[t], activities', approvals)
           doneTask == [tasks[t] EXCEPT !.status = status]
<1>0. /\ TypeOK /\ References /\ ArtifactChain /\ EvidenceIsCurrent
      /\ Fencing /\ Provenance /\ ApprovalBacked /\ StatusIsDerived
  BY DEF IInv, StoredStateValid
<1>1. /\ l \in DOMAIN leases /\ a \in DOMAIN activities /\ t \in DOMAIN tasks
      /\ leases[l].status = "active"
      /\ leases[l].token = activities[a].token
      /\ SameRevision(activities[a], tasks[t])
      /\ leases' = [leases EXCEPT ![l] = doneLease]
      /\ activities' = [activities EXCEPT ![a] = doneActivity]
      /\ tasks' = [tasks EXCEPT ![t] = doneTask]
      /\ UNCHANGED <<runners, artifacts, approvals>>
  <2> HIDE DEF status
  <2>1. activities' = [activities EXCEPT ![a].status = outcome, ![a].evidence = evidence]
    BY <1>a DEF CompleteVerification
  <2> QED BY <1>a, <2>1 DEF CompleteVerification, status
<1>c. leases[l].activity = a /\ leases[l].task = t
  BY <1>a
<1>2. /\ tasks[t] \in TaskRecord /\ activities[a] \in ActivityRecord
      /\ leases[l] \in LeaseRecord
      /\ ids \in Seq(Lease) /\ activities[a].kind \in EvidenceKind
  BY <1>0, <1>1 DEF TypeOK, Store, ActivityRecord
(* The lease is the final one of its activity, which therefore is leased.  *)
<1>3. /\ ids # <<>> /\ ids[Len(ids)] = l
      /\ activities[a].task = t
      /\ activities[a].kind = "verification"
      /\ activities[a].status = "leased"
      /\ \A i \in DOMAIN ids : i # Len(ids) => ids[i] # l
  <2>1. /\ FencedLeases(a) /\ ProvenanceOf(a) /\ activities[a].task = t
    BY <1>0, <1>1, <1>c DEF Fencing, Provenance, References
  <2>2. PICK i \in DOMAIN ids : ids[i] = l
    BY <1>0, <1>1, <1>c DEF References
  <2>3. i = Len(ids) /\ ids # <<>>
    BY <2>1, <2>2, <1>1, <1>2 DEF FencedLeases
  <2>4. activities[a].status = "leased"
    BY <2>1, <2>2, <2>3, <1>1 DEF FencedLeases
  <2>5. activities[a].kind = "verification"
    BY <2>1, <2>3, <1>2 DEF ProvenanceOf, EvidenceKind
  <2>6. ASSUME NEW j \in DOMAIN ids, j # Len(ids) PROVE ids[j] # l
    BY <2>1, <2>3, <2>6, <1>1, <1>2 DEF FencedLeases
  <2> QED BY <2>1, <2>2, <2>3, <2>4, <2>5, <2>6
<1>4. /\ evidence \in Evidence /\ evidence # None
      /\ evidence.base = activities[a].base /\ evidence.head = activities[a].head
  <2>1. evidence \in Evidence
    BY <1>1, <1>2 DEF Evidence, SameRevision, ActivityRecord
  <2> QED BY <2>1, <1>1, <1>2, NoneAssumption DEF SameRevision, ActivityRecord, Evidence
<1>5. /\ doneLease \in LeaseRecord
      /\ doneLease.activity = a /\ doneLease.task = t
      /\ doneLease.runner = leases[l].runner
      /\ doneLease.base = leases[l].base /\ doneLease.head = leases[l].head
      /\ doneLease.token = leases[l].token /\ doneLease.status = "completed"
  BY <1>2, <1>c DEF LeaseRecord, LeaseStatus
<1>6. /\ doneActivity \in ActivityRecord
      /\ doneActivity.task = t /\ doneActivity.kind = "verification"
      /\ doneActivity.base = activities[a].base /\ doneActivity.head = activities[a].head
      /\ doneActivity.leaseIds = ids /\ doneActivity.token = activities[a].token
      /\ doneActivity.evidence = evidence
      /\ doneActivity.status = outcome
  <2> HIDE DEF evidence
  <2> QED BY <1>2, <1>3, <1>4 DEF ActivityRecord, ActivityStatus
<1>7. /\ doneTask \in TaskRecord
      /\ doneTask.artifactIds = tasks[t].artifactIds
      /\ doneTask.current = tasks[t].current
      /\ doneTask.base = tasks[t].base /\ doneTask.head = tasks[t].head
      /\ doneTask.required = tasks[t].required
      /\ doneTask.activityIds = tasks[t].activityIds
      /\ doneTask.approvalIds = tasks[t].approvalIds
      /\ doneTask.status = status
  <2>1. status \in TaskStatus
    BY StatusType
  <2> HIDE DEF status
  <2> QED BY <1>2, <2>1 DEF TaskRecord
<1>8. outcome \in {"succeeded", "failed"}
  OBVIOUS
<1> HIDE DEF doneLease, doneActivity, doneTask, evidence, outcome
<1>9. /\ DOMAIN leases' = DOMAIN leases /\ leases'[l] = doneLease
      /\ \A m \in DOMAIN leases : m # l => leases'[m] = leases[m]
      /\ DOMAIN activities' = DOMAIN activities /\ activities'[a] = doneActivity
      /\ \A c \in DOMAIN activities : c # a => activities'[c] = activities[c]
      /\ DOMAIN tasks' = DOMAIN tasks /\ tasks'[t] = doneTask
      /\ \A u \in DOMAIN tasks : u # t => tasks'[u] = tasks[u]
  BY <1>1
<1> HIDE DEF status
<1>10. TypeOK'
  <2>1. Store(leases', Lease, LeaseRecord)
    BY <1>0, <1>1, <1>5, ReplaceStore DEF TypeOK
  <2>2. Store(activities', Activity, ActivityRecord)
    BY <1>0, <1>1, <1>6, ReplaceStore DEF TypeOK
  <2>3. Store(tasks', Task, TaskRecord)
    BY <1>0, <1>1, <1>7, ReplaceStore DEF TypeOK
  <2> QED BY <1>0, <1>1, <2>1, <2>2, <2>3 DEF TypeOK
<1>11. References'
  <2>1. ASSUME NEW u \in DOMAIN tasks
        PROVE  /\ tasks'[u].activityIds = {c \in DOMAIN activities' : activities'[c].task = u}
               /\ tasks'[u].approvalIds = {p \in DOMAIN approvals' : approvals'[p].task = u}
    <3>1. /\ tasks'[u].activityIds = tasks[u].activityIds
          /\ tasks'[u].approvalIds = tasks[u].approvalIds
      BY <1>7, <1>9
    <3>2. \A c \in DOMAIN activities : activities'[c].task = activities[c].task
      BY <1>3, <1>6, <1>9
    <3> QED BY <3>1, <3>2, <1>0, <1>1, <1>9 DEF References
  <2>2. /\ \A c \in DOMAIN activities' : activities'[c].task \in DOMAIN tasks'
        /\ \A p \in DOMAIN approvals' : approvals'[p].task \in DOMAIN tasks'
    BY <1>0, <1>1, <1>6, <1>9 DEF References
  <2>3. ASSUME NEW m \in DOMAIN leases'
        PROVE  /\ leases'[m].activity \in DOMAIN activities'
               /\ leases'[m].task = activities'[leases'[m].activity].task
               /\ \E i \in DOMAIN activities'[leases'[m].activity].leaseIds :
                    activities'[leases'[m].activity].leaseIds[i] = m
               /\ leases'[m].runner \in DOMAIN runners'
               /\ "verification" \in runners'[leases'[m].runner]
    <3>1. /\ leases'[m].activity = leases[m].activity
          /\ leases'[m].task = leases[m].task
          /\ leases'[m].runner = leases[m].runner
      BY <1>5, <1>9, <1>c
    <3>2. \A c \in DOMAIN activities : /\ activities'[c].leaseIds = activities[c].leaseIds
                                       /\ activities'[c].task = activities[c].task
      BY <1>3, <1>6, <1>9
    <3> QED BY <3>1, <3>2, <1>0, <1>1, <1>9 DEF References
  <2> QED BY <2>1, <2>2, <2>3, <1>9 DEF References
<1>12. ArtifactChain'
  BY <1>0, <1>1, <1>7, <1>9 DEF ArtifactChain, ChainOf, SameRevision
<1>13. EvidenceIsCurrent'
  <2>1. \A u \in DOMAIN tasks : tasks'[u].base = tasks[u].base /\ tasks'[u].head = tasks[u].head
    BY <1>7, <1>9
  <2>2. \A c \in DOMAIN activities :
          /\ activities'[c].base = activities[c].base
          /\ activities'[c].head = activities[c].head
          /\ activities'[c].task = activities[c].task
          /\ activities'[c].status # "stale" => activities[c].status # "stale"
    BY <1>3, <1>6, <1>9
  <2> QED BY <2>1, <2>2, <1>0, <1>1, <1>9 DEF References, EvidenceIsCurrent, SameRevision
<1>14. ASSUME NEW c \in DOMAIN activities, c # a
       PROVE  FencedLeases(c)' /\ ProvenanceOf(c)'
  <2>1. /\ FencedLeases(c) /\ ProvenanceOf(c)
        /\ activities[c].leaseIds \in Seq(Lease)
    BY <1>0 DEF Fencing, Provenance, ActivityRecord, TypeOK, Store
  <2>2. activities[c].leaseIds # <<>> =>
          Len(activities[c].leaseIds) \in DOMAIN activities[c].leaseIds
    BY <2>1
  <2>3. \A i \in DOMAIN activities[c].leaseIds :
          /\ activities[c].leaseIds[i] \in DOMAIN leases
          /\ leases'[activities[c].leaseIds[i]] = leases[activities[c].leaseIds[i]]
    BY <2>1, <1>9, <1>14, <1>c DEF FencedLeases
  <2>4. activities'[c] = activities[c]
    BY <1>9, <1>14
  <2> QED BY <2>1, <2>2, <2>3, <2>4, <1>9 DEF FencedLeases, ProvenanceOf, SameRevision
<1>15. FencedLeases(a)'
  <2>1. FencedLeases(a)
    BY <1>0, <1>1 DEF Fencing
  <2>2. ASSUME NEW i \in DOMAIN ids
        PROVE  /\ ids[i] \in DOMAIN leases'
               /\ leases'[ids[i]].activity = a
               /\ SameRevision(leases'[ids[i]], activities'[a])
               /\ leases'[ids[i]].token = i
               /\ leases'[ids[i]].status # "active"
    <3>1. CASE i = Len(ids)
      <4>1. /\ SameRevision(leases[l], activities[a])
            /\ leases[l].token = Len(ids)
        BY <2>1, <3>1, <1>3 DEF FencedLeases
      <4> QED BY <3>1, <4>1, <1>1, <1>3, <1>5, <1>6, <1>9 DEF SameRevision
    <3>2. CASE i # Len(ids)
      BY <2>1, <3>2, <1>3, <1>6, <1>9 DEF FencedLeases, SameRevision
    <3> QED BY <3>1, <3>2
  <2>3. Len(ids) \in DOMAIN ids
    BY <1>2, <1>3
  <2> QED BY <2>1, <2>2, <2>3, <1>6, <1>8, <1>9 DEF FencedLeases
<1>16. ProvenanceOf(a)'
  BY <1>3, <1>4, <1>5, <1>6, <1>8, <1>9 DEF ProvenanceOf, SameRevision
<1>17. ApprovalBacked'
  <2>1. ASSUME NEW p \in DOMAIN approvals, NEW e \in approvals[p].bindings
        PROVE  BoundEvidence(p, e)'
    <3>1. BoundEvidence(p, e)
      BY <1>0 DEF ApprovalBacked
    <3>2. e.activity # a
      BY <3>1, <1>3 DEF BoundEvidence
    <3> QED BY <3>1, <3>2, <1>1, <1>9 DEF BoundEvidence
  <2>2. ASSUME NEW p \in DOMAIN approvals, approvals[p].status = "current"
        PROVE  \A k \in tasks'[approvals[p].task].required :
                 \E e \in approvals[p].bindings : e.kind = k
    <3>1. approvals[p].task \in DOMAIN tasks
      BY <1>0 DEF References
    <3>2. tasks'[approvals[p].task].required = tasks[approvals[p].task].required
      BY <3>1, <1>7, <1>9
    <3> QED BY <2>2, <3>2, <1>0 DEF ApprovalBacked
  <2> QED BY <2>1, <2>2, <1>1 DEF ApprovalBacked
<1>18. StatusIsDerived'
  <2>1. tasks'[t].status = DeriveTaskStatus(t, tasks'[t], activities', approvals')
    <3>1. /\ \A k : EvidenceForCurrentRevision(activities', t, tasks[t], k) =
                    EvidenceForCurrentRevision(activities', t, tasks'[t], k)
          /\ Approved(t, tasks[t], approvals) <=> Approved(t, tasks'[t], approvals)
      BY <1>7, <1>9 DEF EvidenceForCurrentRevision, Approved, SameRevision
    <3>2. DeriveTaskStatus(t, tasks[t], activities', approvals) =
          DeriveTaskStatus(t, tasks'[t], activities', approvals)
      BY <3>1, <1>7, <1>9, SameStatus
    <3> QED BY <3>2, <1>1, <1>7, <1>9 DEF status
  <2>2. ASSUME NEW u \in DOMAIN tasks, u # t
        PROVE  tasks'[u].status = DeriveTaskStatus(u, tasks'[u], activities', approvals')
    <3>1. /\ \A c : (c \in DOMAIN activities /\ activities[c].task = u) <=>
                    (c \in DOMAIN activities' /\ activities'[c].task = u)
          /\ \A c \in DOMAIN activities :
               activities[c].task = u => activities[c] = activities'[c]
      BY <2>2, <1>3, <1>6, <1>9
    <3>2. DeriveTaskStatus(u, tasks[u], activities, approvals) =
          DeriveTaskStatus(u, tasks[u], activities', approvals)
      BY <3>1, OtherTaskStatus
    <3> QED BY <2>2, <3>2, <1>0, <1>1, <1>9 DEF StatusIsDerived
  <2> QED BY <2>1, <2>2, <1>9 DEF StatusIsDerived
<1> QED BY <1>9, <1>10, <1>11, <1>12, <1>13, <1>14, <1>15, <1>16, <1>17, <1>18
           DEF IInv, StoredStateValid, Fencing, Provenance

-----------------------------------------------------------------------------
(* A review is a finished activity of its own, for the current revision.   *)
LEMMA ReviewKeeps ==
  ASSUME IInv, NEW t \in Task, NEW a \in Activity, NEW b \in BaseSha, NEW h \in HeadSha,
         NEW digest \in Digest, NEW accepted \in BOOLEAN,
         RecordReview(t, a, b, h, digest, accepted)
  PROVE  IInv'
<1> DEFINE evidence == [base |-> b, head |-> h, digest |-> digest]
           outcome == IF accepted THEN "succeeded" ELSE "failed"
           review == [task |-> t, kind |-> "review", base |-> b, head |-> h,
                      status |-> outcome, leaseIds |-> <<>>, token |-> 0,
                      evidence |-> evidence]
           status == DeriveTaskStatus(t, tasks[t], activities', approvals)
           reviewed == [tasks[t] EXCEPT !.activityIds = @ \cup {a}, !.status = status]
<1>0. /\ TypeOK /\ References /\ ArtifactChain /\ EvidenceIsCurrent
      /\ Fencing /\ Provenance /\ ApprovalBacked /\ StatusIsDerived
  BY DEF IInv, StoredStateValid
<1>1. /\ a \notin DOMAIN activities /\ t \in DOMAIN tasks
      /\ b = tasks[t].base /\ h = tasks[t].head
      /\ activities' = Put(activities, a, review)
      /\ tasks' = [tasks EXCEPT ![t] = reviewed]
      /\ UNCHANGED <<runners, artifacts, leases, approvals>>
  <2> HIDE DEF status
  <2>1. tasks' = [tasks EXCEPT ![t].activityIds = @ \cup {a}, ![t].status = status]
    BY DEF RecordReview, status
  <2> QED BY <2>1 DEF RecordReview
<1>2. tasks[t] \in TaskRecord
  BY <1>0, <1>1 DEF TypeOK, Store
<1>3. evidence \in Evidence /\ evidence # None
      /\ evidence.base = b /\ evidence.head = h
  BY NoneAssumption DEF Evidence
<1>4. /\ review \in ActivityRecord
      /\ review.task = t /\ review.kind = "review"
      /\ review.base = b /\ review.head = h
      /\ review.leaseIds = <<>> /\ review.token = 0
      /\ review.evidence = evidence /\ review.status = outcome
  <2> HIDE DEF evidence
  <2> QED BY <1>3 DEF ActivityRecord, ActivityStatus, EvidenceKind
<1>5. /\ reviewed \in TaskRecord
      /\ reviewed.artifactIds = tasks[t].artifactIds
      /\ reviewed.current = tasks[t].current
      /\ reviewed.base = tasks[t].base /\ reviewed.head = tasks[t].head
      /\ reviewed.required = tasks[t].required
      /\ reviewed.activityIds = tasks[t].activityIds \cup {a}
      /\ reviewed.approvalIds = tasks[t].approvalIds
      /\ reviewed.status = status
  <2>1. status \in TaskStatus
    BY StatusType
  <2> HIDE DEF status
  <2> QED BY <1>2, <2>1 DEF TaskRecord
<1>6. outcome \in {"succeeded", "failed"}
  OBVIOUS
<1> HIDE DEF review, reviewed, evidence, outcome, status
<1>7. /\ DOMAIN activities' = DOMAIN activities \cup {a} /\ activities'[a] = review
      /\ \A c \in DOMAIN activities : activities'[c] = activities[c]
      /\ DOMAIN tasks' = DOMAIN tasks /\ tasks'[t] = reviewed
      /\ \A u \in DOMAIN tasks : u # t => tasks'[u] = tasks[u]
  BY <1>1 DEF Put
<1>8. TypeOK'
  BY <1>0, <1>1, <1>4, <1>5, PutStore, ReplaceStore DEF TypeOK
<1>9. References'
  <2>1. ASSUME NEW u \in DOMAIN tasks
        PROVE  /\ tasks'[u].activityIds = {c \in DOMAIN activities' : activities'[c].task = u}
               /\ tasks'[u].approvalIds = {p \in DOMAIN approvals' : approvals'[p].task = u}
    <3>1. /\ tasks[u].activityIds = {c \in DOMAIN activities : activities[c].task = u}
          /\ tasks[u].approvalIds = {p \in DOMAIN approvals : approvals[p].task = u}
      BY <1>0 DEF References
    <3>2. CASE u = t
      BY <3>1, <3>2, <1>1, <1>4, <1>5, <1>7
    <3>3. CASE u # t
      BY <3>1, <3>3, <1>1, <1>4, <1>7
    <3> QED BY <3>2, <3>3
  <2>2. /\ \A c \in DOMAIN activities' : activities'[c].task \in DOMAIN tasks'
        /\ \A p \in DOMAIN approvals' : approvals'[p].task \in DOMAIN tasks'
    BY <1>0, <1>1, <1>4, <1>7 DEF References
  <2> QED BY <2>1, <2>2, <1>0, <1>1, <1>7 DEF References
<1>10. ArtifactChain'
  BY <1>0, <1>1, <1>5, <1>7 DEF ArtifactChain, ChainOf, SameRevision
<1>11. EvidenceIsCurrent'
  <2>1. \A u \in DOMAIN tasks : tasks'[u].base = tasks[u].base /\ tasks'[u].head = tasks[u].head
    BY <1>5, <1>7
  <2> QED BY <2>1, <1>0, <1>1, <1>4, <1>7 DEF References, EvidenceIsCurrent, SameRevision
<1>12. ASSUME NEW c \in DOMAIN activities
       PROVE  FencedLeases(c)' /\ ProvenanceOf(c)'
  <2>1. FencedLeases(c) /\ ProvenanceOf(c) /\ activities'[c] = activities[c]
    BY <1>0, <1>7 DEF Fencing, Provenance
  <2> QED BY <2>1, <1>1 DEF FencedLeases, ProvenanceOf
<1>13. FencedLeases(a)' /\ ProvenanceOf(a)'
  BY <1>3, <1>4, <1>6, <1>7 DEF FencedLeases, ProvenanceOf, SameRevision
<1>14. ApprovalBacked'
  <2>1. ASSUME NEW p \in DOMAIN approvals, NEW e \in approvals[p].bindings
        PROVE  BoundEvidence(p, e)'
    BY <1>0, <1>1, <1>7 DEF ApprovalBacked, BoundEvidence
  <2>2. ASSUME NEW p \in DOMAIN approvals, approvals[p].status = "current"
        PROVE  \A k \in tasks'[approvals[p].task].required :
                 \E e \in approvals[p].bindings : e.kind = k
    <3>1. approvals[p].task \in DOMAIN tasks
      BY <1>0 DEF References
    <3>2. tasks'[approvals[p].task].required = tasks[approvals[p].task].required
      BY <3>1, <1>5, <1>7
    <3> QED BY <2>2, <3>2, <1>0 DEF ApprovalBacked
  <2> QED BY <2>1, <2>2, <1>1 DEF ApprovalBacked
<1>15. StatusIsDerived'
  <2>1. tasks'[t].status = DeriveTaskStatus(t, tasks'[t], activities', approvals')
    <3>1. /\ \A k : EvidenceForCurrentRevision(activities', t, tasks[t], k) =
                    EvidenceForCurrentRevision(activities', t, tasks'[t], k)
          /\ Approved(t, tasks[t], approvals) <=> Approved(t, tasks'[t], approvals)
      BY <1>5, <1>7 DEF EvidenceForCurrentRevision, Approved, SameRevision
    <3>2. DeriveTaskStatus(t, tasks[t], activities', approvals) =
          DeriveTaskStatus(t, tasks'[t], activities', approvals)
      BY <3>1, <1>5, <1>7, SameStatus
    <3> QED BY <3>2, <1>1, <1>5, <1>7 DEF status
  <2>2. ASSUME NEW u \in DOMAIN tasks, u # t
        PROVE  tasks'[u].status = DeriveTaskStatus(u, tasks'[u], activities', approvals')
    <3>1. /\ \A c : (c \in DOMAIN activities /\ activities[c].task = u) <=>
                    (c \in DOMAIN activities' /\ activities'[c].task = u)
          /\ \A c \in DOMAIN activities :
               activities[c].task = u => activities[c] = activities'[c]
      BY <2>2, <1>1, <1>4, <1>7
    <3>2. DeriveTaskStatus(u, tasks[u], activities, approvals) =
          DeriveTaskStatus(u, tasks[u], activities', approvals)
      BY <3>1, OtherTaskStatus
    <3> QED BY <2>2, <3>2, <1>0, <1>1, <1>7 DEF StatusIsDerived
  <2> QED BY <2>1, <2>2, <1>7 DEF StatusIsDerived
<1> QED BY <1>7, <1>8, <1>9, <1>10, <1>11, <1>12, <1>13, <1>14, <1>15
           DEF IInv, StoredStateValid, Fencing, Provenance

(* An approval binds the evidence that is successful when it is granted.   *)
LEMMA GrantKeeps ==
  ASSUME IInv, NEW t \in Task, NEW p \in Approval, NEW b \in BaseSha, NEW h \in HeadSha,
         NEW evidence \in SUBSET Activity,
         GrantApproval(t, p, b, h, evidence)
  PROVE  IInv'
<1> DEFINE binding(a) == [activity |-> a, kind |-> activities[a].kind,
                          digest |-> activities[a].evidence.digest]
           approval == [task |-> t, base |-> b, head |-> h, status |-> "current",
                        bindings |-> {binding(a) : a \in evidence}]
           approved == [tasks[t] EXCEPT !.approvalIds = @ \cup {p},
                                        !.status = "ready_to_merge"]
<1>0. /\ TypeOK /\ References /\ ArtifactChain /\ EvidenceIsCurrent
      /\ Fencing /\ Provenance /\ ApprovalBacked /\ StatusIsDerived
  BY DEF IInv, StoredStateValid
<1>1. /\ p \notin DOMAIN approvals /\ t \in DOMAIN tasks
      /\ b = tasks[t].base /\ h = tasks[t].head
      /\ evidence \subseteq DOMAIN activities
      /\ \A a \in evidence : /\ activities[a].task = t
                             /\ activities[a].status = "succeeded"
                             /\ activities[a].base = b /\ activities[a].head = h
                             /\ activities[a].evidence # None
      /\ \A k \in tasks[t].required : \E a \in evidence : activities[a].kind = k
      /\ approvals' = Put(approvals, p, approval)
      /\ tasks' = [tasks EXCEPT ![t] = approved]
      /\ UNCHANGED <<runners, artifacts, activities, leases>>
  BY DEF GrantApproval
<1>2. /\ tasks[t] \in TaskRecord
      /\ \A a \in DOMAIN activities : activities[a] \in ActivityRecord
  BY <1>0, <1>1 DEF TypeOK, Store
<1>3. ASSUME NEW a \in evidence
      PROVE  /\ binding(a) \in Binding
             /\ binding(a).activity = a /\ binding(a).kind = activities[a].kind
             /\ binding(a).digest = activities[a].evidence.digest
  BY <1>1, <1>2 DEF Binding, ActivityRecord, Evidence
<1> HIDE DEF binding
<1>4. /\ approval \in ApprovalRecord
      /\ approval.task = t /\ approval.base = b /\ approval.head = h
      /\ approval.status = "current"
      /\ approval.bindings = {binding(a) : a \in evidence}
  BY <1>3 DEF ApprovalRecord
<1>5. /\ approved \in TaskRecord
      /\ approved.artifactIds = tasks[t].artifactIds
      /\ approved.current = tasks[t].current
      /\ approved.base = tasks[t].base /\ approved.head = tasks[t].head
      /\ approved.required = tasks[t].required
      /\ approved.activityIds = tasks[t].activityIds
      /\ approved.approvalIds = tasks[t].approvalIds \cup {p}
      /\ approved.status = "ready_to_merge"
  BY <1>2 DEF TaskRecord, TaskStatus
<1> HIDE DEF approval, approved
<1>6. /\ DOMAIN approvals' = DOMAIN approvals \cup {p} /\ approvals'[p] = approval
      /\ \A q \in DOMAIN approvals : approvals'[q] = approvals[q]
      /\ DOMAIN tasks' = DOMAIN tasks /\ tasks'[t] = approved
      /\ \A u \in DOMAIN tasks : u # t => tasks'[u] = tasks[u]
  BY <1>1 DEF Put
<1>7. TypeOK'
  BY <1>0, <1>1, <1>4, <1>5, PutStore, ReplaceStore DEF TypeOK
<1>8. References'
  <2>1. ASSUME NEW u \in DOMAIN tasks
        PROVE  /\ tasks'[u].activityIds = {c \in DOMAIN activities' : activities'[c].task = u}
               /\ tasks'[u].approvalIds = {q \in DOMAIN approvals' : approvals'[q].task = u}
    <3>1. /\ tasks[u].activityIds = {c \in DOMAIN activities : activities[c].task = u}
          /\ tasks[u].approvalIds = {q \in DOMAIN approvals : approvals[q].task = u}
      BY <1>0 DEF References
    <3>2. CASE u = t
      BY <3>1, <3>2, <1>1, <1>4, <1>5, <1>6
    <3>3. CASE u # t
      BY <3>1, <3>3, <1>1, <1>4, <1>6
    <3> QED BY <3>2, <3>3
  <2>2. /\ \A c \in DOMAIN activities' : activities'[c].task \in DOMAIN tasks'
        /\ \A q \in DOMAIN approvals' : approvals'[q].task \in DOMAIN tasks'
    BY <1>0, <1>1, <1>4, <1>6 DEF References
  <2> QED BY <2>1, <2>2, <1>0, <1>1, <1>6 DEF References
<1>9. ArtifactChain'
  BY <1>0, <1>1, <1>5, <1>6 DEF ArtifactChain, ChainOf, SameRevision
<1>10. EvidenceIsCurrent'
  <2>1. \A u \in DOMAIN tasks : tasks'[u].base = tasks[u].base /\ tasks'[u].head = tasks[u].head
    BY <1>5, <1>6
  <2> QED BY <2>1, <1>0, <1>1, <1>4, <1>6 DEF References, EvidenceIsCurrent, SameRevision
<1>11. Fencing' /\ Provenance'
  BY <1>0, <1>1 DEF Fencing, FencedLeases, Provenance, ProvenanceOf
<1>12. ApprovalBacked'
  <2>1. ASSUME NEW q \in DOMAIN approvals
        PROVE  /\ \A e \in approvals[q].bindings : BoundEvidence(q, e)'
               /\ approvals[q].status = "current" =>
                    \A k \in tasks'[approvals[q].task].required :
                      \E e \in approvals[q].bindings : e.kind = k
    <3>1. approvals[q].task \in DOMAIN tasks
      BY <1>0 DEF References
    <3>2. tasks'[approvals[q].task].required = tasks[approvals[q].task].required
      BY <3>1, <1>5, <1>6
    <3>3. approvals'[q] = approvals[q] /\ activities' = activities
      BY <1>1, <1>6
    <3>4. ASSUME NEW e \in approvals[q].bindings PROVE BoundEvidence(q, e)'
      <4>1. BoundEvidence(q, e)
        BY <1>0 DEF ApprovalBacked
      <4> QED BY <3>3, <4>1 DEF BoundEvidence, SameRevision
    <3>5. approvals[q].status = "current" =>
            \A k \in tasks[approvals[q].task].required :
              \E e \in approvals[q].bindings : e.kind = k
      BY <1>0 DEF ApprovalBacked
    <3> QED BY <3>2, <3>4, <3>5
  <2>2. ASSUME NEW e \in approval.bindings
        PROVE  BoundEvidence(p, e)'
    <3>1. PICK a \in evidence : e = binding(a)
      BY <1>4
    <3> QED BY <3>1, <1>1, <1>3, <1>4, <1>6 DEF BoundEvidence, SameRevision
  <2>3. \A k \in tasks'[t].required : \E e \in approval.bindings : e.kind = k
    BY <1>1, <1>3, <1>4, <1>5, <1>6
  <2> QED BY <2>1, <2>2, <2>3, <1>4, <1>6 DEF ApprovalBacked
<1>13. StatusIsDerived'
  <2>1. tasks'[t].status = DeriveTaskStatus(t, tasks'[t], activities', approvals')
    <3>1. tasks'[t].head # None
      BY <1>1, <1>5, <1>6, NoneAssumption
    <3>2. Approved(t, tasks'[t], approvals')
      BY <1>1, <1>4, <1>5, <1>6 DEF Approved, SameRevision
    <3> QED BY <3>1, <3>2, <1>5, <1>6 DEF DeriveTaskStatus
  <2>2. ASSUME NEW u \in DOMAIN tasks, u # t
        PROVE  tasks'[u].status = DeriveTaskStatus(u, tasks'[u], activities', approvals')
    <3>1. /\ \A q : (q \in DOMAIN approvals /\ approvals[q].task = u) <=>
                    (q \in DOMAIN approvals' /\ approvals'[q].task = u)
          /\ \A q \in DOMAIN approvals :
               approvals[q].task = u => approvals[q] = approvals'[q]
      BY <2>2, <1>1, <1>4, <1>6
    <3>2. DeriveTaskStatus(u, tasks[u], activities, approvals) =
          DeriveTaskStatus(u, tasks[u], activities, approvals')
      BY <3>1, OtherTaskStatus
    <3> QED BY <2>2, <3>2, <1>0, <1>1, <1>6 DEF StatusIsDerived
  <2> QED BY <2>1, <2>2, <1>6 DEF StatusIsDerived
<1> QED BY <1>7, <1>8, <1>9, <1>10, <1>11, <1>12, <1>13 DEF IInv, StoredStateValid

-----------------------------------------------------------------------------
(* The invariant is inductive: one lemma per command.                      *)
LEMMA StepKeeps == IInv /\ [Next]_vars => IInv'
<1> SUFFICES ASSUME IInv, [Next]_vars PROVE IInv'
  OBVIOUS
<1>1. CASE UNCHANGED vars
  <2>1. /\ tasks' = tasks /\ runners' = runners /\ artifacts' = artifacts
        /\ activities' = activities /\ leases' = leases /\ approvals' = approvals
    BY <1>1 DEF vars
  <2>2. TypeOK'
    BY <2>1 DEF IInv, TypeOK
  <2>3. References' /\ EvidenceIsCurrent' /\ StatusIsDerived'
    BY <2>1 DEF IInv, StoredStateValid, References, EvidenceIsCurrent, StatusIsDerived
  <2>4. ArtifactChain'
    BY <2>1 DEF IInv, StoredStateValid, ArtifactChain, ChainOf
  <2>5. Fencing' /\ Provenance'
    BY <2>1 DEF IInv, StoredStateValid, Fencing, FencedLeases, Provenance, ProvenanceOf
  <2>6. ApprovalBacked'
    BY <2>1 DEF IInv, StoredStateValid, ApprovalBacked, BoundEvidence
  <2> QED BY <2>2, <2>3, <2>4, <2>5, <2>6 DEF IInv, StoredStateValid
<1>2. CASE Next
  BY <1>2, CreateKeeps, RegisterKeeps, PublishKeeps, LeaseKeeps, CompleteKeeps,
     ReviewKeeps, GrantKeeps DEF Next
<1> QED BY <1>1, <1>2

(* Every command of every caller leaves well-formed entities.              *)
THEOREM TypeCorrect == Spec => []TypeOK
<1>1. IInv => TypeOK
  BY DEF IInv
<1> QED BY InitIInv, StepKeeps, <1>1, PTL DEF Spec

(* No command leaves a state that validateTaskState, which guards every    *)
(* write and every read of the task file, would refuse.                    *)
THEOREM StoredStateIsValid == Spec => []StoredStateValid
<1>1. IInv => StoredStateValid
  BY DEF IInv
<1> QED BY InitIInv, StepKeeps, <1>1, PTL DEF Spec

(* A worker that lost its lease holds a lower token than the final one,    *)
(* however often the activity was leased, reassigned or retried.           *)
THEOREM LeasesAreFenced == Spec => []Fencing
<1>1. IInv => Fencing
  BY DEF IInv, StoredStateValid
<1> QED BY InitIInv, StepKeeps, <1>1, PTL DEF Spec

(* Whatever is not marked stale is about its task's exact revision.        *)
THEOREM EvidenceStaysExact == Spec => []EvidenceIsCurrent
<1>1. IInv => EvidenceIsCurrent
  BY DEF IInv, StoredStateValid
<1> QED BY InitIInv, StepKeeps, <1>1, PTL DEF Spec

(* A current approval covers every required kind with evidence that is     *)
(* successful now, and a stale one still names what it was granted on.     *)
THEOREM ApprovalsAreBacked == Spec => []ApprovalBacked
<1>1. IInv => ApprovalBacked
  BY DEF IInv, StoredStateValid
<1> QED BY InitIInv, StepKeeps, <1>1, PTL DEF Spec

(* The stored status of a task is the one its evidence derives, though     *)
(* leasing does not recompute it and an approval writes it directly.       *)
THEOREM StatusStaysDerived == Spec => []StatusIsDerived
<1>1. IInv => StatusIsDerived
  BY DEF IInv, StoredStateValid
<1> QED BY InitIInv, StepKeeps, <1>1, PTL DEF Spec

-----------------------------------------------------------------------------
(* Leasing again is what could disturb evidence; it needs an activity that *)
(* is neither stale nor successful, and it ends active leases only.        *)
LEMMA LeaseFreezes ==
  ASSUME IInv, NEW t \in Task, NEW a \in Activity, NEW l \in Lease, NEW r \in Runner,
         NEW at \in Time, NEW expiresAt \in Time, NEW reassign \in BOOLEAN,
         LeaseVerification(t, a, l, r, at, expiresAt, reassign)
  PROVE  Frozen
<1> DEFINE held == HeldLeases(a)
           how(m) == IF leases[m].expiresAt <= at THEN "expired" ELSE "reassigned"
           ended == [m \in DOMAIN leases |->
             IF m \in held THEN [leases[m] EXCEPT !.status = how(m)] ELSE leases[m]]
           lease == [activity |-> a, task |-> t, runner |-> r,
                     base |-> tasks[t].base, head |-> tasks[t].head,
                     token |-> LeasedActivity(a, t).token + 1,
                     status |-> "active", expiresAt |-> expiresAt]
           activity == [LeasedActivity(a, t) EXCEPT !.token = @ + 1,
                          !.leaseIds = Append(@, l), !.evidence = None,
                          !.status = "leased"]
<1>1. /\ l \notin DOMAIN leases
      /\ Leasable(a, t)
      /\ leases' = Put(ended, l, lease)
      /\ activities' = Put(activities, a, activity)
      /\ approvals' = approvals
  BY DEF LeaseVerification
<1> HIDE DEF lease, activity
<1>2. ASSUME NEW b \in DOMAIN activities,
             activities[b].status \in {"stale", "succeeded"}
      PROVE  b \in DOMAIN activities' /\ activities'[b] = activities[b]
  BY <1>1, <1>2 DEF Leasable, Put
<1>3. ASSUME NEW m \in DOMAIN leases, leases[m].status # "active"
      PROVE  m \in DOMAIN leases' /\ leases'[m] = leases[m]
  <2>1. m \notin held
    BY <1>3 DEF HeldLeases, ActiveLeases
  <2> QED BY <1>1, <2>1 DEF Put
<1> QED BY <1>1, <1>2, <1>3 DEF Frozen

(* A completion ends the lease that is active and the activity it leases.  *)
LEMMA CompleteFreezes ==
  ASSUME IInv, NEW l \in Lease, NEW r \in Runner, NEW token \in Token,
         NEW at \in Time, NEW digest \in Digest, NEW success \in BOOLEAN,
         CompleteVerification(l, r, token, at, digest, success)
  PROVE  Frozen
<1> DEFINE a == leases[l].activity
<1>0. Fencing /\ References
  BY DEF IInv, StoredStateValid
<1>1. /\ l \in DOMAIN leases /\ a \in DOMAIN activities
      /\ leases[l].status = "active"
      /\ DOMAIN activities' = DOMAIN activities
      /\ \A b \in DOMAIN activities : b # a => activities'[b] = activities[b]
      /\ DOMAIN leases' = DOMAIN leases
      /\ \A m \in DOMAIN leases : m # l => leases'[m] = leases[m]
      /\ approvals' = approvals
  BY DEF CompleteVerification
<1>2. activities[a].status = "leased"
  <2>1. PICK i \in DOMAIN activities[a].leaseIds : activities[a].leaseIds[i] = l
    BY <1>0, <1>1 DEF References
  <2> QED BY <1>0, <1>1, <2>1 DEF Fencing, FencedLeases
<1> QED BY <1>1, <1>2 DEF Frozen

(* A publication marks entities stale and changes nothing else of them.    *)
LEMMA PublishFreezes ==
  ASSUME IInv, NEW t \in Task, NEW x \in Artifact, NEW b \in BaseSha,
         NEW h \in HeadSha, PublishPullRequest(t, x, b, h)
  PROVE  Frozen
<1>0. TypeOK
  BY DEF IInv
<1>1. PICK staleActs, staleApps :
        /\ activities' = [a \in DOMAIN activities |->
             IF a \in staleActs THEN [activities[a] EXCEPT !.status = "stale"]
                                ELSE activities[a]]
        /\ leases' = [l \in DOMAIN leases |->
             IF leases[l].activity \in staleActs /\ leases[l].status = "active"
               THEN [leases[l] EXCEPT !.status = "stale"] ELSE leases[l]]
        /\ approvals' = [p \in DOMAIN approvals |->
             IF p \in staleApps THEN [approvals[p] EXCEPT !.status = "stale"]
                                ELSE approvals[p]]
        /\ \A p \in staleApps : approvals[p].status = "current"
  <2> DEFINE changed == /\ tasks[t].current # None
                        /\ \/ artifacts[tasks[t].current].base # b
                           \/ artifacts[tasks[t].current].head # h
             staleActs == IF changed THEN Invalidated(t, b, h) ELSE {}
             staleApps == {p \in DOMAIN approvals :
                             /\ changed
                             /\ approvals[p].task = t
                             /\ approvals[p].status = "current"
                             /\ approvals[p].base # b \/ approvals[p].head # h}
  <2> WITNESS staleActs, staleApps
  <2> QED BY DEF PublishPullRequest
<1>2. \A a \in DOMAIN activities : activities[a] \in ActivityRecord
  BY <1>0 DEF TypeOK, Store
<1>3. ASSUME NEW a \in DOMAIN activities
      PROVE  /\ a \in DOMAIN activities'
             /\ activities'[a].evidence = activities[a].evidence
             /\ activities'[a].leaseIds = activities[a].leaseIds
             /\ activities'[a].status \in {"stale", activities[a].status}
  BY <1>1, <1>2 DEF ActivityRecord
<1>4. ASSUME NEW l \in DOMAIN leases, leases[l].status # "active"
      PROVE  l \in DOMAIN leases' /\ leases'[l] = leases[l]
  BY <1>1, <1>4
<1>5. ASSUME NEW p \in DOMAIN approvals
      PROVE  /\ p \in DOMAIN approvals'
             /\ approvals[p].status = "stale" => approvals'[p] = approvals[p]
  BY <1>1
<1> QED BY <1>3, <1>4, <1>5 DEF Frozen

(* Evidence, leases and approvals that have ended never change afterwards, *)
(* whatever commands follow.                                               *)
THEOREM EndedStaysEnded == Spec => NothingRevives
<1>1. ASSUME IInv, Next PROVE Frozen
  <2>1. CASE \E t \in Task, required \in SUBSET EvidenceKind :
               CreateConversationAndTask(t, required)
    BY <2>1 DEF CreateConversationAndTask, Frozen
  <2>2. CASE \E r \in Runner, capabilities \in SUBSET Capability :
               RegisterRunner(r, capabilities)
    BY <2>2 DEF RegisterRunner, Frozen
  <2>3. ASSUME NEW t \in Task, NEW a \in Activity, NEW b \in BaseSha,
               NEW h \in HeadSha, NEW digest \in Digest, NEW accepted \in BOOLEAN,
               RecordReview(t, a, b, h, digest, accepted)
        PROVE  Frozen
    BY <2>3 DEF RecordReview, Frozen, Put
  <2>4. ASSUME NEW t \in Task, NEW p \in Approval, NEW b \in BaseSha,
               NEW h \in HeadSha, NEW evidence \in SUBSET Activity,
               GrantApproval(t, p, b, h, evidence)
        PROVE  Frozen
    BY <2>4 DEF GrantApproval, Frozen, Put
  <2> QED BY <1>1, <2>1, <2>2, <2>3, <2>4, PublishFreezes, LeaseFreezes,
             CompleteFreezes DEF Next
<1>2. IInv /\ [Next]_vars => [Frozen]_vars
  BY <1>1
<1> QED BY InitIInv, StepKeeps, <1>2, PTL DEF Spec, NothingRevives

-----------------------------------------------------------------------------
(***************************************************************************)
(* The task reducer implements the merge gate: every command maps to one   *)
(* step of MergeGate, or to none.  The mapping looks at one task; a        *)
(* command moves one task, so each proof has two parts: the other tasks    *)
(* look as before (Others), and the new look of this one.                  *)
(***************************************************************************)

(* No task lacks a requirement, or its gate would open on nothing.         *)
RequiresSomething == \A t \in DOMAIN tasks : tasks[t].required # {}

(* A task is marked ready exactly when it has a current approval.          *)
ReadyIsApproved ==
  \A t \in DOMAIN tasks :
    tasks[t].status = "ready_to_merge" <=>
      tasks[t].head # None /\ Approved(t, tasks[t], approvals)

(* Requirements are set when a task is created and never change.           *)
LEMMA RequirementsKept ==
  ASSUME IInv, RequiresSomething, [Next]_vars
  PROVE  RequiresSomething'
<1>0. Store(tasks, Task, TaskRecord)
  BY DEF IInv, TypeOK
<1>1. CASE UNCHANGED vars
  BY <1>1 DEF vars, RequiresSomething
<1>2. ASSUME NEW t \in Task, NEW required \in SUBSET EvidenceKind,
             CreateConversationAndTask(t, required)
      PROVE  RequiresSomething'
  BY <1>2 DEF CreateConversationAndTask, Put, RequiresSomething
<1>3. ASSUME DOMAIN tasks' = DOMAIN tasks,
             \A t \in DOMAIN tasks : tasks'[t].required = tasks[t].required
      PROVE  RequiresSomething'
  BY <1>3 DEF RequiresSomething
<1>4. \A t \in DOMAIN tasks : tasks[t] \in TaskRecord
  BY <1>0 DEF Store
<1>5. CASE \E r \in Runner, capabilities \in SUBSET Capability :
             RegisterRunner(r, capabilities)
  BY <1>5, <1>3 DEF RegisterRunner
<1>6. ASSUME NEW t \in Task, NEW x \in Artifact, NEW b \in BaseSha,
             NEW h \in HeadSha, PublishPullRequest(t, x, b, h)
      PROVE  RequiresSomething'
  <2>1. PICK status :
          tasks' = [tasks EXCEPT ![t] =
            [[tasks[t] EXCEPT !.artifactIds = Append(@, x), !.current = x,
                              !.base = b, !.head = h] EXCEPT !.status = status]]
    BY <1>6 DEF PublishPullRequest
  <2> QED BY <2>1, <1>3, <1>4 DEF TaskRecord
<1>7. ASSUME NEW t \in Task, NEW a \in Activity, NEW l \in Lease, NEW r \in Runner,
             NEW at \in Time, NEW expiresAt \in Time, NEW reassign \in BOOLEAN,
             LeaseVerification(t, a, l, r, at, expiresAt, reassign)
      PROVE  RequiresSomething'
  <2>1. tasks' = [tasks EXCEPT ![t].activityIds = @ \cup {a}]
    BY <1>7 DEF LeaseVerification
  <2> QED BY <2>1, <1>3, <1>4 DEF TaskRecord
<1>8. ASSUME NEW l \in Lease, NEW r \in Runner, NEW token \in Token,
             NEW at \in Time, NEW digest \in Digest, NEW success \in BOOLEAN,
             CompleteVerification(l, r, token, at, digest, success)
      PROVE  RequiresSomething'
  <2>1. PICK t, status : tasks' = [tasks EXCEPT ![t].status = status]
    BY <1>8 DEF CompleteVerification
  <2> QED BY <2>1, <1>3, <1>4 DEF TaskRecord
<1>9. ASSUME NEW t \in Task, NEW a \in Activity, NEW b \in BaseSha,
             NEW h \in HeadSha, NEW digest \in Digest, NEW accepted \in BOOLEAN,
             RecordReview(t, a, b, h, digest, accepted)
      PROVE  RequiresSomething'
  <2>1. PICK status :
          tasks' = [tasks EXCEPT ![t].activityIds = @ \cup {a}, ![t].status = status]
    BY <1>9 DEF RecordReview
  <2> QED BY <2>1, <1>3, <1>4 DEF TaskRecord
<1>10. ASSUME NEW t \in Task, NEW p \in Approval, NEW b \in BaseSha,
              NEW h \in HeadSha, NEW evidence \in SUBSET Activity,
              GrantApproval(t, p, b, h, evidence)
       PROVE  RequiresSomething'
  <2>1. tasks' = [tasks EXCEPT ![t].approvalIds = @ \cup {p},
                               ![t].status = "ready_to_merge"]
    BY <1>10 DEF GrantApproval
  <2> QED BY <2>1, <1>3, <1>4 DEF TaskRecord
<1> QED BY <1>1, <1>2, <1>5, <1>6, <1>7, <1>8, <1>9, <1>10 DEF Next

(* A stored status is derived, and only an approval derives readiness.     *)
LEMMA ReadyMeansApproved == IInv => ReadyIsApproved
<1> SUFFICES ASSUME IInv, NEW t \in DOMAIN tasks
             PROVE  tasks[t].status = "ready_to_merge" <=>
                      tasks[t].head # None /\ Approved(t, tasks[t], approvals)
  BY DEF ReadyIsApproved
<1>1. tasks[t].status = DeriveTaskStatus(t, tasks[t], activities, approvals)
  BY DEF IInv, StoredStateValid, StatusIsDerived
<1> QED BY <1>1 DEF DeriveTaskStatus

-----------------------------------------------------------------------------
(* Nothing of task u that the gate sees has moved.                         *)
LooksTheSame(u) ==
  /\ Created(u)' = Created(u)
  /\ Created(u) => /\ tasks'[u].required = tasks[u].required
                   /\ tasks'[u].base = tasks[u].base
                   /\ tasks'[u].head = tasks[u].head
                   /\ (tasks'[u].status = "ready_to_merge") =
                        (tasks[u].status = "ready_to_merge")
                   /\ GateProven(u)' = GateProven(u)

Others(t) == \A u \in Task \ {t} : LooksTheSame(u)

(* A command that moves one task moves the gate's variables at that task.  *)
LEMMA AtOneTask ==
  ASSUME NEW t \in Task, Others(t)
  PROVE  /\ GateRequired' = [GateRequired EXCEPT ![t] = GateRequired'[t]]
         /\ GateRevision' = [GateRevision EXCEPT ![t] = GateRevision'[t]]
         /\ GateEvidence' = [GateEvidence EXCEPT ![t] = GateEvidence'[t]]
         /\ \A u \in Task \ {t} : u \in GateOpen' <=> u \in GateOpen
<1>1. \A u \in Task \ {t} : /\ GateRequired'[u] = GateRequired[u]
                            /\ GateRevision'[u] = GateRevision[u]
                            /\ GateEvidence'[u] = GateEvidence[u]
                            /\ u \in GateOpen' <=> u \in GateOpen
  BY DEF Others, LooksTheSame, GateRequired, GateRevision, GateEvidence, GateOpen
<1>2. /\ GateRequired = [u \in Task |-> GateRequired[u]]
      /\ GateRequired' = [u \in Task |-> GateRequired'[u]]
  BY DEF GateRequired
<1>3. /\ GateRevision = [u \in Task |-> GateRevision[u]]
      /\ GateRevision' = [u \in Task |-> GateRevision'[u]]
  BY DEF GateRevision
<1>4. /\ GateEvidence = [u \in Task |-> GateEvidence[u]]
      /\ GateEvidence' = [u \in Task |-> GateEvidence'[u]]
  BY DEF GateEvidence
<1>5. GateRequired' = [GateRequired EXCEPT ![t] = GateRequired'[t]]
  BY <1>1, <1>2
<1>6. GateRevision' = [GateRevision EXCEPT ![t] = GateRevision'[t]]
  BY <1>1, <1>3
<1>7. GateEvidence' = [GateEvidence EXCEPT ![t] = GateEvidence'[t]]
  BY <1>1, <1>4
<1> QED BY <1>1, <1>5, <1>6, <1>7

(* Writing back the value at a task changes nothing.                       *)
LEMMA WriteBack ==
  ASSUME NEW t \in Task
  PROVE  /\ [GateRequired EXCEPT ![t] = GateRequired[t]] = GateRequired
         /\ [GateRevision EXCEPT ![t] = GateRevision[t]] = GateRevision
         /\ [GateEvidence EXCEPT ![t] = GateEvidence[t]] = GateEvidence
<1>1. [GateRequired EXCEPT ![t] = GateRequired[t]] = GateRequired
  BY DEF GateRequired
<1>2. [GateRevision EXCEPT ![t] = GateRevision[t]] = GateRevision
  BY DEF GateRevision
<1>3. [GateEvidence EXCEPT ![t] = GateEvidence[t]] = GateEvidence
  BY DEF GateEvidence
<1> QED BY <1>1, <1>2, <1>3

(* When no task looks different the gate does not move.                    *)
LEMMA GateUnmoved ==
  ASSUME \A u \in Task : LooksTheSame(u)
  PROVE  UNCHANGED <<GateRequired, GateRevision, GateEvidence, GateOpen>>
<1>1. GateRequired' = GateRequired
  BY DEF LooksTheSame, GateRequired
<1>2. GateRevision' = GateRevision
  BY DEF LooksTheSame, GateRevision
<1>3. GateEvidence' = GateEvidence
  BY DEF LooksTheSame, GateEvidence
<1>4. GateOpen' = GateOpen
  BY DEF LooksTheSame, GateOpen
<1> QED BY <1>1, <1>2, <1>3, <1>4

(* The evidence of a task whose activities and revision stay is the same.  *)
LEMMA SameEvidence ==
  ASSUME NEW u \in Task, Created(u), Created(u)',
         tasks'[u].base = tasks[u].base, tasks'[u].head = tasks[u].head,
         \A a : (a \in DOMAIN activities /\ activities[a].task = u) <=>
                (a \in DOMAIN activities' /\ activities'[a].task = u),
         \A a \in DOMAIN activities :
           activities[a].task = u => activities'[a] = activities[a]
  PROVE  GateProven(u)' = GateProven(u)
BY DEF GateProven, EvidenceForCurrentRevision, SameRevision

-----------------------------------------------------------------------------
GateVars == <<GateRequired, GateRevision, GateEvidence, GateOpen>>

(* A new task has a closed gate and no revision.                           *)
LEMMA CreateMoves ==
  ASSUME IInv, IInv', NEW t \in Task, NEW required \in SUBSET EvidenceKind,
         CreateConversationAndTask(t, required)
  PROVE  Gate!Create(t, required)
<1> DEFINE new == [required |-> required, status |-> "awaiting_implementation",
       artifactIds |-> <<>>, current |-> None, base |-> None, head |-> None,
       activityIds |-> {}, approvalIds |-> {}]
<1>1. /\ t \notin DOMAIN tasks /\ required # {}
      /\ DOMAIN tasks' = DOMAIN tasks \cup {t}
      /\ \A u \in DOMAIN tasks : tasks'[u] = tasks[u]
      /\ tasks'[t] = new
      /\ activities' = activities
  BY DEF CreateConversationAndTask, Put
<1>2. \A a \in DOMAIN activities : activities[a].task \in DOMAIN tasks
  BY DEF IInv, StoredStateValid, References
<1>3. Others(t)
  BY <1>1, SameEvidence DEF Others, LooksTheSame, Created
<1>4. GateProven(t)' = {}
  BY <1>1, <1>2 DEF GateProven, EvidenceForCurrentRevision
<1>5. /\ GateRequired[t] = {} /\ GateRequired'[t] = required
      /\ GateRevision'[t] = GateRevision[t]
      /\ GateEvidence'[t] = GateEvidence[t]
      /\ t \notin GateOpen /\ t \notin GateOpen'
  BY <1>1, <1>4 DEF GateRequired, GateRevision, GateEvidence, GateOpen, Created
<1>6. /\ GateRequired' = [GateRequired EXCEPT ![t] = required]
      /\ GateRevision' = GateRevision /\ GateEvidence' = GateEvidence
  BY <1>3, <1>5, AtOneTask, WriteBack
<1>7. GateOpen' = GateOpen
  <2>1. GateOpen \subseteq Task /\ GateOpen' \subseteq Task
    BY DEF GateOpen
  <2> QED BY <1>3, <1>5, <2>1, AtOneTask
<1> QED BY <1>1, <1>5, <1>6, <1>7 DEF Gate!Create

(* Leasing touches no evidence: the activity is neither before nor after   *)
(* it a successful one.                                                    *)
LEMMA LeaseMoves ==
  ASSUME IInv, NEW t \in Task, NEW a \in Activity, NEW l \in Lease, NEW r \in Runner,
         NEW at \in Time, NEW expiresAt \in Time, NEW reassign \in BOOLEAN,
         LeaseVerification(t, a, l, r, at, expiresAt, reassign)
  PROVE  UNCHANGED GateVars
<1> DEFINE activity == [LeasedActivity(a, t) EXCEPT !.token = @ + 1,
                          !.leaseIds = Append(@, l), !.evidence = None,
                          !.status = "leased"]
<1>1. /\ Leasable(a, t)
      /\ tasks' = [tasks EXCEPT ![t].activityIds = @ \cup {a}]
      /\ activities' = Put(activities, a, activity)
  BY DEF LeaseVerification
<1>2. /\ \A u \in DOMAIN tasks : tasks[u] \in TaskRecord
      /\ \A b \in DOMAIN activities : activities[b] \in ActivityRecord
  BY DEF IInv, TypeOK, Store
<1>3. activity.status = "leased"
  BY <1>2 DEF LeasedActivity, ActivityRecord
<1> HIDE DEF activity
<1>4. \A b \in DOMAIN activities \ {a} :
        b \in DOMAIN activities' /\ activities'[b] = activities[b]
  BY <1>1 DEF Put
<1>5. /\ DOMAIN activities' = DOMAIN activities \cup {a}
      /\ activities'[a].status = "leased"
      /\ a \in DOMAIN activities => activities[a].status # "succeeded"
  BY <1>1, <1>3 DEF Put, Leasable
<1>6. DOMAIN tasks' = DOMAIN tasks
  BY <1>1
<1>7. ASSUME NEW u \in DOMAIN tasks
      PROVE  /\ tasks'[u].required = tasks[u].required
             /\ tasks'[u].base = tasks[u].base
             /\ tasks'[u].head = tasks[u].head
             /\ tasks'[u].status = tasks[u].status
  BY <1>1, <1>2 DEF TaskRecord
<1>8. ASSUME NEW u \in DOMAIN tasks, NEW k \in EvidenceKind
      PROVE  EvidenceForCurrentRevision(activities', u, tasks'[u], k)
               = EvidenceForCurrentRevision(activities, u, tasks[u], k)
  BY <1>4, <1>5, <1>7 DEF EvidenceForCurrentRevision, SameRevision
<1>9. \A u \in Task : LooksTheSame(u)
  BY <1>6, <1>7, <1>8 DEF LooksTheSame, Created, GateProven
<1> QED BY <1>9, GateUnmoved DEF GateVars

(* One activity of a task ends: when it succeeds its kind is proven, and   *)
(* otherwise nothing is; the gate neither opens nor closes.                *)
LEMMA EvidenceMoves ==
  ASSUME IInv, ReadyIsApproved, ReadyIsApproved',
         NEW t \in Task, NEW a, NEW kind \in EvidenceKind,
         t \in DOMAIN tasks, DOMAIN tasks' = DOMAIN tasks, tasks[t].head # None,
         \A u \in DOMAIN tasks : /\ tasks'[u].required = tasks[u].required
                                 /\ tasks'[u].base = tasks[u].base
                                 /\ tasks'[u].head = tasks[u].head,
         approvals' = approvals,
         DOMAIN activities' = DOMAIN activities \cup {a},
         \A b \in DOMAIN activities \ {a} : activities'[b] = activities[b],
         activities'[a].task = t, activities'[a].kind = kind,
         SameRevision(activities'[a], tasks[t]),
         a \in DOMAIN activities => /\ activities[a].task = t
                                    /\ activities[a].status # "succeeded"
  PROVE  Gate!Prove(t, kind) \/ UNCHANGED GateVars
<1>1. ASSUME NEW u \in DOMAIN tasks
      PROVE  (tasks'[u].status = "ready_to_merge") = (tasks[u].status = "ready_to_merge")
  BY DEF ReadyIsApproved, Approved, SameRevision
<1>2. ASSUME NEW u \in DOMAIN tasks, NEW k \in EvidenceKind
      PROVE  EvidenceForCurrentRevision(activities', u, tasks'[u], k) =
               EvidenceForCurrentRevision(activities, u, tasks[u], k)
                 \cup (IF u = t /\ k = kind /\ activities'[a].status = "succeeded"
                       THEN {a} ELSE {})
  BY DEF EvidenceForCurrentRevision, SameRevision
<1>3. ASSUME NEW u \in DOMAIN tasks
      PROVE  GateProven(u)' =
               GateProven(u)
                 \cup (IF u = t /\ activities'[a].status = "succeeded"
                       THEN {kind} ELSE {})
  BY <1>2 DEF GateProven
<1>4. CASE activities'[a].status # "succeeded"
  <2>1. \A u \in Task : LooksTheSame(u)
    BY <1>1, <1>3, <1>4 DEF LooksTheSame, Created
  <2> QED BY <2>1, GateUnmoved DEF GateVars
<1>5. CASE activities'[a].status = "succeeded"
  <2>1. Others(t)
    <3>1. ASSUME NEW u \in DOMAIN tasks, u # t
          PROVE  GateProven(u)' = GateProven(u)
      BY <1>3, <3>1
    <3>2. ASSUME NEW u \in Task \ {t} PROVE LooksTheSame(u)
      BY <1>1, <3>1 DEF LooksTheSame, Created
    <3> QED BY <3>2 DEF Others
  <2>2. /\ GateRequired'[t] = GateRequired[t]
        /\ GateRevision'[t] = GateRevision[t]
        /\ GateEvidence'[t] = GateEvidence[t] \cup {kind}
        /\ t \in GateOpen' <=> t \in GateOpen
    BY <1>1, <1>3, <1>5 DEF GateRequired, GateRevision, GateEvidence, GateOpen, Created
  <2>3. GateRevision[t] # <<None, None>>
    BY DEF GateRevision, Created
  <2>4. GateOpen' = GateOpen
    <3>1. GateOpen \subseteq Task /\ GateOpen' \subseteq Task
      BY DEF GateOpen
    <3>2. \A u \in Task : u \in GateOpen' <=> u \in GateOpen
      BY <2>1, <2>2, AtOneTask
    <3> QED BY <3>1, <3>2
  <2>5. /\ GateRequired' = GateRequired /\ GateRevision' = GateRevision
        /\ GateEvidence' = [GateEvidence EXCEPT ![t] = @ \cup {kind}]
    BY <2>1, <2>2, AtOneTask, WriteBack
  <2> QED BY <2>3, <2>4, <2>5 DEF Gate!Prove
<1> QED BY <1>4, <1>5

(* A completion proves verification, or fails to.                          *)
LEMMA CompleteMoves ==
  ASSUME IInv, ReadyIsApproved, ReadyIsApproved',
         NEW l \in Lease, NEW r \in Runner, NEW token \in Token,
         NEW at \in Time, NEW digest \in Digest, NEW success \in BOOLEAN,
         CompleteVerification(l, r, token, at, digest, success)
  PROVE  (\E t \in Task : Gate!Prove(t, "verification")) \/ UNCHANGED GateVars
<1> DEFINE a == leases[l].activity
           t == leases[l].task
<1>0. TypeOK /\ Fencing /\ References /\ Provenance
  BY DEF IInv, StoredStateValid
<1>1. /\ l \in DOMAIN leases /\ a \in DOMAIN activities /\ t \in DOMAIN tasks
      /\ leases[l].status = "active"
      /\ SameRevision(leases[l], tasks[t]) /\ SameRevision(activities[a], tasks[t])
      /\ approvals' = approvals
  BY DEF CompleteVerification
<1>2. PICK status, evidence :
        activities' = [activities EXCEPT ![a].status = status, ![a].evidence = evidence]
  BY DEF CompleteVerification
<1>3. PICK derived : tasks' = [tasks EXCEPT ![t].status = derived]
  BY DEF CompleteVerification
<1>4. /\ \A u \in DOMAIN tasks : tasks[u] \in TaskRecord
      /\ activities[a] \in ActivityRecord
      /\ leases[l] \in LeaseRecord /\ t \in Task
  BY <1>0, <1>1 DEF TypeOK, Store
<1>5. PICK i \in DOMAIN activities[a].leaseIds : activities[a].leaseIds[i] = l
  BY <1>0, <1>1 DEF References
<1>6. /\ activities[a].status = "leased" /\ activities[a].task = t
      /\ activities[a].kind = "verification"
  <2>1. FencedLeases(a) /\ ProvenanceOf(a)
    BY <1>0, <1>1 DEF Fencing, Provenance
  <2>2. activities[a].status = "leased"
    BY <1>1, <1>5, <2>1 DEF FencedLeases
  <2>3. activities[a].task = t
    BY <1>0, <1>1 DEF References
  <2>4. activities[a].kind = "verification"
    <3>1. activities[a].leaseIds # <<>>
      BY <1>5
    <3>2. activities[a].kind \in {"verification", "review"}
      BY <1>4 DEF ActivityRecord, EvidenceKind
    <3> QED BY <2>1, <3>1, <3>2 DEF ProvenanceOf
  <2> QED BY <2>2, <2>3, <2>4
<1>7. /\ DOMAIN tasks' = DOMAIN tasks
      /\ \A u \in DOMAIN tasks : /\ tasks'[u].required = tasks[u].required
                                 /\ tasks'[u].base = tasks[u].base
                                 /\ tasks'[u].head = tasks[u].head
  BY <1>3, <1>4 DEF TaskRecord
<1>8. /\ DOMAIN activities' = DOMAIN activities \cup {a}
      /\ \A b \in DOMAIN activities \ {a} : activities'[b] = activities[b]
      /\ activities'[a].task = t /\ activities'[a].kind = "verification"
      /\ SameRevision(activities'[a], tasks[t])
  BY <1>1, <1>2, <1>4, <1>6 DEF ActivityRecord, SameRevision
<1>9. tasks[t].head # None
  BY <1>1, <1>4, NoneAssumption DEF SameRevision, LeaseRecord
<1> HIDE DEF a, t
<1>10. Gate!Prove(t, "verification") \/ UNCHANGED GateVars
  BY <1>1, <1>4, <1>6, <1>7, <1>8, <1>9, EvidenceMoves DEF EvidenceKind
<1> QED BY <1>4, <1>10

(* A review proves review, or fails to.                                    *)
LEMMA ReviewMoves ==
  ASSUME IInv, ReadyIsApproved, ReadyIsApproved',
         NEW t \in Task, NEW a \in Activity, NEW b \in BaseSha, NEW h \in HeadSha,
         NEW digest \in Digest, NEW accepted \in BOOLEAN,
         RecordReview(t, a, b, h, digest, accepted)
  PROVE  Gate!Prove(t, "review") \/ UNCHANGED GateVars
<1>1. /\ a \notin DOMAIN activities /\ t \in DOMAIN tasks
      /\ b = tasks[t].base /\ h = tasks[t].head
      /\ approvals' = approvals
  BY DEF RecordReview
<1>2. PICK act :
        /\ activities' = Put(activities, a, act)
        /\ act.task = t /\ act.kind = "review" /\ act.base = b /\ act.head = h
  BY DEF RecordReview
<1>3. PICK derived :
        tasks' = [tasks EXCEPT ![t].activityIds = @ \cup {a}, ![t].status = derived]
  BY DEF RecordReview
<1>4. \A u \in DOMAIN tasks : tasks[u] \in TaskRecord
  BY DEF IInv, TypeOK, Store
<1>5. /\ DOMAIN tasks' = DOMAIN tasks
      /\ \A u \in DOMAIN tasks : /\ tasks'[u].required = tasks[u].required
                                 /\ tasks'[u].base = tasks[u].base
                                 /\ tasks'[u].head = tasks[u].head
  BY <1>3, <1>4 DEF TaskRecord
<1>6. /\ DOMAIN activities' = DOMAIN activities \cup {a}
      /\ \A c \in DOMAIN activities \ {a} : activities'[c] = activities[c]
      /\ activities'[a].task = t /\ activities'[a].kind = "review"
      /\ SameRevision(activities'[a], tasks[t])
  BY <1>1, <1>2 DEF Put, SameRevision
<1>7. tasks[t].head # None
  BY <1>1, NoneAssumption
<1> QED BY <1>1, <1>5, <1>6, <1>7, EvidenceMoves DEF EvidenceKind

(* An approval opens the gate, on evidence of every required kind.         *)
LEMMA GrantMoves ==
  ASSUME IInv, RequiresSomething,
         NEW t \in Task, NEW p \in Approval, NEW b \in BaseSha, NEW h \in HeadSha,
         NEW evidence \in SUBSET Activity, GrantApproval(t, p, b, h, evidence)
  PROVE  Gate!Open(t)
<1>1. /\ t \in DOMAIN tasks /\ b = tasks[t].base /\ h = tasks[t].head
      /\ evidence \subseteq DOMAIN activities
      /\ \A a \in evidence : /\ activities[a].task = t
                             /\ activities[a].status = "succeeded"
                             /\ activities[a].base = b /\ activities[a].head = h
      /\ \A k \in tasks[t].required : \E a \in evidence : activities[a].kind = k
      /\ tasks' = [tasks EXCEPT ![t].approvalIds = @ \cup {p},
                                ![t].status = "ready_to_merge"]
      /\ activities' = activities
  BY DEF GrantApproval
<1>2. \A u \in DOMAIN tasks : tasks[u] \in TaskRecord
  BY DEF IInv, TypeOK, Store
<1>3. /\ DOMAIN tasks' = DOMAIN tasks
      /\ \A u \in DOMAIN tasks : /\ tasks'[u].required = tasks[u].required
                                 /\ tasks'[u].base = tasks[u].base
                                 /\ tasks'[u].head = tasks[u].head
                                 /\ u # t => tasks'[u].status = tasks[u].status
      /\ tasks'[t].status = "ready_to_merge"
  BY <1>1, <1>2 DEF TaskRecord
<1>4. \A u \in DOMAIN tasks : GateProven(u)' = GateProven(u)
  BY <1>1, <1>3 DEF GateProven, EvidenceForCurrentRevision, SameRevision
<1>5. Others(t)
  BY <1>3, <1>4 DEF Others, LooksTheSame, Created
<1>6. tasks[t].required \subseteq GateProven(t)
  <2>1. tasks[t].required \subseteq EvidenceKind
    BY <1>1, <1>2 DEF TaskRecord
  <2> QED BY <1>1, <2>1 DEF GateProven, EvidenceForCurrentRevision, SameRevision
<1>7. /\ GateRequired[t] # {} /\ GateRequired[t] \subseteq GateEvidence[t]
      /\ GateRequired'[t] = GateRequired[t]
      /\ GateRevision'[t] = GateRevision[t]
      /\ GateEvidence'[t] = GateEvidence[t]
      /\ t \in GateOpen'
  BY <1>1, <1>3, <1>4, <1>6
     DEF GateRequired, GateRevision, GateEvidence, GateOpen, Created, RequiresSomething
<1>8. GateOpen' = GateOpen \cup {t}
  <2>1. GateOpen \subseteq Task /\ GateOpen' \subseteq Task
    BY DEF GateOpen
  <2>2. \A u \in Task : u \in GateOpen' <=> u \in GateOpen \cup {t}
    BY <1>5, <1>7, AtOneTask
  <2> QED BY <2>1, <2>2
<1>9. /\ GateRequired' = GateRequired /\ GateRevision' = GateRevision
      /\ GateEvidence' = GateEvidence
  BY <1>5, <1>7, AtOneTask, WriteBack
<1> QED BY <1>7, <1>8, <1>9 DEF Gate!Open

(* A publication of another revision closes the gate and forgets the       *)
(* evidence; of the same revision it does nothing to either.               *)
LEMMA PublishMoves ==
  ASSUME IInv, RequiresSomething, ReadyIsApproved, ReadyIsApproved',
         NEW t \in Task, NEW x \in Artifact, NEW b \in BaseSha, NEW h \in HeadSha,
         PublishPullRequest(t, x, b, h)
  PROVE  Gate!Publish(t, <<b, h>>) \/ UNCHANGED GateVars
<1> DEFINE previous == tasks[t].current
           changed == /\ previous # None
                      /\ \/ artifacts[previous].base # b
                         \/ artifacts[previous].head # h
           staleActs == IF changed THEN Invalidated(t, b, h) ELSE {}
           staleApps == {p \in DOMAIN approvals :
                           /\ changed
                           /\ approvals[p].task = t
                           /\ approvals[p].status = "current"
                           /\ approvals[p].base # b \/ approvals[p].head # h}
           moved == tasks[t].base # b \/ tasks[t].head # h
<1>0. TypeOK /\ ArtifactChain /\ EvidenceIsCurrent
  BY DEF IInv, StoredStateValid
<1>1. /\ t \in DOMAIN tasks
      /\ activities' = [a \in DOMAIN activities |->
           IF a \in staleActs THEN [activities[a] EXCEPT !.status = "stale"]
                              ELSE activities[a]]
      /\ approvals' = [p \in DOMAIN approvals |->
           IF p \in staleApps THEN [approvals[p] EXCEPT !.status = "stale"]
                              ELSE approvals[p]]
  BY DEF PublishPullRequest
<1>2. PICK status :
        tasks' = [tasks EXCEPT ![t] =
          [[tasks[t] EXCEPT !.artifactIds = Append(@, x), !.current = x,
                            !.base = b, !.head = h] EXCEPT !.status = status]]
  BY DEF PublishPullRequest
<1>3. /\ \A u \in DOMAIN tasks : tasks[u] \in TaskRecord
      /\ \A a \in DOMAIN activities : activities[a] \in ActivityRecord
      /\ \A p \in DOMAIN approvals : approvals[p] \in ApprovalRecord
  BY <1>0 DEF TypeOK, Store
<1>4. /\ DOMAIN tasks' = DOMAIN tasks
      /\ \A u \in DOMAIN tasks : u # t => tasks'[u] = tasks[u]
      /\ tasks'[t].required = tasks[t].required
      /\ tasks'[t].base = b /\ tasks'[t].head = h
  BY <1>1, <1>2, <1>3 DEF TaskRecord
<1>5. IF previous = None THEN tasks[t].base = None /\ tasks[t].head = None
      ELSE /\ artifacts[previous].base = tasks[t].base
           /\ artifacts[previous].head = tasks[t].head
  BY <1>0, <1>1 DEF ArtifactChain, ChainOf, SameRevision
<1>6. ASSUME NEW a \in DOMAIN activities, activities[a].task # t
      PROVE  activities'[a] = activities[a]
  BY <1>1, <1>6 DEF Invalidated
<1>7. /\ DOMAIN activities' = DOMAIN activities
      /\ \A a \in DOMAIN activities : activities'[a].task = activities[a].task
  BY <1>1, <1>3 DEF ActivityRecord
<1>8. Others(t)
  <2>1. ASSUME NEW u \in Task \ {t}, Created(u)
        PROVE  GateProven(u)' = GateProven(u)
    BY <1>4, <1>6, <1>7, <2>1, SameEvidence DEF Created
  <2> QED BY <1>4, <2>1 DEF Others, LooksTheSame, Created
<1>9. CASE ~moved
  <2>1. ~changed
    BY <1>5, <1>9
  <2>2. activities' = activities /\ approvals' = approvals
    <3>1. /\ activities = [a \in DOMAIN activities |-> activities[a]]
          /\ approvals = [p \in DOMAIN approvals |-> approvals[p]]
      BY <1>0 DEF TypeOK, Store
    <3>2. staleActs = {} /\ staleApps = {}
      BY <2>1
    <3> HIDE DEF staleActs, staleApps
    <3> QED BY <1>1, <3>1, <3>2
  <2>3. (tasks'[t].status = "ready_to_merge") = (tasks[t].status = "ready_to_merge")
    BY <1>1, <1>4, <1>9, <2>2 DEF ReadyIsApproved, Approved, SameRevision
  <2>4. GateProven(t)' = GateProven(t)
    BY <1>1, <1>4, <1>9, <2>2, SameEvidence DEF Created
  <2>5. LooksTheSame(t)
    BY <1>1, <1>4, <1>9, <2>3, <2>4 DEF LooksTheSame, Created
  <2>6. \A u \in Task : LooksTheSame(u)
    BY <1>8, <2>5 DEF Others
  <2> QED BY <2>6, GateUnmoved DEF GateVars
<1>10. CASE moved
  <2>1. previous = None \/ changed
    BY <1>5, <1>10
  <2>2. ASSUME NEW a \in DOMAIN activities, activities[a].task = t
        PROVE  activities'[a].status = "stale"
    <3>1. CASE activities[a].status = "stale"
      BY <1>1, <1>3, <3>1 DEF ActivityRecord
    <3>2. CASE activities[a].status # "stale"
      <4>1. /\ activities[a].base = tasks[t].base /\ activities[a].head = tasks[t].head
            /\ activities[a].base # None /\ activities[a].kind \in EvidenceKind
        BY <1>0, <1>3, <2>2, <3>2, NoneAssumption
           DEF EvidenceIsCurrent, SameRevision, ActivityRecord
      <4>2. changed
        BY <1>5, <2>1, <4>1
      <4>3. a \in staleActs
        BY <1>10, <2>2, <3>2, <4>1, <4>2 DEF Invalidated
      <4> QED BY <1>1, <1>3, <4>3 DEF ActivityRecord
    <3> QED BY <3>1, <3>2
  <2>3. ASSUME NEW p \in DOMAIN approvals, approvals[p].task = t
        PROVE  approvals'[p].status = "stale"
    <3>1. CASE approvals[p].status = "stale"
      BY <1>1, <1>3, <3>1 DEF ApprovalRecord
    <3>2. CASE approvals[p].status = "current"
      <4>1. /\ approvals[p].base = tasks[t].base /\ approvals[p].head = tasks[t].head
            /\ approvals[p].base # None
        BY <1>0, <1>3, <2>3, <3>2, NoneAssumption
           DEF EvidenceIsCurrent, SameRevision, ApprovalRecord
      <4>2. p \in staleApps
        BY <1>5, <1>10, <2>1, <2>3, <3>2, <4>1
      <4> QED BY <1>1, <1>3, <4>2 DEF ApprovalRecord
    <3> QED BY <1>3, <3>1, <3>2 DEF ApprovalRecord
  <2>4. GateProven(t)' = {}
    BY <1>7, <2>2 DEF GateProven, EvidenceForCurrentRevision
  <2>5. /\ DOMAIN approvals' = DOMAIN approvals
        /\ \A p \in DOMAIN approvals : approvals'[p].task = approvals[p].task
    BY <1>1, <1>3 DEF ApprovalRecord
  <2>6. tasks'[t].status # "ready_to_merge"
    BY <1>1, <1>4, <2>3, <2>5 DEF ReadyIsApproved, Approved
  <2>7. /\ GateRequired[t] # {} /\ GateRequired'[t] = GateRequired[t]
        /\ <<b, h>> # GateRevision[t] /\ GateRevision'[t] = <<b, h>>
        /\ GateEvidence'[t] = {} /\ t \notin GateOpen'
    BY <1>1, <1>4, <1>10, <2>4, <2>6
       DEF GateRequired, GateRevision, GateEvidence, GateOpen, Created, RequiresSomething
  <2>8. GateOpen' = GateOpen \ {t}
    <3>1. GateOpen \subseteq Task /\ GateOpen' \subseteq Task
      BY DEF GateOpen
    <3>2. \A u \in Task : u \in GateOpen' <=> u \in GateOpen \ {t}
      BY <1>8, <2>7, AtOneTask
    <3> QED BY <3>1, <3>2
  <2>9. /\ GateRequired' = GateRequired
        /\ GateRevision' = [GateRevision EXCEPT ![t] = <<b, h>>]
        /\ GateEvidence' = [GateEvidence EXCEPT ![t] = {}]
    BY <1>8, <2>7, AtOneTask, WriteBack
  <2> QED BY <2>7, <2>8, <2>9 DEF Gate!Publish
<1> QED BY <1>9, <1>10

-----------------------------------------------------------------------------
(* Every command is a step of the gate, or none.                           *)
LEMMA StepMoves ==
  ASSUME IInv, IInv', RequiresSomething, ReadyIsApproved, ReadyIsApproved', [Next]_vars
  PROVE  Gate!Next \/ UNCHANGED GateVars
<1>1. CASE UNCHANGED vars \/ \E r \in Runner, capabilities \in SUBSET Capability :
                               RegisterRunner(r, capabilities)
  <2>1. UNCHANGED <<tasks, activities, approvals>>
    BY <1>1 DEF vars, RegisterRunner
  <2> QED BY <2>1 DEF GateVars, GateRequired, GateRevision, GateEvidence, GateOpen,
            Created, GateProven, EvidenceForCurrentRevision, SameRevision
<1>2. ASSUME NEW t \in Task, NEW x \in Artifact, NEW b \in BaseSha, NEW h \in HeadSha,
             PublishPullRequest(t, x, b, h)
      PROVE  Gate!Next \/ UNCHANGED GateVars
  <2>1. <<b, h>> \in BaseSha \X HeadSha
    OBVIOUS
  <2> QED BY <1>2, <2>1, PublishMoves DEF Gate!Next
<1>3. CASE \E t \in Task, required \in SUBSET EvidenceKind :
             CreateConversationAndTask(t, required)
  BY <1>3, CreateMoves DEF Gate!Next
<1>4. CASE \E t \in Task, a \in Activity, l \in Lease, r \in Runner,
              at \in Time, expiresAt \in Time, reassign \in BOOLEAN :
             LeaseVerification(t, a, l, r, at, expiresAt, reassign)
  BY <1>4, LeaseMoves
<1>5. CASE \E l \in Lease, r \in Runner, token \in Token, at \in Time,
              digest \in Digest, success \in BOOLEAN :
             CompleteVerification(l, r, token, at, digest, success)
  BY <1>5, CompleteMoves DEF Gate!Next, EvidenceKind
<1>6. CASE \E t \in Task, a \in Activity, b \in BaseSha, h \in HeadSha,
              digest \in Digest, accepted \in BOOLEAN :
             RecordReview(t, a, b, h, digest, accepted)
  BY <1>6, ReviewMoves DEF Gate!Next, EvidenceKind
<1>7. CASE \E t \in Task, p \in Approval, b \in BaseSha, h \in HeadSha,
              evidence \in SUBSET Activity : GrantApproval(t, p, b, h, evidence)
  BY <1>7, GrantMoves DEF Gate!Next
<1> QED BY <1>1, <1>2, <1>3, <1>4, <1>5, <1>6, <1>7 DEF Next

(* The empty store is the closed gate.                                     *)
LEMMA InitMoves == Init => Gate!Init /\ RequiresSomething
<1> SUFFICES ASSUME Init PROVE Gate!Init /\ RequiresSomething
  OBVIOUS
<1>1. DOMAIN tasks = {}
  BY DEF Init, Nothing
<1> QED BY <1>1 DEF Gate!Init, GateRequired, GateRevision, GateEvidence, GateOpen,
          Created, RequiresSomething

(* Whatever the callers do, in whatever order: a task is ready to merge    *)
(* only on evidence of every required kind for its exact revision, and     *)
(* another revision takes the readiness and the evidence away at once.     *)
THEOREM ReducerImplementsGate == Spec => ImplementsMergeGate
<1>1. IInv /\ RequiresSomething /\ [Next]_vars => RequiresSomething'
  BY RequirementsKept
<1>2. IInv /\ IInv' /\ RequiresSomething /\ ReadyIsApproved /\ ReadyIsApproved'
        /\ [Next]_vars => [Gate!Next]_(Gate!vars)
  BY StepMoves DEF Gate!vars, GateVars
<1> QED BY <1>1, <1>2, InitIInv, StepKeeps, ReadyMeansApproved, InitMoves, PTL
        DEF Spec, ImplementsMergeGate, Gate!Spec

-----------------------------------------------------------------------------
(***************************************************************************)
(* The effects.                                                            *)
(***************************************************************************)

(* Callers about to call the adapter's apply for the effect.               *)
Applying(e) == {c \in Caller : pc[c] = "apply" /\ On(c) = e}

(* Only finitely many invocations are under way, so they can be counted.   *)
FinitelyMany == IsFiniteSet({c \in Caller : pc[c] \in Working})

(* An effect leaves "reserved" once, by the dispatch that counts.          *)
AttemptsTold ==
  \A e \in Effect : Reserved(e) =>
    ledger[e].attempts = IF ledger[e].status = "reserved" THEN 0 ELSE 1

(* A request on its way is of a dispatched effect, with its identity.      *)
RequestsReserved ==
  \A r \in requests :
    /\ Reserved(r.effect)
    /\ ledger[r.effect].identity = r.identity
    /\ ledger[r.effect].status # "reserved"

(* An invocation works on the effect it reserved, which has left           *)
(* "reserved" once the invocation is past the dispatch; what it waits for  *)
(* is on its way or there, and what it is about to record is there.        *)
CallerKnows(c) ==
  /\ call[c] \in Call
  /\ Reserved(On(c))
  /\ ledger[On(c)].identity = call[c].identity
  /\ pc[c] # "dispatch" => ledger[On(c)].status # "reserved"
  /\ pc[c] = "answer" => call[c] \in requests \/ remote[On(c)] # Void
  /\ pc[c] = "record" => seen[c] # Void /\ seen[c] = remote[On(c)]
CallersKnow == \A c \in Caller : pc[c] \in Working => CallerKnows(c)

EffectIInv ==
  /\ LedgerTruthful
  /\ FinitelyMany /\ AttemptsTold /\ RequestsReserved /\ CallersKnow

-----------------------------------------------------------------------------
(* The callers about to apply can be counted.                              *)
LEMMA ApplyingFinite ==
  ASSUME FinitelyMany, NEW e \in Effect
  PROVE  IsFiniteSet(Applying(e)) /\ Cardinality(Applying(e)) \in Nat
<1>1. Applying(e) \subseteq {c \in Caller : pc[c] \in Working}
  BY DEF Applying, Working
<1> QED BY <1>1, FS_Subset, FS_CardinalityType DEF FinitelyMany

(* ApplyAfterAbsence of one effect, in the terms of the sets above.        *)
AbsencesCover(e) ==
  IF Reserved(e)
    THEN applies[e] + Cardinality(Applying(e))
           + (IF ledger[e].result # Void THEN 1 ELSE 0)
           <= ledger[e].reconciliations
    ELSE applies[e] = 0

LEMMA CountedAbsences ==
  ApplyAfterAbsence <=>
    \A e \in Effect : AbsencesCover(e)
  BY DEF ApplyAfterAbsence, Applying, AbsencesCover

(* The rest of what an invocation knows survives the steps of the others:  *)
(* the ledger only moves on, objects are permanent, and a request goes     *)
(* only by being performed.                                                *)
LEMMA OthersKnow ==
  ASSUME NEW d \in Caller, CallerKnows(d),
         pc'[d] = pc[d], call'[d] = call[d], seen'[d] = seen[d],
         \A e \in Effect : Reserved(e) =>
           /\ Reserved(e)'
           /\ ledger'[e].identity = ledger[e].identity
           /\ ledger[e].status # "reserved" => ledger'[e].status # "reserved",
         \A e \in Effect : remote[e] # Void => remote'[e] = remote[e],
         call[d] \in requests =>
           call[d] \in requests' \/ remote'[On(d)] # Void
  PROVE  CallerKnows(d)'
<1>1. On(d) \in Effect /\ On(d)' = On(d)
  BY DEF CallerKnows, On, Call
<1> QED BY <1>1 DEF CallerKnows, Reserved

(* Invocations that end, or are ended by a crash, leave the rest as it is. *)
LEMMA QuitKeeps ==
  ASSUME EffectIInv,
         pc' \in [Caller -> Working \cup Ended],
         \A c \in Caller : pc'[c] = pc[c] \/ pc'[c] \in Ended,
         crashes' \in Nat,
         UNCHANGED <<ledger, remote, requests, applies, call, seen>>
  PROVE  EffectIInv'
<1> USE DEF EffectIInv, LedgerTruthful
<1>0. \A c \in Caller : pc'[c] \in Working => pc'[c] = pc[c]
  BY DEF Working, Ended, Interrupted
<1>1. EffectTypeOK'
  BY DEF EffectTypeOK
<1>2. ResultIsExternal' /\ DispatchBeforeApply' /\ AttemptsTold' /\ RequestsReserved'
  BY DEF ResultIsExternal, DispatchBeforeApply, AttemptsTold,
     RequestsReserved, Reserved
<1>3. FinitelyMany'
  <2>1. {c \in Caller : pc'[c] \in Working} \subseteq {c \in Caller : pc[c] \in Working}
    BY <1>0
  <2> QED BY <2>1, FS_Subset DEF FinitelyMany
<1>4. ApplyAfterAbsence'
  <2>1. ASSUME NEW e \in Effect
        PROVE  /\ Cardinality(Applying(e)) \in Nat
               /\ Cardinality(Applying(e)') \in Nat
               /\ Cardinality(Applying(e)') <= Cardinality(Applying(e))
    <3>1. Applying(e)' \subseteq Applying(e)
      BY <1>0 DEF Applying, On, Working
    <3> QED BY <3>1, ApplyingFinite, FS_Subset, FS_CardinalityType
  <2>2. \A e \in Effect : Reserved(e) =>
          /\ ledger[e] \in EffectRecord
          /\ applies[e] \in Nat
    BY DEF EffectTypeOK, Reserved
  <2>3. ASSUME NEW e \in Effect PROVE AbsencesCover(e)'
    BY <2>1, <2>2, CountedAbsences DEF EffectRecord, AbsencesCover, Reserved
  <2> QED BY <2>3 DEF ApplyAfterAbsence, Applying, AbsencesCover
<1>5. CallersKnow'
  <2> SUFFICES ASSUME NEW d \in Caller, pc'[d] \in Working
               PROVE  CallerKnows(d)'
    BY DEF CallersKnow
  <2>1. pc'[d] = pc[d] /\ CallerKnows(d)
    BY <1>0 DEF CallersKnow
  <2> QED BY <2>1, OthersKnow DEF Reserved
<1> QED BY <1>1, <1>2, <1>3, <1>4, <1>5

-----------------------------------------------------------------------------
(* A new effect has no request and no object, so nothing is claimed of it. *)
LEMMA ReserveNewKeeps ==
  ASSUME EffectIInv, NEW c \in Caller, NEW e \in Effect, NEW i \in Identity,
         pc[c] = "idle", call' = [call EXCEPT ![c] = [effect |-> e, identity |-> i]],
         ReserveNew(c, e, i), UNCHANGED <<remote, requests, applies, seen, crashes>>
  PROVE  EffectIInv'
<1> DEFINE rec == [identity |-> i, status |-> "reserved", attempts |-> 0,
                   reconciliations |-> 0, result |-> Void]
<1> USE DEF EffectIInv, LedgerTruthful
<1>1. /\ ledger[e] = Void
      /\ ledger' = [ledger EXCEPT ![e] = rec]
      /\ pc' = [pc EXCEPT ![c] = "dispatch"]
  BY DEF ReserveNew, Resume, Goto, Reserved
<1>2. rec \in EffectRecord /\ rec # Void
  BY EffectNoneAssumption DEF EffectRecord, EffectStatus
<1>3. /\ rec.identity = i /\ rec.status = "reserved" /\ rec.attempts = 0
      /\ rec.reconciliations = 0 /\ rec.result = Void
  OBVIOUS
<1> HIDE DEF rec
<1>4. \A d \in Caller : pc[d] \in Working => d # c /\ On(d) # e
  BY <1>1 DEF CallersKnow, CallerKnows, Reserved, Working
<1>5. /\ applies[e] = 0 /\ remote[e] = Void
      /\ \A r \in requests : r.effect # e
  BY <1>1 DEF ApplyAfterAbsence, ResultIsExternal, RequestsReserved, Reserved
<1>6. EffectTypeOK'
  BY <1>1, <1>2 DEF EffectTypeOK, Call, Working
<1>7. ledger'[e] = rec /\ \A f \in Effect : f # e => ledger'[f] = ledger[f]
  BY <1>1 DEF EffectTypeOK
<1>8. ResultIsExternal' /\ AttemptsTold'
  BY <1>2, <1>3, <1>5, <1>7 DEF ResultIsExternal, AttemptsTold, Reserved
<1>9. DispatchBeforeApply' /\ RequestsReserved'
  <2>1. \A r \in requests : r.effect \in Effect
    BY DEF EffectTypeOK, Call
  <2> QED BY <1>5, <1>7, <2>1 DEF DispatchBeforeApply, RequestsReserved,
    Reserved
<1>10. FinitelyMany'
  <2>1. {d \in Caller : pc'[d] \in Working}
          = {d \in Caller : pc[d] \in Working} \cup {c}
    BY <1>1 DEF EffectTypeOK, Working
  <2> QED BY <2>1, FS_AddElement DEF FinitelyMany
<1>11. ApplyAfterAbsence'
  <2>1. ASSUME NEW f \in Effect
        PROVE  Applying(f)' = IF f = e THEN {} ELSE Applying(f)
    BY <1>1, <1>4 DEF Applying, On, EffectTypeOK, Working
  <2>2. ASSUME NEW f \in Effect PROVE AbsencesCover(f)'
    <3>1. CASE f = e
      BY <1>2, <1>3, <1>5, <1>7, <2>1, <3>1, FS_EmptySet DEF Reserved,
         AbsencesCover
    <3>2. CASE f # e
      BY <1>7, <2>1, <3>2, CountedAbsences DEF Reserved, AbsencesCover
    <3> QED BY <3>1, <3>2
  <2> QED BY <2>2 DEF ApplyAfterAbsence, Applying, AbsencesCover
<1>12. CallersKnow'
  <2> SUFFICES ASSUME NEW d \in Caller, pc'[d] \in Working
               PROVE  CallerKnows(d)'
    BY DEF CallersKnow
  <2>1. CASE d = c
    BY <1>1, <1>2, <1>3, <1>7, <2>1 DEF CallerKnows, On, EffectTypeOK, Call, Reserved
  <2>2. CASE d # c
    <3>1. /\ pc'[d] = pc[d] /\ call'[d] = call[d] /\ CallerKnows(d)
      BY <1>1, <2>2 DEF EffectTypeOK, CallersKnow
    <3>2. \A f \in Effect : Reserved(f) => f # e
      BY <1>1 DEF Reserved
    <3> QED BY <1>7, <3>1, <3>2, OthersKnow DEF Reserved
  <2> QED BY <2>1, <2>2
<1> QED BY <1>6, <1>8, <1>9, <1>10, <1>11, <1>12

(* A retry resumes where the ledger stands, if it is for the same identity.*)
LEMMA ReserveAgainKeeps ==
  ASSUME EffectIInv, NEW c \in Caller, NEW e \in Effect, NEW i \in Identity,
         pc[c] = "idle", call' = [call EXCEPT ![c] = [effect |-> e, identity |-> i]],
         ReserveAgain(c, e, i), UNCHANGED <<remote, requests, applies, seen, crashes>>
  PROVE  EffectIInv'
<1> USE DEF EffectIInv, LedgerTruthful
<1>1. PICK label \in {"conflict", "dispatch", "reconcile", "complete", "done"} :
        /\ pc' = [pc EXCEPT ![c] = label]
        /\ label # "conflict" => ledger[e].identity = i
        /\ label \in {"reconcile", "complete"} => ledger[e].status # "reserved"
  <2>1. ledger[e].status \in EffectStatus
    BY DEF ReserveAgain, Reserved, EffectTypeOK, EffectRecord
  <2> QED BY <2>1 DEF ReserveAgain, Goto, Resume, EffectStatus
<1>2. Reserved(e) /\ ledger' = ledger
  BY DEF ReserveAgain
<1>3. EffectTypeOK'
  BY <1>1, <1>2 DEF EffectTypeOK, Call, Working, Ended, Interrupted
<1>4. ResultIsExternal' /\ DispatchBeforeApply' /\ AttemptsTold' /\ RequestsReserved'
  BY <1>2 DEF ResultIsExternal, DispatchBeforeApply, AttemptsTold,
     RequestsReserved, Reserved
<1>5. FinitelyMany'
  <2>1. {d \in Caller : pc'[d] \in Working}
          \subseteq {d \in Caller : pc[d] \in Working} \cup {c}
    BY <1>1 DEF EffectTypeOK
  <2> QED BY <2>1, FS_AddElement, FS_Subset DEF FinitelyMany
<1>6. ApplyAfterAbsence'
  <2>1. ASSUME NEW f \in Effect PROVE Applying(f)' = Applying(f)
    BY <1>1 DEF Applying, On, EffectTypeOK
  <2>2. ASSUME NEW f \in Effect PROVE AbsencesCover(f)'
    BY <1>2, <2>1, CountedAbsences DEF Reserved, AbsencesCover
  <2> QED BY <2>2 DEF ApplyAfterAbsence, Applying, AbsencesCover
<1>7. CallersKnow'
  <2> SUFFICES ASSUME NEW d \in Caller, pc'[d] \in Working
               PROVE  CallerKnows(d)'
    BY DEF CallersKnow
  <2>1. CASE d = c
    <3>1. call'[c] = [effect |-> e, identity |-> i] /\ On(c)' = e
      BY DEF On, EffectTypeOK
    <3>2. pc'[c] \in {"dispatch", "reconcile", "complete"}
            /\ ledger[e].identity = i
            /\ (pc'[c] # "dispatch" => ledger[e].status # "reserved")
      BY <1>1, <2>1 DEF EffectTypeOK, Working
    <3> QED BY <1>2, <2>1, <3>1, <3>2 DEF CallerKnows, Call, Reserved
  <2>2. CASE d # c
    <3>1. /\ pc'[d] = pc[d] /\ call'[d] = call[d] /\ CallerKnows(d)
      BY <1>1, <2>2 DEF EffectTypeOK, CallersKnow
    <3> QED BY <1>2, <3>1, OthersKnow DEF Reserved
  <2> QED BY <2>1, <2>2
<1> QED BY <1>3, <1>4, <1>5, <1>6, <1>7

(* Either way a reservation keeps the invariant.                           *)
LEMMA ReserveKeeps ==
  ASSUME EffectIInv, NEW c \in Caller, NEW e \in Effect, NEW i \in Identity,
         Reserve(c, e, i)
  PROVE  EffectIInv'
  BY ReserveNewKeeps, ReserveAgainKeeps DEF Reserve

-----------------------------------------------------------------------------
(* What the commands that set several fields make of a record.             *)
LEMMA DispatchedRecord ==
  ASSUME NEW r \in EffectRecord
  PROVE  /\ Dispatched(r) \in EffectRecord
         /\ Dispatched(r).identity = r.identity
         /\ Dispatched(r).status = "dispatching"
         /\ Dispatched(r).attempts = r.attempts + 1
         /\ Dispatched(r).reconciliations = r.reconciliations
         /\ Dispatched(r).result = r.result
<1> DEFINE mid == [r EXCEPT !.status = "dispatching"]
<1>1. /\ mid \in EffectRecord
      /\ mid.identity = r.identity /\ mid.status = "dispatching"
      /\ mid.attempts = r.attempts
      /\ mid.reconciliations = r.reconciliations /\ mid.result = r.result
  BY DEF EffectRecord, EffectStatus
<1>2. Dispatched(r) = [mid EXCEPT !.attempts = r.attempts + 1]
  BY DEF Dispatched
<1> HIDE DEF mid
<1> QED BY <1>1, <1>2 DEF EffectRecord

LEMMA AppliedRecord ==
  ASSUME NEW r \in EffectRecord, NEW x \in Identity \cup {Void}
  PROVE  /\ Applied(r, x) \in EffectRecord
         /\ Applied(r, x).identity = r.identity
         /\ Applied(r, x).status = "applied"
         /\ Applied(r, x).attempts = r.attempts
         /\ Applied(r, x).reconciliations = r.reconciliations + 1
         /\ Applied(r, x).result = x
<1> DEFINE one == [r EXCEPT !.status = "applied"]
           two == [one EXCEPT !.reconciliations = r.reconciliations + 1]
<1>1. /\ one \in EffectRecord
      /\ one.identity = r.identity /\ one.status = "applied"
      /\ one.attempts = r.attempts /\ one.reconciliations = r.reconciliations
  BY DEF EffectRecord, EffectStatus
<1>2. Applied(r, x) = [two EXCEPT !.result = x]
  BY DEF Applied
<1> HIDE DEF one
<1>3. /\ two \in EffectRecord
      /\ two.identity = r.identity /\ two.status = "applied"
      /\ two.attempts = r.attempts
      /\ two.reconciliations = r.reconciliations + 1
  BY <1>1 DEF EffectRecord
<1> HIDE DEF two
<1> QED BY <1>2, <1>3 DEF EffectRecord

-----------------------------------------------------------------------------
(* A command that moves the ledger on keeps the invariant if its own       *)
(* effect's record is truthful afterwards.                                 *)
LEMMA MoveKeeps ==
  ASSUME EffectIInv, NEW c \in Caller, pc[c] \in Working,
         NEW e \in Effect, On(c) = e,
         NEW to \in EffectRecord,
         NEW label \in {"reconcile", "apply", "complete", "done"},
         ledger' = [ledger EXCEPT ![e] = to],
         pc' = [pc EXCEPT ![c] = label],
         UNCHANGED <<remote, requests, applies, call, seen, crashes>>,
         to.identity = ledger[e].identity,
         to.status # "reserved", to.attempts = 1,
         IF to.status \in {"applied", "succeeded"}
           THEN to.result = to.identity /\ remote[e] = to.identity
           ELSE to.result = Void,
         applies[e] + Cardinality(Applying(e)')
           + (IF to.result # Void THEN 1 ELSE 0) <= to.reconciliations
  PROVE  EffectIInv'
<1> USE DEF EffectIInv, LedgerTruthful
<1>1. On(c)' = e /\ Reserved(e) /\ CallerKnows(c)
  BY DEF CallersKnow, CallerKnows, On
<1>2. to # Void
  BY EffectNoneAssumption
<1>3. ledger'[e] = to /\ \A f \in Effect : f # e => ledger'[f] = ledger[f]
  BY DEF EffectTypeOK
<1>4. EffectTypeOK'
  BY DEF EffectTypeOK, Working, Ended
<1>5. \A f \in Effect :
        /\ Reserved(f)' <=> Reserved(f)
        /\ Reserved(f) =>
             /\ ledger'[f].identity = ledger[f].identity
             /\ ledger[f].status # "reserved" => ledger'[f].status # "reserved"
  BY <1>1, <1>2, <1>3 DEF Reserved
<1>6. ResultIsExternal'
  BY <1>1, <1>2, <1>3 DEF ResultIsExternal, Reserved
<1>7. AttemptsTold'
  BY <1>3, <1>5 DEF AttemptsTold
<1>8. RequestsReserved' /\ DispatchBeforeApply'
  <2>1. \A r \in requests : r.effect \in Effect
    BY DEF EffectTypeOK, Call
  <2> QED BY <1>3, <1>5, <2>1 DEF RequestsReserved, DispatchBeforeApply
<1>9. FinitelyMany'
  <2>1. {d \in Caller : pc'[d] \in Working} \subseteq {d \in Caller : pc[d] \in Working}
    BY DEF EffectTypeOK
  <2> QED BY <2>1, FS_Subset DEF FinitelyMany
<1>10. ApplyAfterAbsence'
  <2>1. ASSUME NEW f \in Effect, f # e PROVE AbsencesCover(f)'
    <3>1. Applying(f)' = Applying(f)
      BY <2>1 DEF Applying, On, EffectTypeOK
    <3> QED BY <1>3, <1>5, <2>1, <3>1, CountedAbsences DEF AbsencesCover
  <2>2. AbsencesCover(e)'
    BY <1>1, <1>3, <1>5 DEF AbsencesCover
  <2>3. \A f \in Effect : AbsencesCover(f)'
    BY <2>1, <2>2
  <2> QED BY <2>3 DEF ApplyAfterAbsence, Applying, AbsencesCover
<1>11. CallersKnow'
  <2> SUFFICES ASSUME NEW d \in Caller, pc'[d] \in Working
               PROVE  CallerKnows(d)'
    BY DEF CallersKnow
  <2>1. CASE d = c
    <3>1. pc'[c] = label
      BY DEF EffectTypeOK
    <3> QED BY <1>1, <1>2, <1>3, <2>1, <3>1 DEF CallerKnows, Reserved
  <2>2. CASE d # c
    <3>1. pc'[d] = pc[d] /\ CallerKnows(d)
      BY <2>2 DEF EffectTypeOK, CallersKnow
    <3> QED BY <1>5, <3>1, OthersKnow
  <2> QED BY <2>1, <2>2
<1> QED BY <1>4, <1>6, <1>7, <1>8, <1>9, <1>10, <1>11

(* A command the reducer refuses ends its caller.                          *)
LEMMA RefusedKeeps ==
  ASSUME EffectIInv, NEW c \in Caller, pc' = [pc EXCEPT ![c] = "refused"],
         UNCHANGED <<ledger, remote, requests, applies, call, seen, crashes>>
  PROVE  EffectIInv'
<1>1. pc \in [Caller -> Working \cup Ended] /\ crashes \in Nat
  BY DEF EffectIInv, LedgerTruthful, EffectTypeOK
<1>2. /\ pc' \in [Caller -> Working \cup Ended]
      /\ \A d \in Caller : pc'[d] = pc[d] \/ pc'[d] \in Ended
      /\ crashes' \in Nat
  BY <1>1 DEF Ended
<1> QED BY <1>2, QuitKeeps

(* What is known of the effect of an invocation under way.                 *)
LEMMA CallerRecord ==
  ASSUME EffectIInv, NEW c \in Caller, pc[c] \in Working
  PROVE  \E e \in Effect :
           /\ On(c) = e /\ Reserved(e) /\ CallerKnows(c)
           /\ ledger[e] \in EffectRecord
           /\ applies[e] \in Nat
           /\ IsFiniteSet(Applying(e)) /\ Cardinality(Applying(e)) \in Nat
           /\ AbsencesCover(e)
<1>1. CallerKnows(c)
  BY DEF EffectIInv, CallersKnow
<1>2. On(c) \in Effect /\ Reserved(On(c))
  BY <1>1 DEF CallerKnows, On, Call
<1>3. ledger[On(c)] \in EffectRecord /\ applies[On(c)] \in Nat
  BY <1>2 DEF EffectIInv, LedgerTruthful, EffectTypeOK, Reserved
<1>4. IsFiniteSet(Applying(On(c))) /\ Cardinality(Applying(On(c))) \in Nat
  BY <1>2, ApplyingFinite DEF EffectIInv
<1>5. AbsencesCover(On(c))
  BY <1>2, CountedAbsences DEF EffectIInv, LedgerTruthful
<1> QED BY <1>1, <1>2, <1>3, <1>4, <1>5

(* The dispatch is the first attempt.                                      *)
LEMMA DispatchKeeps ==
  ASSUME EffectIInv, NEW c \in Caller, DispatchEffect(c)
  PROVE  EffectIInv'
<1>1. pc[c] = "dispatch" /\ pc[c] \in Working /\ EffectTypeOK
  BY DEF DispatchEffect, Working, EffectIInv, LedgerTruthful
<1>2. PICK e \in Effect :
        /\ On(c) = e /\ Reserved(e) /\ ledger[e] \in EffectRecord
        /\ applies[e] \in Nat /\ Cardinality(Applying(e)) \in Nat
        /\ AbsencesCover(e)
  BY <1>1, CallerRecord
<1> DEFINE to == Dispatched(ledger[e])
<1>3. CASE ledger[e].status # "reserved"
  BY <1>2, <1>3, RefusedKeeps DEF DispatchEffect, Command, Goto
<1>4. CASE ledger[e].status = "reserved"
  <2>1. /\ ledger' = [ledger EXCEPT ![e] = to]
        /\ pc' = [pc EXCEPT ![c] = "reconcile"]
        /\ UNCHANGED <<remote, requests, applies, call, seen, crashes>>
    BY <1>2, <1>4 DEF DispatchEffect, Command, Goto
  <2>2. ledger[e].attempts = 0 /\ ledger[e].result = Void
    BY <1>2, <1>4 DEF EffectIInv, LedgerTruthful, AttemptsTold, ResultIsExternal
  <2>3. /\ to \in EffectRecord
        /\ to.identity = ledger[e].identity /\ to.status = "dispatching"
        /\ to.attempts = ledger[e].attempts + 1 /\ to.result = ledger[e].result
        /\ to.reconciliations = ledger[e].reconciliations
    BY <1>2, DispatchedRecord
  <2> HIDE DEF to
  <2>4. Applying(e)' = Applying(e)
    BY <1>1, <2>1 DEF Applying, On, EffectTypeOK
  <2>5. applies[e] + Cardinality(Applying(e)')
          + (IF to.result # Void THEN 1 ELSE 0) <= to.reconciliations
    BY <1>2, <2>2, <2>3, <2>4 DEF AbsencesCover
  <2>6. to.attempts = 1 /\ to.status # "reserved"
          /\ to.status \notin {"applied", "succeeded"} /\ to.result = Void
    BY <2>2, <2>3
  <2> QED BY <1>1, <1>2, <2>1, <2>3, <2>5, <2>6, MoveKeeps
<1> QED BY <1>3, <1>4

(* A recorded absence pays for the apply it allows.                        *)
LEMMA NoteKeeps ==
  ASSUME EffectIInv, NEW c \in Caller, NoteEffectAbsent(c)
  PROVE  EffectIInv'
<1>1. pc[c] = "note" /\ pc[c] \in Working /\ EffectTypeOK
  BY DEF NoteEffectAbsent, Working, EffectIInv, LedgerTruthful
<1>2. PICK e \in Effect :
        /\ On(c) = e /\ Reserved(e) /\ ledger[e] \in EffectRecord
        /\ applies[e] \in Nat
        /\ IsFiniteSet(Applying(e)) /\ Cardinality(Applying(e)) \in Nat
        /\ AbsencesCover(e)
  BY <1>1, CallerRecord
<1> DEFINE to == Absent(ledger[e])
<1>3. CASE ledger[e].status # "dispatching"
  BY <1>2, <1>3, RefusedKeeps DEF NoteEffectAbsent, Command, Goto
<1>4. CASE ledger[e].status = "dispatching"
  <2>1. /\ ledger' = [ledger EXCEPT ![e] = to]
        /\ pc' = [pc EXCEPT ![c] = "apply"]
        /\ UNCHANGED <<remote, requests, applies, call, seen, crashes>>
    BY <1>2, <1>4 DEF NoteEffectAbsent, Command, Goto
  <2>2. ledger[e].attempts = 1 /\ ledger[e].result = Void
    BY <1>2, <1>4 DEF EffectIInv, LedgerTruthful, AttemptsTold, ResultIsExternal
  <2>3. /\ to \in EffectRecord
        /\ to.identity = ledger[e].identity /\ to.status = "dispatching"
        /\ to.attempts = 1 /\ to.result = Void
        /\ to.reconciliations = ledger[e].reconciliations + 1
    BY <1>2, <1>4, <2>2 DEF Absent, EffectRecord, EffectStatus
  <2> HIDE DEF to
  <2>4. Applying(e)' = Applying(e) \cup {c} /\ c \notin Applying(e)
    BY <1>1, <1>2, <2>1 DEF Applying, On, EffectTypeOK
  <2>5. Cardinality(Applying(e)') = Cardinality(Applying(e)) + 1
    BY <1>2, <2>4, FS_AddElement
  <2>6. applies[e] + Cardinality(Applying(e)')
          + (IF to.result # Void THEN 1 ELSE 0) <= to.reconciliations
    BY <1>2, <2>2, <2>3, <2>5 DEF AbsencesCover, EffectRecord
  <2>7. to.status # "reserved" /\ to.status \notin {"applied", "succeeded"}
    BY <2>3
  <2> QED BY <1>1, <1>2, <2>1, <2>3, <2>6, <2>7, MoveKeeps
<1> QED BY <1>3, <1>4

(* What is recorded is what the caller saw, and that is there.             *)
LEMMA RecordKeeps ==
  ASSUME EffectIInv, NEW c \in Caller, RecordEffectApplied(c)
  PROVE  EffectIInv'
<1>1. pc[c] = "record" /\ pc[c] \in Working /\ EffectTypeOK
  BY DEF RecordEffectApplied, Working, EffectIInv, LedgerTruthful
<1>2. PICK e \in Effect :
        /\ On(c) = e /\ Reserved(e) /\ CallerKnows(c) /\ ledger[e] \in EffectRecord
        /\ applies[e] \in Nat /\ Cardinality(Applying(e)) \in Nat
        /\ AbsencesCover(e)
  BY <1>1, CallerRecord
<1> DEFINE to == Applied(ledger[e], seen[c])
<1>3. CASE ledger[e].status # "dispatching"
  BY <1>2, <1>3, RefusedKeeps DEF RecordEffectApplied, Command, Goto
<1>4. CASE ledger[e].status = "dispatching"
  <2>1. /\ ledger' = [ledger EXCEPT ![e] = to]
        /\ pc' = [pc EXCEPT ![c] = "complete"]
        /\ UNCHANGED <<remote, requests, applies, call, seen, crashes>>
    BY <1>2, <1>4 DEF RecordEffectApplied, Command, Goto
  <2>2. /\ ledger[e].attempts = 1 /\ ledger[e].result = Void
        /\ seen[c] = remote[e] /\ remote[e] = ledger[e].identity
    BY <1>1, <1>2, <1>4
       DEF EffectIInv, LedgerTruthful, AttemptsTold, ResultIsExternal, CallerKnows
  <2>3. /\ to \in EffectRecord
        /\ to.identity = ledger[e].identity /\ to.status = "applied"
        /\ to.attempts = ledger[e].attempts /\ to.result = seen[c]
        /\ to.reconciliations = ledger[e].reconciliations + 1
    <3>1. seen[c] \in Identity \cup {Void}
      BY <1>1 DEF EffectTypeOK
    <3> QED BY <1>2, <3>1, AppliedRecord
  <2> HIDE DEF to
  <2>4. Applying(e)' = Applying(e)
    BY <1>1, <2>1 DEF Applying, On, EffectTypeOK
  <2>5. applies[e] + Cardinality(Applying(e)')
          + (IF to.result # Void THEN 1 ELSE 0) <= to.reconciliations
    BY <1>2, <2>2, <2>3, <2>4 DEF AbsencesCover, EffectRecord
  <2>6. /\ to.status # "reserved" /\ to.status \in {"applied", "succeeded"}
        /\ to.attempts = 1 /\ to.result = to.identity /\ remote[e] = to.identity
    BY <2>2, <2>3
  <2> QED BY <1>1, <1>2, <2>1, <2>3, <2>5, <2>6, MoveKeeps
<1> QED BY <1>3, <1>4

(* Completion changes nothing that was recorded.                           *)
LEMMA CompleteEffectKeeps ==
  ASSUME EffectIInv, NEW c \in Caller, CompleteEffect(c)
  PROVE  EffectIInv'
<1>1. pc[c] = "complete" /\ pc[c] \in Working /\ EffectTypeOK
  BY DEF CompleteEffect, Working, EffectIInv, LedgerTruthful
<1>2. PICK e \in Effect :
        /\ On(c) = e /\ Reserved(e) /\ ledger[e] \in EffectRecord
        /\ applies[e] \in Nat /\ Cardinality(Applying(e)) \in Nat
        /\ AbsencesCover(e)
  BY <1>1, CallerRecord
<1> DEFINE to == Completed(ledger[e])
<1>3. CASE ledger[e].status # "applied"
  BY <1>2, <1>3, RefusedKeeps DEF CompleteEffect, Command, Goto
<1>4. CASE ledger[e].status = "applied"
  <2>1. /\ ledger' = [ledger EXCEPT ![e] = to]
        /\ pc' = [pc EXCEPT ![c] = "done"]
        /\ UNCHANGED <<remote, requests, applies, call, seen, crashes>>
    BY <1>2, <1>4 DEF CompleteEffect, Command, Goto
  <2>2. /\ ledger[e].attempts = 1 /\ ledger[e].result = ledger[e].identity
        /\ remote[e] = ledger[e].identity
    BY <1>2, <1>4 DEF EffectIInv, LedgerTruthful, AttemptsTold, ResultIsExternal
  <2>3. /\ to \in EffectRecord
        /\ to.identity = ledger[e].identity /\ to.status = "succeeded"
        /\ to.attempts = ledger[e].attempts /\ to.result = ledger[e].result
        /\ to.reconciliations = ledger[e].reconciliations
    BY <1>2 DEF Completed, EffectRecord, EffectStatus
  <2> HIDE DEF to
  <2>4. Applying(e)' = Applying(e)
    BY <1>1, <2>1 DEF Applying, On, EffectTypeOK
  <2>5. applies[e] + Cardinality(Applying(e)')
          + (IF to.result # Void THEN 1 ELSE 0) <= to.reconciliations
    BY <1>2, <2>3, <2>4 DEF AbsencesCover, EffectRecord
  <2>6. /\ to.status # "reserved" /\ to.status \in {"applied", "succeeded"}
        /\ to.attempts = 1 /\ to.result = to.identity /\ remote[e] = to.identity
    BY <2>2, <2>3
  <2> QED BY <1>1, <1>2, <2>1, <2>3, <2>5, <2>6, MoveKeeps
<1> QED BY <1>3, <1>4

-----------------------------------------------------------------------------
(* A step of an adapter call moves its caller on, over the same ledger.    *)
LEMMA ReconcileKeeps ==
  ASSUME EffectIInv, NEW c \in Caller, Reconcile(c)
  PROVE  EffectIInv'
<1>1. /\ pc[c] = "reconcile" /\ pc[c] \in Working /\ EffectTypeOK
      /\ seen' = [seen EXCEPT ![c] = remote[On(c)]]
      /\ UNCHANGED <<ledger, remote, requests, applies, call, crashes>>
  BY DEF Reconcile, Working, EffectIInv, LedgerTruthful
<1>2. PICK e \in Effect : On(c) = e /\ CallerKnows(c)
  BY <1>1, CallerRecord
<1>3. PICK label \in {"note", "record"} :
        /\ pc' = [pc EXCEPT ![c] = label]
        /\ label = "record" => remote[e] # Void
  BY <1>2 DEF Reconcile, Goto
<1>4. EffectTypeOK'
  BY <1>1, <1>2, <1>3 DEF EffectTypeOK, Working
<1>5. /\ ResultIsExternal' /\ DispatchBeforeApply'
      /\ AttemptsTold' /\ RequestsReserved'
  BY <1>1 DEF EffectIInv, LedgerTruthful, ResultIsExternal, DispatchBeforeApply,
              AttemptsTold, RequestsReserved, Reserved
<1>6. FinitelyMany'
  <2>1. {d \in Caller : pc'[d] \in Working} = {d \in Caller : pc[d] \in Working}
    BY <1>1, <1>3 DEF EffectTypeOK, Working
  <2> QED BY <2>1 DEF EffectIInv, FinitelyMany
<1>7. ApplyAfterAbsence'
  <2>1. ASSUME NEW f \in Effect PROVE Applying(f)' = Applying(f)
    BY <1>1, <1>3 DEF Applying, On, EffectTypeOK
  <2>2. \A f \in Effect : AbsencesCover(f)'
    BY <1>1, <2>1, CountedAbsences DEF EffectIInv, LedgerTruthful, AbsencesCover,
       Reserved
  <2> QED BY <2>2 DEF ApplyAfterAbsence, Applying, AbsencesCover
<1>8. CallersKnow'
  <2> SUFFICES ASSUME NEW d \in Caller, pc'[d] \in Working
               PROVE  CallerKnows(d)'
    BY DEF CallersKnow
  <2>1. CASE d = c
    <3>1. pc'[c] = label /\ seen'[c] = remote[e] /\ call'[c] = call[c] /\ On(c)' = e
      BY <1>1, <1>2, <1>3 DEF EffectTypeOK, On
    <3> QED BY <1>1, <1>2, <1>3, <2>1, <3>1 DEF CallerKnows, Reserved
  <2>2. CASE d # c
    <3>1. /\ pc'[d] = pc[d] /\ seen'[d] = seen[d] /\ CallerKnows(d)
      BY <1>1, <1>3, <2>2 DEF EffectTypeOK, EffectIInv, CallersKnow
    <3> QED BY <1>1, <3>1, OthersKnow DEF Reserved
  <2> QED BY <2>1, <2>2
<1> QED BY <1>4, <1>5, <1>6, <1>7, <1>8 DEF EffectIInv, LedgerTruthful

LEMMA AnswerKeeps ==
  ASSUME EffectIInv, NEW c \in Caller, Answer(c)
  PROVE  EffectIInv'
<1>1. /\ pc[c] = "answer" /\ pc[c] \in Working /\ EffectTypeOK
      /\ call[c] \notin requests
      /\ seen' = [seen EXCEPT ![c] = remote[On(c)]]
      /\ pc' = [pc EXCEPT ![c] = "record"]
      /\ UNCHANGED <<ledger, remote, requests, applies, call, crashes>>
  BY DEF Answer, Working, EffectIInv, LedgerTruthful, Goto
<1>2. PICK e \in Effect : On(c) = e /\ CallerKnows(c)
  BY <1>1, CallerRecord
<1>3. remote[e] # Void
  BY <1>1, <1>2 DEF CallerKnows
<1>4. EffectTypeOK'
  BY <1>1, <1>2 DEF EffectTypeOK, Working
<1>5. /\ ResultIsExternal' /\ DispatchBeforeApply'
      /\ AttemptsTold' /\ RequestsReserved'
  BY <1>1 DEF EffectIInv, LedgerTruthful, ResultIsExternal, DispatchBeforeApply,
              AttemptsTold, RequestsReserved, Reserved
<1>6. FinitelyMany'
  <2>1. {d \in Caller : pc'[d] \in Working} = {d \in Caller : pc[d] \in Working}
    BY <1>1 DEF EffectTypeOK, Working
  <2> QED BY <2>1 DEF EffectIInv, FinitelyMany
<1>7. ApplyAfterAbsence'
  <2>1. ASSUME NEW f \in Effect PROVE Applying(f)' = Applying(f)
    BY <1>1 DEF Applying, On, EffectTypeOK
  <2>2. \A f \in Effect : AbsencesCover(f)'
    BY <1>1, <2>1, CountedAbsences DEF EffectIInv, LedgerTruthful, AbsencesCover,
       Reserved
  <2> QED BY <2>2 DEF ApplyAfterAbsence, Applying, AbsencesCover
<1>8. CallersKnow'
  <2> SUFFICES ASSUME NEW d \in Caller, pc'[d] \in Working
               PROVE  CallerKnows(d)'
    BY DEF CallersKnow
  <2>1. CASE d = c
    <3>1. pc'[c] = "record" /\ seen'[c] = remote[e] /\ call'[c] = call[c] /\ On(c)' = e
      BY <1>1, <1>2 DEF EffectTypeOK, On
    <3> QED BY <1>1, <1>2, <1>3, <2>1, <3>1 DEF CallerKnows, Reserved
  <2>2. CASE d # c
    <3>1. /\ pc'[d] = pc[d] /\ seen'[d] = seen[d] /\ CallerKnows(d)
      BY <1>1, <2>2 DEF EffectTypeOK, EffectIInv, CallersKnow
    <3> QED BY <1>1, <3>1, OthersKnow DEF Reserved
  <2> QED BY <2>1, <2>2
<1> QED BY <1>4, <1>5, <1>6, <1>7, <1>8 DEF EffectIInv, LedgerTruthful

(* An apply uses up the absence that was recorded for it.                  *)
LEMMA ApplyKeeps ==
  ASSUME EffectIInv, NEW c \in Caller, Apply(c)
  PROVE  EffectIInv'
<1>1. /\ pc[c] = "apply" /\ pc[c] \in Working /\ EffectTypeOK
      /\ requests' = requests \cup {call[c]}
      /\ applies' = [applies EXCEPT ![On(c)] = @ + 1]
      /\ pc' = [pc EXCEPT ![c] = "answer"]
      /\ UNCHANGED <<ledger, remote, call, seen, crashes>>
  BY DEF Apply, Working, EffectIInv, LedgerTruthful, Goto
<1>2. PICK e \in Effect :
        /\ On(c) = e /\ Reserved(e) /\ CallerKnows(c) /\ ledger[e] \in EffectRecord
        /\ applies[e] \in Nat
        /\ IsFiniteSet(Applying(e)) /\ Cardinality(Applying(e)) \in Nat
        /\ AbsencesCover(e)
  BY <1>1, CallerRecord
<1>3. /\ call[c] \in Call /\ call[c].effect = e
      /\ ledger[e].identity = call[c].identity
      /\ ledger[e].status # "reserved" /\ ledger[e].attempts = 1
  BY <1>1, <1>2 DEF CallerKnows, On, EffectIInv, AttemptsTold
<1>4. EffectTypeOK'
  <2>1. applies' \in [Effect -> Nat]
    BY <1>1, <1>2 DEF EffectTypeOK
  <2> QED BY <1>1, <1>3, <2>1 DEF EffectTypeOK, Working
<1>5. ResultIsExternal' /\ AttemptsTold'
  BY <1>1 DEF EffectIInv, LedgerTruthful, ResultIsExternal, AttemptsTold, Reserved
<1>6. RequestsReserved'
  BY <1>1, <1>2, <1>3 DEF EffectIInv, RequestsReserved, Reserved
<1>7. DispatchBeforeApply'
  <2>1. ASSUME NEW f \in Effect, NEW i \in Identity,
               [effect |-> f, identity |-> i] = call[c]
        PROVE  f = e
    BY <1>3, <2>1
  <2> QED BY <1>1, <1>2, <1>3, <2>1 DEF EffectIInv, LedgerTruthful,
    DispatchBeforeApply, Reserved
<1>8. FinitelyMany'
  <2>1. {d \in Caller : pc'[d] \in Working} = {d \in Caller : pc[d] \in Working}
    BY <1>1 DEF EffectTypeOK, Working
  <2> QED BY <2>1 DEF EffectIInv, FinitelyMany
<1>9. ApplyAfterAbsence'
  <2>1. ASSUME NEW f \in Effect, f # e PROVE AbsencesCover(f)'
    <3>1. Applying(f)' = Applying(f)
      BY <1>1, <1>2, <2>1 DEF Applying, On, EffectTypeOK
    <3>2. applies'[f] = applies[f]
      BY <1>1, <1>2, <2>1 DEF EffectTypeOK
    <3> QED BY <1>1, <3>1, <3>2, CountedAbsences
            DEF EffectIInv, LedgerTruthful, AbsencesCover, Reserved
  <2>2. AbsencesCover(e)'
    <3>1. Applying(e)' = Applying(e) \ {c} /\ c \in Applying(e)
      BY <1>1, <1>2 DEF Applying, On, EffectTypeOK
    <3>2. Cardinality(Applying(e)') = Cardinality(Applying(e)) - 1
      <4>1. IsFiniteSet(Applying(e)) /\ c \in Applying(e)
        BY <1>2, <3>1
      <4>2. Cardinality(Applying(e) \ {c}) = Cardinality(Applying(e)) - 1
        BY <4>1, FS_RemoveElement
      <4> QED BY <3>1, <4>2
    <3>3. applies'[e] = applies[e] + 1
      BY <1>1, <1>2 DEF EffectTypeOK
    <3> QED BY <1>1, <1>2, <3>2, <3>3 DEF AbsencesCover, Reserved, EffectRecord
  <2>3. \A f \in Effect : AbsencesCover(f)'
    BY <2>1, <2>2
  <2> QED BY <2>3 DEF ApplyAfterAbsence, Applying, AbsencesCover
<1>10. CallersKnow'
  <2> SUFFICES ASSUME NEW d \in Caller, pc'[d] \in Working
               PROVE  CallerKnows(d)'
    BY DEF CallersKnow
  <2>1. CASE d = c
    <3>1. pc'[c] = "answer" /\ call'[c] = call[c] /\ On(c)' = e
      BY <1>1, <1>2 DEF EffectTypeOK, On
    <3> QED BY <1>1, <1>2, <1>3, <2>1, <3>1 DEF CallerKnows, Reserved
  <2>2. CASE d # c
    <3>1. pc'[d] = pc[d] /\ CallerKnows(d)
      BY <1>1, <2>2 DEF EffectTypeOK, EffectIInv, CallersKnow
    <3> QED BY <1>1, <3>1, OthersKnow DEF Reserved
  <2> QED BY <2>1, <2>2
<1> QED BY <1>4, <1>5, <1>6, <1>7, <1>8, <1>9, <1>10 DEF EffectIInv, LedgerTruthful

(* The remote system creates the object its ledger entry was reserved for. *)
LEMMA PerformKeeps ==
  ASSUME EffectIInv, NEW r \in requests, Perform(r)
  PROVE  EffectIInv'
<1> DEFINE e == r.effect
<1>1. /\ EffectTypeOK
      /\ requests' = requests \ {r}
      /\ remote' = [remote EXCEPT ![e] = IF @ = Void THEN r.identity ELSE @]
      /\ UNCHANGED <<ledger, applies, pc, call, seen, crashes>>
  BY DEF Perform, EffectIInv, LedgerTruthful
<1>2. /\ e \in Effect /\ r.identity \in Identity /\ Reserved(e)
      /\ ledger[e].identity = r.identity /\ ledger[e].status # "reserved"
      /\ ledger[e].attempts = 1
  BY <1>1 DEF EffectTypeOK, Call, EffectIInv, RequestsReserved, AttemptsTold
<1> HIDE DEF e
<1>3. /\ remote'[e] = ledger[e].identity
      /\ \A f \in Effect : f # e => remote'[f] = remote[f]
      /\ \A f \in Effect : remote[f] # Void => remote'[f] = remote[f]
  BY <1>1, <1>2 DEF EffectTypeOK, EffectIInv, LedgerTruthful, ResultIsExternal
<1>4. EffectTypeOK'
  BY <1>1, <1>2 DEF EffectTypeOK
<1>5. ResultIsExternal'
  BY <1>1, <1>2, <1>3 DEF EffectIInv, LedgerTruthful, ResultIsExternal, Reserved
<1>6. AttemptsTold' /\ RequestsReserved'
  BY <1>1 DEF EffectIInv, AttemptsTold, RequestsReserved, Reserved
<1>7. DispatchBeforeApply'
  BY <1>1, <1>2, <1>3 DEF EffectIInv, LedgerTruthful, DispatchBeforeApply, Reserved
<1>8. FinitelyMany' /\ ApplyAfterAbsence'
  BY <1>1 DEF EffectIInv, LedgerTruthful, FinitelyMany, ApplyAfterAbsence, On,
     Reserved
<1>9. CallersKnow'
  <2> SUFFICES ASSUME NEW d \in Caller, pc'[d] \in Working
               PROVE  CallerKnows(d)'
    BY DEF CallersKnow
  <2>1. CallerKnows(d)
    BY <1>1 DEF EffectIInv, CallersKnow
  <2>2. call[d] = r => remote'[On(d)] # Void
    BY <1>2, <1>3, EffectNoneAssumption DEF On, e
  <2> QED BY <1>1, <1>3, <2>1, <2>2, OthersKnow DEF Reserved
<1> QED BY <1>4, <1>5, <1>6, <1>7, <1>8, <1>9 DEF EffectIInv, LedgerTruthful

-----------------------------------------------------------------------------
(* An empty ledger claims nothing.                                         *)
LEMMA InitEffectIInv == EffectInit => EffectIInv
<1> SUFFICES ASSUME EffectInit PROVE EffectIInv
  OBVIOUS
<1>1. EffectTypeOK
  BY DEF EffectInit, EffectTypeOK, Ended
<1>2. ResultIsExternal /\ DispatchBeforeApply /\ AttemptsTold /\ RequestsReserved
  BY DEF EffectInit, ResultIsExternal, DispatchBeforeApply, AttemptsTold,
         RequestsReserved, Reserved
<1>3. ApplyAfterAbsence
  BY DEF EffectInit, ApplyAfterAbsence, Reserved
<1>4. FinitelyMany
  <2>1. {c \in Caller : pc[c] \in Working} = {}
    BY DEF EffectInit, Working
  <2> QED BY <2>1, FS_EmptySet DEF FinitelyMany
<1>5. CallersKnow
  BY DEF EffectInit, CallersKnow, Working
<1> QED BY <1>1, <1>2, <1>3, <1>4, <1>5 DEF EffectIInv, LedgerTruthful

(* The invariant is inductive: one lemma per step.                         *)
LEMMA EffectStepKeeps == EffectIInv /\ [EffectNext]_effectVars => EffectIInv'
<1> SUFFICES ASSUME EffectIInv, [EffectNext]_effectVars PROVE EffectIInv'
  OBVIOUS
<1>1. /\ pc \in [Caller -> Working \cup Ended] /\ crashes \in Nat
  BY DEF EffectIInv, LedgerTruthful, EffectTypeOK
<1>2. CASE UNCHANGED effectVars
  <2>1. /\ pc' = pc /\ crashes' = crashes
        /\ UNCHANGED <<ledger, remote, requests, applies, call, seen>>
    BY <1>2 DEF effectVars
  <2> QED BY <1>1, <2>1, QuitKeeps
<1>3. CASE Crash
  <2>1. /\ pc' \in [Caller -> Working \cup Ended]
        /\ \A c \in Caller : pc'[c] = pc[c] \/ pc'[c] \in Ended
        /\ crashes' \in Nat
        /\ UNCHANGED <<ledger, remote, requests, applies, call, seen>>
    BY <1>1, <1>3 DEF Crash, Ended, Interrupted
  <2> QED BY <2>1, QuitKeeps
<1>4. ASSUME NEW c \in Caller, AdapterFails(c) PROVE EffectIInv'
  <2>1. /\ pc' \in [Caller -> Working \cup Ended]
        /\ \A d \in Caller : pc'[d] = pc[d] \/ pc'[d] \in Ended
        /\ crashes' \in Nat
        /\ UNCHANGED <<ledger, remote, requests, applies, call, seen>>
    BY <1>1, <1>4 DEF AdapterFails, Goto, Ended, Interrupted
  <2> QED BY <2>1, QuitKeeps
<1>5. ASSUME NEW c \in Caller, Advance(c) PROVE EffectIInv'
  BY <1>5, DispatchKeeps, ReconcileKeeps, NoteKeeps, ApplyKeeps, AnswerKeeps,
     RecordKeeps, CompleteEffectKeeps DEF Advance
<1> QED BY <1>2, <1>3, <1>4, <1>5, ReserveKeeps, PerformKeeps DEF EffectNext

(* Whatever overlaps, fails or crashes: the ledger claims an outcome only  *)
(* when the object is there, made from the reserved identity; nothing is   *)
(* applied without an absence recorded for it; and nothing has left the    *)
(* broker before the dispatch was recorded.                                *)
THEOREM LedgerStaysTruthful == EffectSpec => []LedgerTruthful
<1>1. EffectIInv => LedgerTruthful
  BY DEF EffectIInv
<1> QED BY InitEffectIInv, EffectStepKeeps, <1>1, PTL DEF EffectSpec
=============================================================================
