----------------------------- MODULE TaskDomain -----------------------------
(***************************************************************************)
(* The durable task reducer, src/src/task-domain.mjs.                      *)
(*                                                                         *)
(* One action per command of reduceTaskCommand that concerns revisions,    *)
(* evidence, leases and approvals; the commands on external effects are    *)
(* in TaskEffects.  DurableTaskStore.transact reads the state file, runs   *)
(* the reducer and writes the next state atomically, one command at a      *)
(* time, so a command is one atomic step and a crash between two commands  *)
(* loses nothing.                                                          *)
(*                                                                         *)
(* reduceTaskCommand ends with validateTaskState(next), which throws when  *)
(* an entity or a cross-reference is wrong.  The actions below leave that  *)
(* guard out on purpose: what it tests is stated here as invariants, and   *)
(* proving them shows that no command of any caller ever trips it.         *)
(*                                                                         *)
(* A conversation is created with its single task and never changes, so    *)
(* it is folded into the task.  A timestamp matters only as the command's  *)
(* "at" compared with a lease's expiresAt; a payload only by its digest.   *)
(***************************************************************************)
EXTENDS Integers, Sequences, FiniteSets

CONSTANTS
  Task, Runner, Artifact, Activity, Lease, Approval,  \* identities
  BaseSha, HeadSha,                                         \* base and head SHAs
  Digest,                                             \* digests of evidence
  Token,                     \* fencing tokens a caller may present
  Time,                      \* command times; the clock may run backwards
  None                       \* the code's null

ASSUME NoneAssumption ==
  /\ None \notin BaseSha \cup HeadSha \cup Digest \cup Artifact
  /\ None \notin [base : BaseSha, head : HeadSha, digest : Digest]
ASSUME TimeAssumption == Time \subseteq Int
ASSUME TokenAssumption == Token \subseteq Nat \ {0}

VARIABLES tasks, runners, artifacts, activities, leases, approvals
vars == <<tasks, runners, artifacts, activities, leases, approvals>>

EvidenceKind == {"review", "verification"}
Capability == {"verification", "implementation"}
ActivityStatus == {"leased", "succeeded", "failed", "stale"}
LeaseStatus == {"active", "completed", "expired", "reassigned", "stale"}
TaskStatus == {"awaiting_implementation", "waiting_verification",
               "waiting_evidence", "waiting_approval", "ready_to_merge"}

TaskRecord ==
  [required : SUBSET EvidenceKind, status : TaskStatus,
   artifactIds : Seq(Artifact), current : Artifact \cup {None},
   base : BaseSha \cup {None}, head : HeadSha \cup {None},
   activityIds : SUBSET Activity, approvalIds : SUBSET Approval]
ArtifactRecord ==
  [task : Task, base : BaseSha, head : HeadSha, revision : Nat,
   supersedes : Artifact \cup {None}]
Evidence == [base : BaseSha, head : HeadSha, digest : Digest]
ActivityRecord ==
  [task : Task, kind : EvidenceKind, base : BaseSha, head : HeadSha,
   status : ActivityStatus, leaseIds : Seq(Lease), token : Nat,
   evidence : Evidence \cup {None}]
LeaseRecord ==
  [activity : Activity, task : Task, runner : Runner, base : BaseSha,
   head : HeadSha, token : Nat, status : LeaseStatus, expiresAt : Time]
Binding == [activity : Activity, kind : EvidenceKind, digest : Digest]
ApprovalRecord ==
  [task : Task, base : BaseSha, head : HeadSha, bindings : SUBSET Binding,
   status : {"current", "stale"}]

-----------------------------------------------------------------------------
(* Collections are keyed by identity; Put adds or replaces one entity.     *)
Put(f, k, v) == [x \in DOMAIN f \cup {k} |-> IF x = k THEN v ELSE f[x]]
Store(f, S, R) == DOMAIN f \subseteq S /\ f \in [DOMAIN f -> R]
Nothing == [x \in {} |-> None]

SameRevision(x, y) == x.base = y.base /\ x.head = y.head

(* Successful activities of one kind for the task's current revision.      *)
EvidenceForCurrentRevision(acts, t, task, kind) ==
  {a \in DOMAIN acts :
     /\ acts[a].task = t
     /\ acts[a].kind = kind
     /\ acts[a].status = "succeeded"
     /\ SameRevision(acts[a], task)}

(* A mutant: an approval of another task.                                  *)
ApprovedByAnyTask(t, task, apps) ==
  \E p \in DOMAIN apps : apps[p].status = "current"

(* A current approval of the task's current revision.                      *)
Approved(t, task, apps) ==
  \E p \in DOMAIN apps : /\ apps[p].task = t
                         /\ apps[p].status = "current"
                         /\ SameRevision(apps[p], task)

MissingKinds(t, task, acts) ==
  {k \in task.required : EvidenceForCurrentRevision(acts, t, task, k) = {}}

DeriveTaskStatus(t, task, acts, apps) ==
  IF task.head = None THEN "awaiting_implementation"
  ELSE IF Approved(t, task, apps) THEN "ready_to_merge"
  ELSE IF MissingKinds(t, task, acts) = {} THEN "waiting_approval"
  ELSE IF "verification" \in MissingKinds(t, task, acts)
    THEN "waiting_verification"
  ELSE "waiting_evidence"

ActiveLeases(a, acts, ls) ==
  {l \in DOMAIN ls : /\ ls[l].status = "active"
                     /\ \E i \in DOMAIN acts[a].leaseIds :
                          acts[a].leaseIds[i] = l}

-----------------------------------------------------------------------------
Init ==
  /\ tasks = Nothing /\ runners = Nothing /\ artifacts = Nothing
  /\ activities = Nothing /\ leases = Nothing /\ approvals = Nothing

CreateConversationAndTask(t, required) ==
  /\ t \notin DOMAIN tasks
  /\ required # {}
  /\ tasks' = Put(tasks, t,
       [required |-> required, status |-> "awaiting_implementation",
        artifactIds |-> <<>>, current |-> None, base |-> None, head |-> None,
        activityIds |-> {}, approvalIds |-> {}])
  /\ UNCHANGED <<runners, artifacts, activities, leases, approvals>>

RegisterRunner(r, capabilities) ==
  /\ r \notin DOMAIN runners
  /\ capabilities # {}
  /\ runners' = Put(runners, r, capabilities)
  /\ UNCHANGED <<tasks, artifacts, activities, leases, approvals>>

(* The revision number of an artifact that supersedes previous.            *)
RevisionAfter(previous) ==
  IF previous = None THEN 1 ELSE artifacts[previous].revision + 1

(* A new revision stales the task's evidence, its active leases and its    *)
(* approvals in the same command; republishing the same revision does not. *)
Invalidated(t, b, h) ==
  {a \in DOMAIN activities :
     /\ activities[a].task = t
     /\ activities[a].kind \in EvidenceKind
     /\ activities[a].status # "stale"
     /\ activities[a].base # b \/ activities[a].head # h}

PublishPullRequest(t, x, b, h) ==
  /\ x \notin DOMAIN artifacts
  /\ t \in DOMAIN tasks
  /\ LET previous == tasks[t].current
         changed == /\ previous # None
                    /\ \/ artifacts[previous].base # b
                       \/ artifacts[previous].head # h
         staleActs == IF changed THEN Invalidated(t, b, h) ELSE {}
         staleApps == {p \in DOMAIN approvals :
                         /\ changed
                         /\ approvals[p].task = t
                         /\ approvals[p].status = "current"
                         /\ approvals[p].base # b \/ approvals[p].head # h}
         revised == [tasks[t] EXCEPT !.artifactIds = Append(@, x),
                                     !.current = x, !.base = b, !.head = h]
     IN /\ activities' = [a \in DOMAIN activities |->
             IF a \in staleActs THEN [activities[a] EXCEPT !.status = "stale"]
                                ELSE activities[a]]
        /\ leases' = [l \in DOMAIN leases |->
             IF leases[l].activity \in staleActs /\ leases[l].status = "active"
               THEN [leases[l] EXCEPT !.status = "stale"] ELSE leases[l]]
        /\ approvals' = [p \in DOMAIN approvals |->
             IF p \in staleApps THEN [approvals[p] EXCEPT !.status = "stale"]
                                ELSE approvals[p]]
        /\ artifacts' = Put(artifacts, x,
             [task |-> t, base |-> b, head |-> h,
              revision |-> RevisionAfter(previous), supersedes |-> previous])
        /\ tasks' = [tasks EXCEPT ![t] =
             [revised EXCEPT !.status =
                DeriveTaskStatus(t, revised, activities', approvals')]]
  /\ UNCHANGED runners

(* An activity of that identity may be leased again unless it is stale or  *)
(* has succeeded; the code compares its head, and not its base, with the   *)
(* task's.                                                                 *)
(* The mutants drop one of the tests each.                                 *)
LeasableStale(a, t) ==
  a \in DOMAIN activities =>
    /\ activities[a].task = t
    /\ activities[a].kind = "verification"
    /\ activities[a].head = tasks[t].head
    /\ activities[a].status # "succeeded"
LeasableForeign(a, t) ==
  a \in DOMAIN activities =>
    /\ activities[a].kind = "verification"
    /\ activities[a].head = tasks[t].head
    /\ activities[a].status \notin {"stale", "succeeded"}
Leasable(a, t) ==
  a \in DOMAIN activities =>
    /\ activities[a].task = t
    /\ activities[a].kind = "verification"
    /\ activities[a].head = tasks[t].head
    /\ activities[a].status \notin {"stale", "succeeded"}

(* The activity as it is stored, or as this command first creates it.      *)
LeasedActivity(a, t) ==
  IF a \in DOMAIN activities THEN activities[a]
  ELSE [task |-> t, kind |-> "verification", base |-> tasks[t].base,
        head |-> tasks[t].head, status |-> "leased", leaseIds |-> <<>>,
        token |-> 0, evidence |-> None]

(* The active leases that a new one ends.                                  *)
HeldLeases(a) ==
  IF a \in DOMAIN activities THEN ActiveLeases(a, activities, leases) ELSE {}

LeaseVerification(t, a, l, r, at, expiresAt, reassign) ==
  /\ expiresAt > at
  /\ t \in DOMAIN tasks
  /\ r \in DOMAIN runners
  /\ "verification" \in runners[r]
  /\ l \notin DOMAIN leases
  /\ tasks[t].head # None
  /\ Leasable(a, t)
  /\ \A old \in HeldLeases(a) : leases[old].expiresAt <= at \/ reassign
  /\ LET activity == LeasedActivity(a, t)
         held == HeldLeases(a)
         ended == [m \in DOMAIN leases |->
                     IF m \in held
                       THEN [leases[m] EXCEPT !.status =
                               IF leases[m].expiresAt <= at THEN "expired"
                                                            ELSE "reassigned"]
                       ELSE leases[m]]
     IN /\ leases' = Put(ended, l,
             [activity |-> a, task |-> t, runner |-> r,
              base |-> tasks[t].base, head |-> tasks[t].head,
              token |-> activity.token + 1, status |-> "active",
              expiresAt |-> expiresAt])
        /\ activities' = Put(activities, a,
             [activity EXCEPT !.token = @ + 1, !.leaseIds = Append(@, l),
                              !.evidence = None, !.status = "leased"])
        /\ tasks' = [tasks EXCEPT ![t].activityIds = @ \cup {a}]
  /\ UNCHANGED <<runners, artifacts, approvals>>

(* The caller presents a lease, its own identity and the token it was      *)
(* given; a worker that lost its lease presents what it still remembers.   *)
CompleteVerification(l, r, token, at, digest, success) ==
  /\ l \in DOMAIN leases
  /\ leases[l].activity \in DOMAIN activities
  /\ leases[l].task \in DOMAIN tasks
  /\ LET a == leases[l].activity
         t == leases[l].task
         done == [activities EXCEPT ![a].status =
                    IF success THEN "succeeded" ELSE "failed",
                  ![a].evidence = [base |-> tasks[t].base,
                                   head |-> tasks[t].head,
                                   digest |-> digest]]
     IN /\ leases[l].status = "active"
        /\ leases[l].runner = r
        /\ leases[l].token = token
        /\ activities[a].token = token
        /\ leases[l].expiresAt > at
        /\ SameRevision(leases[l], tasks[t])
        /\ SameRevision(activities[a], tasks[t])
        /\ leases' = [leases EXCEPT ![l].status = "completed"]
        /\ activities' = done
        /\ tasks' = [tasks EXCEPT ![t].status =
             DeriveTaskStatus(t, tasks[t], done, approvals)]
  /\ UNCHANGED <<runners, artifacts, approvals>>

RecordReview(t, a, b, h, digest, accepted) ==
  /\ a \notin DOMAIN activities
  /\ t \in DOMAIN tasks
  /\ b = tasks[t].base /\ h = tasks[t].head
  /\ activities' = Put(activities, a,
       [task |-> t, kind |-> "review", base |-> b, head |-> h,
        status |-> IF accepted THEN "succeeded" ELSE "failed",
        leaseIds |-> <<>>, token |-> 0,
        evidence |-> [base |-> b, head |-> h, digest |-> digest]])
  /\ tasks' = [tasks EXCEPT
       ![t].activityIds = @ \cup {a},
       ![t].status = DeriveTaskStatus(t, tasks[t], activities', approvals)]
  /\ UNCHANGED <<runners, artifacts, leases, approvals>>

GrantApproval(t, p, b, h, evidence) ==
  /\ p \notin DOMAIN approvals
  /\ t \in DOMAIN tasks
  /\ b = tasks[t].base /\ h = tasks[t].head
  /\ evidence \subseteq DOMAIN activities
  /\ \A a \in evidence : /\ activities[a].task = t
                         /\ activities[a].status = "succeeded"
                         /\ activities[a].base = b /\ activities[a].head = h
                         /\ activities[a].evidence # None
  /\ \A k \in tasks[t].required : \E a \in evidence : activities[a].kind = k
  /\ approvals' = Put(approvals, p,
       [task |-> t, base |-> b, head |-> h, status |-> "current",
        bindings |-> {[activity |-> a, kind |-> activities[a].kind,
                       digest |-> activities[a].evidence.digest] :
                        a \in evidence}])
  /\ tasks' = [tasks EXCEPT ![t].approvalIds = @ \cup {p},
                            ![t].status = "ready_to_merge"]
  /\ UNCHANGED <<runners, artifacts, activities, leases>>

Next ==
  \/ \E t \in Task, required \in SUBSET EvidenceKind :
       CreateConversationAndTask(t, required)
  \/ \E r \in Runner, capabilities \in SUBSET Capability :
       RegisterRunner(r, capabilities)
  \/ \E t \in Task, x \in Artifact, b \in BaseSha, h \in HeadSha :
       PublishPullRequest(t, x, b, h)
  \/ \E t \in Task, a \in Activity, l \in Lease, r \in Runner,
        at \in Time, expiresAt \in Time, reassign \in BOOLEAN :
       LeaseVerification(t, a, l, r, at, expiresAt, reassign)
  \/ \E l \in Lease, r \in Runner, token \in Token, at \in Time,
        digest \in Digest, success \in BOOLEAN :
       CompleteVerification(l, r, token, at, digest, success)
  \/ \E t \in Task, a \in Activity, b \in BaseSha, h \in HeadSha,
        digest \in Digest, accepted \in BOOLEAN :
       RecordReview(t, a, b, h, digest, accepted)
  \/ \E t \in Task, p \in Approval, b \in BaseSha, h \in HeadSha,
        evidence \in SUBSET Activity :
       GrantApproval(t, p, b, h, evidence)

Spec == Init /\ [][Next]_vars

-----------------------------------------------------------------------------
(* Every collection holds well-formed entities (the per-entity clauses of  *)
(* validateTaskState).                                                     *)
TypeOK ==
  /\ Store(tasks, Task, TaskRecord)
  /\ Store(runners, Runner, SUBSET Capability)
  /\ Store(artifacts, Artifact, ArtifactRecord)
  /\ Store(activities, Activity, ActivityRecord)
  /\ Store(leases, Lease, LeaseRecord)
  /\ Store(approvals, Approval, ApprovalRecord)

(* No dangling or foreign reference: what a task indexes is its own and    *)
(* its index is complete, whatever command ran.                            *)
References ==
  /\ \A t \in DOMAIN tasks :
       /\ tasks[t].activityIds =
            {a \in DOMAIN activities : activities[a].task = t}
       /\ tasks[t].approvalIds =
            {p \in DOMAIN approvals : approvals[p].task = t}
  /\ \A a \in DOMAIN activities : activities[a].task \in DOMAIN tasks
  /\ \A p \in DOMAIN approvals : approvals[p].task \in DOMAIN tasks
  /\ \A l \in DOMAIN leases :
       /\ leases[l].activity \in DOMAIN activities
       /\ leases[l].task = activities[leases[l].activity].task
       /\ \E i \in DOMAIN activities[leases[l].activity].leaseIds :
            activities[leases[l].activity].leaseIds[i] = l
       /\ leases[l].runner \in DOMAIN runners
       /\ "verification" \in runners[leases[l].runner]

(* The artifacts of a task are a chain of revisions 1, 2, ... each naming  *)
(* the one it supersedes, and the task's revision is the last one's.       *)
ChainOf(t) ==
  LET ids == tasks[t].artifactIds IN
  /\ \A i \in DOMAIN ids :
       /\ ids[i] \in DOMAIN artifacts
       /\ artifacts[ids[i]].task = t
       /\ artifacts[ids[i]].revision = i
       /\ artifacts[ids[i]].supersedes = IF i = 1 THEN None ELSE ids[i - 1]
  /\ IF tasks[t].current = None
       THEN ids = <<>> /\ tasks[t].base = None /\ tasks[t].head = None
       ELSE /\ ids # <<>> /\ ids[Len(ids)] = tasks[t].current
            /\ SameRevision(artifacts[tasks[t].current], tasks[t])

ArtifactChain == \A t \in DOMAIN tasks : ChainOf(t)

(* Evidence never outlives the revision it was made for: whatever is not   *)
(* marked stale is about the task's exact current base and head.           *)
EvidenceIsCurrent ==
  /\ \A a \in DOMAIN activities :
       activities[a].status # "stale" =>
         SameRevision(activities[a], tasks[activities[a].task])
  /\ \A p \in DOMAIN approvals :
       approvals[p].status = "current" =>
         SameRevision(approvals[p], tasks[approvals[p].task])

(* Fencing: the leases of an activity carry the tokens 1, 2, ..., only the *)
(* last may be active, and it is active exactly while the activity is      *)
(* leased, so a worker that lost its lease holds a lower token.            *)
FencedLeases(a) ==
  LET ids == activities[a].leaseIds IN
  /\ activities[a].token = Len(ids)
  /\ \A i \in DOMAIN ids :
       /\ ids[i] \in DOMAIN leases
       /\ leases[ids[i]].activity = a
       /\ SameRevision(leases[ids[i]], activities[a])
       /\ leases[ids[i]].token = i
       /\ leases[ids[i]].status = "active" => i = Len(ids)
  /\ activities[a].status = "leased" <=>
       (ids # <<>> /\ leases[ids[Len(ids)]].status = "active")

Fencing == \A a \in DOMAIN activities : FencedLeases(a)

(* Recorded evidence is exactly the outcome of the activity's final fenced *)
(* lease; an activity leased again after a failure has none.               *)
ProvenanceOf(a) ==
  LET act == activities[a]
      final == act.leaseIds[Len(act.leaseIds)]
  IN /\ act.status \in {"succeeded", "failed"} => act.evidence # None
     /\ act.status = "leased" => act.evidence = None
     /\ act.evidence # None => SameRevision(act.evidence, act)
     /\ act.kind = "review" => act.leaseIds = <<>> /\ act.evidence # None
     /\ act.kind = "verification" =>
          /\ act.leaseIds # <<>>
          /\ act.evidence # None => leases[final].status = "completed"
          /\ act.status = "stale" /\ act.evidence = None =>
               leases[final].status = "stale"

Provenance == \A a \in DOMAIN activities : ProvenanceOf(a)

(* An approval, even a stale one, still names the evidence it was granted  *)
(* on; a current one covers every kind of evidence the task requires with  *)
(* activities that are successful now.                                     *)
BoundEvidence(p, e) ==
  /\ e.activity \in DOMAIN activities
  /\ activities[e.activity].task = approvals[p].task
  /\ activities[e.activity].kind = e.kind
  /\ activities[e.activity].evidence # None
  /\ activities[e.activity].evidence.digest = e.digest
  /\ SameRevision(activities[e.activity], approvals[p])
  /\ activities[e.activity].status \in
       IF approvals[p].status = "current" THEN {"succeeded"}
                                          ELSE {"succeeded", "stale"}

ApprovalBacked ==
  \A p \in DOMAIN approvals :
    /\ \A e \in approvals[p].bindings : BoundEvidence(p, e)
    /\ approvals[p].status = "current" =>
         \A k \in tasks[approvals[p].task].required :
           \E e \in approvals[p].bindings : e.kind = k

(* The stored status of a task always is what its evidence says, though    *)
(* leasing never recomputes it and an approval writes it directly.         *)
StatusIsDerived ==
  \A t \in DOMAIN tasks :
    tasks[t].status = DeriveTaskStatus(t, tasks[t], activities, approvals)

(* The cross-entity clauses of validateTaskState, which the store runs     *)
(* when it reads the file back: no command leaves a state that it refuses. *)
StoredStateValid ==
  /\ References
  /\ ArtifactChain
  /\ EvidenceIsCurrent
  /\ Fencing
  /\ Provenance
  /\ ApprovalBacked
  /\ StatusIsDerived

-----------------------------------------------------------------------------
(* What a command may do to entities that have ended.                      *)
Frozen ==
  /\ \A a \in DOMAIN activities :
       activities[a].status \in {"stale", "succeeded"} =>
         /\ a \in DOMAIN activities'
         /\ activities'[a].evidence = activities[a].evidence
         /\ activities'[a].leaseIds = activities[a].leaseIds
         /\ activities'[a].status \in {"stale", activities[a].status}
  /\ \A l \in DOMAIN leases :
       leases[l].status # "active" =>
         /\ l \in DOMAIN leases'
         /\ leases'[l] = leases[l]
  /\ \A p \in DOMAIN approvals :
       /\ p \in DOMAIN approvals'
       /\ approvals[p].status = "stale" => approvals'[p] = approvals[p]

(* Evidence that has been superseded, or on which an approval may rest,    *)
(* never changes afterwards; a lease that ended never becomes active       *)
(* again, and a stale approval stays as it is.                             *)
NothingRevives == [][Frozen]_vars

(* The promise to whoever merges: the refinement mapping to MergeGate.     *)
Created(t) == t \in DOMAIN tasks
GateProven(t) ==
  {k \in EvidenceKind :
     EvidenceForCurrentRevision(activities, t, tasks[t], k) # {}}

GateRequired ==
  [t \in Task |-> IF Created(t) THEN tasks[t].required ELSE {}]
GateRevision ==
  [t \in Task |-> IF Created(t) THEN <<tasks[t].base, tasks[t].head>>
                               ELSE <<None, None>>]
GateEvidence == [t \in Task |-> IF Created(t) THEN GateProven(t) ELSE {}]
GateOpen == {t \in Task : Created(t) /\ tasks[t].status = "ready_to_merge"}

Gate == INSTANCE MergeGate WITH
  Kind <- EvidenceKind,
  Revision <- BaseSha \X HeadSha,
  NoRevision <- <<None, None>>,
  required <- GateRequired,
  revision <- GateRevision,
  proven <- GateEvidence,
  open <- GateOpen

(* A task is ready to merge only on evidence of every required kind for    *)
(* its exact current revision, and publishing another revision takes the   *)
(* readiness and the evidence away in the same command.                    *)
ImplementsMergeGate == Gate!Spec
=============================================================================
