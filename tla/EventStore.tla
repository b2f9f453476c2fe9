----------------------------- MODULE EventStore -----------------------------
(* The broker's durable store, src/store.mjs: a ledger of events, a state   *)
(* file, a checkpoint with its manifest, and the bodies of results.  Calls  *)
(* run one at a time (#tail), but each is many file operations: a crash or  *)
(* a failure may come between any two.                                      *)
(*                                                                          *)
(* A workflow stands for any stored entity.  Every body is one unit of the  *)
(* blob limit; bindings, model policies and attachment evidence are stored  *)
(* by the same append and are left out here.                                *)
EXTENDS Integers, Sequences, FiniteSets, SequencesExt, TLC

CONSTANTS
  Workflow,     \* identities of browser exchanges
  KeyOf,        \* [Workflow -> operation keys]
  BodyOf,       \* [Workflow -> digests of bodies]
  ChildOf,      \* [Workflow -> the exchange a convergence reviews with, or None]
  None,         \* no value
  MaxTerminal,  \* maxTerminalWorkflows
  MaxRecovery,  \* maxRecoveryWorkflows
  MaxEvents,    \* maxEvents: appends between two compactions
  Worlds        \* each behaviour has one: a limit of its store, and bounds

Digest == {BodyOf[w] : w \in Workflow}
Key == {KeyOf[w] : w \in Workflow}

World == [asked   : SUBSET Workflow,  \* bound: the workflows asked for
          bodies  : Nat,              \* maxBlobBytes, in bodies
          events  : Nat,              \* bound: events ever numbered
          faults  : Nat,              \* bound: crashes, failing file operations
          pending : Nat]              \* bound: calls that wait for the queue

ASSUME BoundsAssumption ==
  /\ MaxTerminal \in Nat /\ MaxRecovery \in Nat /\ MaxEvents \in Nat \ {0}
  /\ Worlds \subseteq World

VARIABLES
  mem,      \* #state of the running broker
  since,    \* #eventsSinceCheckpoint
  pins,     \* #pendingBlobDigests
  held,     \* workflows whose runner holds the reference of a stored body
  queue,    \* calls behind #tail, the first one running
  pc,       \* where the running call or the compaction stands
  after,    \* where a finished compaction returns to
  stateFile, checkpoint, manifest, ledger, blobs,   \* the data directory
  horizon,  \* updates numbered below it are older than rawRetentionMs
  admitted, \* every (key, workflow) a caller was told it had created
  fork,     \* whether two events were written under one number
  exposed,  \* bodies unpinned by one runner while another still held them
  faults,   \* crashes and failures so far
  world     \* the world of this behaviour

memory == <<mem, since, pins, held, queue, pc, after>>
disk == <<stateFile, checkpoint, manifest, ledger, blobs>>
ghost == <<horizon, admitted, fork, exposed, faults, world>>
vars == <<memory, disk, ghost>>

MaxBlob == world.bodies
Events == world.events
Faults == world.faults
Pending == world.pending

-----------------------------------------------------------------------------
(* Records.  "at" orders updates as updatedAt does.  For an exchange,       *)
(* "recovering" stands for human_required and failed, and "ended" for       *)
(* succeeded and cancelled.  For a convergence, told by its child, "ended"  *)
(* stands for failed too, and its phases count: "running" until it has read *)
(* the review that it asked for first (codex_captured, chatgpt_running),    *)
(* "handed" while it is paused for, or prepares, another chat, "read" when  *)
(* it runs and this review is behind it, or was the second attempt of a     *)
(* handover, and "recovering" when a person must end it.                    *)
Status == {"running", "handed", "read", "recovering", "ended"}
Record == [status : Status, body : Digest \cup {None}, at : Nat]
State == [next : Nat,
          wf   : UNION {[D -> Record] : D \in SUBSET Workflow},
          ops  : UNION {[K -> Workflow] : K \in SUBSET Key}]
ASSUME NoneAssumption ==
  None \notin Workflow \cup Digest \cup Key /\ None \notin State

Event == [seq : Nat, w : Workflow, rec : Record, starts : BOOLEAN]
Torn == [seq |-> 0]
Empty == [next |-> 1, wf |-> <<>>, ops |-> <<>>]
Corrupt == [next |-> 0, wf |-> <<>>, ops |-> <<>>]

Put(f, k, v) == [x \in DOMAIN f \cup {k} |-> IF x = k THEN v ELSE f[x]]
Without(f, gone) == [x \in DOMAIN f \ gone |-> f[x]]

HasProtectedRecoveryState(rec) == rec.status # "ended"
AwaitsReview(rec) == rec.status \in {"running", "handed"}
NeedsResultReservation(w, rec) ==
  HasProtectedRecoveryState(rec) /\ ChildOf[w] = None /\ rec.body = None

(* The effect of one event.                                                 *)
ApplyEvent(s, e) ==
  IF e.seq # s.next THEN Corrupt
  ELSE [next |-> s.next + 1,
        wf   |-> Put(s.wf, e.w, e.rec),
        ops  |-> IF e.starts THEN Put(s.ops, KeyOf[e.w], e.w) ELSE s.ops]

(* One line of the ledger at a start: what the state already holds is       *)
(* skipped, anything else must be the next event.                           *)
ReplayLine(s, e) ==
  CASE s = Corrupt \/ e = Torn -> Corrupt
    [] s # Corrupt /\ e # Torn /\ e.seq < s.next -> s
    [] OTHER -> ApplyEvent(s, e)

(* The state a start begins from: the checkpoint that its manifest          *)
(* describes, or else the state file.                                       *)
Load ==
  IF checkpoint # None /\ manifest = checkpoint THEN checkpoint
  ELSE IF stateFile # None THEN stateFile
  ELSE IF checkpoint = None \/ manifest = None THEN Empty ELSE Corrupt

RepairRequired == ~(checkpoint # None /\ manifest = checkpoint) /\ stateFile # None

(* The lines of a ledger, one after the other.                              *)
Replay(s, l) ==
  LET state[n \in 0..Len(l)] ==
        IF n = 0 THEN s ELSE ReplayLine(state[n - 1], l[n])
  IN  state[Len(l)]

(* What a start makes of the files as they are.                             *)
Recovered == Replay(Load, ledger)

(* A crash in the middle of a line leaves one that cannot be parsed, and    *)
(* whatever is appended to it later cannot be parsed either.                *)
AppendLine(l, e) ==
  IF l # <<>> /\ Last(l) = Torn THEN l ELSE Append(l, e)

(* What a crash or a failure in the write or the sync leaves of a line.      *)
Left(l, e) == {l, AppendLine(l, e), AppendLine(l, Torn)}

(* Lines of failed writes: they have the number of the next event.          *)
Strays == {ledger[i] : i \in {j \in DOMAIN ledger : ledger[j].seq = mem.next}}

-----------------------------------------------------------------------------
(* Retention spares what may need recovery, and the review that a           *)
(* convergence awaits.                                                      *)
ContinuationDependencies(s) ==
  {ChildOf[w] : w \in {v \in DOMAIN s.wf : AwaitsReview(s.wf[v])}}

(* A mutant: only the workflow's own state protects it.                     *)
UnprotectedAlone(s) == {w \in DOMAIN s.wf : ~HasProtectedRecoveryState(s.wf[w])}

Unprotected(s) ==
  {w \in DOMAIN s.wf : ~HasProtectedRecoveryState(s.wf[w])} \ ContinuationDependencies(s)
Holders(s) == {w \in DOMAIN s.wf : s.wf[w].body # None}
References(s) == {s.wf[w].body : w \in Holders(s)}
Pinned(s) == {s.wf[w].body : w \in Holders(s) \ Unprotected(s)}

(* Ended workflows beyond the newest MaxTerminal.                           *)
Retired(s) ==
  {w \in Unprotected(s) :
     Cardinality({v \in Unprotected(s) : s.wf[v].at > s.wf[w].at}) >= MaxTerminal}

ExpireResults(s, gone) ==
  [s EXCEPT !.wf = [w \in DOMAIN s.wf |->
     IF w \in gone THEN [s.wf[w] EXCEPT !.body = None] ELSE s.wf[w]]]

(* The holders of bodies over the blob limit, oldest body first.            *)
OverLimit(s) ==
  LET FirstAt(d) == CHOOSE n \in {s.wf[w].at : w \in {v \in Holders(s) : s.wf[v].body = d}} :
                      \A w \in Holders(s) : s.wf[w].body = d => n <= s.wf[w].at
      Older(d) == {c \in References(s) \ Pinned(s) : FirstAt(c) < FirstAt(d)}
      evicted == {d \in References(s) \ Pinned(s) :
                    Cardinality(References(s)) - Cardinality(Older(d)) > MaxBlob}
  IN {w \in Holders(s) \cap Unprotected(s) : s.wf[w].body \in evicted}

ApplyRetention(s) ==
  LET kept  == [s EXCEPT !.wf = Without(s.wf, Retired(s))]
      aged  == {w \in Holders(kept) \cap Unprotected(kept) : kept.wf[w].at < horizon}
      young == ExpireResults(kept, aged)
  IN ExpireResults(young, OverLimit(young))

(* Capacity that is promised to recoveries.                                 *)
Recovering(s) == DOMAIN s.wf \ Unprotected(s)
Reserved(s) == {w \in Recovering(s) : NeedsResultReservation(w, s.wf[w])}

AssertNewWorkflowCapacity(s, w) ==
  /\ Cardinality(Recovering(s)) < MaxRecovery
  /\ Cardinality(Pinned(s)) + Cardinality(Reserved(s))
       + (IF ChildOf[w] = None THEN 1 ELSE 0) <= MaxBlob

-----------------------------------------------------------------------------
Init ==
  /\ mem = Empty /\ since = 0 /\ pins = {} /\ held = {} /\ queue = <<>>
  /\ pc = "down" /\ after = "idle"
  /\ stateFile = None /\ checkpoint = None /\ manifest = None
  /\ ledger = <<>> /\ blobs = {}
  /\ horizon = 0 /\ admitted = {} /\ fork = "no" /\ exposed = {} /\ faults = 0
  /\ world \in Worlds

Up == pc # "down"
Call == Head(queue)
Answered == queue' = Tail(queue)

(* Callers.  Each reads a workflow and asks for a step from what it read;   *)
(* the step is compared with the stored workflow only when its turn comes.  *)
(* Callers run between the store's calls: what they read while one compacts *)
(* is what they read before it or after it.                                 *)
ExchangeTo(status) ==
  CASE status = "running" -> {"running", "recovering", "ended"}
    [] status = "recovering" -> {"running", "ended"}
    [] OTHER -> {}
ConvergenceTo(status) ==
  CASE status \in {"running", "handed"} -> Status
    [] status = "read" -> {"read", "recovering", "ended"}
    [] status = "recovering" -> {"ended"}
    [] OTHER -> {}
Steps(w, rec, got) ==
  {[status |-> st, body |-> b, at |-> 0] :
     st \in IF ChildOf[w] = None THEN ExchangeTo(rec.status) ELSE ConvergenceTo(rec.status),
     b \in {rec.body} \cup got} \ {[rec EXCEPT !.at = 0]}

Queues(call) ==
  /\ pc = "idle" /\ Len(queue) < Pending /\ ~Contains(queue, call)
  /\ queue' = Append(queue, call)
  /\ UNCHANGED <<mem, since, pins, held, pc, after, disk, ghost>>

Handing(w) == {v \in DOMAIN mem.wf : ChildOf[v] = w /\ mem.wf[v].status = "handed"}

(* A convergence asks for its review while it runs; in a handover the start *)
(* is bound to what the convergence was then (expectedParent).              *)
AskStart(w) ==
  /\ w \in world.asked /\ w \notin DOMAIN mem.wf
  /\ \A v \in Workflow : ChildOf[v] = w => v \in DOMAIN mem.wf /\ AwaitsReview(mem.wf[v])
  /\ Queues([kind |-> "start", w |-> w,
             parents |-> {<<v, mem.wf[v]>> : v \in Handing(w)}])
AskPut(w) ==
  /\ w \in DOMAIN mem.wf /\ NeedsResultReservation(w, mem.wf[w]) /\ w \notin held
  /\ Queues([kind |-> "put", w |-> w])
AskPersist(w) ==
  /\ w \in DOMAIN mem.wf
  /\ \E next \in Steps(w, mem.wf[w], IF w \in held THEN {BodyOf[w]} ELSE {}) :
       /\ Queues([kind |-> "persist", w |-> w, expected |-> mem.wf[w], next |-> next])

-----------------------------------------------------------------------------
(* putBlob: an existing body is reused, a full store is compacted first.    *)
Pin(w) == /\ pins' = pins \cup {BodyOf[w]}
          /\ held' = held \cup {w}
          /\ Answered /\ pc' = "idle"
          /\ exposed' = exposed \ {BodyOf[w]}
          /\ UNCHANGED <<mem, since, after, stateFile, checkpoint, manifest, ledger,
                         horizon, admitted, fork, faults, world>>

PutBlob ==
  /\ pc \in {"idle", "put"} /\ queue # <<>> /\ Call.kind = "put"
  /\ \/ BodyOf[Call.w] \in blobs
     \/ Cardinality(blobs) < MaxBlob
  /\ blobs' = blobs \cup {BodyOf[Call.w]}
  /\ Pin(Call.w)

PutCompacts ==
  /\ pc = "idle" /\ queue # <<>> /\ Call.kind = "put"
  /\ BodyOf[Call.w] \notin blobs /\ Cardinality(blobs) >= MaxBlob
  /\ pc' = "compact" /\ after' = "put"
  /\ UNCHANGED <<mem, since, pins, held, queue, disk, ghost>>

(* protected_storage_capacity_exhausted                                     *)
PutRefused ==
  /\ pc = "put" /\ BodyOf[Call.w] \notin blobs /\ Cardinality(blobs) >= MaxBlob
  /\ Answered /\ pc' = "idle"
  /\ UNCHANGED <<mem, since, pins, held, after, disk, ghost>>

-----------------------------------------------------------------------------
(* A mutant: a retry is known by its workflow and not by its operation key.  *)
NewWorkflow(w) == w \notin DOMAIN mem.wf

(* persistStarted: one workflow per operation key, for ever.                *)
NewOperation(w) == KeyOf[w] \notin DOMAIN mem.ops

(* A mutant: the transition is written whatever the workflow has become.    *)
AlwaysExpected(call) == call.w \in DOMAIN mem.wf

(* #persistEntity: the workflow is still what the caller has read.          *)
Expected(call) == call.w \in DOMAIN mem.wf /\ mem.wf[call.w] = call.expected

(* The event of the running call, and whether it may be appended.           *)
Admits(call) ==
  \/ /\ call.kind = "start" /\ NewOperation(call.w) /\ AssertNewWorkflowCapacity(mem, call.w)
     /\ call.w \notin DOMAIN mem.wf
     /\ \A p \in call.parents : p[1] \in DOMAIN mem.wf /\ mem.wf[p[1]] = p[2]
  \/ call.kind = "persist" /\ Expected(call)

EventOf(call) ==
  [seq    |-> mem.next, w |-> call.w, starts |-> call.kind = "start",
   rec    |-> IF call.kind = "start"
                THEN [status |-> "running", body |-> None, at |-> mem.next]
                ELSE [call.next EXCEPT !.at = mem.next]]

(* A known operation is answered with its workflow; a conflict, a full      *)
(* ledger and an operation whose workflow was retired are errors.           *)
Refuse ==
  /\ pc = "idle" /\ queue # <<>> /\ Call.kind \in {"start", "persist"}
  /\ ~Admits(Call)
  /\ Answered
  /\ UNCHANGED <<mem, since, pins, held, pc, after, disk, ghost>>

(* #appendEvent, first part: a line that would make the ledger too long has  *)
(* the store compacted before it.                                           *)
MakeRoom ==
  /\ pc = "idle" /\ queue # <<>> /\ Call.kind \in {"start", "persist"}
  /\ Admits(Call) /\ since > 0
  /\ pc' = "compact" /\ after' = "append"
  /\ UNCHANGED <<mem, since, pins, held, queue, disk, ghost>>

(* Bodies the event unpins though another runner still holds them: a pin is  *)
(* kept by digest, and not by runner.                                       *)
Exposes(e) == {e.rec.body} \cap {BodyOf[v] : v \in held \ {e.w}}

(* Write and sync the line, apply it, unpin the body, and compact when it   *)
(* is time.  After a stray line with another event the files and the        *)
(* broker's state disagree.                                                 *)
AppendEvent ==
  /\ pc \in {"idle", "append"} /\ queue # <<>> /\ Call.kind \in {"start", "persist"}
  /\ Admits(Call) /\ mem.next <= Events
  /\ LET e == EventOf(Call) IN
       /\ ledger' = AppendLine(ledger, e)
       /\ mem' = ApplyEvent(mem, e)
       /\ pins' = pins \ {e.rec.body}
       /\ exposed' = exposed \cup Exposes(e)
       /\ fork' = IF fork = "no" /\ ~(Strays \subseteq {e}) THEN "open" ELSE fork
       /\ held' = IF e.rec.body # None \/ e.rec.status = "ended" THEN held \ {e.w} ELSE held
       /\ IF since + 1 >= MaxEvents
            THEN pc' = "compact" /\ after' = "answer" /\ UNCHANGED <<queue, admitted>>
            ELSE /\ Answered
                 /\ admitted' = admitted \cup
                      (IF e.starts THEN {<<KeyOf[e.w], e.w>>} ELSE {})
                 /\ pc' = "idle" /\ UNCHANGED after
  /\ since' = since + 1
  /\ UNCHANGED <<stateFile, checkpoint, manifest, blobs, horizon, faults, world>>

(* The write or the sync fails: the caller is told so, and the number of    *)
(* the event is used again, whatever it left of the line.                   *)
AppendFails ==
  /\ pc \in {"idle", "append"} /\ queue # <<>> /\ Call.kind \in {"start", "persist"}
  /\ Admits(Call) /\ mem.next <= Events /\ faults < Faults
  /\ ledger' \in Left(ledger, EventOf(Call))
  /\ faults' = faults + 1
  /\ Answered /\ pc' = "idle"
  /\ UNCHANGED <<mem, since, pins, held, after, stateFile, checkpoint, manifest,
                 blobs, horizon, admitted, fork, exposed, world>>

-----------------------------------------------------------------------------
(* #compact, one file operation per step.                                   *)
Retain ==
  /\ pc = "compact"
  /\ mem' = ApplyRetention(mem)
  /\ pc' = "state"
  /\ UNCHANGED <<since, pins, held, queue, after, disk, ghost>>

(* A mutant: the ledger is emptied as soon as the state file is written.    *)
TruncateEarly ==
  /\ pc = "state"
  /\ stateFile' = mem /\ ledger' = <<>>
  /\ pc' = "checkpoint"
  /\ UNCHANGED <<mem, since, pins, held, queue, after, checkpoint, manifest, blobs, ghost>>

WriteState ==
  /\ pc = "state"
  /\ stateFile' = mem
  /\ pc' = "checkpoint"
  /\ UNCHANGED <<mem, since, pins, held, queue, after, checkpoint, manifest, ledger,
                 blobs, ghost>>

WriteCheckpoint ==
  /\ pc = "checkpoint"
  /\ checkpoint' = mem
  /\ pc' = "manifest"
  /\ UNCHANGED <<mem, since, pins, held, queue, after, stateFile, manifest, ledger,
                 blobs, ghost>>

WriteManifest ==
  /\ pc = "manifest"
  /\ manifest' = mem
  /\ pc' = "events"
  /\ UNCHANGED <<mem, since, pins, held, queue, after, stateFile, checkpoint, ledger,
                 blobs, ghost>>

TruncateLedger ==
  /\ pc = "events"
  /\ ledger' = <<>> /\ since' = 0
  /\ fork' = IF fork = "open" THEN "no" ELSE fork
  /\ pc' = "blobs"
  /\ UNCHANGED <<mem, pins, held, queue, after, stateFile, checkpoint, manifest,
                 blobs, horizon, admitted, exposed, faults, world>>

(* A mutant: bodies that are stored but not yet referenced are removed.     *)
KeptReferenced == References(mem)

(* #mergePendingBlobReferences: what the reconciliation keeps.              *)
KeptBodies == References(mem) \cup pins

(* #removeUnreferencedBlobInventory, #verifyExactBlobInventory: everything  *)
(* else is removed, and a body that is missing is an error.                 *)
WithoutUnreferenced(kept) == blobs \cap kept
Complete(kept) == kept \subseteq blobs

ReconcileBlobs ==
  /\ pc = "blobs" /\ Complete(KeptBodies)
  /\ blobs' = WithoutUnreferenced(KeptBodies)
  /\ IF after = "answer"
       THEN /\ Answered /\ pc' = "idle"
            /\ admitted' = admitted \cup
                 (IF Call.kind = "start" THEN {<<KeyOf[Call.w], Call.w>>} ELSE {})
       ELSE pc' = after /\ UNCHANGED <<queue, admitted>>
  /\ after' = "idle"
  /\ UNCHANGED <<mem, since, pins, held, stateFile, checkpoint, manifest, ledger,
                 horizon, fork, exposed, faults, world>>

Compacting == {"state", "checkpoint", "manifest", "events", "blobs"}

(* A file operation of the compaction fails, or a body is missing: the call *)
(* that compacts is rejected.                                               *)
CompactFails ==
  /\ pc \in Compacting /\ after # "init"
  /\ \/ faults < Faults /\ faults' = faults + 1
     \/ pc = "blobs" /\ ~Complete(KeptBodies) /\ UNCHANGED faults
  /\ pc' = "idle" /\ after' = "idle" /\ Answered
  /\ UNCHANGED <<mem, since, pins, held, disk, horizon, admitted, fork, exposed, world>>

(* What a process that dies leaves behind: only its files.                  *)
LoseMemory ==
  /\ mem' = Empty /\ since' = 0 /\ pins' = {} /\ held' = {} /\ queue' = <<>>
  /\ pc' = "down" /\ after' = "idle"
  /\ fork' = IF fork = "open" THEN "lost" ELSE fork

(* The same in the compaction of a start, which is given up and may be      *)
(* repeated.                                                                *)
StartFails ==
  /\ pc \in Compacting /\ after = "init"
  /\ LoseMemory
  /\ UNCHANGED <<disk, horizon, admitted, exposed, faults, world>>

-----------------------------------------------------------------------------
(* #initialize: load, replay, remove what is not referenced, compact when   *)
(* the files disagree or hold lines that are skipped, and write the state   *)
(* file.                                                                    *)
Initialize ==
  /\ pc = "down" /\ Recovered # Corrupt
  /\ Complete(References(Recovered))
  /\ mem' = Recovered
  /\ since' = Recovered.next - Load.next
  /\ pins' = {} /\ held' = {} /\ queue' = <<>>
  /\ blobs' = WithoutUnreferenced(References(Recovered))
  /\ IF RepairRequired \/ since' < Len(ledger)
       THEN pc' = "compact" /\ after' = "init"
       ELSE pc' = "init" /\ after' = "idle"
  /\ UNCHANGED <<stateFile, checkpoint, manifest, ledger, ghost>>

Opened ==
  /\ pc = "init"
  /\ stateFile' = mem
  /\ pc' = "idle"
  /\ UNCHANGED <<mem, since, pins, held, queue, after, checkpoint, manifest, ledger,
                 blobs, ghost>>

(* The process dies; a line that was being written may be there.            *)
Crash ==
  /\ Up /\ faults < Faults
  /\ \/ ledger' = ledger
     \/ /\ pc \in {"idle", "append"} /\ queue # <<>> /\ Call.kind \in {"start", "persist"}
        /\ Admits(Call) /\ mem.next <= Events
        /\ ledger' \in Left(ledger, EventOf(Call))
  /\ LoseMemory
  /\ faults' = faults + 1
  /\ UNCHANGED <<stateFile, checkpoint, manifest, blobs, horizon, admitted, exposed,
                 world>>

(* Thirty days pass, and with them the day a body stays pinned without its  *)
(* event: a runner that holds a reference asks for its event at once.  Time *)
(* matters to stored bodies only.                                           *)
TimePasses ==
  /\ held = {} /\ pins' = {}
  /\ horizon = 0 /\ pc = "idle" /\ queue = <<>> /\ References(mem) # {} /\ horizon' = mem.next
  /\ UNCHANGED <<mem, since, held, queue, pc, after, disk, admitted, fork, exposed,
                 faults, world>>

Next ==
  \/ \E w \in Workflow : AskStart(w) \/ AskPut(w) \/ AskPersist(w)
  \/ PutBlob \/ PutCompacts \/ PutRefused
  \/ Refuse \/ MakeRoom \/ AppendEvent \/ AppendFails
  \/ Retain \/ WriteState \/ WriteCheckpoint \/ WriteManifest \/ TruncateLedger
  \/ ReconcileBlobs \/ CompactFails \/ StartFails
  \/ Initialize \/ Opened \/ Crash \/ TimePasses

Spec == Init /\ [][Next]_vars

-----------------------------------------------------------------------------
(* Types.                                                                   *)
TypeOK ==
  /\ \A i \in DOMAIN ledger : ledger[i] \in Event \cup {Torn}
  /\ mem.next \in Nat /\ DOMAIN mem.wf \subseteq Workflow
  /\ \A w \in DOMAIN mem.wf : mem.wf[w] \in Record
  /\ pins \subseteq Digest /\ blobs \subseteq Digest /\ held \subseteq Workflow
  /\ exposed \subseteq Digest /\ fork \in {"no", "open", "lost"}
  /\ since \in Nat
  /\ pc \in {"down", "init", "idle", "put", "append", "compact"} \cup Compacting
  /\ after \in {"idle", "answer", "put", "append", "init"}

(* State r is state m, and maybe results and ended workflows that retention *)
(* has dropped from it.                                                     *)
Agree(r, m) ==
  /\ r.next = m.next /\ r.ops = m.ops
  /\ DOMAIN m.wf \subseteq DOMAIN r.wf
  /\ DOMAIN r.wf \ DOMAIN m.wf \subseteq Unprotected(r)
  /\ \A w \in DOMAIN m.wf :
       \/ m.wf[w] = r.wf[w]
       \/ w \in Unprotected(r) /\ m.wf[w] = [r.wf[w] EXCEPT !.body = None]

(* What the broker knows is well formed, and after any crash a start brings *)
(* it back, at every step of a compaction, and at most one event more, of a *)
(* write that failed; or it refuses, and says so.  The exception, "open"    *)
(* and "lost": a failed write left its line, and another event was then     *)
(* written under the same number, until a compaction empties the ledger.    *)
RestartAgrees ==
  /\ TypeOK
  /\ pc # "down" /\ fork = "no" =>
       \/ Recovered = Corrupt
       \/ Agree(Recovered, mem)
       \/ \E e \in Strays : Agree(Recovered, ApplyEvent(mem, e))

(* No reference that a start would bring back has lost its body, whatever   *)
(* became of the ledger: it is removed only after the checkpoint that       *)
(* forgets it, and pinned from the moment it is stored until the event that *)
(* references it.  The exception: a body that two runners store alike is    *)
(* unpinned by the event of the first.                                      *)
BodiesKept ==
  /\ Recovered # Corrupt => References(Recovered) \subseteq blobs \cup exposed
  /\ Up /\ queue # <<>> /\ Call.kind = "persist" /\ Expected(Call) /\ Call.next.body # None
       => Call.next.body \in blobs \cup exposed

(* Retention spares the review that a convergence has yet to read, its      *)
(* workflow and its body, while the convergence runs or is handed over to   *)
(* another chat.  The review of a second attempt is not spared once the     *)
(* handover is done (such a convergence is "read" here).                    *)
ReviewKept ==
  [][\A w \in DOMAIN mem.wf \cap DOMAIN mem'.wf : LET c == ChildOf[w] IN
       /\ Up /\ AwaitsReview(mem.wf[w])
       /\ c \in DOMAIN mem.wf /\ mem.wf[c].body # None
       => c \in DOMAIN mem'.wf /\ mem'.wf[c].body = mem.wf[c].body]_vars

(* An operation key is given to one workflow, once, through crashes, failed *)
(* writes and retention: of the workflows that callers were told of, and of *)
(* those that are stored.  The exception: a restart on a ledger with two    *)
(* events of one number brings the first one back, and the second is lost.  *)
IdentityOnce ==
  /\ fork # "lost" =>
       /\ \A p, q \in admitted : p[1] = q[1] => p = q
       /\ \A w \in DOMAIN mem.wf : KeyOf[w] \in DOMAIN mem.ops /\ mem.ops[KeyOf[w]] = w
  /\ fork = "no" /\ Recovered # Corrupt =>
       \A p \in admitted : p[1] \in DOMAIN Recovered.ops /\ Recovered.ops[p[1]] = p[2]

(* A step that was decided on a stale workflow is refused: what has ended   *)
(* is never written over, though calls wait behind each other and whatever  *)
(* a restart brought back.                                                  *)
EndedStaysEnded ==
  [][\A w \in DOMAIN mem.wf \cap DOMAIN mem'.wf :
       Up /\ mem.wf[w].status = "ended"
         => mem'.wf[w].status = mem.wf[w].status]_vars

(* What the documentation says without the exceptions: the identities a     *)
(* caller was told of are there after a restart ("exact lifetime operation  *)
(* identities", README.md:300), and no body is lost before the event that   *)
(* references it.                                                           *)
IdentitiesSurvive ==
  Recovered # Corrupt =>
    \A p \in admitted : p[1] \in DOMAIN Recovered.ops /\ Recovered.ops[p[1]] = p[2]
PinnedUntilReferenced == Recovered # Corrupt => References(Recovered) \subseteq blobs
=============================================================================
