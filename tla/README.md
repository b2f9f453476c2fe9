# A TLA+ model of ego-chat

ego-chat lets coding agents exchange prompts with a ChatGPT page. A local
*broker* process owns all durable state and runs everything that lasts longer
than one call: marked exchanges with a page, review loops over them
("convergence"), and attachment evidence. Beside it stand a durable task domain
for reviewed pull requests, a monitor that watches the broker, and a setup that
replaces a stale one. This directory models the parts of it that are hard to
test, checks them with TLC on small instances, and proves the central properties
of the task domain, its effects, the broker's lease, store and handoff, the
marked exchange, the convergence and the attachment receipts with TLAPS for every
instance.

Paths below are those of the repository (`src/broker.mjs` is the file of that
name under its own `src/` directory).

## Running

    tlc -workers 2 -config MCTaskDomain.cfg MCTaskDomain
    tlc -workers 2 -config Exchange.cfg MCExchange
    tlapm TaskDomainProofs.tla

and likewise `BrokerLeaseProofs`, `EventStoreProofs` (two minutes),
`EagleMonitorProofs` (four), `HandoffProofs` (three),
`AttachmentEvidenceProofs` (three), `ExchangeProofs` (four) and
`ContinuationProofs` (seven).

`PROJECT.json` lists every run with its module, configuration and expected
outcome, the source lines each definition stands for, a mutated definition per
checked property, the hazards, the findings and the theorems. The longest run takes
three minutes on two workers.

## 1. Inventory

| component | state it keeps | operations | hard behaviour | what makes it correct |
|---|---|---|---|---|
| Durable task domain, `src/task-domain.mjs` | tasks, runners, artifacts, activities, leases, approvals in one JSON state | 7 commands of `reduceTaskCommand` | evidence that outlives its revision, workers that lost their lease, approvals whose ground goes away | evidence and approvals are bound to the exact revision; leases are fenced; a derived status is never out of date; validation never refuses a reachable state |
| Effect ledger and spine, `src/task-spine.mjs`, `src/task-domain.mjs` | the effect's status, attempts, reconciliations, result | reserve, dispatch, note absent, record applied, complete; `runEffect` around an adapter | a crash between the remote action and its record, overlapping retries, late requests | the ledger never claims more than happened; an apply follows a recorded absence; no lost race strands an effect |
| Task store, `src/task-store.mjs` | the state file | `transact` | more than one writer | one command at a time |
| Broker lease, `src/broker-lease.mjs`, `bin/ego-chatd.mjs` | `broker.lock`, `broker-epoch.json` | acquire, register/unregister a browser child, release | start attempts that race, crashes between file-system calls, children that survive their broker | one generation; a rising epoch; no takeover beside a live child |
| Marked exchange, `src/broker.mjs` 3085-5268 | workflow, binding checkpoint, in-memory locks | start, run, cancel, abandon, reconcile, restart | clicks that cannot be undone, checks before an await and writes after it, crashes, a person in the same conversation | at most one Send, attributable results, a durable end |
| Driver mailbox and browser lane, `src/ego-adapter.mjs` | reservations, one child | run exclusively, abort, drain | capacity counted at different times | one child at a time |
| Browser driver, `src/ego-driver-source.mjs` | none (it reads the page) | exchange, reconcile | the page moves between a check and the click | absence and presence are concluded only when true |
| Event store, `src/store.mjs` | ledger, state, checkpoint, manifest, blobs | append, compact, retain, recover | a crash between any two files, a failed write, bodies shared by retention and pins | what was acknowledged is recovered, with its bodies; one workflow per operation |
| Convergence and continuation, `src/convergence.mjs`, `src/conversation-continuation.mjs`, `src/broker.mjs` | the convergence record, its review children, blank conversations | run, recover, hand over, pause, resume, cancel | a resume racing a cancel, lost answers, counters that say what is missing | no turn and no review twice; settlement on this cycle's evidence; a cancel revokes; an end |
| App Server client, `src/app-server-client.mjs` | launch intents | start a turn, recover a launch or a turn | a launch whose answer is lost | never launched twice, never forgotten |
| Task-space admissions, `src/broker.mjs` 7228-7920 | reservations, durable claims | reserve, release, recover | claims that outlive their owner | one owner of a page |
| Conversation adoption and binding, `src/broker.mjs` | bindings | adopt, bind, rebind | a cancel during a page reading | no binding of a cancelled workflow |
| IPC, upgrade, handoff, `src/ipc-server.mjs`, `src/ipc-client.mjs`, `src/upgrade-dispatch.mjs`, `src/runtime-handoff.mjs`, `bin/ego-chatd.mjs` | admitted requests, the draining gate, the sockets | dispatch, drain, shut down, autostart, fence and hand over | a drain that waits while it refuses, sockets unlinked by path, a fence around a broker that cannot drain | a broker that is stopped is idle; a serving broker can be found; the gate opens again |
| Attachment receipts, `src/attachment-*.mjs`, `src/broker.mjs`, `src/store.mjs` | intents, dispatches, captures, dispositions, bindings, capacities | admit, arm, confirm, capture, dispose, release | deadlines, late answers, restarts, seven ledgers that must agree | valid on every write; confirmations and absences are true; nothing twice; captures end |
| Eagle Monitor, `src/eagle-monitor-*.mjs` | monitor lease, session, state with incident, reports and starts | observe, classify, start, reconcile, report | a crash between intent, dispatch and receipt; loops that look alive | starts are bounded, reports are not dropped, a stall is noticed, an alert reaches a person |
| Supervision, alerts, MCP server, CLI, configuration, validation, native setup | none, or files written once | projections, translation, installation | none that a state machine reaches | - |

How they interact: the facades send IPC requests to the broker, through the
gate of the upgrade dispatch; the broker calls the store before and after every
step it must remember; an exchange takes a task-space admission, the
conversation's busy flag and the single browser lane, and every fence of the
browser child asks whether the generation that spawned it still owns the broker
lease; a convergence has the App Server client run turns, starts exchanges as
its review children and reacts to their ends; an exchange with a receipt keeps a
second ledger beside its workflow. The monitor reads the broker's status,
classifies the workflow it watches, and starts a broker it finds dead; setup
drains or stops a stale broker, and any client that finds none starts one. The
task domain and its spine share no state with exchanges.

## 2. Modules

| module | stands for | composed with |
|---|---|---|
| `TaskDomain` | the reducer of the task domain, one action per command | refines `MergeGate` |
| `MergeGate` | the abstract promise to whoever merges | instantiated by `TaskDomain` |
| `TaskDomainProofs` | the invariants of `TaskDomain` and its refinement of `MergeGate`, then the invariant of `TaskEffects`, proved | extends `TaskDomain` and `TaskEffects` |
| `BrokerLeaseProofs`, `EventStoreProofs`, `ExchangeProofs`, `HandoffProofs`, `ContinuationProofs`, `AttachmentEvidenceProofs`, `EagleMonitorProofs` | the inductive invariants of those modules (of `EagleSemantic` too, in the last) and what follows from them, proved | extend the module they name |
| `TaskEffects` | the effect commands, `runEffect` by concurrent callers, the remote system | - |
| `BrokerLease` | acquisition, children and release at the grain of file-system calls | - |
| `Exchange` | runner, driver child, user commands, page, crash and restart of one binding | - |
| `EventStore` | the queue of calls, each file operation of append and compaction, crash and start | - |
| `Convergence` | the runner of a convergence, the App Server's turns, its reviews, crash and restart | - |
| `Continuation` | the automatic successor, what a person may do; the specification, its fairness and properties | extends `Convergence` |
| `AttachmentEvidence` | one receipt exchange's ledgers, its two runners, the page, the clock | - |
| `EagleSemantic` | the monitor's semantic classifier, one action per observation | - |
| `EagleMonitor` | the daemon's tick: lease, recovery policy, alerts and outbox | - |
| `Handoff` | the gate, the shutdown and its sockets, autostarting clients, runs of setup | - |
| `MC...` | the values and symmetry sets of the TLC instances | extend the module they name |

`TaskEffects` and `Handoff` are checked directly.

### TaskDomain

The six collections of the code's state are six functions whose domains are the
identities stored so far. Each action is one command, its guard the conjunction
of the command's early `fail`s. `reduceTaskCommand` ends with
`validateTaskState(next)`, which throws on an invalid state: the actions leave
it out on purpose and its cross-entity clauses are stated as invariants, so
that checking and proving them shows that it never fires. A command is atomic
because `DurableTaskStore.transact` reads, reduces and renames the new file in
one queued step. A conversation is folded into its only task; times are only
compared, and the clock may run backwards; payloads are digests.

### TaskEffects

One variable for the ledger, one for the remote system and the requests on their
way to it, and a program counter per call of `runEffect`. Each transaction and
each adapter call is a step, so other callers, adapter failures and crashes come
between any two. The remote side is external: it creates an object at most once
per effect identity, which `docs/durable-task-runner-spine.md` demands of an
adapter, and it may handle a request after the caller has crashed.

### BrokerLease

One action per file-system call of `acquireBrokerLease`, `registerChild`,
`unregisterChild` and `release`. `Retire` renames whatever is at the path by
then, `Activate` and `Register` rename a new record over whatever is there:
these are the blind writes of the code. A pid is the process's name and is not
reused. A child that is *spawned* but not registered waits for its driver on
stdin and cannot click; a *ready* one can, and survives its broker.

### Exchange

`wf` and `head`, `committed`, `reconciled` are durable; `active` is
`#activeBindings`, `admission` is `#taskSpaceAdmissionReservations`,
`controllers` and `aborted` are the abort controllers; `pc` says between which
two awaits a runner or a manual reconciliation stands. A step of the model is
what the code does between two awaits. The durable writes are their own steps
before which each actor re-reads the workflow (`Overtaken`), except where the
code does not: the head commit, the write of an abandonment (compared with the
workflow it saw) and the completion of a manual reconciliation. The page is a
sequence of prompts and answers, the driver child a stage (`checking`,
`composed`, `fenced`, `clicked`). A crash clears the memory and leaves the child
as `orphan`, which may still click past its last fence; a new generation starts
only over a dead child (`LeaseFree`, here without the race that `BrokerLease`
shows). `Restart` resumes the first running exchange, stops the others, and
is not enabled when the first cannot get its admission back, since the broker
then fails to start.

Left out of `Exchange`: conversations created by the exchange itself, attachment
receipts, the path without the send/capture split, conflicts between two
bindings, model selection and composition inside the page.

### EventStore

`mem` is the broker's state, `stateFile`, `checkpoint`, `manifest`, `ledger` and
`blobs` the data directory, `queue` the calls behind `#tail`, of which only the
first works, `pc` the file operation it stands at. An append writes and syncs a
line, applies it and may compact; a compaction retains (drops ended workflows
and bodies beyond the limits), writes state, checkpoint and manifest, empties
the ledger and deletes unreferenced bodies, each a step. A crash between any two
leaves the directory as it is. Of the line being written, a crash and a failed
write or sync alike leave nothing, all or a torn piece (`Left`); after a failure
the broker goes on and uses the number again (`store.mjs:2525`). `Recovered`
replays the ledger over the state file as `initialize` does, refusing what it
refuses. A runner stores a body in one call and refers to it in a later one
(`held`), which the pins protect. `horizon` is the age at which results may
expire.

What retention spares for a convergence follows `store.mjs:2750-2780`
(`ContinuationDependencies`, `AwaitsReview`): the status of a convergence counts
its phases, "running" until it has read the review it asked for first
(`codex_captured`, `chatgpt_running`), "handed" while it is paused for, or
prepares, another chat, "read" when the review is behind it or was the second
attempt of a handover (line 2773 knows the first attempt only), "recovering"
when a person must end it. A failed convergence is "ended", for it protects
nothing (lines 315-319).

Two ghosts name where the code breaks its promises, so that everything else can be
stated without exception: `fork` says that a failed write left its line and
another event was then written under its number ("open"), and that a restart has
brought back the one and lost the other ("lost"); `exposed` holds the bodies
whose pin, kept by digest, the event of one runner removed while another still
held them (`store.mjs:2539`).

### Convergence and Continuation

`wf` is the durable record: phase, cycle, the thread's generation, the pending
launch, the turn in force, its stored result, the pending rotation, and the
counters of exits, inspections and corrections. `turns` and `children` are what
the App Server and ChatGPT were really given, `run` what only the runner knows.
A step of `Convergence` is one durable transition with everything the code does
up to it, one external answer, or a crash. `Restart` applies
`#canResumeConvergence` and, for a record without a rotation, the repair of
`#repairMissingConvergenceThreadRotation`. `Continuation` adds the successor: a
review that ends in an exhausted chat pauses the convergence with a plan, a
microtask prepares a blank conversation, reserves the review there and takes it
up; and the person: resume in the same chat, with a prepared or a verified
successor, prepare, cancel, abandon. A behaviour starts in one of ten kinds of
record (new, after a retry, with the budget spent, with the automatic successor
off, with a doubted capture, with a candidate captured, carried over, reviewed,
reused, or with a lost answer), because the later ones are many steps deep.

### AttachmentEvidence

One variable per ledger (`wf`, `intent`, `entry` for the permanent binding,
`live` and `permanent` for the capacities, `capture` with its journal, `disp`,
`acked`) and what is only in memory (`runner`, `capturer`) or outside (`page`,
`confirmed`). `StateValid` translates the relations of
`validateAttachmentEvidenceState`, which the store evaluates on every write and
which the actions leave out on purpose. The clock has both windows; a page shows
one of the instance's snapshots each time it is read. `Retained` is the same
system with the store's retention as one more action.

### EagleSemantic and EagleMonitor

`EagleSemantic` folds observations into the stored semantic state (window of
fingerprints, evidence seen, named waits with their extension, the useful-progress
lease, doubts); digests are the values they digest. Its `SemanticValid` is
`validateEagleSemanticState`. `EagleMonitor` takes its verdict as input
(`world.stale`) and models one tick as its durable writes: open the lock, claim
it, observe, record a start before making it, ask for a reconciliation, store
a report before the alert and its outcome after it, finish. Time is kept as ages
and countdowns, so that the model is finite without a last instant. `Die` ends
the daemon between any two steps, launchd (`Pass`) starts it again. `CliStart`
begins another session, or goes on with the same one when the configuration is
the same (`eagle-monitor-store.mjs:534-547`).

### Handoff

`lock`, `life`, `told`, `child` describe each generation of brokers; `name` is
whose socket is at the published path, `fence[s]` the socket a setup has
renamed; `gate`, `prep`, `call` are the upgrade dispatch: `draining`, the
request in work, and each client's connection (connected, admitted, or detached
from a caller that hung up). `Close` and `Quiesce` both unlink the path whoever
owns it, as `server.close` and `removeSocket` do. A setup runs through
`handoffBrokerRuntime`, each status, lease reading and rename a step; `Signal`
sends SIGTERM after the second proof. The fence around a legacy broker looks at
the socket file (`seen`), asks for a status, looks again and renames whatever is
at the path by then, four steps; a rename that took another file than the one
seen is refused, and leaves it where it is. The restore looks and renames in two.
`lost` are the sockets that such a rename moved away, or overwrote, and that
nobody puts back. Acquiring the lease is one step here, and so is binding (probe,
unlink, listen). An inode that is used again for another socket is not modelled;
that the private name is free, and the look at it after the rename, are part of
the rename.
`flying` remembers which requests were under way at a setup's last proof of
idleness (in a predecessor that had yet to exit, too).

## 3. Runs

Every run has finite bounds as CONSTANTS or guards. All but `EagleMonitor` say
`CHECK_DEADLOCK FALSE` because the bounds run out and the systems may then really
stop: all identities are used, every exchange has ended, every process has left.
A constant whose name says bounds, budgets or worlds is a *set* of bounds, one of
which each behaviour has: so one run covers few actors with many faults and many
actors with few.

| run | instance | what it shows |
|---|---|---|
| `TaskDomain` | 2 tasks, 3 artifacts, 2 bases, 1 head, 2 activities, 2 leases, 2 runners, 1 approval | the stored state is always one `validateTaskState` accepts, nothing that ended revives, and the refinement of `MergeGate` |
| `TaskEffects` | 1 effect, 2 identities, 4 calls, 3 at a time, 2 crashes | the ledger's honesty under overlap, late requests and crashes; every undisturbed call settles the effect |
| `Lease` | 3 processes: one contender at a time with 2 departures, and 3 contenders with 1 | serial starts keep one generation that is on record and fenced by its epoch; a race for a free lock has one winner; a stale lock is taken over and every attempt ends |
| `LeaseStaleRace` | 2 contenders, 1 departure | **violation** of `OneGeneration` |
| `Exchange` | 2 exchanges with a person, 2 faults, 1 cancel and 1 crash, all together; 2 exchanges with 1 fault, 1 cancel, 2 crashes; 1 exchange through 3 crashes | nothing is sent twice, absences and results are true, no two runners on a binding, the conversation's head only moves to what was read; every exchange ends, but for two named ways to be caught |
| `EventStore` | no ended workflow kept, compaction after 2 events; 3 exchanges with one response, two of them the same operation, 2 bodies, 3 events, 2 faults; a convergence, its review and another exchange with responses of their own, 1 body, with 5 events and 2 queued calls or 4 events and 1 fault | after a crash or a failed write anywhere a start finds what was acknowledged and its bodies, or refuses; one workflow per operation; the review a convergence has yet to read is spared; what ended stays ended |
| `EagleSemantic` | 4 checkpoints, 2 waits, 2 pieces of evidence of which 1 is kept, window 6, 2 epochs, 6 instants | the stored state is always valid; a verdict needs two observations of one generation; a silent workflow is convicted; a wait covers its deadline and one extension |
| `AttachmentEvidence` | 2 workflows for 1 binding, 4 page snapshots, windows of 1 and 2, 4 attempts, 2 pairs, 1 crash, clock to 5 | the seven ledgers agree on every write, what they say of the page is true, nothing is done twice, captures and reconciliations end |
| `AttachmentRetention` | 2 bindings, 1 ended workflow kept, with retention | **violation** of `StateValid` |
| `EagleMonitor` | 4 worlds; 1 start of a session, 2 changes, 1 fault; 2 starts, 1 change, 1 fault; 2 starts, 2 changes, no fault | the state is one the next tick accepts, starts are bounded, no report is dropped but to a summary a death left behind, alerts reach a person |
| `Convergence` | 2 cycles, 4 verdicts, 2 recoveries, 2 retries, 1 further chat, 19 initial worlds of up to 2 faults, 1 crash, 2 acts of a person | no turn lost or worked twice, no review sent twice, settlement on evidence, a cancel revokes, every run concludes |
| `Handoff` | legacy or current stale broker, 2 clients, 2 setups, 2 generations, 1 crash | a broker told to stop is idle, a serving broker is reachable, a closed gate opens or its generation ends |

Why the bounds are enough. *TaskDomain*: evidence can go stale twice and be
superseded by a return to an earlier base, a lease can be taken over once by
another runner, and every identity can be claimed by either task; a base that
moves under an unchanged head is the harder revision change, since leasing
compares heads only. More of everything is covered by the proofs. *TaskEffects*:
a race needs two callers, a third may overtake both, the fourth is a retry after
a crash; effects do not interact. *Lease*: a loser, a winner and one that comes
later; `Attempts` is the code's 4. *Exchange*: the conversation is shared by two
exchanges and a person, which is every pair of writers; the second fault meets
a retry, the crash leaves an orphan that another runner may meet; the other
worlds have more crashes and less of the rest. *EventStore*: what fails needs
two events of one number and a third, or two runners with one body, so three
exchanges, and two faults, of which one may leave a line and the other meet it;
a review can be asked for, answered, read or handed over, and outlived by another
exchange in five events; of two calls that wait, the second is decided on what
the first changes; with every limit as low as the code's checks allow, retention
always has to choose. *EagleSemantic*: the window is the
code's shortest that can hold a cycle of three, and six instants reach each loop
pattern, an extension and an expired lease. *AttachmentEvidence*: the second
workflow wants the binding the first holds; each limit and both deadlines can be
hit. *EagleMonitor*: all delays are one unit, the limit of starts is two so that
one can be hidden by a death. *Convergence*: the second cycle is the one whose
thread was rotated; the initial records stand for what more cycles would reach;
faults, crashes and acts come in every pair. *Handoff*: a broker and its
successor, two setups that meet inside the fence, a client that is refused and
one that is not.

### Fairness

- `TaskEffects`: weak fairness of every caller's next step and of the remote
  system: each await of `runEffect` is a transaction or an adapter call that
  returns. Calls are not obliged to begin, adapters may fail.
- `BrokerLease`: weak fairness of an attempt's next step: each wait in the loop
  is for a file-system call. Nobody has to leave.
- `Exchange` (`FairSpec`): the event loop runs every continuation that is ready
  (runner, late reconciliation, pending writes), the browser child and the page go
  on, a child whose broker died ends, and a stopped broker is started again. No
  fairness for faults, cancels, people or crashes.
- `AttachmentEvidence`: the clock moves, a stopped broker is started, the page
  answers a click, both runners go on, and the periodic reconciliation is tried
  again after the deadline (it may fail before).
- `EagleMonitor`: the daemon's next step and launchd with the clock (`Pass`).
- `Continuation` (`FairSpec`): the runner or the successor's microtask, the
  restart, some turn ends, some review is sent or ends: each has a timeout in
  the code.
- `Handoff`: a broker's own steps, and each client's connection: its request
  arrives or its deadline ends it, and handlers return. None for setup, which a
  person may interrupt.
- `EventStore`, `EagleSemantic`: safety only. A compaction that fails may be
  retried by the next append only, and observations come when they come.

### What the properties do not say

`Settles` of `Exchange` does not say that every exchange ends. It is claimed with
a person at the page, of reviews too, and through faults and crashes in any
combination, and names the two ways in which the code lets one run for ever.
`Barred`: the broker that is to resume it does not start, because a cancelled
exchange claims the page again (`ExchangeRestart` below). `ReadInVain`: its
runner only reads, and what follows its anchor is not its prompt or its pair (a
turn typed between the driver's check of the head and the click; a retry or a
restart that anchored anew past a delivered pair). The loops of
`broker.mjs:4316-4477` and 4664-4880 then read again for as long as the broker
lives; only a cancel or a person ends them.

`RestartAgrees` and `IdentityOnce` of `EventStore` say nothing of a restart on
two events of one number (`fork`, `EventStoreFork` below), and `BodiesKept`
nothing of a body that two runners stored alike (`exposed`, `EventStorePins`
below); all three speak of a failed write that leaves its whole line,
and of workflows that answer alike. A start may refuse a ledger with a torn line.
`ReviewKept` is about the review a convergence awaits while it runs or is handed
over; the second attempt of a handover that is done is not spared by the code,
and no property claims it.

`StopsIdle` of `Handoff` allows a signalled broker the work of requests in flight
at the last proof, and of handlers that linger in a predecessor which has
released its lease and not yet exited: the fence waits twice 100 ms, not for
them, where `README.md:230` says that setup "waits for in-flight requests". The
second exception was found by the proof: the checked instance has no two stale
clients whose handlers meet it. `Reachable`
excepts the sockets that a rename of a fence or of a restore took or overwrote after
the setup had looked (`lost`, `HandoffRestore` below), and those behind the
fence of a setup that died or found the path taken.

## 4. Findings

Two runs keep a contradiction of the repository's own words; the sentences are
quoted in `PROJECT.json`.

- `LeaseStaleRace`: two start attempts judge the same stale claim; the slower
  one renames away the claim the faster one has just linked, and both hold a
  lease.
- `AttachmentRetention`: retention drops an ended receipt workflow and keeps its
  intent and binding, whose check reads the workflow; every later write is
  refused.

The modules state further sentences of the repository that do not hold of the code
(marked "does not hold"). `PROJECT.json` has no run for them; each has its own
configuration, with which TLC shows the trace in at most a minute or two, for
instance `tlc -config EventStoreFork.cfg MCEventStore`. Where a passing property
is about the same behaviour, it names the case as its exception (`Barred` and
`ReadInVain`, `fork`, `exposed`, `lost`).

| configuration of | property | what happens |
|---|---|---|
| `LeaseFence`, `MCBrokerLease` | `ChildFence` | a contender judges a record it read before the owner registered its child (`broker-lease.mjs:217`), and takes over beside the live child, against `test/broker-authority.test.mjs:130`, "a live click-capable browser child prevents generation takeover" |
| `ExchangeRestart`, `MCExchange` | `RestartResumes` | a confirmed Send cancelled after its head commit counts as transferred only until the next exchange commits (`broker.mjs:7314`); its claim then comes back and a restart cannot admit the running exchange (1465), against `README.md:51`, "resumes that capture after a facade or broker restart" |
| `ExchangeRetry`, `MCExchange` | `RetryOnlyUndelivered` | `browser_control_unavailable` comes from any stage of the driver (`ego-driver-source.mjs:5069`), also after the click, and is retried as a failure before the Send, against `README.md:541`, "potentially accepted Sends stay in read-only reconciliation"; the marker prevents a second Send, but the retry anchors anew past the delivered pair |
| `ExchangeAbandon`, `MCExchange` | `AbandonmentIsLast` | a manual reconciliation (`broker.mjs:2561`) completes whatever the workflow has become, also an abandoned one, against the comment at 3697, "Abandonment is this workflow's last possible terminal transition" |
| `EventStoreFork`, `MCEventStore` | `IdentitiesSurvive` | a write whose sync fails leaves its line, and its number is given to another event (`store.mjs:2525`); a restart applies the first line and skips the second, so an operation that was acknowledged is forgotten, against `README.md:300`, "exact lifetime operation identities" |
| `EventStorePins`, `MCEventStore` | `PinnedUntilReferenced` | pins are kept by digest: of two workflows with one response the event of the first removes the pin of the second (`store.mjs:2539`), and a compaction may remove the body before the second refers to it, against the comment at 1611, "Pin the digest until the event that references it" |
| `HandoffRestore`, `Handoff` | `RefusalRestores` | the socket a new generation binds between a setup's last look and its rename is moved away (`runtime-handoff.mjs:265`); the look after the rename refuses before the socket is noted for the restore, against `README.md:171`, "restores those sockets on any active or ambiguous evidence" |
| `AttachmentNotSent`, `MCAttachmentEvidence` | `NotDispatchedIsTrue` | the list of errors from before a Send holds one that is raised after the click too, and judges those of a read-only reconciliation as well (`broker.mjs:4086`, 4160): evidence says that no dispatch occurred of a prompt that was sent |
| `ConvergenceRestart`, `MCConvergence` | `RestartResumes` | a rotation deferred by a stored result has no checkpoint, so the two counters that tell a missing rotation (`broker.mjs:6684`) disagree for ever, and the next restart stops with `convergence_recovery_state_invalid`, against `CONTINUITY.md:49` and 51 |
| `ConvergencePause`, `MCConvergence` | `PauseHolds` | a crash between `review_captured` and the check for a weaker model (line 6357): the restart settles (`broker.mjs:5591`) without it, against `README.md:415` |

Smaller observations met while modelling, none of which a property rests on:

- Exchange: a cancel during `persistStarted` leaves an ordinary review child running.
- Convergence: a second review attempt that was promoted is not resumed after a
  restart, for `#canResumeConvergence` knows only the first attempt's identity.
- Attachment receipts: abandonment of a receipt exchange is always refused; a
  late confirmation or a signing failure leaves a running workflow without a
  runner, and its reservation, until a restart; an observation after the capture
  deadline asks for a person instead of expiring; a cancelled capture in flight
  may still be stored as succeeded.
- Eagle Monitor: one unanswered poll lets an unchanged terminal snapshot be
  reconciled again; an accepted alert is repeated early when another took its
  slot; stagnation recorded in shadow mode is not told in a later safe session;
  an empty `monitor.lock` after a kill refuses every later start; broker errors
  other than a lost connection end every tick without an alert; an accepted
  overflow summary left behind by a crash hides the next retained report
  (`Spent`, the exception `NothingDropped` makes; it takes three changes of the
  world and four faults).
- Event store: a torn last line makes the broker refuse to start.
- Handoff: a handler whose caller hung up may outlive the sockets and write
  after the lease is released; a timeout of setup is reported as failure though
  the broker still drains and stops, and a fence is not taken down after a
  signal; a restore may overwrite a socket bound since its look; a setup killed
  inside the fence leaves the broker behind it; a second setup that looks
  meanwhile reports `not_running`; waiting for the exit times out when a
  successor has already taken the lock.

## 5. Proofs

The proofs hold for every set of tasks, runners, artifacts, activities, leases,
effects, callers, processes, generations, clients, setups, exchanges, receipts,
bindings, page snapshots, checkpoints and pieces of evidence, for every bound on
cycles, recoveries, retries, chats, faults, crashes, attempts, windows, leases of
the monitor, sessions and acts of people, and from every initial world of a
convergence.

| theorem | statement |
|---|---|
| `TypeCorrect` | `Spec => []TypeOK` |
| `StoredStateIsValid` | `Spec => []StoredStateValid` |
| `LeasesAreFenced`, `EvidenceStaysExact`, `ApprovalsAreBacked`, `StatusStaysDerived` | the parts of it that matter most |
| `EndedStaysEnded` | `Spec => NothingRevives` |
| `ReducerImplementsGate` | `Spec => Gate!Spec`, the refinement of `MergeGate` |
| `LedgerStaysTruthful` | `EffectSpec => []LedgerTruthful` of `TaskEffects` |
| `GenerationsAreSerial`, `RaceHasOneWinner` | `Spec => []SerialGenerations` and `Spec => []OneWinner` of `BrokerLease` |
| `BrokersStopIdle`, `ServersAreReachable` | `Spec => []StopsIdle` and `Spec => []Reachable` of `Handoff` |
| `RestartAgreesHolds`, `IdentityOnceHolds`, `BodiesKeptHolds` | `Spec => []RestartAgrees`, `[]IdentityOnce`, `[]BodiesKept` of `EventStore` |
| `EndedStaysEndedHolds`, `ReviewKeptHolds` | `Spec => EndedStaysEnded` and `=> ReviewKept` of `EventStore` |
| `SentAtMostOnce`, `ResultsStayOwn`, `OneExchangeRuns` | `Spec => []SentOnce`, `[]ResultsAreOwn`, `[]RunsAlone` of `Exchange` |
| `CheckpointAdvances` | `Spec => HeadAdvances` of `Exchange` |
| `WorkedOnceHolds`, `ReviewedOnceHolds`, `SettledOnEvidenceHolds` | `Spec => []WorkedOnce`, `[]ReviewedOnce`, `[]SettledOnEvidence` of `Continuation` |
| `StateValidHolds` | `Spec => []StateValid` of `Continuation` |
| `CancelRevokesHolds` | `Spec => CancelRevokes` of `Continuation` |
| `LedgersStayValid`, `EvidenceStaysTrue` | `Spec => []StateValid` and `Spec => []EvidenceIsTrue` of `AttachmentEvidence` |
| `NothingIsDoneTwice` | `Spec => DoneOnce` of `AttachmentEvidence` |
| `StateValidHolds`, `StartsBoundedHolds` | `Spec => []StateValid` and `Spec => []StartsBounded` of `EagleMonitor` |
| `NothingDroppedHolds` | `Spec => NothingDropped` of `EagleMonitor` |
| `SemanticValidHolds` | `SemanticSpec => []SemanticValid` of `EagleSemantic` |
| `VerdictHolds`, `StallHolds`, `CoverHolds` | `SemanticSpec => VerdictNeedsTwo`, `=> StallIsNoticed`, `=> CoverIsBounded` of `EagleSemantic` |

Assumptions. `None`, the absent value, is none of the values it stands beside
(`NoneAssumption` of `TaskDomain`, of `EventStore` and of `Exchange`,
`EffectNoneAssumption`, `SemanticVoidAssumption`, `LockNoneAssumption`, part of
`ExchangeAssumption` and of `EvidenceAssumption`); times are integers
(`TimeAssumption`); tokens that a caller presents are positive (`TokenAssumption`,
the code's validation); bounds are numbers (`EffectBoundsAssumption`,
`AttemptsAssumption`, `BoundsAssumption`, `HandoffAssumption`,
`ExchangeAssumption`, `ConvergenceAssumption`, `EvidenceAssumption`,
`SemanticAssumption`, which also asks for a history of at least six checkpoints,
the longest window the loop tests look at: the code keeps twelve). Receipts and
bindings are finite in number, for two counters count them, a page shows
well-formed counts (`EvidenceAssumption`), and so is the evidence the monitor may
see; the other sets need not be finite. A world whose record is in its second
cycle is one of a request that allows two (`ConvergenceAssumption`). What the
monitor may observe is something its classifier knows (`WorldsAssumption`).
Nothing else is assumed.

*TaskDomain*. The inductive invariant is `IInv == TypeOK /\ StoredStateValid`,
the whole of what `validateTaskState` checks. No part is inductive alone: that a
completion keeps `Fencing` needs `References` (a lease is in its activity's
list) and the token equations; that a publication keeps `EvidenceIsCurrent`
needs `ArtifactChain` (the task's revision is the last artifact's, so
`changed`, computed from the artifact, is about the task); that a lease of an
activity keeps `ApprovalBacked` needs the bound activity to be `succeeded`, and
that leasing does not touch a derived status needs the activity not to count as
evidence. There is one lemma per command (`CreateKeeps`, `RegisterKeeps`,
`PublishKeeps`, `LeaseKeeps`, ...), each with one step per part of the invariant,
over lemmas on the helpers (`PutStore`, `ReplaceStore`, `SameStatus`,
`OtherTaskStatus`). `NothingRevives` follows from `IInv` by a lemma per command
(`...Freezes`).

The refinement uses the same invariant, with two facts more: no task lacks a
requirement (`RequiresSomething`), and a task is marked ready exactly when it has
a current approval (`ReadyIsApproved`, from `StatusIsDerived`). A command moves
one task, so `AtOneTask` lifts the look of a task to the gate's functions. A
publication of another revision is `Publish`, a successful completion or review
is `Prove`, an approval is `Open`; a lease, a registration, a failure and a
publication of the same revision are stutters.

*TaskEffects*. An apply is paid for by an absence: `ApplyAfterAbsence` counts
both, so it is inductive only with the callers that have found an absence and
are about to apply (`Applying`), and these can be counted because only finitely
many invocations are ever under way (`FinitelyMany`). `CallersKnow` carries what
an invocation read over the other callers' steps and crashes: that its effect
left "reserved", that its request is on the way or the object exists, that what
it is about to record is there. Effects are created once per identity, so an
identity read cannot become another's.

*BrokerLease*. The two theorems have two arguments. Where starts do not overlap
(`NoOverlap`), who is past the link owns the record at the path (`HoldersLock`),
the record a contender judges is still that of the owner it read
(`JudgesOwner`), so retiring it retires a dead one; and the epoch file holds the
holder's epoch, the highest (`EpochsRise`). Where nobody has left (`First`),
each record anyone can have read is of a process that claims or is active, and
is judged alive: nothing is ever retired, and the first to link wins. Neither
holds of overlapping starts after a departure, where the code really fails
(`LeaseStaleRace`).

*Handoff*. The invariant says who may write. One generation holds the lock and
another live one has released it (`OneHolder`); a drain's observations stay true
behind the closed gate (`Draining`, `Drains`), because a closed gate admits
nobody and nothing else starts work; a socket behind a fence is at no path and
behind no other setup's fence (`Fences`), so nobody connects and the work in
flight only becomes less (`Proven`, `Signalled`). `Reachable` is inductive with
`Fences` and `Shut` (a setup that ends with a socket behind its fence has told
its broker to stop): each step that empties the path is of its own generation, of
a fence, or takes or overwrites what came in between (`lost`). Trying to
prove the stronger `StopsIdle` this model once had showed the case of a
lingering handler described above.

*EventStore*. Three invariants, each over the ones before it. `IInv` says that what
is stored can be read, that every call was decided on something real
(`Founded`), and which files a compaction has replaced (`Stage`). `Numbered`: no
line has a number above the one the broker gives next, and the lines with just
that number, those of failed writes, are events that would fit (`Strays`).

`Sound` holds while no event was lost under the number of another (`Safe`). What a
start finds is `Near` the broker's state, or near it with one stray event applied
(`Like`): the same number and the same operations, and of the workflows all but
what retention may drop. An event that fits the one fits the other (`FitsBoth`),
and retention only moves the broker's state further in the same direction
(`RetentionNear`, `NearTrans`), so a line may be appended after a compaction that
failed half-way. A replay over any file a compaction has just replaced skips every
line but a stray one (`LineSkipped`, `ReplayOver`, `RenewedReadable`,
`ReplacedKeeps`), so a stray event is found again after any restart, or another
is written under its number and the fork is open until the ledger is emptied.
`Recovered` replays a ledger of any length; what a replay of one line more
computes (`ReplayAppend`) is proved by induction on the length, written as the
principle of the least counterexample over sets (`Induction`), since an induction
theorem that takes a predicate cannot be applied here. `IdentityOnce` needs that
a workflow is always the one its key names and that keys are never dropped
(`Named`, `Told`).

`Stored` is what `BodiesKept` rests on: bodies referred to or pinned are there or
exposed (`There`), and the body of a step that may still be taken is referred to or
held (`Backed`); a step decided on a record that another event has since replaced
is never admitted, for the record's number tells them apart. It needs neither
`Sound` nor anything of what failures leave. `EndedStaysEnded` and `ReviewKept`
are of one step, from `IInv`: only an event changes a record (`EventSpares`), and
only retention drops one.

*Exchange*. `SentOnce` rests on there being one child that can click: a broker
has one driver, a broker that is down none, and a new one is only admitted after
the orphan has ended (`Down`). A child past its look for the marker has not
found it, and nobody else puts that marker on the page (`Looked`), so the click
adds the first one (`Once`). `RunsAlone` holds although the busy flag is lowered
early, because a running workflow keeps its admission (`Admission`). The page
only grows, so a pair once seen stays where it is: a result is two past the
anchor, with the pair between, from the moment the runner has it in hand
(`Results`), and the anchor moves only while nothing is captured. That the
head is moved only over such a pair gives `HeadAdvances`. There are two kinds of
lemma: what an action writes (`...Writes`), one per action, and what can change a
fact (`...From`), one per fact.

*Convergence and Continuation*. The runner keeps nothing of its own over a step
but its place, so the invariant says that, while the convergence runs, its place
and the phase of the record determine each other (`Places`, `PhaseAt`); after a
crash the place is lost, and what the phase alone says of turn, launch and result
(`PhaseKnows`) is what recovery finds. With the launch marker beside the last
turn (`Named`), every turn not accounted for is the turn or the launch the record
names (`TurnsKept`), which gives `WorkedOnce`. `ReviewedOnce` needs that a second
attempt stands on a first that was never sent and has ended (`Attempts`), since a
review that has ended never changes (`Ages`), and that no conversation is made
beyond the chat to come (`Blanks`), so that a pause, a crash and a person's
resumption find the plan as it was left (`Planned`). `SettledOnEvidence` follows
the candidate from the record of its cycle to the review that settles it
(`Recorded`, `Asked`, `Completed`). Its last part, that the candidate is not of a
thread given up at a checkpoint, is not inductive by itself: a record that kept
such a thread is repaired at its next start, so `Rotates` says where an
unrepaired record may stand and that a candidate of that thread cannot settle
from there. `CancelRevokes` needs only the shape and that ended reviews stay: a
cancelled record enables no step of the runner that writes it, and a write under
way finds the status changed. `StateValid` adds the counters (`Bounds`): exits are
counted up to the limit only while a turn is in force, a chat is left only when
another is allowed, and the thread is the one after the last counted rotation,
or none yet in a record that was just created; the rest of it follows from the
invariant the other theorems rest on.

*AttachmentEvidence*. What the store's validator demands is not inductive: it
takes a dispatch, a capture and a disposition each for itself. The invariant
says what the phase of a workflow tells of them (`Dispatching`, `Disposed`): an
unconfirmed prompt is in an early phase, a workflow has its disposition exactly
when it has ended, and a disposition without a capture is the outcome its
dispatch records. The two runners only remember it: an exchange runner past its
arming stands on an armed dispatch, so only one of them hands the prompt to the
page (`RunnerKnows`), and a capture runner that asks for an observation has room
for it (`CapturerKnows`), though clock, cancel and crash come between. The
retained observations name their own entries of the journal (`Journal`): a
recovery drops the candidate with them, so a pair is of two entries that no
recovery separates, and with the case analysis of the classifier (`ClassifyIs`)
`EvidenceIsTrue` follows. A step is of one workflow (`Elsewhere`), which shares
the counters and its binding's entry; the entry names its owner, so it is no
other's (`EntryWritten`).

*EagleMonitor*. `StartsBounded` compares two lists that are pruned at different
times, the starts written down and the brokers started, so the invariant compares
them age by age: for every age up to the window, at least as many starts of at most
that age are written down as brokers were started (`AtLeast`, by `Count`). Passing
time moves both one age on (`AtLeastOlder`), dropping what is older than the window
changes no count (`AtLeastRecent`), and between the record of a start and the start
the record covers one broker more (`Recorded`). The starts survive the change of
session that forgets all else. `StateValid` is inductive with what a state says of
its reports (`ReportsOK`): no two are of one incident, the summary is only ever
retained, and the list is longer than its limit only by the summary. Each operation
on the list has its lemma (`PutOK`, `RetainedOK`, `PlacedOK`, `RotatedOK`,
`OpenOnlyOK`, `AgedOK`), each verdict its policy (`ClassifyOK`, `ChooseOK`).
`NothingDropped` adds that what a tick builds holds each report still open in the
file, or the summary in its place (`Held`), except while a call is out, when only
the receipt changes (`Holding`). Proving it showed the exception the property now
names: a summary that was accepted and that a death left behind.

*EagleSemantic*. The classifier is a function of the stored state and one
observation, so the invariant is about one record (`Sound`, checked by TLC on the
run's instance before it was proved). `SemanticValid` alone is not inductive: it
does not say that observing the same instant again changes nothing. That takes what
the last observation left behind: its evidence has been taken in or the table is full
(`TableOK`), its wait is pinned and extended already (`WaitOK`), the window ends with
it (`WindowOK`); and that doubts are counted exactly while neither wait nor evidence
speaks for the workflow (`DoubtOK`). `ClassifiedIs` reads the classifier off the
record it returns (`Reads`), `SameInstant` is the case of no news, and one lemma per
part of the record follows (`ObservedWaits`, `ObservedEvidence`, `ObservedCounts`,
`ObservedWindow`, `ObservedClass`, `ObservedRelations`). Of the loop patterns the proofs
use that they take a window of three, so that a loop needs a generation observed
before; what they recognise is left to TLC.

Only model-checked: every liveness property.
Out of TLAPS's reach: liveness under fairness and `ENABLED`, theorems that take a
predicate as parameter (among them the library's induction), and modules that
declare RECURSIVE operators; no module here declares one (recursion is a recursive
function or a fold of the community modules).

## 6. Plan

Modelled, in the order of the first plan: task domain with its gate and proofs,
effects, lease, exchange, event store, convergence with continuation, the
monitor, attachment receipts, upgrade and handoff.

Every safety invariant and action property that a run checks is stated by a theorem.

## 7. Not modelled

- Conversation adoption and binding: mostly what the page shows.
- Exchange: conversations created by the exchange itself, the path without the
  send/capture split, conflicts between two bindings, the mailbox's capacity,
  model selection and composition inside the page.
- Event store: migration of old schemas, hardening of the blob directory against
  foreign files.
- Convergence: transport compaction, metrics, timeouts and setup retries that
  change nothing, prompt texts, reply idempotence of resume receipts, the policy
  that only alerts on a weaker model, unbounded `maxCycles`.
- App Server client: its transport, output limits and approval requests.
- Attachment receipts: canonical JSON, digests, signatures and key files are the
  values they cover; consumer acknowledgements are one step.
- Eagle Monitor: power assertions, the alert of a failing store, LaunchAgent
  files and their rollback, the public status, operational incidents, the backoff
  schedule, two monitors that race for the lock.
- IPC: framing, tokens, size limits, permissions of the socket and its directory,
  alias sockets with names of their own, a signal sent by a person.
- Supervision and alerts: projections of workflow records without state.
- MCP server, command lines: translation of calls and formatting.
- Configuration, validation, errors, constants: schemas without behaviour.
- The native setup (`rust/`, `build.rs`): installation of files.
- Page handling inside the driver (selectors, model policy, composition):
  depends on a page whose behaviour is not in the repository.
