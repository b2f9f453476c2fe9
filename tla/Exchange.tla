------------------------------ MODULE Exchange ------------------------------
(***************************************************************************)
(* One marked exchange of a bound conversation: a prompt is sent to a      *)
(* ChatGPT page by a browser driver process, the answer is captured, made  *)
(* durable, and the binding's head checkpoint is advanced over the pair.   *)
(*                                                                         *)
(*   src/src/broker.mjs              startEgoExchange, runEgoExchange,     *)
(*                                   restart recovery, cancel, abandon,    *)
(*                                   manual reconciliation                 *)
(*   src/src/ego-driver-source.mjs   the driver's exchange and reconcile   *)
(*   src/src/ego-adapter.mjs         the driver's process                  *)
(*                                                                         *)
(* A message of the page is [role, turn]: the turn is the exchange whose   *)
(* marker the prompt carries, or Human.  A head is the number of messages  *)
(* it covers.  Only the bound, staged (send then capture) path is here: no *)
(* create-once conversation, no attachment receipt.                        *)
(***************************************************************************)
EXTENDS Integers, FiniteSets, SequencesExt

CONSTANTS
    Exchange,       \* marked exchanges of the one binding (operation keys)
    Reviews,        \* those that are the review child of a running convergence
    None, Human,
    Budgets         \* bounds, one of which a behaviour has: turns typed by the
                    \* person at the page, driver and capture failures,
                    \* cancellations, broker crashes and started exchanges

Budget == [{"humans", "faults", "cancels", "crashes", "starts"} -> Nat]

ASSUME ExchangeAssumption ==
    /\ Reviews \subseteq Exchange
    /\ None \notin Exchange /\ Human \notin Exchange /\ None # Human
    /\ Budgets \subseteq Budget

VARIABLES
    conv,       \* the page: the messages after the first checkpoint
    head,       \* binding.headFingerprint ..., as a number of messages
    committed,  \* binding.lastExchangeWorkflowId
    reconciled, \* binding.lastReconciledWorkflowId
    wf,         \* the durable workflows
    active,     \* #activeBindings has the binding
    admission,  \* owners in #taskSpaceAdmissionReservations
    controllers,\* workflows with an entry in #controllers
    aborted,    \* runners whose controller was aborted
    cancelling, \* cancels that aborted and have not yet persisted
    abandoning, \* abandonments between their busy check and their write
    pc,         \* where the runner (or the manual reconciliation) is
    error,      \* what the runner caught
    driver,     \* the browser child of this broker: [turn, stage], or None
    orphan,     \* the browser child of a crashed broker, or None
    up,         \* the broker process runs
    left        \* what the bounds still allow

page    == <<conv, head>>
store   == <<committed, reconciled, wf>>
locks   == <<active, admission, controllers, aborted>>
users   == <<cancelling, abandoning>>
runner  == <<pc, error>>
process == <<driver, orphan, up>>
vars == <<page, store, locks, users, runner, process, left>>

Statuses == {"running", "human_required", "cancelled", "succeeded"}
Phases == {"browser_owned", "send_confirmed", "restart_reconciling",
           "response_captured", "head_committed", "recovery_abandoned"}
Codes == {"none", "recoverable", "final"}
Workflow == [status : Statuses, phase : Phases, before : Nat, sent : BOOLEAN,
             result : Nat, late : BOOLEAN, code : Codes]
Stages == {"checking", "composed", "fenced", "clicked"}
Child == [turn : Exchange, stage : Stages]
Places == {"none", "begin", "reconcile", "absent", "send", "retry", "reanchored",
           "capture", "store", "commit", "committed", "complete", "caught",
           "stopping", "rerun",
           "late read", "late store", "late commit", "late complete"}

Message == [role : {"user", "assistant"}, turn : Exchange \cup {Human}]

ASSUME NoneAssumption == None \notin Workflow \cup Child

TypeOK ==
    /\ conv \in Seq(Message)
    /\ head \in 0..Len(conv)
    /\ committed \in Exchange \cup {None}
    /\ reconciled \in Exchange \cup {None}
    /\ wf \in [Exchange -> Workflow \cup {None}]
    /\ active \in BOOLEAN
    /\ admission \subseteq Exchange
    /\ controllers \subseteq Exchange
    /\ aborted \subseteq Exchange
    /\ cancelling \subseteq Exchange
    /\ abandoning \in [Exchange -> Workflow \cup {None}]
    /\ pc \in [Exchange -> Places]
    /\ error \in [Exchange -> {"none", "recoverable", "final", "human only"}]
    /\ driver \in Child \cup {None}
    /\ orphan \in Child \cup {None}
    /\ up \in BOOLEAN
    /\ left \in Budget

-----------------------------------------------------------------------------
(* What the page shows. *)

Prompt(e) == [role |-> "user", turn |-> e]
Answer(e) == [role |-> "assistant", turn |-> e]

Deliveries(e) == {i \in DOMAIN conv : conv[i] = Prompt(e)}
Delivered(e) == Deliveries(e) # {}
Generating == conv # <<>> /\ Last(conv).role = "user"

\* Mutant of PairAfter: any two messages after the anchor will do.
TwoAfter(n, e) == Len(conv) = n + 2 /\ conv[n + 2].role = "assistant"

\* Exactly one user/assistant pair of this turn stands after the anchor.
PairAfter(n, e) == /\ Len(conv) = n + 2
                   /\ conv[n + 1] = Prompt(e)
                   /\ conv[n + 2] = Answer(e)

\* The anchor is the last message and the marker is nowhere on the page.
AbsentAt(n, e) == Len(conv) = n /\ ~Delivered(e)

\* A durable claim on the conversation: a confirmed Send, or a captured
\* response, not yet transferred to the binding and not abandoned.
Claims(f) ==
    /\ wf[f] # None
    /\ wf[f].phase # "recovery_abandoned"
    /\ wf[f].sent \/ wf[f].phase = "response_captured"
    /\ f \notin {committed, reconciled}
    /\ wf[f].status # "succeeded"

\* Mutant of CanAdmit: the claims are looked at, the reservations are not.
AdmitsUnclaimed(e) == \A f \in Exchange \ {e} : ~Claims(f)

\* #reserveTaskSpaceAdmission: nobody else holds or durably claims the binding.
CanAdmit(e) == \A f \in Exchange \ {e} : f \notin admission /\ ~Claims(f)

Running(e) == wf[e] # None /\ wf[e].status = "running"
Goto(e, place) == pc' = [pc EXCEPT ![e] = place]
Fail(e, kind) == Goto(e, "caught") /\ error' = [error EXCEPT ![e] = kind]
Spend(what) == left[what] > 0 /\ left' = [left EXCEPT ![what] = @ - 1]

(* What the transitions make of a workflow. *)
Phased(w, phase) == [w EXCEPT !.phase = phase]
Halted(w, code)  == [w EXCEPT !.status = "human_required", !.code = code]
Anchored(w, n)   == [w EXCEPT !.before = n]
Confirmed(w)     == [w EXCEPT !.phase = "send_confirmed", !.sent = TRUE]
Captured(w)      == [w EXCEPT !.phase = "response_captured", !.result = w.before + 2]
CapturedLate(w)  == [Captured(w) EXCEPT !.late = TRUE]
Succeeded(w)     == [w EXCEPT !.status = "succeeded", !.phase = "head_committed"]
SucceededLate(w) == [Succeeded(w) EXCEPT !.code = "none"]
Abandoned(w)     == [Phased(w, "recovery_abandoned")
                       EXCEPT !.status = "cancelled", !.code = "none"]

Init ==
    /\ conv = <<>> /\ head = 0
    /\ committed = None /\ reconciled = None
    /\ wf = [e \in Exchange |-> None]
    /\ active = FALSE
    /\ admission = {} /\ controllers = {} /\ aborted = {} /\ cancelling = {}
    /\ abandoning = [e \in Exchange |-> None]
    /\ pc = [e \in Exchange |-> "none"]
    /\ error = [e \in Exchange |-> "none"]
    /\ driver = None /\ orphan = None
    /\ up = TRUE
    /\ left \in Budgets

-----------------------------------------------------------------------------
(* Starting an exchange, and its runner. *)

\* startEgoExchange: an operation already in the ledger is answered from it.
Start(e) ==
    /\ up /\ wf[e] = None /\ ~active /\ CanAdmit(e)
    /\ wf' = [wf EXCEPT ![e] =
          [status |-> "running", phase |-> "browser_owned", before |-> head,
           sent |-> FALSE, result |-> 0, late |-> FALSE, code |-> "none"]]
    /\ active' = TRUE
    /\ admission' = admission \cup {e}
    /\ controllers' = controllers \cup {e}
    /\ Goto(e, "begin") /\ Spend("starts")
    /\ UNCHANGED <<page, committed, reconciled, aborted, users, error, process>>

\* The runner's finally block: the admission stays when the workflow still
\* looks unfinished, which a cancel that has not yet persisted makes it do.
Leave(e) ==
    /\ controllers' = controllers \ {e}
    /\ aborted' = aborted \ {e}
    /\ active' = FALSE
    /\ admission' = IF Running(e)' THEN admission ELSE admission \ {e}
    /\ pc' = [pc EXCEPT ![e] = "none"]
    /\ error' = [error EXCEPT ![e] = "none"]

\* "if (!current || current.status !== running) return", after an await.
Overtaken(e) ==
    /\ pc[e] \in {"begin", "reconcile", "absent", "retry", "reanchored",
                  "capture", "store", "committed", "complete"}
    /\ ~Running(e)
    /\ UNCHANGED wf /\ Leave(e)
    /\ UNCHANGED <<page, committed, reconciled, users, process, left>>

\* An aborted signal ends every wait and every driver call of the runner.
Interrupted(e) ==
    /\ e \in aborted
    /\ pc[e] \in {"reconcile", "retry", "capture", "caught"}
    /\ UNCHANGED wf /\ Leave(e)
    /\ UNCHANGED <<page, committed, reconciled, users, process, left>>

Begin(e) ==
    /\ pc[e] = "begin" /\ Running(e)
    /\ Goto(e, CASE wf[e].phase = "response_captured"   -> "commit"
                 [] wf[e].phase = "restart_reconciling" -> "reconcile"
                 [] wf[e].phase = "send_confirmed"      -> "capture"
                 [] OTHER                               -> "send")
    /\ UNCHANGED <<page, store, locks, users, error, process, left>>

\* recoverBrowserOwnedAfterRestart reads the page, and again until the
\* reading is decisive.
ReadDelivered(e) ==
    /\ pc[e] = "reconcile" /\ Running(e)
    /\ PairAfter(wf[e].before, e)
    /\ Goto(e, "store")
    /\ UNCHANGED <<page, store, locks, users, error, process, left>>

\* Mutant of ReadAbsent: absence is concluded only in the phase of a first run.
NeverAbsent(e) ==
    /\ pc[e] = "reconcile" /\ Running(e) /\ wf[e].phase = "browser_owned"
    /\ AbsentAt(wf[e].before, e) /\ head = wf[e].before
    /\ Goto(e, "absent")
    /\ UNCHANGED <<page, store, locks, users, error, process, left>>

ReadAbsent(e) ==
    /\ pc[e] = "reconcile" /\ Running(e)
    /\ AbsentAt(wf[e].before, e) /\ head = wf[e].before
    /\ Goto(e, "absent")
    /\ UNCHANGED <<page, store, locks, users, error, process, left>>

\* exchange.restart_delivery_absent, and back to sending.
RecordAbsent(e) ==
    /\ pc[e] = "absent" /\ Running(e)
    /\ wf' = [wf EXCEPT ![e] = Phased(@, "browser_owned")]
    /\ Goto(e, "send")
    /\ UNCHANGED <<page, committed, reconciled, locks, users, error, process, left>>

\* sendExchange: one browser child at a time in the adapter's lane.
Spawn(e) ==
    /\ pc[e] = "send" /\ driver = None /\ e \notin aborted
    /\ driver' = [turn |-> e, stage |-> "checking"]
    /\ UNCHANGED <<page, store, locks, users, runner, orphan, up, left>>

\* Another turn of the send loop, after the retry was made durable.
Retry(e) ==
    /\ pc[e] = "retry" /\ Running(e) /\ e \notin aborted
    /\ Goto(e, "send")
    /\ UNCHANGED <<page, store, locks, users, error, process, left>>

\* autoReanchorRunningExchange writes the binding first (see Reanchor), and
\* then the workflow's own anchor.
RecordReanchor(e) ==
    /\ pc[e] = "reanchored" /\ Running(e)
    /\ wf' = [wf EXCEPT ![e] = Anchored(@, head)]
    /\ Goto(e, "retry")
    /\ UNCHANGED <<page, committed, reconciled, locks, users, error, process, left>>

\* captureExchange: exactly one pair after the anchor; an incomplete or
\* mismatched page is polled again.
Capture(e) ==
    /\ pc[e] = "capture" /\ Running(e) /\ e \notin aborted
    /\ PairAfter(wf[e].before, e)
    /\ Goto(e, "store")
    /\ UNCHANGED <<page, store, locks, users, error, process, left>>

\* A provider condition, or half an hour of silence, stops for the person.
CapturePaused(e) ==
    /\ pc[e] = "capture" /\ Running(e) /\ e \notin aborted
    /\ Spend("faults")
    /\ wf' = [wf EXCEPT ![e] = Halted(@, "recoverable")]
    /\ Leave(e)
    /\ UNCHANGED <<page, committed, reconciled, users, process>>

\* exchange.response_captured: the captured pair is made durable.
Store(e) ==
    /\ pc[e] = "store" /\ Running(e)
    /\ wf' = [wf EXCEPT ![e] = Captured(@)]
    /\ Goto(e, "commit")
    /\ UNCHANGED <<page, committed, reconciled, locks, users, error, process, left>>

\* The head commit does not ask whether the workflow still runs.
Commit(e) ==
    /\ pc[e] = "commit"
    /\ \/ /\ committed = e /\ head = wf[e].result
          /\ Goto(e, "committed")
          /\ UNCHANGED <<head, committed, error>>
       \/ /\ committed # e /\ head = wf[e].before
          /\ head' = wf[e].result /\ committed' = e
          /\ Goto(e, "committed")
          /\ UNCHANGED error
       \/ /\ head # IF committed = e THEN wf[e].result ELSE wf[e].before
          /\ Fail(e, "final")
          /\ UNCHANGED <<head, committed>>
    /\ UNCHANGED <<conv, reconciled, wf, locks, users, process, left>>

\* The binding leaves #activeBindings before the completion is written.
Finish(e) ==
    /\ pc[e] = "committed" /\ Running(e)
    /\ active' = FALSE
    /\ Goto(e, "complete")
    /\ UNCHANGED <<page, store, admission, controllers, aborted, users, error, process, left>>

Succeed(e) ==
    /\ pc[e] = "complete" /\ Running(e)
    /\ wf' = [wf EXCEPT ![e] = Succeeded(@)]
    /\ Leave(e)
    /\ UNCHANGED <<page, committed, reconciled, users, process, left>>

\* The catch block.  A review of a running convergence goes back to read-only
\* reconciliation; anything else frees the binding and stops for the person.
Caught(e) ==
    /\ pc[e] = "caught" /\ e \notin aborted
    /\ \/ /\ ~Running(e)
          /\ UNCHANGED wf /\ Leave(e)
       \/ /\ Running(e)
          /\ e \in Reviews /\ wf[e].phase = "browser_owned" /\ error[e] # "human only"
          /\ wf' = [wf EXCEPT ![e] = Phased(@, "restart_reconciling")]
          /\ controllers' = controllers \ {e}
          /\ active' = FALSE
          /\ Goto(e, "rerun")
          /\ error' = [error EXCEPT ![e] = "none"]
          /\ UNCHANGED <<admission, aborted>>
       \/ /\ Running(e)
          /\ ~(e \in Reviews /\ wf[e].phase = "browser_owned" /\ error[e] # "human only")
          /\ active' = FALSE
          /\ Goto(e, "stopping")
          /\ UNCHANGED <<wf, admission, controllers, aborted, error>>
    /\ UNCHANGED <<page, committed, reconciled, users, process, left>>

Stop(e) ==
    /\ pc[e] = "stopping"
    /\ wf' = IF Running(e)
             THEN [wf EXCEPT ![e] = Halted(@, IF error[e] = "recoverable"
                                              THEN "recoverable" ELSE "final")]
             ELSE wf
    /\ Leave(e)
    /\ UNCHANGED <<page, committed, reconciled, users, process, left>>

\* The microtask that starts a review's runner again.
Rerun(e) ==
    /\ pc[e] = "rerun"
    /\ IF Running(e) /\ e \notin controllers
       THEN /\ active' = TRUE /\ controllers' = controllers \cup {e}
            /\ aborted' = aborted \ {e} /\ Goto(e, "begin")
       ELSE Goto(e, "none") /\ UNCHANGED <<active, controllers, aborted>>
    /\ UNCHANGED <<page, store, admission, users, error, process, left>>

-----------------------------------------------------------------------------
(* The browser child of a send. *)

DriverAt(e, stage) == pc[e] = "send" /\ driver = [turn |-> e, stage |-> stage]

\* Mutant of Check: the marker is not searched for.
CheckHead(e) ==
    /\ DriverAt(e, "checking")
    /\ ~Generating /\ Len(conv) = wf[e].before
    /\ driver' = [turn |-> e, stage |-> "composed"]
    /\ UNCHANGED <<page, store, locks, users, runner, orphan, up, left>>

\* The page is idle, at the anchor, and does not show the marker.
Check(e) ==
    /\ DriverAt(e, "checking")
    /\ ~Generating /\ AbsentAt(wf[e].before, e)
    /\ driver' = [turn |-> e, stage |-> "composed"]
    /\ UNCHANGED <<page, store, locks, users, runner, orphan, up, left>>

RefuseGenerating(e) ==
    /\ DriverAt(e, "checking") /\ Generating
    /\ driver' = None /\ Goto(e, "retry")
    /\ UNCHANGED <<page, store, locks, users, error, orphan, up, left>>

RefuseMarker(e) ==
    /\ DriverAt(e, "checking") /\ ~Generating
    /\ Len(conv) = wf[e].before /\ Delivered(e)
    /\ driver' = None /\ Fail(e, "final")
    /\ UNCHANGED <<page, store, locks, users, orphan, up, left>>

\* conversation_head_changed: a binding still at the exchange's anchor moves
\* to the assistant message the page ends with.
Reanchor(e) ==
    /\ DriverAt(e, "checking") /\ ~Generating /\ Len(conv) # wf[e].before
    /\ driver' = None
    /\ IF head = wf[e].before /\ e \notin aborted
       THEN head' = Len(conv) /\ Goto(e, "reanchored")
       ELSE Goto(e, "retry") /\ UNCHANGED head
    /\ UNCHANGED <<conv, store, locks, users, error, orphan, up, left>>

\* Every fence of the driver asks that the broker generation that spawned it
\* still owns the lease and lives.
Fence(e) ==
    /\ DriverAt(e, "composed")
    /\ driver' = [turn |-> e, stage |-> "fenced"]
    /\ UNCHANGED <<page, store, locks, users, runner, orphan, up, left>>

\* The click: the page shows the prompt at once.
Click(e) ==
    /\ DriverAt(e, "fenced") /\ ~Generating
    /\ conv' = Append(conv, Prompt(e))
    /\ driver' = [turn |-> e, stage |-> "clicked"]
    /\ UNCHANGED <<head, store, locks, users, runner, orphan, up, left>>

\* exchange.send_confirmed, when the page shows the marked prompt once.
Sent(e) ==
    /\ DriverAt(e, "clicked") /\ Cardinality(Deliveries(e)) = 1
    /\ driver' = None
    /\ IF Running(e)
       THEN /\ wf' = [wf EXCEPT ![e] = Confirmed(@)]
            /\ Goto(e, "capture")
            /\ UNCHANGED <<locks, error>>
       ELSE UNCHANGED wf /\ Leave(e)
    /\ UNCHANGED <<page, committed, reconciled, users, orphan, up, left>>

\* A failure with proof that nothing was clicked is retried.
FailUnclicked(e) ==
    /\ \E stage \in {"checking", "composed", "fenced"} : DriverAt(e, stage)
    /\ Spend("faults")
    /\ driver' = None /\ Goto(e, "retry")
    /\ UNCHANGED <<page, store, locks, users, error, orphan, up>>

\* send_confirmation_ambiguous, a timeout, a dead process, a head that moved
\* again under the re-anchoring read, or a condition only a person can resolve.
FailUnproven(e) ==
    /\ \E stage \in Stages : DriverAt(e, stage)
    /\ Spend("faults")
    /\ driver' = None
    /\ \E kind \in {"recoverable", "human only"} : Fail(e, kind)
    /\ UNCHANGED <<page, store, locks, users, orphan, up>>

\* The driver's catch block reports browser_control_unavailable at whatever
\* stage the person took the task space, and the broker retries that reason.
LoseControl(e) ==
    /\ DriverAt(e, "clicked")
    /\ Spend("faults")
    /\ driver' = None /\ Goto(e, "retry")
    /\ UNCHANGED <<page, store, locks, users, error, orphan, up>>

\* The abort signal kills the child; the adapter waits until it is dead.
Kill(e) ==
    /\ e \in aborted /\ pc[e] = "send"
    /\ driver \in {None} \cup [turn : {e}, stage : Stages]
    /\ driver' = None
    /\ UNCHANGED wf /\ Leave(e)
    /\ UNCHANGED <<page, committed, reconciled, users, orphan, up, left>>

\* The child of a crashed broker: past its last fence it still clicks.
OrphanClicks ==
    /\ orphan # None /\ orphan.stage = "fenced" /\ ~Generating
    /\ conv' = Append(conv, Prompt(orphan.turn))
    /\ orphan' = None
    /\ UNCHANGED <<head, store, locks, users, runner, driver, up, left>>

OrphanEnds ==
    /\ orphan # None
    /\ orphan' = None
    /\ UNCHANGED <<page, store, locks, users, runner, driver, up, left>>

-----------------------------------------------------------------------------
(* The user: cancel, abandon, and the manual read-only reconciliation. *)

\* cancelWorkflow aborts and forgets the controller, then writes.
Cancel(e) ==
    /\ up /\ Running(e) /\ e \notin cancelling
    /\ Spend("cancels")
    /\ aborted' = IF e \in controllers THEN aborted \cup {e} ELSE aborted
    /\ controllers' = controllers \ {e}
    /\ cancelling' = cancelling \cup {e}
    /\ UNCHANGED <<page, store, active, admission, abandoning, runner, process>>

CancelPersists(e) ==
    /\ e \in cancelling
    /\ cancelling' = cancelling \ {e}
    /\ wf' = IF Running(e)
             THEN [wf EXCEPT ![e] = Halted(@, "final")]
             ELSE wf
    /\ UNCHANGED <<page, committed, reconciled, locks, abandoning, runner, process, left>>

Busy(e) == e \in controllers \/ active

\* abandonWorkflow: checked now, written later against the workflow it saw.
Abandon(e) ==
    /\ up /\ wf[e] # None /\ wf[e].status = "human_required"
    /\ ~Busy(e) /\ abandoning[e] = None
    /\ abandoning' = [abandoning EXCEPT ![e] = wf[e]]
    /\ UNCHANGED <<page, store, locks, cancelling, runner, process, left>>

AbandonPersists(e) ==
    /\ abandoning[e] # None
    /\ abandoning' = [abandoning EXCEPT ![e] = None]
    /\ IF abandoning[e] = wf[e]
       THEN /\ wf' = [wf EXCEPT ![e] = Abandoned(@)]
            /\ admission' = admission \ {e}
       ELSE UNCHANGED <<wf, admission>>
    /\ UNCHANGED <<page, committed, reconciled, active, controllers, aborted,
                   cancelling, runner, process, left>>

\* reconcileConversation: a stopped exchange with a recoverable code is read
\* again; one whose late response is durable goes straight to the commit.
LateCaptured(e) == wf[e].phase = "response_captured" /\ wf[e].late

Reconcile(e) ==
    /\ pc[e] = "none"      \* bound: one reconciliation of an exchange at a time
    /\ up /\ wf[e] # None /\ wf[e].status = "human_required"
    /\ wf[e].code = "recoverable" \/ LateCaptured(e)
    /\ ~active /\ CanAdmit(e)
    /\ active' = TRUE /\ admission' = admission \cup {e}
    /\ Goto(e, IF LateCaptured(e) THEN "late commit" ELSE "late read")
    /\ UNCHANGED <<page, store, controllers, aborted, users, error, process, left>>

LateLeave(e) ==
    /\ active' = FALSE /\ admission' = admission \ {e}
    /\ Goto(e, "none")
    /\ UNCHANGED <<controllers, aborted, error>>

\* Delivery absence is concluded here only of a failure proven before the click,
\* and the send loop retries those: no exchange of the staged path stops with one.
LateRead(e) ==
    /\ pc[e] = "late read"
    /\ IF PairAfter(wf[e].before, e)
       THEN Goto(e, "late store") /\ UNCHANGED <<locks, error>>
       ELSE LateLeave(e)
    /\ UNCHANGED <<page, store, users, process, left>>

LateStore(e) ==
    /\ pc[e] = "late store"
    /\ IF wf[e].status = "human_required"
       THEN /\ wf' = [wf EXCEPT ![e] = CapturedLate(@)]
            /\ Goto(e, "late commit")
            /\ UNCHANGED <<locks, error>>
       ELSE UNCHANGED wf /\ LateLeave(e)
    /\ UNCHANGED <<page, committed, reconciled, users, process, left>>

\* Mutant of LateCommit: the head is not compared before it is replaced.
LateCommitBlind(e) ==
    /\ pc[e] = "late commit"
    /\ head' = wf[e].result /\ reconciled' = e
    /\ Goto(e, "late complete")
    /\ UNCHANGED <<conv, committed, wf, locks, error, users, process, left>>

LateCommit(e) ==
    /\ pc[e] = "late commit"
    /\ \/ /\ reconciled = e /\ head = wf[e].result
          /\ Goto(e, "late complete")
          /\ UNCHANGED <<head, reconciled, locks, error>>
       \/ /\ reconciled # e /\ head = wf[e].before
          /\ head' = wf[e].result /\ reconciled' = e
          /\ Goto(e, "late complete")
          /\ UNCHANGED <<locks, error>>
       \/ /\ head # IF reconciled = e THEN wf[e].result ELSE wf[e].before
          /\ LateLeave(e)
          /\ UNCHANGED <<head, reconciled>>
    /\ UNCHANGED <<conv, committed, wf, users, process, left>>

\* Whatever the workflow has become in the meantime, it succeeds.
LateComplete(e) ==
    /\ pc[e] = "late complete"
    /\ wf' = [wf EXCEPT ![e] = SucceededLate(@)]
    /\ LateLeave(e)
    /\ UNCHANGED <<page, committed, reconciled, users, process, left>>

-----------------------------------------------------------------------------
(* The environment: the page, the person typing, crashes and restarts. *)

\* ChatGPT answers the last prompt.
Reply ==
    /\ Generating
    /\ conv' = Append(conv, Answer(Last(conv).turn))
    /\ UNCHANGED <<head, store, locks, users, runner, process, left>>

\* The person types a turn of their own.
HumanSends ==
    /\ ~Generating
    /\ Spend("humans")
    /\ conv' = Append(conv, Prompt(Human))
    /\ UNCHANGED <<head, store, locks, users, runner, process>>

\* Memory is lost; the browser child is not.
Crash ==
    /\ up /\ Spend("crashes")
    /\ up' = FALSE
    /\ orphan' = driver /\ driver' = None
    /\ active' = FALSE
    /\ admission' = {} /\ controllers' = {} /\ aborted' = {} /\ cancelling' = {}
    /\ abandoning' = [e \in Exchange |-> None]
    /\ pc' = [e \in Exchange |-> "none"]
    /\ error' = [e \in Exchange |-> "none"]
    /\ UNCHANGED <<page, store>>

\* A new generation takes the lease over a dead browser child only.
LeaseFree == ~up /\ orphan = None

\* The new broker resumes the first running exchange of the binding.  It does
\* not start at all when that one cannot get its admission back.
Restart ==
    /\ LeaseFree
    /\ up' = TRUE
    /\ IF \A e \in Exchange : ~Running(e)
       THEN UNCHANGED <<wf, locks, pc>>
       ELSE \E first \in {e \in Exchange : Running(e)} :
              /\ CanAdmit(first)
              /\ wf' = [e \in Exchange |->
                    IF ~Running(e) THEN wf[e]
                    ELSE IF e # first
                    THEN Halted(wf[e], "recoverable")
                    ELSE IF wf[e].phase = "browser_owned"
                    THEN Phased(wf[e], "restart_reconciling")
                    ELSE wf[e]]
              /\ active' = TRUE
              /\ admission' = {first} /\ controllers' = {first}
              /\ Goto(first, "begin")
              /\ UNCHANGED aborted
    /\ UNCHANGED <<page, committed, reconciled, users, error, driver, orphan, left>>

-----------------------------------------------------------------------------

Runner(e) ==
    \/ Overtaken(e) \/ Interrupted(e) \/ Begin(e) \/ ReadDelivered(e) \/ ReadAbsent(e)
    \/ RecordAbsent(e) \/ Spawn(e) \/ Retry(e) \/ RecordReanchor(e) \/ Capture(e)
    \/ Store(e) \/ Commit(e) \/ Finish(e) \/ Succeed(e)
    \/ Caught(e) \/ Stop(e) \/ Rerun(e)

Driver(e) ==
    \/ Check(e) \/ RefuseGenerating(e) \/ RefuseMarker(e) \/ Reanchor(e)
    \/ Fence(e) \/ Click(e) \/ Sent(e) \/ Kill(e)

Fault(e) == CapturePaused(e) \/ FailUnclicked(e) \/ FailUnproven(e) \/ LoseControl(e)

Late(e) == LateRead(e) \/ LateStore(e) \/ LateCommit(e) \/ LateComplete(e)

User(e) == Start(e) \/ Cancel(e) \/ Abandon(e) \/ Reconcile(e)

Writes(e) == CancelPersists(e) \/ AbandonPersists(e)

Next ==
    \/ \E e \in Exchange : \/ Runner(e) \/ Driver(e) \/ Fault(e) \/ Late(e)
                           \/ User(e) \/ Writes(e)
    \/ Reply \/ HumanSends \/ Crash \/ Restart \/ OrphanClicks \/ OrphanEnds

Spec == Init /\ [][Next]_vars

\* The event loop runs every continuation that is ready, the child and the
\* page go on, and a stopped broker is started again.
Fairness ==
    /\ \A e \in Exchange : WF_vars(Runner(e)) /\ WF_vars(Driver(e))
                         /\ WF_vars(Late(e)) /\ WF_vars(Writes(e))
    /\ WF_vars(Reply) /\ WF_vars(OrphanEnds) /\ WF_vars(Restart)

FairSpec == Spec /\ Fairness

-----------------------------------------------------------------------------
(* Properties. *)

\* README: "automatic sends are fail-closed and effectively at-most-once".
\* Whatever fails, is retried, crashes or restarts, a marked prompt is on the
\* page at most once.
AtMostOnce == \A e \in Exchange : Cardinality(Deliveries(e)) <= 1

\* A restarted broker, and a review's read-only reconciliation, conclude
\* "not delivered" (and send again) only of a prompt that is not on the page
\* and that no process is about to click.
AbsentIsTrue == \A e \in Exchange : pc[e] = "absent" => ~Delivered(e)

\* So no prompt is sent twice, and none is thought absent that is not.
SentOnce == AtMostOnce /\ AbsentIsTrue

\* A durable result stands for this exchange's own prompt and the answer to
\* it, also with a person typing in the same conversation.
ResultAttributable ==
    \A e \in Exchange : wf[e] # None /\ wf[e].result > 0 =>
        /\ wf[e].result <= Len(conv)
        /\ conv[wf[e].result - 1] = Prompt(e)
        /\ conv[wf[e].result] = Answer(e)

\* A succeeded exchange has its pair under the binding's checkpoint.
SucceededIsCovered ==
    \A e \in Exchange : wf[e] # None /\ wf[e].status = "succeeded" =>
        0 < wf[e].result /\ wf[e].result <= head

\* The records are well formed, their results are the conversation's own, and
\* the checkpoint covers them.
ResultsAreOwn == TypeOK /\ ResultAttributable /\ SucceededIsCovered

\* One exchange of a binding runs at a time, although the busy flag is lowered
\* while an exchange still runs.
RunsAlone ==
    \A e, f \in Exchange : Running(e) /\ Running(f) => e = f

\* The binding's checkpoint never moves back over messages it covered.
HeadAdvances == [][head' >= head]_head

\* A stopped broker cannot give a running exchange its admission back.
Barred(e) == ~up /\ \E f \in Exchange \ {e} : Claims(f)

\* What follows the exchange's anchor is nothing, its prompt or its pair.
Readable(e) ==
    /\ IsPrefix(SubSeq(conv, wf[e].before + 1, Len(conv)), <<Prompt(e), Answer(e)>>)
    /\ \A i \in Deliveries(e) : i > wf[e].before

\* Its runner only reads, and what it reads will never be decisive.
ReadInVain(e) == /\ wf[e].phase \in {"restart_reconciling", "send_confirmed"}
                 /\ ~Readable(e)

\* A running exchange comes to a durable end, through failures, crashes, other
\* exchanges and a person at the page, but for two ways to be caught for ever:
\* the broker that was to resume it does not start, or the page has moved past
\* its anchor with the messages of another and is read again without an end.
Settles ==
    \A e \in Exchange :
        Running(e) ~> (~Running(e) \/ Barred(e) \/ ReadInVain(e))

\* README.md:51: the broker "resumes that capture after a facade or broker
\* restart".  (Does not hold.)
RestartResumes == \A e \in Exchange : Running(e) => ~Barred(e)

\* README.md:541: "potentially accepted Sends stay in read-only reconciliation".
\* (Does not hold.)
RetryOnlyUndelivered ==
    \A e \in Exchange : pc[e] = "retry" /\ Running(e) /\ wf[e].phase = "browser_owned"
                        => ~Delivered(e)

\* broker.mjs:3697: "Abandonment is this workflow's last possible terminal
\* transition".  (Does not hold.)
AbandonmentIsLast ==
    [][\A e \in Exchange : wf[e] # None /\ wf[e].phase = "recovery_abandoned"
                            => wf'[e] = wf[e]]_wf
=============================================================================
