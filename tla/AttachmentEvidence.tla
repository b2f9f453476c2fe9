-------------------------- MODULE AttachmentEvidence --------------------------
(* The evidence ledger of receipt-enabled exchanges: admission, the one        *)
(* dispatch, its confirmation or terminal disposition, the capture of the      *)
(* attachment graph, and the consumer's release.  src/store.mjs keeps the      *)
(* ledgers and validates their relations on every write; src/broker.mjs runs   *)
(* an exchange runner and a capture runner, each of which a crash, a cancel,   *)
(* a driver error or the clock may overtake between two writes.                *)
(*                                                                             *)
(* Signatures, digests and authority snapshots are the values they cover; a    *)
(* runner that throws outside a handled error leaves its workflow running      *)
(* without a runner, for the catch of #runEgoExchange drops the private part   *)
(* of the workflow and the store refuses that write for a receipt exchange.    *)
EXTENDS Integers, Sequences, FiniteSets, SequencesExt

CONSTANTS
  Workflow, Binding, None,
  Snapshots,      \* what the page may show: counts, completeness, Save control
  LiveLimit,      \* maxAttachmentIntents
  PermanentLimit, \* maxAttachmentPermanentBindings
  SendWindow,     \* the ten minutes a dispatch may take
  CaptureWindow,  \* the ten minutes a capture may take
  JournalLimit,   \* attempts of one capture, 32 in the code
  PairLimit,      \* candidate pairs of one capture, 8 in the code
  MaxTerminal,    \* maxTerminalWorkflows
  Crashes,        \* bound: broker crashes
  Horizon         \* bound: the last clock value

(* What one valid observation says; a count the page does not give leaves it *)
(* "UNSUPPORTED_EVIDENCE", coherent is the agreement of lists with counts.   *)
Shape ==
  [structure : {"complete", "INCOMPLETE_GRAPH", "TRUNCATED_GRAPH", "GENERATION_ACTIVE",
                "HYDRATION_PENDING", "UNSUPPORTED_EVIDENCE"},
   coherent : BOOLEAN, branches : Nat, total : Nat, images : Nat, others : Nat,
   unclassified : Nat, save : {"one", "none", "ambiguous"}]

(* The records of the ledger. *)
Phase == {"browser_owned", "receipt_dispatch_armed", "receipt_dispatch_resolved",
          "restart_reconciling", "awaiting_attachment_capture", "attachment_capture_started",
          "attachment_disposition_terminal", "attachment_evidence_released"}
Dispatch ==
  [state : {"ARMED", "CONFIRMED", "AMBIGUOUS", "PROVEN_NOT_DISPATCHED", "PROVEN_ABSENT"},
   seen : Nat \cup {None}, armed : Nat]
WorkflowRecord ==
  [status : {"running", "human_required", "succeeded"}, phase : Phase, kept : BOOLEAN,
   dispatch : Dispatch \cup {None}]
IntentRecord == [binding : Binding, created : Nat]
EntryRecord ==
  [owner : Workflow, state : {"RESERVED", "CONSUMED_AMBIGUOUS_PENDING_ACK",
                              "CONSUMED_NOT_SENT_PENDING_ACK", "CONSUMED_RELEASED"}]
Observation == [seq : Nat, at : Nat, shows : Shape]
CaptureRecord ==
  [state : {"CAPTURING", "TERMINAL"}, started : Nat,
   journal : Seq({"CANDIDATE", "PAIR_COMPLETED", "RECOVERABLE"}),
   seen : Seq(Observation), pairs : Nat]
Reasons ==
  {"INCOMPLETE_GRAPH", "TRUNCATED_GRAPH", "GENERATION_ACTIVE", "HYDRATION_PENDING",
   "UNSUPPORTED_EVIDENCE", "INCOHERENT_COUNTS", "UNCLASSIFIED_ARTIFACT",
   "MULTIPLE_RESPONSE_BRANCHES", "MULTIPLE_GENERATED_IMAGES", "MULTIPLE_TOTAL_ARTIFACTS",
   "AMBIGUOUS_SAVE_ASSOCIATION", "UNSUPPORTED_SAVE_ASSOCIATION", "EXACTLY_ONE_SUPPORTED",
   "ZERO_GENERATED_IMAGES", "UNSTABLE_EVIDENCE", "CAPTURE_ATTEMPT_LIMIT",
   "CAPTURE_DEADLINE_EXPIRED", "AMBIGUOUS", "PROVEN_NOT_DISPATCHED", "PROVEN_ABSENT"}
DispositionRecord ==
  [kind : {"execution", "ambiguous", "absence"}, reason : Reasons, at : Nat,
   seen : Seq(Observation)]

ASSUME EvidenceAssumption ==
  /\ Snapshots \subseteq Shape
  /\ None \notin Nat \cup Dispatch \cup WorkflowRecord \cup IntentRecord \cup EntryRecord
                  \cup CaptureRecord \cup DispositionRecord
  /\ IsFiniteSet(Workflow) /\ IsFiniteSet(Binding)
  /\ LiveLimit \in Nat /\ PermanentLimit \in Nat
  /\ SendWindow \in Nat /\ CaptureWindow \in Nat \ {0}
  /\ JournalLimit \in Nat \ {0} /\ PairLimit \in Nat \ {0}
  /\ MaxTerminal \in Nat /\ Crashes \in Nat /\ Horizon \in Nat

VARIABLES
  now, crashes, up,
  wf,        \* workflow -> None or [status, phase, kept, dispatch]
  intent,    \* workflow -> None or [binding, created]
  entry,     \* external binding -> None or [owner, state]
  live, permanent,  \* the two capacity counters
  confirmed, \* workflows with a confirmed Send identity and event
  capture,   \* workflow -> None or the capture operation
  disp,      \* workflow -> None or the terminal disposition
  acked,     \* workflows with acknowledgement and tombstone
  runner,    \* workflow -> where its exchange runner stands
  capturer,  \* workflow -> where its capture runner stands
  page       \* workflow -> what the driver has done with the prompt

ledger == <<intent, entry, live, permanent, confirmed, acked>>
outside == <<now, crashes, up>>
vars == <<outside, wf, ledger, capture, disp, runner, capturer, page>>

(***************************************************************************)
(* Observations and their classification.                                  *)
(***************************************************************************)
Sum(o) == o.images + o.others + o.unclassified

Structural(o) ==
  CASE o.structure # "complete" -> o.structure
    [] o.structure = "complete" /\ (o.total # Sum(o) \/ ~o.coherent) -> "INCOHERENT_COUNTS"
    [] OTHER -> IF o.unclassified > 0 THEN "UNCLASSIFIED_ARTIFACT" ELSE "none"

Stable(f, l) ==
  /\ l.seq = f.seq + 1
  /\ l.at - f.at \in 1..2          \* 750 to 2000 milliseconds
  /\ l.shows = f.shows

SaveReason(o) ==
  CASE o.save = "ambiguous" -> "AMBIGUOUS_SAVE_ASSOCIATION"
    [] o.save = "none"      -> "UNSUPPORTED_SAVE_ASSOCIATION"
    [] o.save = "one"       -> "EXACTLY_ONE_SUPPORTED"

(* The reason of a stable final observation; each determines its outcome. *)
Final(o) ==
  CASE o.branches > 1 -> "MULTIPLE_RESPONSE_BRANCHES"
    [] o.branches <= 1 /\ o.images > 1 -> "MULTIPLE_GENERATED_IMAGES"
    [] o.branches <= 1 /\ o.images = 1 /\ o.total > 1 -> "MULTIPLE_TOTAL_ARTIFACTS"
    [] o.branches = 1 /\ o.images = 1 /\ o.total = 1 -> SaveReason(o)
    [] o.branches <= 1 /\ o.images = 0 ->
         IF o.save # "none" THEN "AMBIGUOUS_SAVE_ASSOCIATION" ELSE "ZERO_GENERATED_IMAGES"
    [] OTHER -> "INCOHERENT_COUNTS"

Classify(f, l) ==
  CASE Structural(f.shows) # "none" -> Structural(f.shows)
    [] Structural(f.shows) = "none" /\ Structural(l.shows) # "none" -> Structural(l.shows)
    [] OTHER -> IF Stable(f, l) THEN Final(l.shows) ELSE "UNSTABLE_EVIDENCE"

Retryable == {"GENERATION_ACTIVE", "HYDRATION_PENDING", "INCOMPLETE_GRAPH", "UNSTABLE_EVIDENCE"}
Exhaustion == {"CAPTURE_ATTEMPT_LIMIT", "CAPTURE_DEADLINE_EXPIRED"}

(* What assertValidAttachmentExecutionDisposition takes: only the retained *)
(* final counts speak, and a reason must agree with them.                  *)
Accepted(reason, seen) ==
  IF Len(seen) < 2 THEN reason \in Exhaustion
  ELSE LET o == seen[2].shows IN
       /\ (reason = "INCOHERENT_COUNTS") = (o.total # Sum(o))
       /\ reason = "UNCLASSIFIED_ARTIFACT" => o.unclassified > 0

Deadline(i) == i.created + SendWindow
CaptureDeadline(c) == c.started + CaptureWindow
Clamp(t, i) == IF t > Deadline(i) THEN Deadline(i) ELSE t

Execution(reason, seen, at) ==
  [kind |-> "execution", reason |-> reason, at |-> at,
   seen |-> IF Len(seen) = 2 THEN seen ELSE <<>>]
SendOutcome(reason, at) == [kind |-> IF reason = "AMBIGUOUS" THEN "ambiguous" ELSE "absence",
                            reason |-> reason, at |-> at, seen |-> <<>>]

Pending(d) == CASE d.kind = "ambiguous" -> "CONSUMED_AMBIGUOUS_PENDING_ACK"
                [] d.kind = "absence"   -> "CONSUMED_NOT_SENT_PENDING_ACK"
                [] d.kind = "execution" -> "RESERVED"

(***************************************************************************)
(* validateAttachmentEvidenceState, run on every write and at every start.  *)
(***************************************************************************)
CapacityValid ==
  /\ live = Cardinality({w \in Workflow : intent[w] # None /\ w \notin acked})
  /\ permanent = Cardinality({b \in Binding : entry[b] # None})

DispatchValid(d, i) ==
  /\ i.created <= d.armed /\ d.armed <= Deadline(i)
  /\ d.state = "ARMED" <=> d.seen = None
  /\ d.seen # None => d.armed <= d.seen /\ d.seen <= Deadline(i)

IntentValid(w) ==
  LET e == entry[intent[w].binding] IN
  /\ e # None /\ e.owner = w
  /\ e.state = IF w \in acked THEN "CONSUMED_RELEASED"
               ELSE IF disp[w] # None THEN Pending(disp[w]) ELSE "RESERVED"
  /\ wf[w] # None /\ wf[w].kept
  /\ wf[w].dispatch # None => DispatchValid(wf[w].dispatch, intent[w])

Ended(w) == /\ wf[w] # None /\ wf[w].status = "succeeded"
            /\ wf[w].phase \in {"attachment_disposition_terminal", "attachment_evidence_released"}

CaptureValid(w) ==
  LET c == capture[w] IN
  /\ w \in confirmed
  /\ Len(c.journal) <= JournalLimit /\ c.pairs <= PairLimit
  /\ c.pairs = Cardinality({k \in DOMAIN c.journal : c.journal[k] = "PAIR_COMPLETED"})
  /\ Len(c.seen) <= 2
  /\ \A k \in DOMAIN c.seen :
       c.seen[k].seq \in DOMAIN c.journal /\ c.journal[c.seen[k].seq] # "RECOVERABLE"
  /\ c.state = "CAPTURING" => disp[w] = None
  /\ c.state = "TERMINAL" =>
       /\ Ended(w) /\ disp[w] # None /\ disp[w].kind = "execution"
       /\ disp[w] = Execution(IF disp[w].reason \in Exhaustion THEN disp[w].reason
                              ELSE Classify(c.seen[1], c.seen[2]), c.seen, disp[w].at)
       /\ Accepted(disp[w].reason, c.seen)

DispositionValid(w) ==
  capture[w] = None =>
    /\ disp[w].kind # "execution" /\ w \notin confirmed
    /\ intent[w] # None /\ Ended(w)
    /\ wf[w].dispatch # None /\ wf[w].dispatch.state = disp[w].reason
    /\ wf[w].dispatch.seen = disp[w].at

AckValid(w) ==
  /\ intent[w] # None /\ disp[w] # None
  /\ entry[intent[w].binding].state = "CONSUMED_RELEASED"
  /\ wf[w] # None /\ wf[w].phase = "attachment_evidence_released"

(***************************************************************************)
(* Admission.                                                              *)
(***************************************************************************)
Init ==
  /\ now = 0 /\ crashes = 0 /\ up = TRUE
  /\ wf = [w \in Workflow |-> None] /\ intent = [w \in Workflow |-> None]
  /\ entry = [b \in Binding |-> None]
  /\ live = 0 /\ permanent = 0
  /\ confirmed = {} /\ acked = {}
  /\ capture = [w \in Workflow |-> None] /\ disp = [w \in Workflow |-> None]
  /\ runner = [w \in Workflow |-> "none"] /\ capturer = [w \in Workflow |-> "none"]
  /\ page = [w \in Workflow |-> "untouched"]

Running(w) == wf[w] # None /\ wf[w].status = "running"

Free(b) == entry[b] = None

Admit(w, b) ==
  /\ up /\ intent[w] = None /\ now + SendWindow + CaptureWindow < Horizon
  /\ Free(b) /\ live < LiveLimit /\ permanent < PermanentLimit
  /\ wf' = [wf EXCEPT ![w] = [status |-> "running", phase |-> "browser_owned",
                              kept |-> TRUE, dispatch |-> None]]
  /\ intent' = [intent EXCEPT ![w] = [binding |-> b, created |-> now]]
  /\ entry' = [entry EXCEPT ![b] = [owner |-> w, state |-> "RESERVED"]]
  /\ live' = live + 1 /\ permanent' = permanent + 1
  /\ runner' = [runner EXCEPT ![w] = "begin"]
  /\ UNCHANGED <<outside, confirmed, acked, capture, disp, capturer, page>>

(***************************************************************************)
(* The exchange runner: arm, send once, then confirm or terminalize.       *)
(***************************************************************************)
At(w, pc) == up /\ runner[w] = pc /\ Running(w)
Goto(w, pc) == runner' = [runner EXCEPT ![w] = pc]

Arm(w) ==
  /\ At(w, "begin")
  /\ wf' = [wf EXCEPT ![w].phase = "receipt_dispatch_armed",
                      ![w].dispatch = [state |-> "ARMED", seen |-> None,
                                       armed |-> Clamp(now, intent[w])]]
  /\ Goto(w, "armed")
  /\ UNCHANGED <<outside, ledger, capture, disp, capturer, page>>

(* The first of the two writes of #terminalizeReceiptDispatch. *)
Resolved(w, state) ==
  /\ wf' = [wf EXCEPT ![w].phase = "receipt_dispatch_resolved",
                      ![w].dispatch.state = state,
                      ![w].dispatch.seen = Clamp(now, intent[w])]
  /\ Goto(w, "signing")
  /\ UNCHANGED <<outside, ledger, capture, disp, capturer, page>>

ExpireArmed(w) == /\ At(w, "armed") /\ now >= Deadline(intent[w])
                  /\ Resolved(w, "PROVEN_NOT_DISPATCHED")

AskToSend(w) ==
  /\ At(w, "armed") /\ now < Deadline(intent[w])
  /\ Goto(w, "sending") /\ page' = [page EXCEPT ![w] = "asked"]
  /\ UNCHANGED <<outside, wf, ledger, capture, disp, capturer>>

(* The driver clicks Send once or gives up; it goes on after a broker crash. *)
Click(w, done) ==
  /\ page[w] = "asked" /\ page' = [page EXCEPT ![w] = done]
  /\ UNCHANGED <<outside, wf, ledger, capture, disp, runner, capturer>>

Confirm(w) ==
  /\ At(w, "sending") /\ page[w] = "clicked" /\ now <= Deadline(intent[w])
  /\ w \notin confirmed
  /\ wf' = [wf EXCEPT ![w].phase = "awaiting_attachment_capture",
                      ![w].dispatch.state = "CONFIRMED", ![w].dispatch.seen = now]
  /\ confirmed' = confirmed \cup {w}
  /\ Goto(w, "none")
  /\ UNCHANGED <<outside, intent, entry, live, permanent, acked, capture, disp, capturer, page>>

(* A confirmation after the deadline is refused by the store; so is, at any  *)
(* time, a result whose model or task space does not check.                  *)
ConfirmRefused(w) ==
  /\ At(w, "sending") /\ page[w] = "clicked" /\ Goto(w, "none")
  /\ UNCHANGED <<outside, wf, ledger, capture, disp, capturer, page>>

(* A send error is terminal for a receipt exchange.  A reason on the list of  *)
(* those that may be retried before a Send counts as proof that nothing was   *)
(* sent; the driver gives one of them after the click too.                    *)
SendFails(w) ==
  /\ At(w, "sending") /\ page[w] # "asked"
  /\ \E state \in {"AMBIGUOUS", "PROVEN_NOT_DISPATCHED"} : Resolved(w, state)

PersistTerminal(w) ==
  /\ At(w, "signing") /\ disp[w] = None /\ capture[w] = None /\ w \notin confirmed
  /\ LET d == SendOutcome(wf[w].dispatch.state, wf[w].dispatch.seen) IN
       /\ disp' = [disp EXCEPT ![w] = d]
       /\ entry' = [entry EXCEPT ![intent[w].binding].state = Pending(d)]
  /\ wf' = [wf EXCEPT ![w].phase = "attachment_disposition_terminal", ![w].status = "succeeded"]
  /\ Goto(w, "none")
  /\ UNCHANGED <<outside, intent, live, permanent, confirmed, acked, capture, capturer, page>>

(* No signature, or no broker authority. *)
SigningFails(w) ==
  /\ At(w, "signing") /\ Goto(w, "none")
  /\ UNCHANGED <<outside, wf, ledger, capture, disp, capturer, page>>

(* A cancel aborts the runner, which then finds the workflow stopped. *)
RunnerStops(w) ==
  /\ up /\ runner[w] # "none" /\ ~Running(w) /\ Goto(w, "none")
  /\ UNCHANGED <<outside, wf, ledger, capture, disp, capturer, page>>

(***************************************************************************)
(* Reconciliation after a restart; it waits for the driver's lane.         *)
(***************************************************************************)
\* Mutant: An operation left by a crash may still be running.
LaneTaken(w) == TRUE

LaneFree(w) == page[w] # "asked"

ReconcileAbsent(w) ==
  /\ At(w, "reconciling") /\ LaneFree(w) /\ page[w] # "clicked"
  /\ \/ wf[w].dispatch # None /\ Resolved(w, "PROVEN_ABSENT")
     \/ /\ wf[w].dispatch = None /\ Goto(w, "begin")
        /\ UNCHANGED <<outside, wf, ledger, capture, disp, capturer, page>>

ReconcileFound(w) ==
  /\ At(w, "reconciling") /\ LaneFree(w) /\ page[w] = "clicked"
  /\ Resolved(w, "AMBIGUOUS")

(* The page cannot be read.  A reason only a person can settle, or the       *)
(* deadline, ends the attempts; a reason on the list of those that may be    *)
(* retried before a Send counts as proof that nothing was sent.              *)
ReconcileFails(w, reason) ==
  /\ At(w, "reconciling") /\ LaneFree(w) /\ wf[w].dispatch # None
  /\ \/ reason = "human_only" /\ Resolved(w, "AMBIGUOUS")
     \/ /\ reason # "human_only" /\ now >= Deadline(intent[w])
        /\ Resolved(w, IF reason = "pre_send" THEN "PROVEN_NOT_DISPATCHED" ELSE "AMBIGUOUS")

(***************************************************************************)
(* Capture.                                                                *)
(***************************************************************************)
CGoto(w, pc) == capturer' = [capturer EXCEPT ![w] = pc]
CaptureStep(w, c) == capture' = [capture EXCEPT ![w] = c]

StartCapture(w) ==
  /\ up /\ Running(w) /\ w \in confirmed /\ capture[w] = None
  /\ wf[w].phase = "awaiting_attachment_capture" /\ now + CaptureWindow < Horizon
  /\ CaptureStep(w, [state |-> "CAPTURING", started |-> now, journal |-> <<>>,
                     seen |-> <<>>, pairs |-> 0])
  /\ wf' = [wf EXCEPT ![w].phase = "attachment_capture_started"]
  /\ CGoto(w, "top")
  /\ UNCHANGED <<outside, ledger, disp, runner, page>>

CAt(w, pc) == up /\ capturer[w] = pc /\ capture[w].state = "CAPTURING"
Expired(c) == now >= CaptureDeadline(c)
Exhausted(c) == Len(c.journal) >= JournalLimit \/ c.pairs >= PairLimit

\* Mutant: The capture keeps its candidates and its count over a recovery.
RecoveredKeeping(c) == [c EXCEPT !.journal = Append(@, "RECOVERABLE"), !.pairs = @ + 1]

Recovered(c) == [c EXCEPT !.journal = Append(@, "RECOVERABLE"), !.seen = <<>>]

(* The runner leaves before the deadline because of a restart only once. *)
AfterRestart(w) ==
  /\ CAt(w, "restarted") /\ Running(w)
  /\ CaptureStep(w, IF ~Expired(capture[w]) /\ Len(capture[w].journal) < JournalLimit
                    THEN Recovered(capture[w]) ELSE capture[w])
  /\ CGoto(w, "top")
  /\ UNCHANGED <<outside, wf, ledger, disp, runner, page>>

CaptureTop(w) ==
  /\ CAt(w, "top") /\ Running(w)
  /\ CGoto(w, CASE Expired(capture[w]) -> "deadline"
                [] ~Expired(capture[w]) /\ Exhausted(capture[w]) -> "limit"
                [] OTHER -> "asked")
  /\ UNCHANGED <<outside, wf, ledger, capture, disp, runner, page>>

ToHuman(w) ==
  /\ wf' = IF Running(w) THEN [wf EXCEPT ![w].status = "human_required"] ELSE wf
  /\ CGoto(w, "none")

(* One observation comes back and is recorded against the capture read at    *)
(* the top of the loop; a second one makes a pair, which is classified.      *)
Recorded(c, o) ==
  [c EXCEPT !.journal = Append(@, IF Len(c.seen) = 1 THEN "PAIR_COMPLETED" ELSE "CANDIDATE"),
            !.seen = IF Len(@) >= 2 THEN <<o>> ELSE Append(@, o),
            !.pairs = IF Len(c.seen) = 1 THEN @ + 1 ELSE @]

NextStep(c) ==
  CASE Len(c.seen) < 2 -> IF now + 1 >= CaptureDeadline(c) THEN "deadline" ELSE "quiet"
    [] Len(c.seen) = 2 ->
         IF Classify(c.seen[1], c.seen[2]) \notin Retryable THEN "classified"
         ELSE IF c.pairs >= PairLimit THEN "limit" ELSE "top"

Observe(w) ==
  /\ CAt(w, "asked") /\ now <= CaptureDeadline(capture[w])
  /\ \E s \in Snapshots :
       LET c == Recorded(capture[w], [seq |-> Len(capture[w].journal) + 1, at |-> now, shows |-> s])
       IN CaptureStep(w, c) /\ CGoto(w, NextStep(c))
  /\ UNCHANGED <<outside, wf, ledger, disp, runner, page>>

(* An observation made after the deadline is refused, and the runner fails. *)
ObserveLate(w) ==
  /\ CAt(w, "asked") /\ now > CaptureDeadline(capture[w])
  /\ ToHuman(w)
  /\ UNCHANGED <<outside, ledger, capture, disp, runner, page>>

QuietOver(w) ==
  /\ CAt(w, "quiet") /\ Running(w) /\ capture[w].seen[1].at < now
  /\ CGoto(w, "top")
  /\ UNCHANGED <<outside, wf, ledger, capture, disp, runner, page>>

ObserveFails(w) ==
  /\ CAt(w, "asked") /\ Running(w)
  /\ LET c == capture[w] IN
       \/ Expired(c) /\ CGoto(w, "deadline") /\ UNCHANGED capture
       \/ ~Expired(c) /\ Len(c.journal) >= JournalLimit - 1 /\ CGoto(w, "limit") /\ UNCHANGED capture
       \/ ~Expired(c) /\ Len(c.journal) < JournalLimit - 1
          /\ CaptureStep(w, Recovered(c)) /\ CGoto(w, "top")
  /\ UNCHANGED <<outside, wf, ledger, disp, runner, page>>

Reason(w) ==
  CASE capturer[w] = "deadline" -> "CAPTURE_DEADLINE_EXPIRED"
    [] capturer[w] = "limit" -> "CAPTURE_ATTEMPT_LIMIT"
    [] capturer[w] = "classified" -> Classify(capture[w].seen[1], capture[w].seen[2])

TerminalAt(w) ==
  LET c == capture[w]
      last == IF c.seen = <<>> THEN c.started ELSE Last(c.seen).at
      t == IF last > now THEN last ELSE now
  IN IF capturer[w] = "deadline" /\ t > CaptureDeadline(c) THEN CaptureDeadline(c) ELSE t

Ending == {"deadline", "limit", "classified"}

(* persistAttachmentDisposition does not ask whether the workflow still runs. *)
PersistDisposition(w) ==
  /\ capturer[w] \in Ending /\ CAt(w, capturer[w])
  /\ Accepted(Reason(w), capture[w].seen)
  /\ disp' = [disp EXCEPT ![w] = Execution(Reason(w), capture[w].seen, TerminalAt(w))]
  /\ CaptureStep(w, [capture[w] EXCEPT !.state = "TERMINAL"])
  /\ wf' = [wf EXCEPT ![w].phase = "attachment_disposition_terminal", ![w].status = "succeeded"]
  /\ CGoto(w, "none")
  /\ UNCHANGED <<outside, ledger, runner, page>>

(* The disposition is refused, or cannot be signed. *)
DispositionFails(w) ==
  /\ capturer[w] \in Ending /\ CAt(w, capturer[w])
  /\ ToHuman(w)
  /\ UNCHANGED <<outside, ledger, capture, disp, runner, page>>

CapturerStops(w) ==
  /\ up /\ capturer[w] \in {"restarted", "top", "asked", "quiet"} /\ ~Running(w)
  /\ CGoto(w, "none")
  /\ UNCHANGED <<outside, wf, ledger, capture, disp, runner, page>>

(***************************************************************************)
(* The operator, the consumer, retention, and crashes.                     *)
(***************************************************************************)
Cancel(w) ==
  /\ up /\ Running(w)
  /\ wf' = [wf EXCEPT ![w].status = "human_required"]
  /\ UNCHANGED <<outside, ledger, capture, disp, runner, capturer, page>>

Release(w) ==
  /\ up /\ w \notin acked /\ disp[w] # None /\ wf[w] # None
  /\ wf[w].phase = "attachment_disposition_terminal" /\ wf[w].status = "succeeded"
  /\ entry[intent[w].binding].state = Pending(disp[w])
  /\ acked' = acked \cup {w} /\ live' = live - 1
  /\ entry' = [entry EXCEPT ![intent[w].binding].state = "CONSUMED_RELEASED"]
  /\ wf' = [wf EXCEPT ![w].phase = "attachment_evidence_released"]
  /\ UNCHANGED <<outside, intent, permanent, confirmed, capture, disp, runner, capturer, page>>

(* Retention forgets terminal workflows beyond the newest MaxTerminal; here   *)
(* any choice of the newest.                                                  *)
Terminal == {w \in Workflow : wf[w] # None /\ wf[w].status = "succeeded"}
ApplyRetention ==
  /\ up /\ Cardinality(Terminal) > MaxTerminal
  /\ \E kept \in SUBSET Terminal :
       /\ Cardinality(kept) = MaxTerminal
       /\ wf' = [w \in Workflow |-> IF w \in Terminal \ kept THEN None ELSE wf[w]]
  /\ UNCHANGED <<outside, ledger, capture, disp, runner, capturer, page>>

Crash ==
  /\ up /\ crashes < Crashes /\ crashes' = crashes + 1 /\ up' = FALSE
  /\ runner' = [w \in Workflow |-> "none"] /\ capturer' = [w \in Workflow |-> "none"]
  /\ UNCHANGED <<now, wf, ledger, capture, disp, page>>

Reconcilable == {"browser_owned", "receipt_dispatch_armed", "restart_reconciling"}
Capturable(w) == /\ w \in confirmed
                 /\ \/ wf[w].phase = "awaiting_attachment_capture" /\ capture[w] = None
                    \/ wf[w].phase = "attachment_capture_started" /\ capture[w] # None

Reloaded(w) ==
  CASE ~Running(w) \/ Capturable(w) -> wf[w]
    [] Running(w) /\ wf[w].phase \in Reconcilable -> [wf[w] EXCEPT !.phase = "restart_reconciling"]
    [] OTHER -> [wf[w] EXCEPT !.status = "human_required"]

\* Mutant: an armed dispatch goes on where it stood.
ResumesArmed(w) ==
  CASE ~Running(w) -> "none"
    [] Running(w) /\ wf[w].phase = "receipt_dispatch_armed" -> "armed"
    [] OTHER -> IF wf[w].phase \in Reconcilable THEN "reconciling" ELSE "none"

ResumesAt(w) == IF Running(w) /\ wf[w].phase \in Reconcilable THEN "reconciling" ELSE "none"

\* Mutant: a capture waits for its client to ask again.
RecapturesOnRequest(w) == "none"

RecapturesAt(w) ==
  IF Running(w) /\ Capturable(w) /\ capture[w] # None THEN "restarted" ELSE "none"

Restart ==
  /\ ~up /\ up' = TRUE
  /\ wf' = [w \in Workflow |-> Reloaded(w)]
  /\ runner' = [w \in Workflow |-> ResumesAt(w)]
  /\ capturer' = [w \in Workflow |-> RecapturesAt(w)]
  /\ UNCHANGED <<now, crashes, ledger, capture, disp, page>>

Tick == /\ now < Horizon /\ now' = now + 1
        /\ UNCHANGED <<crashes, up, wf, ledger, capture, disp, runner, capturer, page>>

ExchangeStep(w) ==
  \/ Arm(w) \/ ExpireArmed(w) \/ AskToSend(w) \/ Confirm(w) \/ ConfirmRefused(w)
  \/ SendFails(w) \/ PersistTerminal(w) \/ SigningFails(w) \/ RunnerStops(w)

Reconcile(w) ==
  \/ ReconcileAbsent(w) \/ ReconcileFound(w)
  \/ \E r \in {"human_only", "pre_send", "other"} : ReconcileFails(w, r)

CaptureRun(w) ==
  \/ AfterRestart(w) \/ CaptureTop(w) \/ Observe(w) \/ ObserveLate(w) \/ ObserveFails(w)
  \/ QuietOver(w) \/ PersistDisposition(w) \/ DispositionFails(w) \/ CapturerStops(w)

Next ==
  \/ \E w \in Workflow :
       \/ \E b \in Binding : Admit(w, b)
       \/ \E done \in {"clicked", "stopped"} : Click(w, done)
       \/ ExchangeStep(w) \/ Reconcile(w)
       \/ StartCapture(w) \/ CaptureRun(w)
       \/ Cancel(w) \/ Release(w)
  \/ Crash \/ Restart \/ Tick

(* The broker restarts after a crash and its runners go on; the driver ends   *)
(* every operation, and every reconciliation that starts after the deadline   *)
(* ends in some answer.  Nobody need start a capture, cancel or release.      *)
Fairness ==
  /\ WF_vars(Restart) /\ WF_vars(Tick)
  /\ \A w \in Workflow :
       /\ WF_vars(\E done \in {"clicked", "stopped"} : Click(w, done))
       /\ WF_vars(ExchangeStep(w)) /\ WF_vars(CaptureRun(w))
       /\ WF_vars(intent[w] # None /\ now >= Deadline(intent[w]) /\ Reconcile(w))

Spec == Init /\ [][Next]_vars /\ Fairness

(* The system with retention, which runs with every compaction. *)
Retained == Init /\ [][Next \/ ApplyRetention]_vars

(***************************************************************************)
(* Properties.                                                             *)
(***************************************************************************)
(* Every variable has its type. *)
TypeOK ==
  /\ now \in 0..Horizon /\ crashes \in 0..Crashes /\ up \in BOOLEAN
  /\ \A w \in Workflow :
       /\ wf[w] # None => /\ wf[w].status \in {"running", "human_required", "succeeded"}
                          /\ wf[w].phase \in Phase
       /\ intent[w] # None => intent[w] \in [binding : Binding, created : Nat]
       /\ runner[w] \in {"none", "begin", "armed", "sending", "signing", "reconciling"}
       /\ capturer[w] \in {"none", "restarted", "top", "asked", "quiet"} \cup Ending
       /\ page[w] \in {"untouched", "asked", "clicked", "stopped"}
  /\ \A b \in Binding : entry[b] # None => entry[b].owner \in Workflow
  /\ live \in Nat /\ permanent \in Nat /\ confirmed \subseteq Workflow /\ acked \subseteq Workflow

(* validateAttachmentEvidenceState holds of every state the actions reach:   *)
(* no write of a runner, a release or a restart is ever refused as corrupt.  *)
StateValid ==
  /\ TypeOK /\ CapacityValid
  /\ \A w \in Workflow :
       /\ intent[w] # None => IntentValid(w)
       /\ w \in confirmed => intent[w] # None
       /\ capture[w] # None => CaptureValid(w)
       /\ disp[w] # None => DispositionValid(w)
       /\ w \in acked => AckValid(w)

(* A Send confirmed or proven absent by reconciliation is what the driver    *)
(* did to the page, and a positive receipt rests on two consecutive equal    *)
(* observations of one image that no recovery separates.                     *)
EvidenceIsTrue ==
  \A w \in Workflow :
    /\ w \in confirmed => page[w] = "clicked"
    /\ wf[w] # None /\ wf[w].dispatch # None /\ wf[w].dispatch.state = "PROVEN_ABSENT"
         => page[w] # "clicked"
    /\ disp[w] # None /\ disp[w].reason = "EXACTLY_ONE_SUPPORTED" =>
         LET f == disp[w].seen[1]
             l == disp[w].seen[2]
         IN /\ f.shows = l.shows /\ f.shows.images = 1 /\ f.shows.structure = "complete"
            /\ l.at > f.at /\ l.at <= CaptureDeadline(capture[w])
            /\ capture[w].journal[f.seq] = "CANDIDATE"
            /\ capture[w].journal[f.seq + 1] = "PAIR_COMPLETED"

(* Nothing is done twice, whatever restarts: a workflow's prompt is handed   *)
(* to the driver once; a disposition, an acknowledgement and the owner of an *)
(* external binding never change, and a binding is never free again.         *)
DoneOnce ==
  [][/\ \A w \in Workflow :
          /\ page'[w] = "asked" => page[w] \in {"untouched", "asked"}
          /\ disp[w] # None => disp'[w] = disp[w]
          /\ intent[w] # None => intent'[w] = intent[w]
          /\ w \in acked => w \in acked' /\ disp[w] # None
     /\ \A b \in Binding : entry[b] # None =>
          /\ entry'[b] # None /\ entry'[b].owner = entry[b].owner
          /\ entry[b].state # "RESERVED" => entry'[b].state # "RESERVED"]_vars

Capturing(w) == Running(w) /\ capture[w] # None /\ capture[w].state = "CAPTURING"
Reconciling(w) ==
  Running(w) /\ wf[w].dispatch # None /\ wf[w].phase = "restart_reconciling"

(* A capture under way ends, in evidence or with a person, by its deadline   *)
(* and its limits; a dispatch found armed after a restart is resolved once   *)
(* its deadline has passed, whatever the page answers.                       *)
Ends ==
  \A w \in Workflow :
    /\ Capturing(w) ~> ~Capturing(w)
    /\ Reconciling(w) ~> ~Reconciling(w)

(* NO_DISPATCH_ATTEMPT_OCCURRED, the reason of evidence without a dispatch    *)
(* attempt, is only given of a prompt that was not sent: "signs ambiguity     *)
(* after a post-click confirmation failure", store-broker.test.mjs:1031.      *)
(* (Does not hold.)                                                           *)
NotDispatchedIsTrue ==
  \A w \in Workflow :
    disp[w] # None /\ disp[w].reason = "PROVEN_NOT_DISPATCHED" => page[w] # "clicked"
===============================================================================
