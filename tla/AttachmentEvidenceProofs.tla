----------------------- MODULE AttachmentEvidenceProofs -----------------------
(***************************************************************************)
(* Proofs about the evidence ledger, for any sets of workflows, bindings   *)
(* and snapshots and any limits, windows and numbers of crashes: the       *)
(* ledgers agree as validateAttachmentEvidenceState demands, what they say *)
(* of the page is true, and nothing is done twice.                         *)
(*                                                                         *)
(* The phase of a workflow says where it stands, and the two runners only  *)
(* remember it: an exchange runner what its dispatch was when it read it,  *)
(* a capture runner what its capture was at the top of its loop.  A step   *)
(* is of one workflow, which shares with the others a binding's entry and  *)
(* the two counters.                                                       *)
(***************************************************************************)
EXTENDS AttachmentEvidence, TLAPS, FiniteSetTheorems, SequenceTheorems

Labels == {"CANDIDATE", "PAIR_COMPLETED", "RECOVERABLE"}
Places == {"none", "begin", "armed", "sending", "signing", "reconciling"}
Captures == {"none", "restarted", "top", "asked", "quiet"} \cup Ending

Typed ==
  /\ now \in Nat /\ crashes \in Nat /\ up \in BOOLEAN
  /\ wf \in [Workflow -> WorkflowRecord \cup {None}]
  /\ intent \in [Workflow -> IntentRecord \cup {None}]
  /\ entry \in [Binding -> EntryRecord \cup {None}]
  /\ capture \in [Workflow -> CaptureRecord \cup {None}]
  /\ disp \in [Workflow -> DispositionRecord \cup {None}]
  /\ runner \in [Workflow -> Places] /\ capturer \in [Workflow -> Captures]
  /\ page \in [Workflow -> {"untouched", "asked", "clicked", "stopped"}]
  /\ live \in Nat /\ permanent \in Nat
  /\ confirmed \in SUBSET Workflow /\ acked \in SUBSET Workflow

Bounded == now \in 0..Horizon /\ crashes \in 0..Crashes

-----------------------------------------------------------------------------
(* What is true of each workflow.                                          *)

(* Nothing is known of a workflow before its admission, and its binding is *)
(* its own from then on.                                                   *)
Unknown(w) ==
  /\ intent[w] = None /\ w \notin confirmed /\ w \notin acked
  /\ capture[w] = None /\ disp[w] = None
  /\ runner[w] = "none" /\ capturer[w] = "none" /\ page[w] = "untouched"
Admitted(w) ==
  /\ wf[w] = None => Unknown(w)
  /\ wf[w] # None =>
       /\ wf[w].kept /\ intent[w] # None /\ intent[w].created <= now
       /\ entry[intent[w].binding] # None
       /\ entry[intent[w].binding].owner = w
       /\ entry[intent[w].binding].state =
            IF w \in acked THEN "CONSUMED_RELEASED"
            ELSE IF disp[w] # None THEN Pending(disp[w]) ELSE "RESERVED"

Early    == {"browser_owned", "restart_reconciling"}
AtPage   == {"awaiting_attachment_capture", "attachment_capture_started"}
Finished == {"attachment_disposition_terminal", "attachment_evidence_released"}
Absences == {"AMBIGUOUS", "PROVEN_NOT_DISPATCHED", "PROVEN_ABSENT"}

(* The dispatch, and what the driver has done with the prompt.             *)
Dispatching(w) ==
  LET d == wf[w].dispatch  p == wf[w].phase IN
  /\ d = None => page[w] = "untouched" /\ p \in Early
  /\ d # None => /\ DispatchValid(d, intent[w]) /\ d.armed <= now
                 /\ d.state = "CONFIRMED" <=> w \in confirmed
                 /\ d.state = "PROVEN_ABSENT" => page[w] \in {"untouched", "stopped"}
  /\ p = "browser_owned" => d = None
  /\ p \in {"receipt_dispatch_armed", "restart_reconciling"} =>
       d = None \/ d.state = "ARMED"
  /\ p = "receipt_dispatch_resolved" => d.state \in Absences
  /\ p \in AtPage => w \in confirmed
  /\ w \in confirmed => d # None /\ page[w] = "clicked" /\ p \in AtPage \cup Finished
  /\ p = "awaiting_attachment_capture" => capture[w] = None
  /\ p = "attachment_capture_started" => capture[w] # None

(* A workflow has ended when it has its disposition.                       *)
Disposed(w) ==
  /\ disp[w] # None <=> wf[w].phase \in Finished
  /\ disp[w] # None <=> wf[w].status = "succeeded"
  /\ w \in acked <=> wf[w].phase = "attachment_evidence_released"
  /\ disp[w] # None /\ capture[w] = None =>
       /\ wf[w].dispatch # None /\ wf[w].dispatch.state \in Absences
       /\ disp[w] = SendOutcome(wf[w].dispatch.state, wf[w].dispatch.seen)
  /\ disp[w] # None /\ capture[w] # None => capture[w].state = "TERMINAL"

(* What the exchange runner remembers of the dispatch.                     *)
RunnerKnows(w) ==
  LET d == wf[w].dispatch IN
  /\ runner[w] = "begin" => d = None
  /\ runner[w] \in {"armed", "sending"} =>
       d # None /\ wf[w].phase = "receipt_dispatch_armed"
  /\ runner[w] = "armed" => page[w] = "untouched"
  /\ runner[w] = "signing" => wf[w].phase = "receipt_dispatch_resolved"
  /\ runner[w] = "reconciling" => wf[w].phase = "restart_reconciling"

(* The journal of a capture tells which of its entries were observations.  *)
Pairs(j) == {k \in DOMAIN j : j[k] = "PAIR_COMPLETED"}
Journal(c) ==
  /\ Len(c.journal) <= JournalLimit /\ c.pairs <= PairLimit
  /\ c.pairs = Cardinality(Pairs(c.journal))
  /\ Len(c.seen) <= 2
  /\ \A k \in DOMAIN c.seen :
       /\ c.seen[k].seq \in DOMAIN c.journal /\ c.seen[k].at <= CaptureDeadline(c)
       /\ c.seen[k].shows \in Snapshots
       /\ c.journal[c.seen[k].seq] = IF k = 1 THEN "CANDIDATE" ELSE "PAIR_COMPLETED"

(* The disposition of a capture is what was seen.                          *)
Concluded(w) ==
  LET c == capture[w]  d == disp[w] IN
  /\ d # None
  /\ d = Execution(IF d.reason \in Exhaustion THEN d.reason
                   ELSE Classify(c.seen[1], c.seen[2]), c.seen, d.at)
  /\ Accepted(d.reason, c.seen)

(* What the capture runner remembers of the capture.                       *)
CapturerKnows(w) ==
  /\ capture[w] # None => /\ w \in confirmed /\ Journal(capture[w])
                          /\ capture[w].state = "TERMINAL" => Concluded(w)
  /\ capturer[w] # "none" => capture[w] # None
  /\ capturer[w] = "asked" => ~Exhausted(capture[w])
  /\ capturer[w] = "classified" => Len(capture[w].seen) = 2

Known(w) == wf[w] # None => /\ Dispatching(w) /\ Disposed(w) /\ RunnerKnows(w)
                            /\ CapturerKnows(w)

Capacities ==
  /\ live = Cardinality({w \in Workflow : intent[w] # None /\ w \notin acked})
  /\ permanent = Cardinality({b \in Binding : entry[b] # None})

IInv ==
  /\ Typed /\ Bounded /\ Capacities
  /\ \A w \in Workflow : Admitted(w) /\ Known(w)

-----------------------------------------------------------------------------
(* What a step writes of a workflow's record.                              *)
Others(w, new, old) == \A u \in Workflow \ {w} : new[u] = old[u]
Writes(w, status, phase, dispatch) ==
  /\ wf' \in [Workflow -> WorkflowRecord \cup {None}] /\ wf'[w] \in WorkflowRecord
  /\ wf'[w].status = status /\ wf'[w].phase = phase
  /\ wf'[w].dispatch = dispatch /\ wf'[w].kept = wf[w].kept
  /\ Others(w, wf', wf)

WithPhase(r, p)    == [r EXCEPT !.phase = p]
WithStatus(r, s)   == [r EXCEPT !.status = s]
WithDispatch(r, d) == [r EXCEPT !.dispatch = d]

LEMMA EditsPhase ==
  ASSUME NEW r \in WorkflowRecord, NEW p \in Phase
  PROVE  /\ WithPhase(r, p) \in WorkflowRecord /\ WithPhase(r, p).phase = p
         /\ WithPhase(r, p).status = r.status /\ WithPhase(r, p).dispatch = r.dispatch
         /\ WithPhase(r, p).kept = r.kept
  BY DEF WorkflowRecord, WithPhase

LEMMA EditsStatus ==
  ASSUME NEW r \in WorkflowRecord, NEW s \in {"running", "human_required", "succeeded"}
  PROVE  /\ WithStatus(r, s) \in WorkflowRecord /\ WithStatus(r, s).status = s
         /\ WithStatus(r, s).phase = r.phase /\ WithStatus(r, s).dispatch = r.dispatch
         /\ WithStatus(r, s).kept = r.kept
  BY DEF WorkflowRecord, WithStatus

LEMMA EditsDispatch ==
  ASSUME NEW r \in WorkflowRecord, NEW d \in Dispatch
  PROVE  /\ WithDispatch(r, d) \in WorkflowRecord /\ WithDispatch(r, d).dispatch = d
         /\ WithDispatch(r, d).phase = r.phase /\ WithDispatch(r, d).status = r.status
         /\ WithDispatch(r, d).kept = r.kept
  BY DEF WorkflowRecord, WithDispatch

LEMMA WritesPhase ==
  ASSUME Typed, NEW w \in Workflow, wf[w] # None, NEW p \in Phase,
         wf' = [wf EXCEPT ![w].phase = p]
  PROVE  Writes(w, wf[w].status, p, wf[w].dispatch)
  <1>1. wf' = [wf EXCEPT ![w] = WithPhase(wf[w], p)]
    BY Zenon DEF WithPhase
  <1>2. wf[w] \in WorkflowRecord /\ wf \in [Workflow -> WorkflowRecord \cup {None}]
    BY DEF Typed
  <1> DEFINE n == WithPhase(wf[w], p)
  <1>3. /\ n \in WorkflowRecord /\ n.phase = p /\ n.status = wf[w].status
        /\ n.dispatch = wf[w].dispatch /\ n.kept = wf[w].kept
    BY <1>2, EditsPhase
  <1> HIDE DEF n
  <1> QED  BY <1>1, <1>2, <1>3 DEF Writes, Others, n

LEMMA WritesStatus ==
  ASSUME Typed, NEW w \in Workflow, wf[w] # None,
         NEW s \in {"running", "human_required", "succeeded"},
         wf' = [wf EXCEPT ![w].status = s]
  PROVE  Writes(w, s, wf[w].phase, wf[w].dispatch)
  <1>1. wf' = [wf EXCEPT ![w] = WithStatus(wf[w], s)]
    BY Zenon DEF WithStatus
  <1>2. wf[w] \in WorkflowRecord /\ wf \in [Workflow -> WorkflowRecord \cup {None}]
    BY DEF Typed
  <1> DEFINE n == WithStatus(wf[w], s)
  <1>3. /\ n \in WorkflowRecord /\ n.phase = wf[w].phase /\ n.status = s
        /\ n.dispatch = wf[w].dispatch /\ n.kept = wf[w].kept
    BY <1>2, EditsStatus
  <1> HIDE DEF n
  <1> QED  BY <1>1, <1>2, <1>3 DEF Writes, Others, n

LEMMA EditsOne ==
  ASSUME NEW f \in [Workflow -> WorkflowRecord \cup {None}], NEW w \in Workflow,
         NEW n \in WorkflowRecord, NEW g, g = [f EXCEPT ![w] = n]
  PROVE  /\ g \in [Workflow -> WorkflowRecord \cup {None}] /\ g[w] = n
         /\ Others(w, g, f)
  BY DEF Others

LEMMA WritesEnd ==
  ASSUME Typed, NEW w \in Workflow, wf[w] # None, NEW p \in Phase,
         NEW s \in {"running", "human_required", "succeeded"},
         wf' = [wf EXCEPT ![w].phase = p, ![w].status = s]
  PROVE  Writes(w, s, p, wf[w].dispatch)
  <1> DEFINE n == WithPhase(wf[w], p)
             m == WithStatus(n, s)
             once == [wf EXCEPT ![w] = n]
  <1>1. wf' = [once EXCEPT ![w] = WithStatus(once[w], s)]
    BY Zenon DEF WithPhase, WithStatus
  <1>2. wf[w] \in WorkflowRecord /\ wf \in [Workflow -> WorkflowRecord \cup {None}]
    BY DEF Typed
  <1>3. /\ n \in WorkflowRecord /\ n.phase = p /\ n.status = wf[w].status
        /\ n.dispatch = wf[w].dispatch /\ n.kept = wf[w].kept
    BY <1>2, EditsPhase
  <1> HIDE DEF n
  <1>4. /\ m \in WorkflowRecord /\ m.phase = n.phase /\ m.status = s
        /\ m.dispatch = n.dispatch /\ m.kept = n.kept
    BY <1>3, EditsStatus
  <1>5. /\ once \in [Workflow -> WorkflowRecord \cup {None}] /\ once[w] = n
        /\ Others(w, once, wf)
    BY <1>2, <1>3, EditsOne
  <1> HIDE DEF once
  <1>6. wf' = [once EXCEPT ![w] = m]
    BY <1>1, <1>5
  <1> HIDE DEF m
  <1>7. /\ wf' \in [Workflow -> WorkflowRecord \cup {None}] /\ wf'[w] = m
        /\ Others(w, wf', once)
    BY <1>4, <1>5, <1>6, EditsOne
  <1> QED  BY <1>3, <1>4, <1>5, <1>7 DEF Writes, Others

LEMMA WritesDispatch ==
  ASSUME Typed, NEW w \in Workflow, wf[w] # None, NEW p \in Phase, NEW d \in Dispatch,
         wf' = [wf EXCEPT ![w].phase = p, ![w].dispatch = d]
  PROVE  Writes(w, wf[w].status, p, d)
  <1> DEFINE n == WithPhase(wf[w], p)
             m == WithDispatch(n, d)
             once == [wf EXCEPT ![w] = n]
  <1>1. wf' = [once EXCEPT ![w] = WithDispatch(once[w], d)]
    BY Zenon DEF WithPhase, WithDispatch
  <1>2. wf[w] \in WorkflowRecord /\ wf \in [Workflow -> WorkflowRecord \cup {None}]
    BY DEF Typed
  <1>3. /\ n \in WorkflowRecord /\ n.phase = p /\ n.status = wf[w].status
        /\ n.dispatch = wf[w].dispatch /\ n.kept = wf[w].kept
    BY <1>2, EditsPhase
  <1> HIDE DEF n
  <1>4. /\ m \in WorkflowRecord /\ m.phase = n.phase /\ m.status = n.status
        /\ m.dispatch = d /\ m.kept = n.kept
    BY <1>3, EditsDispatch
  <1>5. /\ once \in [Workflow -> WorkflowRecord \cup {None}] /\ once[w] = n
        /\ Others(w, once, wf)
    BY <1>2, <1>3, EditsOne
  <1> HIDE DEF once
  <1>6. wf' = [once EXCEPT ![w] = m]
    BY <1>1, <1>5
  <1> HIDE DEF m
  <1>7. /\ wf' \in [Workflow -> WorkflowRecord \cup {None}] /\ wf'[w] = m
        /\ Others(w, wf', once)
    BY <1>4, <1>5, <1>6, EditsOne
  <1> QED  BY <1>3, <1>4, <1>5, <1>7 DEF Writes, Others

(* A dispatch that is resolved says how and when; when it was armed stays. *)
Answers(w, p, s, t) ==
  wf' = [wf EXCEPT ![w].phase = p, ![w].dispatch.state = s, ![w].dispatch.seen = t]

LEMMA WritesAnswer ==
  ASSUME Typed, NEW w \in Workflow, wf[w] # None, NEW p \in Phase,
         wf[w].dispatch # None, NEW t \in Nat,
         NEW s \in {"ARMED", "CONFIRMED"} \cup Absences,
         Answers(w, p, s, t)
  PROVE  \E d \in Dispatch :
            /\ d.state = s /\ d.seen = t /\ d.armed = wf[w].dispatch.armed
            /\ Writes(w, wf[w].status, p, d)
  <1> DEFINE n == WithPhase(wf[w], p)
             once == [wf EXCEPT ![w] = n]
             d == [wf[w].dispatch EXCEPT !.state = s]
             m == WithDispatch(n, d)
             twice == [once EXCEPT ![w] = WithDispatch(once[w],
                                             [once[w].dispatch EXCEPT !.state = s])]
             e == [d EXCEPT !.seen = t]
             l == WithDispatch(m, e)
  <1>1. wf' = [twice EXCEPT ![w] = WithDispatch(twice[w],
                                      [twice[w].dispatch EXCEPT !.seen = t])]
    BY Zenon DEF Answers, WithPhase, WithDispatch
  <1>2. wf[w] \in WorkflowRecord /\ wf \in [Workflow -> WorkflowRecord \cup {None}]
    BY DEF Typed
  <1>3. /\ n \in WorkflowRecord /\ n.phase = p /\ n.status = wf[w].status
        /\ n.dispatch = wf[w].dispatch /\ n.kept = wf[w].kept
    BY <1>2, EditsPhase
  <1>4. wf[w].dispatch \in Dispatch
    BY <1>2 DEF WorkflowRecord
  <1>5. /\ d \in Dispatch /\ d.state = s /\ d.armed = wf[w].dispatch.armed
    BY <1>4 DEF Dispatch, Absences
  <1> HIDE DEF n, d
  <1>6. /\ e \in Dispatch /\ e.state = s /\ e.armed = wf[w].dispatch.armed /\ e.seen = t
    BY <1>5 DEF Dispatch, Absences
  <1>7. /\ m \in WorkflowRecord /\ m.phase = n.phase /\ m.status = n.status
        /\ m.dispatch = d /\ m.kept = n.kept
    BY <1>3, <1>5, EditsDispatch
  <1> HIDE DEF e, m
  <1>8. /\ l \in WorkflowRecord /\ l.phase = m.phase /\ l.status = m.status
        /\ l.dispatch = e /\ l.kept = m.kept
    BY <1>6, <1>7, EditsDispatch
  <1>9. /\ once \in [Workflow -> WorkflowRecord \cup {None}] /\ once[w] = n
        /\ Others(w, once, wf)
    BY <1>2, <1>3, EditsOne
  <1> HIDE DEF once
  <1>10. twice = [once EXCEPT ![w] = m]
    BY <1>3, <1>9 DEF d, m
  <1>11. /\ twice \in [Workflow -> WorkflowRecord \cup {None}] /\ twice[w] = m
         /\ Others(w, twice, once)
    BY <1>7, <1>9, <1>10, EditsOne
  <1> HIDE DEF twice
  <1>12. wf' = [twice EXCEPT ![w] = l]
    BY <1>1, <1>7, <1>11 DEF e, l
  <1> HIDE DEF l
  <1>13. /\ wf' \in [Workflow -> WorkflowRecord \cup {None}] /\ wf'[w] = l
         /\ Others(w, wf', twice)
    BY <1>8, <1>11, <1>12, EditsOne
  <1>14. Writes(w, wf[w].status, p, e)
    <2>1. wf'[w] \in WorkflowRecord /\ wf'[w].status = wf[w].status /\ wf'[w].phase = p
          /\ wf'[w].dispatch = e /\ wf'[w].kept = wf[w].kept
      BY <1>3, <1>7, <1>8, <1>13
    <2>2. Others(w, wf', wf)
      BY <1>9, <1>11, <1>13 DEF Others
    <2> QED  BY <1>13, <2>1, <2>2 DEF Writes
  <1> QED  BY <1>6, <1>14

-----------------------------------------------------------------------------
(* A step of one workflow leaves what is known of the others true.         *)
Elsewhere(w) ==
  /\ Others(w, wf', wf) /\ Others(w, intent', intent)
  /\ Others(w, capture', capture) /\ Others(w, disp', disp)
  /\ Others(w, runner', runner) /\ Others(w, capturer', capturer)
  /\ Others(w, page', page)
  /\ \A u \in Workflow \ {w} : /\ u \in confirmed' <=> u \in confirmed
                               /\ u \in acked' <=> u \in acked
                               /\ intent[u] # None =>
                                    entry'[intent[u].binding] = entry[intent[u].binding]

LEMMA OthersAdmitted ==
  ASSUME IInv, NEW w \in Workflow, Elsewhere(w), now' = now,
         NEW u \in Workflow \ {w}
  PROVE  Admitted(u)'
  <1>1. /\ wf'[u] = wf[u] /\ intent'[u] = intent[u] /\ capture'[u] = capture[u]
        /\ disp'[u] = disp[u] /\ runner'[u] = runner[u]
        /\ capturer'[u] = capturer[u] /\ page'[u] = page[u]
        /\ u \in confirmed' <=> u \in confirmed
        /\ u \in acked' <=> u \in acked
        /\ intent[u] # None => entry'[intent[u].binding] = entry[intent[u].binding]
    BY DEF Elsewhere, Others
  <1>2. Admitted(u)
    BY DEF IInv
  <1> QED  BY <1>1, <1>2 DEF Admitted, Unknown

LEMMA OthersKnown ==
  ASSUME IInv, NEW w \in Workflow, Elsewhere(w), now' = now,
         NEW u \in Workflow \ {w}
  PROVE  Known(u)'
  <1>1. /\ wf'[u] = wf[u] /\ intent'[u] = intent[u] /\ capture'[u] = capture[u]
        /\ disp'[u] = disp[u] /\ runner'[u] = runner[u]
        /\ capturer'[u] = capturer[u] /\ page'[u] = page[u]
        /\ u \in confirmed' <=> u \in confirmed
        /\ u \in acked' <=> u \in acked
    BY DEF Elsewhere, Others
  <1>2. Known(u)
    BY DEF IInv
  <1>3. wf[u] # None => Dispatching(u)'
    BY <1>1, <1>2 DEF Known, Dispatching
  <1>4. wf[u] # None => Disposed(u)'
    BY <1>1, <1>2 DEF Known, Disposed
  <1>5. wf[u] # None => RunnerKnows(u)'
    BY <1>1, <1>2 DEF Known, RunnerKnows
  <1>6. wf[u] # None => CapturerKnows(u)'
    BY <1>1, <1>2 DEF Known, CapturerKnows, Concluded
  <1> QED  BY <1>1, <1>3, <1>4, <1>5, <1>6 DEF Known

LEMMA StepKeeps ==
  ASSUME IInv, NEW w \in Workflow, Elsewhere(w), UNCHANGED outside,
         Typed', Capacities', Admitted(w)', Known(w)'
  PROVE  IInv'
  <1>1. now' = now /\ Bounded'
    BY DEF IInv, Bounded, outside
  <1>2. \A u \in Workflow : Admitted(u)' /\ Known(u)'
    BY <1>1, OthersAdmitted, OthersKnown
  <1> QED  BY <1>1, <1>2 DEF IInv

(* The counters count what a step without an admission or release leaves.  *)
LEMMA CapacitiesKept ==
  ASSUME Capacities, intent' = intent, acked' = acked, live' = live,
         permanent' = permanent,
         \A b \in Binding : entry'[b] = None <=> entry[b] = None
  PROVE  Capacities'
  <1>1. {b \in Binding : entry'[b] # None} = {b \in Binding : entry[b] # None}
    OBVIOUS
  <1> QED  BY <1>1 DEF Capacities

(* A step that writes nothing but where the runners stand, and the page.   *)
LEMMA RunnersKeep ==
  ASSUME IInv, NEW w \in Workflow, UNCHANGED <<outside, ledger, disp>>,
         wf[w] # None,
         Others(w, wf', wf), wf'[w] # None, wf'[w].kept = wf[w].kept,
         Others(w, capture', capture), Others(w, runner', runner),
         Others(w, capturer', capturer), Others(w, page', page),
         Typed', Known(w)'
  PROVE  IInv'
  <1>1. Elsewhere(w)
    BY DEF Elsewhere, ledger, Others
  <1>2. Capacities'
    BY CapacitiesKept DEF IInv, ledger
  <1>3. Admitted(w)
    BY DEF IInv
  <1>4. Admitted(w)'
    BY <1>3 DEF Admitted, ledger, outside
  <1> QED  BY <1>1, <1>2, <1>4, StepKeeps

-----------------------------------------------------------------------------
(* The exchange runner moves on, and perhaps the page: nothing is written. *)
LEMMA RunnerMoves ==
  ASSUME IInv, NEW w \in Workflow, wf[w] # None, NEW pc \in Places, Goto(w, pc),
         page' \in [Workflow -> {"untouched", "asked", "clicked", "stopped"}],
         Others(w, page', page),
         UNCHANGED <<outside, wf, ledger, capture, disp, capturer>>,
         Dispatching(w)', RunnerKnows(w)'
  PROVE  IInv'
  <1>1. Typed /\ Known(w)
    BY DEF IInv
  <1>2. runner \in [Workflow -> Places]
    BY <1>1 DEF Typed
  <1>3. runner' \in [Workflow -> Places] /\ Others(w, runner', runner)
    BY <1>2 DEF Goto, Others
  <1>4. Typed'
    BY <1>1, <1>3 DEF Typed, outside, ledger
  <1>5. Disposed(w)'
    BY <1>1 DEF Known, Disposed, ledger
  <1>6. CapturerKnows(w)'
    BY <1>1 DEF Known, CapturerKnows, Concluded, ledger
  <1>7. Known(w)'
    BY <1>5, <1>6 DEF Known
  <1>8. Others(w, wf', wf) /\ Others(w, capture', capture) /\ Others(w, capturer', capturer)
    BY DEF Others
  <1>9. /\ wf'[w] # None /\ wf'[w].kept = wf[w].kept
        /\ UNCHANGED <<outside, ledger, disp>>
    OBVIOUS
  <1> QED  BY <1>3, <1>4, <1>7, <1>8, <1>9, RunnersKeep

(* ... which the page of a workflow that has none of it moves survives.    *)
LEMMA RunnerGoes ==
  ASSUME IInv, NEW w \in Workflow, wf[w] # None, NEW pc \in Places, Goto(w, pc),
         UNCHANGED <<outside, wf, ledger, capture, disp, capturer, page>>,
         pc = "begin" => wf[w].dispatch = None,
         pc \in {"none", "begin"}
  PROVE  IInv'
  <1>1. Typed /\ Known(w)
    BY DEF IInv
  <1>2. runner'[w] = pc
    BY <1>1 DEF Typed, Goto
  <1>3. Dispatching(w)'
    BY <1>1 DEF Known, Dispatching, outside, ledger
  <1>4. RunnerKnows(w)'
    BY <1>2 DEF RunnerKnows
  <1>5. page' \in [Workflow -> {"untouched", "asked", "clicked", "stopped"}]
        /\ Others(w, page', page)
    BY <1>1 DEF Typed, Others
  <1>6. UNCHANGED <<outside, wf, ledger, capture, disp, capturer>>
    OBVIOUS
  <1> QED  BY <1>3, <1>4, <1>5, <1>6, RunnerMoves

LEMMA ConfirmRefusedKeeps ==
  ASSUME IInv, NEW w \in Workflow, ConfirmRefused(w)
  PROVE  IInv'
  <1>1. "none" \in Places
    BY DEF Places
  <1> QED  BY <1>1, RunnerGoes DEF ConfirmRefused, At, Running

LEMMA SigningFailsKeeps ==
  ASSUME IInv, NEW w \in Workflow, SigningFails(w)
  PROVE  IInv'
  <1>1. "none" \in Places
    BY DEF Places
  <1> QED  BY <1>1, RunnerGoes DEF SigningFails, At, Running

LEMMA RunnerStopsKeeps ==
  ASSUME IInv, NEW w \in Workflow, RunnerStops(w)
  PROVE  IInv'
  <1>1. "none" \in Places
    BY DEF Places
  <1>2. wf[w] # None
    BY DEF IInv, Admitted, Unknown, RunnerStops
  <1> QED  BY <1>1, <1>2, RunnerGoes DEF RunnerStops

LEMMA AskToSendKeeps ==
  ASSUME IInv, NEW w \in Workflow, AskToSend(w)
  PROVE  IInv'
  <1>1. Typed /\ Known(w) /\ wf[w] # None /\ runner[w] = "armed"
    BY DEF IInv, AskToSend, At, Running
  <1>2. "sending" \in Places
    BY DEF Places
  <1>3. /\ page' \in [Workflow -> {"untouched", "asked", "clicked", "stopped"}]
        /\ Others(w, page', page) /\ page'[w] = "asked"
    <2>1. page \in [Workflow -> {"untouched", "asked", "clicked", "stopped"}]
      BY <1>1 DEF Typed
    <2>2. page' = [page EXCEPT ![w] = "asked"]
      BY DEF AskToSend
    <2> QED  BY <2>1, <2>2 DEF Others
  <1>4. runner'[w] = "sending"
    BY <1>1 DEF Typed, Goto, AskToSend
  <1>5. wf[w].dispatch # None /\ wf[w].phase = "receipt_dispatch_armed" /\ page[w] = "untouched"
    BY <1>1 DEF Known, RunnerKnows
  <1>6. UNCHANGED <<outside, wf, ledger, capture, disp, capturer>>
    BY DEF AskToSend
  <1>7. RunnerKnows(w)'
    BY <1>4, <1>5, <1>6 DEF RunnerKnows
  <1>8. Dispatching(w)'
    BY <1>1, <1>3, <1>5, <1>6 DEF Known, Dispatching, outside, ledger
  <1>9. Goto(w, "sending")
    BY DEF AskToSend
  <1> QED  BY <1>1, <1>2, <1>3, <1>6, <1>7, <1>8, <1>9, RunnerMoves

LEMMA ClickKeeps ==
  ASSUME IInv, NEW w \in Workflow, NEW done \in {"clicked", "stopped"}, Click(w, done)
  PROVE  IInv'
  <1>1. Typed /\ Admitted(w) /\ page[w] = "asked"
    BY DEF IInv, Click
  <1>2. wf[w] # None
    BY <1>1 DEF Admitted, Unknown
  <1>3. Known(w)
    BY DEF IInv
  <1>4. /\ page' \in [Workflow -> {"untouched", "asked", "clicked", "stopped"}]
        /\ Others(w, page', page) /\ page'[w] = done
    <2>1. page \in [Workflow -> {"untouched", "asked", "clicked", "stopped"}]
      BY <1>1 DEF Typed
    <2>2. page' = [page EXCEPT ![w] = done]
      BY DEF Click
    <2> QED  BY <2>1, <2>2 DEF Others
  <1>5. UNCHANGED <<outside, wf, ledger, capture, disp, capturer>> /\ runner' = runner
    BY DEF Click
  <1>6. runner[w] \in Places /\ Goto(w, runner[w])
    BY <1>1, <1>5 DEF Typed, Goto
  <1>7. RunnerKnows(w)'
    BY <1>1, <1>2, <1>3, <1>5 DEF Known, RunnerKnows
  <1>8. Dispatching(w)'
    BY <1>1, <1>2, <1>3, <1>4, <1>5 DEF Known, Dispatching, outside, ledger
  <1> QED  BY <1>2, <1>4, <1>5, <1>6, <1>7, <1>8, RunnerMoves

-----------------------------------------------------------------------------
(* The capture runner moves on; the capture it works on may grow.          *)
LEMMA CapturerMoves ==
  ASSUME IInv, NEW w \in Workflow, wf[w] # None, capture[w] # None,
         NEW c \in CaptureRecord, NEW pc \in Captures,
         CaptureStep(w, c), CGoto(w, pc),
         \/ c = capture[w]
         \/ capture[w].state = "CAPTURING" /\ c.state = "CAPTURING" /\ Journal(c),
         pc = "asked" => ~Exhausted(c), pc = "classified" => Len(c.seen) = 2,
         UNCHANGED <<outside, wf, ledger, disp, runner, page>>
  PROVE  IInv'
  <1>1. Typed /\ Known(w)
    BY DEF IInv
  <1>2. /\ capture' \in [Workflow -> CaptureRecord \cup {None}]
        /\ capture'[w] = c /\ Others(w, capture', capture)
    BY <1>1 DEF Typed, CaptureStep, Others
  <1>3. /\ capturer' \in [Workflow -> Captures]
        /\ capturer'[w] = pc /\ Others(w, capturer', capturer)
    BY <1>1 DEF Typed, CGoto, Others
  <1>4. Typed'
    BY <1>1, <1>2, <1>3 DEF Typed, outside, ledger
  <1>5. c # None
    BY EvidenceAssumption
  <1>6. Dispatching(w)'
    BY <1>1, <1>2, <1>5 DEF Known, Dispatching, outside, ledger
  <1>7. Disposed(w)'
    BY <1>1, <1>2, <1>5 DEF Known, Disposed, outside, ledger
  <1>8. RunnerKnows(w)'
    BY <1>1 DEF Known, RunnerKnows
  <1>9. CapturerKnows(w)'
    <2>1. /\ w \in confirmed
          /\ Journal(capture[w])
          /\ capture[w].state = "TERMINAL" => Concluded(w)
      BY <1>1 DEF Known, CapturerKnows
    <2>2. Journal(c)
      BY <2>1
    <2>3. c.state = "TERMINAL" => Concluded(w)'
      BY <1>2, <2>1 DEF Concluded
    <2>4. Journal(capture[w])' <=> Journal(c)
      BY <1>2 DEF Journal, CaptureDeadline
    <2>5. Exhausted(capture[w])' <=> Exhausted(c)
      BY <1>2 DEF Exhausted
    <2> QED  BY <1>2, <1>3, <1>5, <2>1, <2>2, <2>3, <2>4, <2>5 DEF CapturerKnows, ledger
  <1>10. Known(w)'
    BY <1>6, <1>7, <1>8, <1>9 DEF Known
  <1>11. /\ UNCHANGED <<outside, ledger, disp>> /\ wf'[w] # None /\ wf'[w].kept = wf[w].kept
         /\ Others(w, wf', wf) /\ Others(w, runner', runner) /\ Others(w, page', page)
    BY DEF Others
  <1> QED  BY <1>2, <1>3, <1>4, <1>10, <1>11, RunnersKeep

(* What is true of the capture a runner works on.                          *)
LEMMA Underway ==
  ASSUME IInv, NEW w \in Workflow, capturer[w] # "none"
  PROVE  /\ wf[w] # None /\ capture[w] # None /\ capture[w] \in CaptureRecord
         /\ Journal(capture[w]) /\ w \in confirmed
         /\ capturer[w] = "asked" => ~Exhausted(capture[w])
         /\ capturer[w] = "classified" => Len(capture[w].seen) = 2
  <1>1. Typed /\ wf[w] # None
    BY DEF IInv, Admitted, Unknown
  <1>2. CapturerKnows(w)
    BY <1>1 DEF IInv, Known
  <1> QED  BY <1>1, <1>2 DEF CapturerKnows, Typed

LEMMA CaptureUnchanged ==
  ASSUME Typed, NEW w \in Workflow, UNCHANGED capture
  PROVE  CaptureStep(w, capture[w])
  BY DEF Typed, CaptureStep

LEMMA CapturerStopsKeeps ==
  ASSUME IInv, NEW w \in Workflow, CapturerStops(w)
  PROVE  IInv'
  <1>1. /\ capturer[w] # "none" /\ CGoto(w, "none")
        /\ UNCHANGED <<outside, wf, ledger, capture, disp, runner, page>>
    BY DEF CapturerStops
  <1>2. /\ wf[w] # None /\ capture[w] # None /\ capture[w] \in CaptureRecord
    BY <1>1, Underway
  <1>3. "none" \in Captures
    BY DEF Captures
  <1>4. CaptureStep(w, capture[w])
    BY <1>1, CaptureUnchanged DEF IInv
  <1> QED  BY <1>1, <1>2, <1>3, <1>4, CapturerMoves

LEMMA QuietOverKeeps ==
  ASSUME IInv, NEW w \in Workflow, QuietOver(w)
  PROVE  IInv'
  <1>1. /\ capturer[w] # "none" /\ CGoto(w, "top")
        /\ UNCHANGED <<outside, wf, ledger, capture, disp, runner, page>>
    BY DEF QuietOver, CAt
  <1>2. /\ wf[w] # None /\ capture[w] # None /\ capture[w] \in CaptureRecord
    BY <1>1, Underway
  <1>3. "top" \in Captures
    BY DEF Captures
  <1>4. CaptureStep(w, capture[w])
    BY <1>1, CaptureUnchanged DEF IInv
  <1> QED  BY <1>1, <1>2, <1>3, <1>4, CapturerMoves

LEMMA CaptureTopKeeps ==
  ASSUME IInv, NEW w \in Workflow, CaptureTop(w)
  PROVE  IInv'
  <1>1. /\ capturer[w] # "none"
        /\ UNCHANGED <<outside, wf, ledger, capture, disp, runner, page>>
    BY DEF CaptureTop, CAt
  <1>2. /\ wf[w] # None /\ capture[w] # None /\ capture[w] \in CaptureRecord
    BY <1>1, Underway
  <1> DEFINE pc == CASE Expired(capture[w]) -> "deadline"
                     [] ~Expired(capture[w]) /\ Exhausted(capture[w]) -> "limit"
                     [] OTHER -> "asked"
  <1>3. CGoto(w, pc)
    BY DEF CaptureTop
  <1>4. \/ Expired(capture[w]) /\ pc = "deadline"
        \/ Exhausted(capture[w]) /\ pc = "limit"
        \/ ~Exhausted(capture[w]) /\ pc = "asked"
    BY Zenon
  <1> HIDE DEF pc
  <1>5. pc \in Captures /\ pc = "asked" => ~Exhausted(capture[w])
    BY <1>4 DEF Captures, Ending
  <1>6. pc # "classified"
    BY <1>4
  <1>7. CaptureStep(w, capture[w])
    BY <1>1, CaptureUnchanged DEF IInv
  <1> QED  BY <1>1, <1>2, <1>3, <1>4, <1>5, <1>6, <1>7, CapturerMoves DEF Captures, Ending

(* One more entry in the journal leaves the others, and counts if a pair.  *)
Grows(c, j, l) ==
  /\ j \in Seq(Labels) /\ Len(j) <= JournalLimit
  /\ Len(j) = Len(c.journal) + 1 /\ Len(c.journal) \in Nat
  /\ DOMAIN c.journal \subseteq DOMAIN j /\ Len(j) \in DOMAIN j /\ j[Len(j)] = l
  /\ \A k \in DOMAIN c.journal : j[k] = c.journal[k]
  /\ l = "PAIR_COMPLETED" => Cardinality(Pairs(j)) = c.pairs + 1
  /\ l # "PAIR_COMPLETED" => Cardinality(Pairs(j)) = c.pairs

LEMMA JournalGrows ==
  ASSUME NEW c \in CaptureRecord, Journal(c), NEW l \in Labels,
         Len(c.journal) < JournalLimit,
         NEW j, j = Append(c.journal, l)
  PROVE  Grows(c, j, l)
  <1>1. c.journal \in Seq(Labels) /\ c.pairs \in Nat
    BY DEF CaptureRecord, Labels
  <1>2. JournalLimit \in Nat
    BY EvidenceAssumption
  <1>3. /\ j \in Seq(Labels) /\ Len(j) = Len(c.journal) + 1 /\ Len(c.journal) \in Nat
        /\ DOMAIN c.journal = 1..Len(c.journal) /\ DOMAIN j = 1..(Len(c.journal) + 1)
        /\ j[Len(c.journal) + 1] = l
        /\ \A k \in DOMAIN c.journal : j[k] = c.journal[k]
    BY <1>1
  <1> DEFINE n == Len(c.journal) + 1
             P == Pairs(c.journal)
             Q == Pairs(j)
  <1>4. n \in Nat /\ n \notin P
    BY <1>3 DEF Pairs
  <1>5. Q = IF l = "PAIR_COMPLETED" THEN P \cup {n} ELSE P
    BY <1>3 DEF Pairs
  <1>6. IsFiniteSet(P) /\ Cardinality(P) = c.pairs
    <2>1. IsFiniteSet(1..Len(c.journal))
      BY <1>3, FS_Interval
    <2>2. P \subseteq 1..Len(c.journal)
      BY <1>3 DEF Pairs
    <2> QED  BY <2>1, <2>2, FS_Subset DEF Journal
  <1>7. Cardinality(P \cup {n}) = Cardinality(P) + 1
    <2> HIDE DEF P, n
    <2> QED  BY <1>4, <1>6, FS_AddElement
  <1>8. /\ l = "PAIR_COMPLETED" => Cardinality(Q) = c.pairs + 1
        /\ l # "PAIR_COMPLETED" => Cardinality(Q) = c.pairs
    <2> HIDE DEF P, Q, n
    <2> QED  BY <1>1, <1>5, <1>6, <1>7
  <1>9. Len(j) <= JournalLimit
    <2>1. Len(c.journal) \in Nat /\ Len(j) = Len(c.journal) + 1
      BY <1>3
    <2> QED  BY <1>2, <2>1
  <1>10. /\ DOMAIN c.journal \subseteq DOMAIN j /\ Len(j) \in DOMAIN j /\ j[Len(j)] = l
    BY <1>3
  <1> QED  BY <1>3, <1>8, <1>9, <1>10 DEF Grows

(* A recovery forgets the candidate.                                       *)
LEMMA RecoveredKeeps ==
  ASSUME NEW c \in CaptureRecord, Journal(c), Len(c.journal) < JournalLimit
  PROVE  /\ Recovered(c) \in CaptureRecord /\ Journal(Recovered(c))
         /\ Recovered(c).state = c.state
  <1>0. PICK j : j = Append(c.journal, "RECOVERABLE")
    OBVIOUS
  <1> DEFINE r == Recovered(c)
             a == [c EXCEPT !.journal = j]
  <1>1. r = [a EXCEPT !.seen = <<>>]
    BY <1>0, Zenon DEF Recovered
  <1>2. "RECOVERABLE" \in Labels /\ "RECOVERABLE" # "PAIR_COMPLETED"
    BY DEF Labels
  <1>3. /\ j \in Seq(Labels) /\ Len(j) <= JournalLimit
        /\ Cardinality(Pairs(j)) = c.pairs
    BY <1>0, <1>2, JournalGrows DEF Grows
  <1>4. /\ a \in CaptureRecord /\ a.journal = j /\ a.state = c.state /\ a.pairs = c.pairs
        /\ a.started = c.started
    BY <1>3 DEF CaptureRecord, Labels
  <1> HIDE DEF a, r
  <1>5. <<>> \in Seq(Observation) /\ Len(<<>>) = 0 /\ DOMAIN <<>> = {}
    OBVIOUS
  <1>6. /\ r \in CaptureRecord /\ r.journal = j /\ r.state = c.state /\ r.pairs = c.pairs
        /\ r.seen = <<>>
    BY <1>1, <1>4, <1>5 DEF CaptureRecord
  <1>7. c.pairs \in Nat
    BY DEF CaptureRecord
  <1>8. r.pairs = Cardinality(Pairs(r.journal))
    BY <1>2, <1>3, <1>6, <1>7
  <1>9. Journal(r)
    BY <1>3, <1>5, <1>6, <1>8 DEF Journal
  <1> QED  BY <1>6, <1>9 DEF r

LEMMA AfterRestartKeeps ==
  ASSUME IInv, NEW w \in Workflow, AfterRestart(w)
  PROVE  IInv'
  <1>1. /\ capturer[w] # "none" /\ CGoto(w, "top") /\ capture[w].state = "CAPTURING"
        /\ UNCHANGED <<outside, wf, ledger, disp, runner, page>>
    BY DEF AfterRestart, CAt
  <1>2. /\ wf[w] # None /\ capture[w] # None /\ capture[w] \in CaptureRecord
        /\ Journal(capture[w])
    BY <1>1, Underway
  <1>3. "top" \in Captures
    BY DEF Captures
  <1>4. CASE ~Expired(capture[w]) /\ Len(capture[w].journal) < JournalLimit
    <2>1. CaptureStep(w, Recovered(capture[w]))
      BY <1>4 DEF AfterRestart
    <2>2. /\ Recovered(capture[w]) \in CaptureRecord /\ Journal(Recovered(capture[w]))
          /\ Recovered(capture[w]).state = "CAPTURING"
      BY <1>1, <1>2, <1>4, RecoveredKeeps
    <2> QED  BY <1>1, <1>2, <1>3, <2>1, <2>2, CapturerMoves
  <1>5. CASE ~(~Expired(capture[w]) /\ Len(capture[w].journal) < JournalLimit)
    <2>1. CaptureStep(w, capture[w])
      BY <1>5 DEF AfterRestart
    <2> QED  BY <1>1, <1>2, <1>3, <2>1, CapturerMoves
  <1> QED  BY <1>4, <1>5

LEMMA ObserveFailsKeeps ==
  ASSUME IInv, NEW w \in Workflow, ObserveFails(w)
  PROVE  IInv'
  <1>1. /\ capturer[w] # "none" /\ capture[w].state = "CAPTURING"
        /\ UNCHANGED <<outside, wf, ledger, disp, runner, page>>
    BY DEF ObserveFails, CAt
  <1>2. /\ wf[w] # None /\ capture[w] # None /\ capture[w] \in CaptureRecord
        /\ Journal(capture[w])
    BY <1>1, Underway
  <1>3. "top" \in Captures /\ "deadline" \in Captures /\ "limit" \in Captures
    BY DEF Captures, Ending
  <1>4. ASSUME NEW pc \in {"deadline", "limit"}, CGoto(w, pc), UNCHANGED capture
        PROVE  IInv'
    <2>1. CaptureStep(w, capture[w])
      BY <1>4, CaptureUnchanged DEF IInv
    <2> QED  BY <1>1, <1>2, <1>3, <1>4, <2>1, CapturerMoves
  <1>5. ASSUME Len(capture[w].journal) < JournalLimit - 1, CGoto(w, "top"),
               CaptureStep(w, Recovered(capture[w]))
        PROVE  IInv'
    <2>1. Len(capture[w].journal) < JournalLimit
      BY <1>2, <1>5, EvidenceAssumption DEF CaptureRecord
    <2>2. /\ Recovered(capture[w]) \in CaptureRecord /\ Journal(Recovered(capture[w]))
          /\ Recovered(capture[w]).state = "CAPTURING"
      BY <1>1, <1>2, <2>1, RecoveredKeeps
    <2> QED  BY <1>1, <1>2, <1>3, <1>5, <2>2, CapturerMoves
  <1> QED  BY <1>4, <1>5 DEF ObserveFails

(* An observation is the candidate, or makes a pair with it.               *)
LEMMA RecordedKeeps ==
  ASSUME NEW c \in CaptureRecord, Journal(c), ~Exhausted(c), NEW o \in Observation,
         o.seq = Len(c.journal) + 1, o.at <= CaptureDeadline(c), o.shows \in Snapshots
  PROVE  /\ Recorded(c, o) \in CaptureRecord /\ Journal(Recorded(c, o))
         /\ Recorded(c, o).state = c.state
  <1>1. PICK l : l = IF Len(c.seen) = 1 THEN "PAIR_COMPLETED" ELSE "CANDIDATE"
    OBVIOUS
  <1>2. PICK j : j = Append(c.journal, l)
    OBVIOUS
  <1>3. PICK s : s = IF Len(c.seen) >= 2 THEN <<o>> ELSE Append(c.seen, o)
    OBVIOUS
  <1>4. PICK n : n = IF Len(c.seen) = 1 THEN c.pairs + 1 ELSE c.pairs
    OBVIOUS
  <1> DEFINE r == Recorded(c, o)
             a == [c EXCEPT !.journal = j]
             b == [a EXCEPT !.seen = s]
  <1>5. r = [b EXCEPT !.pairs = n]
    BY <1>1, <1>2, <1>3, <1>4, Zenon DEF Recorded
  <1> HIDE DEF a, b, r
  <1>6. c.journal \in Seq(Labels) /\ c.pairs \in Nat /\ c.seen \in Seq(Observation)
    BY DEF CaptureRecord, Labels
  <1>7. Len(c.seen) \in Nat /\ Len(c.journal) \in Nat /\ DOMAIN c.seen = 1..Len(c.seen)
    BY <1>6
  <1>8. Len(c.journal) < JournalLimit /\ c.pairs < PairLimit
    BY <1>6, <1>7, EvidenceAssumption DEF Exhausted
  <1>9. l \in Labels
    BY <1>1 DEF Labels
  <1>10. Grows(c, j, l)
    BY <1>2, <1>8, <1>9, JournalGrows
  <1>11. /\ j \in Seq(Labels) /\ Len(j) <= JournalLimit
         /\ Len(j) = Len(c.journal) + 1
         /\ DOMAIN c.journal \subseteq DOMAIN j /\ Len(j) \in DOMAIN j /\ j[Len(j)] = l
         /\ \A k \in DOMAIN c.journal : j[k] = c.journal[k]
         /\ l = "PAIR_COMPLETED" => Cardinality(Pairs(j)) = c.pairs + 1
         /\ l # "PAIR_COMPLETED" => Cardinality(Pairs(j)) = c.pairs
    BY <1>10 DEF Grows
  <1>12. n \in Nat /\ n <= PairLimit /\ n = Cardinality(Pairs(j))
    <2>1. c.pairs \in Nat /\ c.pairs < PairLimit /\ PairLimit \in Nat
      BY <1>6, <1>8, EvidenceAssumption
    <2>2. /\ l = "PAIR_COMPLETED" => Cardinality(Pairs(j)) = c.pairs + 1
          /\ l # "PAIR_COMPLETED" => Cardinality(Pairs(j)) = c.pairs
      BY <1>11
    <2>3. CASE Len(c.seen) = 1
      <3>1. l = "PAIR_COMPLETED" /\ n = c.pairs + 1
        BY <1>1, <1>4, <2>3
      <3> QED  BY <2>1, <2>2, <3>1
    <2>4. CASE Len(c.seen) # 1
      <3>1. l = "CANDIDATE" /\ n = c.pairs
        BY <1>1, <1>4, <2>4
      <3> QED  BY <2>1, <2>2, <3>1
    <2> QED  BY <2>3, <2>4
  <1>13. /\ s \in Seq(Observation) /\ Len(s) <= 2 /\ DOMAIN s = 1..Len(s)
         /\ \A k \in DOMAIN s : \/ k = 1 /\ Len(c.seen) # 1 /\ s[k] = o
                                \/ k = 2 /\ Len(c.seen) = 1 /\ s[k] = o
                                \/ k \in DOMAIN c.seen /\ k = 1 /\ s[k] = c.seen[k]
    <2>1. CASE Len(c.seen) >= 2
      <3>0. \A i \in Nat : i >= 2 => i # 1
        OBVIOUS
      <3>1. Len(c.seen) # 1 /\ s = <<o>>
        BY <1>3, <1>7, <2>1, <3>0, Zenon
      <3> QED  BY <3>1
    <2>2. CASE Len(c.seen) = 1
      <3>1. s = Append(c.seen, o)
        BY <1>3, <2>2
      <3> QED  BY <1>6, <1>7, <2>2, <3>1, SMTT(30)
    <2>3. CASE Len(c.seen) = 0
      <3>1. s = Append(c.seen, o)
        <4>1. ~(0 >= 2)
          OBVIOUS
        <4> QED  BY <1>3, <2>3, <4>1, Zenon
      <3> QED  BY <1>6, <1>7, <2>3, <3>1
    <2>4. \A i \in Nat : i >= 2 \/ i = 1 \/ i = 0
      OBVIOUS
    <2> QED  BY <1>7, <2>1, <2>2, <2>3, <2>4, Zenon
  <1>14. \A k \in DOMAIN s :
           /\ s[k].seq \in DOMAIN j /\ s[k].at <= CaptureDeadline(c)
           /\ s[k].shows \in Snapshots
           /\ j[s[k].seq] = IF k = 1 THEN "CANDIDATE" ELSE "PAIR_COMPLETED"
    <2> SUFFICES ASSUME NEW k \in DOMAIN s
                 PROVE  /\ s[k].seq \in DOMAIN j /\ s[k].at <= CaptureDeadline(c)
                        /\ s[k].shows \in Snapshots
                        /\ j[s[k].seq] = IF k = 1 THEN "CANDIDATE" ELSE "PAIR_COMPLETED"
      OBVIOUS
    <2>1. CASE s[k] = o /\ ((k = 1 /\ Len(c.seen) # 1) \/ (k = 2 /\ Len(c.seen) = 1))
      BY <1>1, <1>11, <2>1
    <2>2. CASE k \in DOMAIN c.seen /\ k = 1 /\ s[k] = c.seen[k]
      <3>1. /\ c.seen[k].seq \in DOMAIN c.journal /\ c.seen[k].at <= CaptureDeadline(c)
            /\ c.seen[k].shows \in Snapshots
            /\ c.journal[c.seen[k].seq] = "CANDIDATE"
        BY <2>2 DEF Journal
      <3>2. /\ DOMAIN c.journal \subseteq DOMAIN j
            /\ \A i \in DOMAIN c.journal : j[i] = c.journal[i]
        BY <1>11
      <3> QED  BY <2>2, <3>1, <3>2
    <2> QED  BY <1>13, <2>1, <2>2
  <1>15. /\ a \in CaptureRecord /\ a.journal = j /\ a.state = c.state
         /\ a.started = c.started
    BY <1>11 DEF a, CaptureRecord, Labels
  <1>16. /\ b \in CaptureRecord /\ b.journal = j /\ b.state = c.state /\ b.seen = s
         /\ b.started = c.started
    BY <1>13, <1>15 DEF b, CaptureRecord
  <1>17. /\ r \in CaptureRecord /\ r.journal = j /\ r.state = c.state /\ r.seen = s
         /\ r.started = c.started /\ r.pairs = n
    BY <1>5, <1>12, <1>16 DEF CaptureRecord
  <1>18. Journal(r)
    BY <1>11, <1>12, <1>13, <1>14, <1>17 DEF Journal, CaptureDeadline
  <1> QED  BY <1>17, <1>18 DEF r

LEMMA NextStepIs ==
  ASSUME NEW c, Len(c.seen) <= 2, Len(c.seen) \in Nat
  PROVE  /\ NextStep(c) \in Captures /\ NextStep(c) # "asked"
         /\ NextStep(c) = "classified" => Len(c.seen) = 2
  <1>1. CASE Len(c.seen) < 2
    <2>1. Len(c.seen) # 2
      BY <1>1
    <2>2. NextStep(c) = IF now + 1 >= CaptureDeadline(c) THEN "deadline" ELSE "quiet"
      BY <1>1, <2>1, Zenon DEF NextStep
    <2> QED  BY <2>2 DEF Captures, Ending
  <1>2. CASE Len(c.seen) = 2
    <2>1. ~(Len(c.seen) < 2)
      BY <1>2
    <2>2. NextStep(c) = IF Classify(c.seen[1], c.seen[2]) \notin Retryable THEN "classified"
                        ELSE IF c.pairs >= PairLimit THEN "limit" ELSE "top"
      BY <1>2, <2>1, Zenon DEF NextStep
    <2> QED  BY <1>2, <2>2 DEF Captures, Ending
  <1>3. \A n \in Nat : n <= 2 => n < 2 \/ n = 2
    OBVIOUS
  <1> QED  BY <1>1, <1>2, <1>3

LEMMA ObserveKeeps ==
  ASSUME IInv, NEW w \in Workflow, Observe(w)
  PROVE  IInv'
  <1>1. /\ capturer[w] = "asked" /\ capture[w].state = "CAPTURING"
        /\ now <= CaptureDeadline(capture[w])
        /\ UNCHANGED <<outside, wf, ledger, disp, runner, page>>
    BY DEF Observe, CAt
  <1>2. /\ wf[w] # None /\ capture[w] # None /\ capture[w] \in CaptureRecord
        /\ Journal(capture[w]) /\ ~Exhausted(capture[w])
    BY <1>1, Underway
  <1>3. PICK s \in Snapshots :
          LET c == Recorded(capture[w], [seq |-> Len(capture[w].journal) + 1, at |-> now,
                                         shows |-> s])
          IN CaptureStep(w, c) /\ CGoto(w, NextStep(c))
    BY DEF Observe
  <1> DEFINE o == [seq |-> Len(capture[w].journal) + 1, at |-> now, shows |-> s]
             c == Recorded(capture[w], o)
  <1>4. CaptureStep(w, c) /\ CGoto(w, NextStep(c))
    BY <1>3
  <1>5. /\ o \in Observation /\ o.seq = Len(capture[w].journal) + 1 /\ o.shows \in Snapshots
        /\ o.at = now
    <2>1. s \in Shape
      BY EvidenceAssumption
    <2>2. now \in Nat /\ Len(capture[w].journal) + 1 \in Nat
      <3>1. capture[w].journal \in Seq({"CANDIDATE", "PAIR_COMPLETED", "RECOVERABLE"})
        BY <1>2 DEF CaptureRecord
      <3>2. Len(capture[w].journal) \in Nat
        BY <3>1
      <3> QED  BY <3>2 DEF IInv, Typed
    <2> QED  BY <2>1, <2>2 DEF Observation
  <1> HIDE DEF o
  <1>6. c \in CaptureRecord /\ Journal(c) /\ c.state = "CAPTURING"
    BY <1>1, <1>2, <1>5, RecordedKeeps
  <1> HIDE DEF c
  <1>7. Len(c.seen) <= 2 /\ Len(c.seen) \in Nat
    <2>1. c.seen \in Seq(Observation)
      BY <1>6 DEF CaptureRecord
    <2> QED  BY <1>6, <2>1 DEF Journal
  <1>8. /\ NextStep(c) \in Captures /\ NextStep(c) # "asked"
        /\ NextStep(c) = "classified" => Len(c.seen) = 2
    BY <1>7, NextStepIs
  <1> QED  BY <1>1, <1>2, <1>4, <1>6, <1>8, CapturerMoves

-----------------------------------------------------------------------------
(* A running workflow goes to a person.                                    *)
LEMMA GivenUp ==
  ASSUME IInv, NEW w \in Workflow, Running(w),
         wf' = [wf EXCEPT ![w].status = "human_required"],
         NEW pc \in {"none", capturer[w]}, CGoto(w, pc),
         UNCHANGED <<outside, ledger, capture, disp, runner, page>>
  PROVE  IInv'
  <1>1. Typed /\ wf[w] # None /\ wf[w].status = "running" /\ Known(w)
    BY DEF IInv, Running
  <1>2. Writes(w, "human_required", wf[w].phase, wf[w].dispatch)
    BY <1>1, WritesStatus
  <1>3. /\ capturer' \in [Workflow -> Captures]
        /\ capturer'[w] = pc /\ Others(w, capturer', capturer)
    <2>1. pc \in Captures
      BY <1>1 DEF Typed, Captures
    <2> QED  BY <1>1, <2>1 DEF Typed, CGoto, Others
  <1>4. Typed'
    BY <1>1, <1>2, <1>3 DEF Typed, outside, ledger, Writes
  <1>5. /\ wf'[w].dispatch = wf[w].dispatch /\ wf'[w].phase = wf[w].phase
        /\ wf'[w].status = "human_required" /\ wf'[w].kept = wf[w].kept
        /\ Others(w, wf', wf)
    BY <1>2 DEF Writes
  <1>6. Dispatching(w)'
    BY <1>1, <1>5 DEF Known, Dispatching, outside, ledger
  <1>7. Disposed(w)'
    BY <1>1, <1>5 DEF Known, Disposed, ledger
  <1>8. RunnerKnows(w)'
    BY <1>1, <1>5 DEF Known, RunnerKnows
  <1>9. CapturerKnows(w)'
    BY <1>1, <1>3 DEF Known, CapturerKnows, Concluded, ledger
  <1>10. Known(w)'
    BY <1>6, <1>7, <1>8, <1>9 DEF Known
  <1>11. wf'[w] # None
    BY <1>2, EvidenceAssumption DEF Writes
  <1>12. /\ UNCHANGED <<outside, ledger, disp>>
         /\ Others(w, capture', capture) /\ Others(w, runner', runner)
         /\ Others(w, page', page)
    BY DEF Others
  <1> QED  BY <1>1, <1>3, <1>4, <1>5, <1>10, <1>11, <1>12, RunnersKeep

LEMMA CancelKeeps ==
  ASSUME IInv, NEW w \in Workflow, Cancel(w)
  PROVE  IInv'
  <1>1. CGoto(w, capturer[w])
    BY DEF Cancel, CGoto, IInv, Typed
  <1> QED  BY <1>1, GivenUp DEF Cancel

LEMMA ToHumanKeeps ==
  ASSUME IInv, NEW w \in Workflow, ToHuman(w), capturer[w] # "none",
         UNCHANGED <<outside, ledger, capture, disp, runner, page>>
  PROVE  IInv'
  <1>1. CGoto(w, "none")
    BY DEF ToHuman
  <1>2. CASE Running(w)
    BY <1>1, <1>2, GivenUp DEF ToHuman
  <1>3. CASE ~Running(w)
    <2>1. wf' = wf
      BY <1>3 DEF ToHuman
    <2>2. "none" \in Captures
      BY DEF Captures
    <2>3. CaptureStep(w, capture[w])
      BY CaptureUnchanged DEF IInv
    <2>4. wf[w] # None /\ capture[w] # None /\ capture[w] \in CaptureRecord
      BY Underway
    <2> QED  BY <1>1, <2>1, <2>2, <2>3, <2>4, CapturerMoves
  <1> QED  BY <1>2, <1>3

LEMMA ObserveLateKeeps ==
  ASSUME IInv, NEW w \in Workflow, ObserveLate(w)
  PROVE  IInv'
  BY ToHumanKeeps DEF ObserveLate, CAt

LEMMA DispositionFailsKeeps ==
  ASSUME IInv, NEW w \in Workflow, DispositionFails(w)
  PROVE  IInv'
  BY ToHumanKeeps DEF DispositionFails, Ending

-----------------------------------------------------------------------------
(* The dispatch is armed, and resolved or confirmed.                       *)
LEMMA Clamped ==
  ASSUME Typed, NEW w \in Workflow, intent[w] # None, intent[w].created <= now
  PROVE  /\ Clamp(now, intent[w]) \in Nat
         /\ intent[w].created <= Clamp(now, intent[w])
         /\ Clamp(now, intent[w]) <= Deadline(intent[w])
         /\ Clamp(now, intent[w]) <= now
         /\ \A t \in Nat : t <= now /\ t <= Deadline(intent[w])
                             => t <= Clamp(now, intent[w])
  <1>1. intent[w].created \in Nat /\ now \in Nat /\ SendWindow \in Nat
    BY EvidenceAssumption DEF Typed, IntentRecord
  <1> QED  BY <1>1 DEF Clamp, Deadline

(* A step that writes the dispatch of a workflow whose prompt has not been *)
(* confirmed, while its exchange runner moves.                             *)
LEMMA DispatchWritten ==
  ASSUME IInv, NEW w \in Workflow, Running(w), w \notin confirmed,
         NEW p \in Phase, NEW d \in Dispatch, NEW pc \in Places,
         Writes(w, wf[w].status, p, d), Goto(w, pc),
         confirmed' \in SUBSET (confirmed \cup {w}), confirmed \subseteq confirmed',
         UNCHANGED <<outside, intent, entry, live, permanent, acked,
                     capture, disp, capturer, page>>,
         p \notin Finished, Dispatching(w)', RunnerKnows(w)'
  PROVE  IInv'
  <1>1. Typed /\ Admitted(w) /\ Known(w) /\ wf[w] # None /\ wf[w].status = "running"
    BY DEF IInv, Running
  <1>2. /\ wf' \in [Workflow -> WorkflowRecord \cup {None}] /\ wf'[w] # None
        /\ wf'[w].dispatch = d /\ wf'[w].phase = p
        /\ wf'[w].status = "running" /\ wf'[w].kept = wf[w].kept
        /\ Others(w, wf', wf)
    BY <1>1, EvidenceAssumption DEF Writes
  <1>3. /\ runner' \in [Workflow -> Places] /\ Others(w, runner', runner)
    BY <1>1 DEF Typed, Goto, Others
  <1>4. Typed'
    BY <1>1, <1>2, <1>3 DEF Typed, outside
  <1>5. disp[w] = None /\ w \notin acked
    BY <1>1 DEF Known, Disposed, Finished
  <1>6. Disposed(w)'
    BY <1>2, <1>5 DEF Disposed, Finished
  <1>7. capture[w] = None /\ capturer[w] = "none"
    BY <1>1 DEF Known, CapturerKnows
  <1>8. CapturerKnows(w)'
    BY <1>7 DEF CapturerKnows
  <1>9. Known(w)'
    BY <1>6, <1>8 DEF Known
  <1>10. Admitted(w)'
    BY <1>1, <1>2 DEF Admitted, outside
  <1>11. Elsewhere(w)
    BY <1>2, <1>3 DEF Elsewhere, Others
  <1>12. Capacities'
    BY CapacitiesKept DEF IInv
  <1>13. UNCHANGED outside
    OBVIOUS
  <1> QED  BY <1>4, <1>9, <1>10, <1>11, <1>12, <1>13, StepKeeps

(* A dispatch that is not confirmed, and its intent.                       *)
LEMMA Unconfirmed ==
  ASSUME IInv, NEW w \in Workflow, Running(w),
         wf[w].phase \in Early \cup {"receipt_dispatch_armed"}
  PROVE  /\ w \notin confirmed
         /\ intent[w] # None /\ intent[w].created <= now
         /\ wf[w].dispatch # None =>
              /\ wf[w].dispatch.armed \in Nat /\ wf[w].dispatch.armed <= now
              /\ intent[w].created <= wf[w].dispatch.armed
              /\ wf[w].dispatch.armed <= Deadline(intent[w])
  <1>1. Typed /\ Admitted(w) /\ Known(w) /\ wf[w] # None
    BY DEF IInv, Running
  <1>2. Dispatching(w)
    BY <1>1 DEF Known
  <1>3. w \notin confirmed
    BY <1>2 DEF Dispatching, Early, AtPage, Finished
  <1>4. intent[w] # None /\ intent[w].created <= now
    BY <1>1 DEF Admitted
  <1>5. ASSUME wf[w].dispatch # None
        PROVE  /\ wf[w].dispatch.armed \in Nat /\ wf[w].dispatch.armed <= now
               /\ intent[w].created <= wf[w].dispatch.armed
               /\ wf[w].dispatch.armed <= Deadline(intent[w])
    <2>1. wf[w] \in WorkflowRecord
      BY <1>1 DEF Typed
    <2>2. wf[w].dispatch \in Dispatch
      BY <1>5, <2>1 DEF WorkflowRecord
    <2>3. wf[w].dispatch.armed \in Nat
      BY <2>2 DEF Dispatch
    <2> QED  BY <1>2, <1>5, <2>3 DEF Dispatching, DispatchValid
  <1> QED  BY <1>3, <1>4, <1>5

LEMMA ArmKeeps ==
  ASSUME IInv, NEW w \in Workflow, Arm(w)
  PROVE  IInv'
  <1>1. /\ Typed /\ Known(w) /\ Running(w) /\ wf[w] # None /\ runner[w] = "begin"
        /\ UNCHANGED <<outside, ledger, capture, disp, capturer, page>> /\ Goto(w, "armed")
    BY DEF IInv, Arm, At, Running
  <1>2. /\ wf[w].dispatch = None /\ wf[w].phase \in Early /\ page[w] = "untouched"
    BY <1>1 DEF Known, RunnerKnows, Dispatching
  <1>3. w \notin confirmed /\ intent[w] # None /\ intent[w].created <= now
    BY <1>1, <1>2, Unconfirmed
  <1> DEFINE t == Clamp(now, intent[w])
             d == [state |-> "ARMED", seen |-> None, armed |-> t]
  <1>4. /\ t \in Nat /\ intent[w].created <= t /\ t <= Deadline(intent[w]) /\ t <= now
    BY <1>1, <1>3, Clamped
  <1>5. wf' = [wf EXCEPT ![w].phase = "receipt_dispatch_armed", ![w].dispatch = d]
    BY DEF Arm
  <1> HIDE DEF t
  <1>6. d \in Dispatch /\ d.state = "ARMED" /\ d.seen = None /\ d.armed = t
    BY <1>4 DEF Dispatch
  <1> HIDE DEF d
  <1>7. "receipt_dispatch_armed" \in Phase /\ "armed" \in Places
        /\ "receipt_dispatch_armed" \notin Finished
    BY DEF Phase, Places, Finished
  <1>8. Writes(w, wf[w].status, "receipt_dispatch_armed", d)
    BY <1>1, <1>5, <1>6, <1>7, WritesDispatch
  <1>9. wf'[w].phase = "receipt_dispatch_armed" /\ wf'[w].dispatch = d /\ d # None
    BY <1>6, <1>8, EvidenceAssumption DEF Writes
  <1>10. runner'[w] = "armed"
    BY <1>1 DEF Typed, Goto
  <1>11. RunnerKnows(w)'
    BY <1>1, <1>2, <1>9, <1>10 DEF RunnerKnows
  <1>12. DispatchValid(d, intent[w])
    BY <1>4, <1>6 DEF DispatchValid
  <1>13. Dispatching(w)'
    <2>1. DispatchValid(wf[w].dispatch, intent[w])'
      BY <1>1, <1>9, <1>12 DEF DispatchValid, Deadline, ledger
    <2> QED  BY <1>1, <1>3, <1>4, <1>6, <1>9, <2>1
             DEF Dispatching, AtPage, outside, ledger
  <1>14. UNCHANGED <<outside, intent, entry, live, permanent, acked,
                     capture, disp, capturer, page>> /\ confirmed' = confirmed
    BY <1>1 DEF ledger
  <1> QED  BY <1>1, <1>3, <1>6, <1>7, <1>8, <1>11, <1>13, <1>14, DispatchWritten

LEMMA ResolvedKeeps ==
  ASSUME IInv, NEW w \in Workflow, NEW s \in Absences, Resolved(w, s), Running(w),
         wf[w].dispatch # None,
         wf[w].phase \in {"receipt_dispatch_armed", "restart_reconciling"},
         s = "PROVEN_ABSENT" => page[w] \in {"untouched", "stopped"}
  PROVE  IInv'
  <1>1. /\ Typed /\ Known(w) /\ wf[w] # None /\ Goto(w, "signing")
        /\ UNCHANGED <<outside, ledger, capture, disp, capturer, page>>
    BY DEF IInv, Resolved, Running
  <1>2. /\ w \notin confirmed /\ intent[w] # None /\ intent[w].created <= now
        /\ wf[w].dispatch.armed \in Nat /\ wf[w].dispatch.armed <= now
        /\ intent[w].created <= wf[w].dispatch.armed
        /\ wf[w].dispatch.armed <= Deadline(intent[w])
    BY Unconfirmed DEF Early
  <1>3. PICK t : t = Clamp(now, intent[w])
    OBVIOUS
  <1>4. /\ t \in Nat /\ t <= Deadline(intent[w]) /\ wf[w].dispatch.armed <= t
    BY <1>1, <1>2, <1>3, Clamped
  <1>5. Answers(w, "receipt_dispatch_resolved", s, t)
    BY <1>3 DEF Resolved, Answers
  <1>6. /\ "receipt_dispatch_resolved" \in Phase /\ "signing" \in Places
        /\ "receipt_dispatch_resolved" \notin Finished
        /\ s \in {"ARMED", "CONFIRMED"} \cup Absences
    BY DEF Phase, Places, Finished
  <1>7. PICK d \in Dispatch :
          /\ d.state = s /\ d.seen = t /\ d.armed = wf[w].dispatch.armed
          /\ Writes(w, wf[w].status, "receipt_dispatch_resolved", d)
    <2>1. Typed /\ wf[w] # None /\ t \in Nat /\ wf[w].dispatch # None
      BY <1>1, <1>4
    <2>2. /\ "receipt_dispatch_resolved" \in Phase
          /\ s \in {"ARMED", "CONFIRMED"} \cup Absences
      BY <1>6
    <2> QED  BY <1>5, <2>1, <2>2, WritesAnswer
  <1>8. /\ wf'[w].phase = "receipt_dispatch_resolved" /\ wf'[w].dispatch = d
        /\ d # None /\ t # None
    BY <1>4, <1>7, EvidenceAssumption DEF Writes
  <1>9. runner'[w] = "signing"
    BY <1>1 DEF Typed, Goto
  <1>10. RunnerKnows(w)'
    BY <1>8, <1>9 DEF RunnerKnows
  <1>11. s \notin {"ARMED", "CONFIRMED"}
    BY DEF Absences
  <1>12. DispatchValid(d, intent[w])
    BY <1>2, <1>4, <1>7, <1>8, <1>11 DEF DispatchValid
  <1>13. DispatchValid(wf[w].dispatch, intent[w])'
    BY <1>1, <1>8, <1>12 DEF DispatchValid, Deadline, ledger
  <1>14. Dispatching(w)'
    BY <1>1, <1>2, <1>7, <1>8, <1>11, <1>13
       DEF Dispatching, AtPage, outside, ledger
  <1>15. UNCHANGED <<outside, intent, entry, live, permanent, acked,
                     capture, disp, capturer, page>> /\ confirmed' = confirmed
    BY <1>1 DEF ledger
  <1> QED  BY <1>1, <1>2, <1>6, <1>7, <1>10, <1>14, <1>15, DispatchWritten

(* Where the runner remembers a dispatch, and its phase.                   *)
LEMMA Remembered ==
  ASSUME IInv, NEW w \in Workflow, Running(w)
  PROVE  /\ runner[w] \in {"armed", "sending"} =>
              wf[w].dispatch # None /\ wf[w].phase = "receipt_dispatch_armed"
         /\ runner[w] = "reconciling" => wf[w].phase = "restart_reconciling"
         /\ runner[w] = "signing" => wf[w].phase = "receipt_dispatch_resolved"
         /\ wf[w].dispatch = None => page[w] = "untouched"
         /\ page[w] \in {"untouched", "asked", "clicked", "stopped"}
  <1>1. Known(w) /\ wf[w] # None /\ Typed
    BY DEF IInv, Running
  <1> QED  BY <1>1 DEF Known, RunnerKnows, Dispatching, Typed

LEMMA ExpireArmedKeeps ==
  ASSUME IInv, NEW w \in Workflow, ExpireArmed(w)
  PROVE  IInv'
  <1>1. Running(w) /\ runner[w] = "armed" /\ Resolved(w, "PROVEN_NOT_DISPATCHED")
    BY DEF ExpireArmed, At
  <1>2. "PROVEN_NOT_DISPATCHED" \in Absences
    BY DEF Absences
  <1>3. wf[w].dispatch # None /\ wf[w].phase = "receipt_dispatch_armed"
    BY <1>1, Remembered
  <1> QED  BY <1>1, <1>2, <1>3, ResolvedKeeps

LEMMA SendFailsKeeps ==
  ASSUME IInv, NEW w \in Workflow, SendFails(w)
  PROVE  IInv'
  <1>1. Running(w) /\ runner[w] = "sending"
    BY DEF SendFails, At
  <1>2. PICK s \in {"AMBIGUOUS", "PROVEN_NOT_DISPATCHED"} : Resolved(w, s)
    BY DEF SendFails
  <1>3. s \in Absences /\ s # "PROVEN_ABSENT"
    BY DEF Absences
  <1>4. wf[w].dispatch # None /\ wf[w].phase = "receipt_dispatch_armed"
    BY <1>1, Remembered
  <1> QED  BY <1>1, <1>2, <1>3, <1>4, ResolvedKeeps

LEMMA ReconcileFoundKeeps ==
  ASSUME IInv, NEW w \in Workflow, ReconcileFound(w)
  PROVE  IInv'
  <1>1. /\ Running(w) /\ runner[w] = "reconciling" /\ Resolved(w, "AMBIGUOUS")
        /\ page[w] = "clicked"
    BY DEF ReconcileFound, At
  <1>2. "AMBIGUOUS" \in Absences
    BY DEF Absences
  <1>3. wf[w].dispatch # None /\ wf[w].phase = "restart_reconciling"
    BY <1>1, Remembered
  <1> QED  BY <1>1, <1>2, <1>3, ResolvedKeeps

LEMMA ReconcileFailsKeeps ==
  ASSUME IInv, NEW w \in Workflow, NEW r, ReconcileFails(w, r)
  PROVE  IInv'
  <1>1. Running(w) /\ runner[w] = "reconciling" /\ wf[w].dispatch # None
    BY DEF ReconcileFails, At
  <1>2. "AMBIGUOUS" \in Absences /\ "PROVEN_NOT_DISPATCHED" \in Absences
    BY DEF Absences
  <1>3. wf[w].phase = "restart_reconciling"
    BY <1>1, Remembered
  <1>4. Resolved(w, "AMBIGUOUS") \/ Resolved(w, "PROVEN_NOT_DISPATCHED")
    BY Zenon DEF ReconcileFails
  <1> QED  BY <1>1, <1>2, <1>3, <1>4, ResolvedKeeps

LEMMA ReconcileAbsentKeeps ==
  ASSUME IInv, NEW w \in Workflow, ReconcileAbsent(w)
  PROVE  IInv'
  <1>1. /\ Running(w) /\ runner[w] = "reconciling" /\ wf[w] # None
        /\ page[w] # "asked" /\ page[w] # "clicked"
    BY DEF ReconcileAbsent, At, LaneFree, Running
  <1>2. "PROVEN_ABSENT" \in Absences /\ "begin" \in Places
    BY DEF Absences, Places
  <1>3. wf[w].phase = "restart_reconciling" /\ page[w] \in {"untouched", "stopped"}
    BY <1>1, Remembered
  <1>4. CASE wf[w].dispatch # None /\ Resolved(w, "PROVEN_ABSENT")
    BY <1>1, <1>2, <1>3, <1>4, ResolvedKeeps
  <1>5. CASE /\ wf[w].dispatch = None /\ Goto(w, "begin")
             /\ UNCHANGED <<outside, wf, ledger, capture, disp, capturer, page>>
    BY <1>1, <1>2, <1>5, RunnerGoes
  <1> QED  BY <1>4, <1>5 DEF ReconcileAbsent

LEMMA ConfirmKeeps ==
  ASSUME IInv, NEW w \in Workflow, Confirm(w)
  PROVE  IInv'
  <1>1. /\ Typed /\ Known(w) /\ Running(w) /\ wf[w] # None /\ Goto(w, "none")
        /\ runner[w] = "sending" /\ page[w] = "clicked" /\ now <= Deadline(intent[w])
        /\ confirmed' = confirmed \cup {w}
        /\ UNCHANGED <<outside, intent, entry, live, permanent, acked,
                       capture, disp, capturer, page>>
    BY DEF IInv, Confirm, At, Running
  <1>2. wf[w].dispatch # None /\ wf[w].phase = "receipt_dispatch_armed"
    BY <1>1, Remembered
  <1>3. /\ w \notin confirmed /\ intent[w] # None
        /\ wf[w].dispatch.armed \in Nat /\ wf[w].dispatch.armed <= now
        /\ intent[w].created <= wf[w].dispatch.armed
        /\ wf[w].dispatch.armed <= Deadline(intent[w])
    BY <1>1, <1>2, Unconfirmed
  <1>4. capture[w] = None
    BY <1>1, <1>3 DEF Known, CapturerKnows
  <1>5. /\ "awaiting_attachment_capture" \in Phase /\ "none" \in Places
        /\ "awaiting_attachment_capture" \notin Finished
        /\ "CONFIRMED" \in {"ARMED", "CONFIRMED"} \cup Absences
    BY DEF Phase, Places, Finished
  <1>6. now \in Nat /\ now # None
    BY <1>1, EvidenceAssumption DEF Typed
  <1>7. PICK d \in Dispatch :
          /\ d.state = "CONFIRMED" /\ d.seen = now /\ d.armed = wf[w].dispatch.armed
          /\ Writes(w, wf[w].status, "awaiting_attachment_capture", d)
    <2>1. Answers(w, "awaiting_attachment_capture", "CONFIRMED", now)
      BY DEF Confirm, Answers
    <2> QED  BY <1>1, <1>2, <1>5, <1>6, <2>1, WritesAnswer
  <1>8. /\ wf'[w].phase = "awaiting_attachment_capture" /\ wf'[w].dispatch = d /\ d # None
    BY <1>7, EvidenceAssumption DEF Writes
  <1>9. runner'[w] = "none"
    BY <1>1 DEF Typed, Goto
  <1>10. RunnerKnows(w)'
    BY <1>9 DEF RunnerKnows
  <1>11. DispatchValid(d, intent[w])
    BY <1>1, <1>3, <1>6, <1>7 DEF DispatchValid
  <1>12. DispatchValid(wf[w].dispatch, intent[w])'
    BY <1>1, <1>8, <1>11 DEF DispatchValid, Deadline
  <1>13. Dispatching(w)'
    BY <1>1, <1>3, <1>4, <1>7, <1>8, <1>12 DEF Dispatching, AtPage, outside
  <1>14. confirmed' \in SUBSET (confirmed \cup {w}) /\ confirmed \subseteq confirmed'
    BY <1>1
  <1> QED  BY <1>1, <1>3, <1>5, <1>7, <1>10, <1>13, <1>14, DispatchWritten

-----------------------------------------------------------------------------
(* A classification is a reason, and a positive one is of two consecutive  *)
(* equal observations of one image.                                        *)
LEMMA StructuralIs ==
  ASSUME NEW o \in Shape
  PROVE  /\ Structural(o) \in {"none"} \cup Reasons
         /\ Structural(o) # "EXACTLY_ONE_SUPPORTED"
         /\ Structural(o) = "none" => o.structure = "complete"
  <1>1. \/ o.structure # "complete" /\ Structural(o) = o.structure
        \/ Structural(o) = "INCOHERENT_COUNTS"
        \/ /\ o.structure = "complete"
           /\ Structural(o) = IF o.unclassified > 0 THEN "UNCLASSIFIED_ARTIFACT" ELSE "none"
    BY Zenon DEF Structural
  <1>2. o.structure \in {"complete", "INCOMPLETE_GRAPH", "TRUNCATED_GRAPH",
                         "GENERATION_ACTIVE", "HYDRATION_PENDING", "UNSUPPORTED_EVIDENCE"}
    BY DEF Shape
  <1>3. \/ o.structure # "complete" /\ Structural(o) = o.structure
        \/ Structural(o) = "INCOHERENT_COUNTS" \/ Structural(o) = "UNCLASSIFIED_ARTIFACT"
        \/ o.structure = "complete" /\ Structural(o) = "none"
    BY <1>1, Zenon
  <1> QED  BY <1>2, <1>3 DEF Reasons

LEMMA FinalIs ==
  ASSUME NEW o \in Shape
  PROVE  /\ Final(o) \in Reasons
         /\ Final(o) = "EXACTLY_ONE_SUPPORTED" => o.images = 1
  <1>1. \/ SaveReason(o) = "AMBIGUOUS_SAVE_ASSOCIATION"
        \/ SaveReason(o) = "UNSUPPORTED_SAVE_ASSOCIATION"
        \/ SaveReason(o) = "EXACTLY_ONE_SUPPORTED"
    <2>1. o.save \in {"one", "none", "ambiguous"}
      BY DEF Shape
    <2>2. CASE o.save = "one"
      BY <2>2, Zenon DEF SaveReason
    <2>3. CASE o.save = "none"
      BY <2>3, Zenon DEF SaveReason
    <2>4. CASE o.save = "ambiguous"
      BY <2>4, Zenon DEF SaveReason
    <2> QED  BY <2>1, <2>2, <2>3, <2>4
  <1> DEFINE G1 == o.branches > 1
             G2 == o.branches <= 1 /\ o.images > 1
             G3 == o.branches <= 1 /\ o.images = 1 /\ o.total > 1
             G4 == o.branches = 1 /\ o.images = 1 /\ o.total = 1
             G5 == o.branches <= 1 /\ o.images = 0
  <1>0. /\ G1 => ~G2 /\ ~G3 /\ ~G4 /\ ~G5
        /\ G2 => ~G3 /\ ~G4 /\ ~G5
        /\ G3 => ~G4 /\ ~G5
        /\ G4 => ~G5
    BY DEF Shape
  <1>2. \/ Final(o) = "MULTIPLE_RESPONSE_BRANCHES"
        \/ Final(o) = "MULTIPLE_GENERATED_IMAGES"
        \/ Final(o) = "MULTIPLE_TOTAL_ARTIFACTS"
        \/ o.images = 1 /\ Final(o) = SaveReason(o)
        \/ Final(o) = IF o.save # "none" THEN "AMBIGUOUS_SAVE_ASSOCIATION"
                      ELSE "ZERO_GENERATED_IMAGES"
        \/ Final(o) = "INCOHERENT_COUNTS"
    <2>1. CASE G1
      BY <1>0, <2>1, Zenon DEF Final
    <2>2. CASE G2
      BY <1>0, <2>2, Zenon DEF Final
    <2>3. CASE G3
      BY <1>0, <2>3, Zenon DEF Final
    <2>4. CASE G4
      BY <1>0, <2>4, Zenon DEF Final
    <2>5. CASE G5
      BY <1>0, <2>5, Zenon DEF Final
    <2>6. CASE ~G1 /\ ~G2 /\ ~G3 /\ ~G4 /\ ~G5
      BY <2>6, Zenon DEF Final
    <2> QED  BY <2>1, <2>2, <2>3, <2>4, <2>5, <2>6
  <1> QED  BY <1>1, <1>2 DEF Reasons

LEMMA ClassifyIs ==
  ASSUME NEW f \in Observation, NEW l \in Observation
  PROVE  /\ Classify(f, l) \in Reasons
         /\ Classify(f, l) = "EXACTLY_ONE_SUPPORTED" =>
              /\ Stable(f, l) /\ l.shows.images = 1 /\ f.shows.structure = "complete"
  <1>1. f.shows \in Shape /\ l.shows \in Shape
    BY DEF Observation
  <1>2. \/ Structural(f.shows) # "none" /\ Classify(f, l) = Structural(f.shows)
        \/ Structural(l.shows) # "none" /\ Classify(f, l) = Structural(l.shows)
        \/ /\ ~(Structural(f.shows) # "none")
           /\ Classify(f, l) = IF Stable(f, l) THEN Final(l.shows) ELSE "UNSTABLE_EVIDENCE"
    BY Zenon DEF Classify
  <1>3. \/ Structural(f.shows) # "none" /\ Classify(f, l) = Structural(f.shows)
        \/ Structural(l.shows) # "none" /\ Classify(f, l) = Structural(l.shows)
        \/ Structural(f.shows) = "none" /\ Stable(f, l) /\ Classify(f, l) = Final(l.shows)
        \/ Classify(f, l) = "UNSTABLE_EVIDENCE"
    BY <1>2, Zenon
  <1>4. "UNSTABLE_EVIDENCE" \in Reasons
    BY DEF Reasons
  <1> QED  BY <1>1, <1>3, <1>4, StructuralIs, FinalIs

(* The reason a capture runner gives, and when.                            *)
LEMMA ReasonIs ==
  ASSUME IInv, NEW w \in Workflow, capturer[w] \in Ending
  PROVE  /\ Reason(w) \in Reasons
         /\ \/ Reason(w) \in Exhaustion
            \/ Reason(w) = Classify(capture[w].seen[1], capture[w].seen[2])
         /\ Reason(w) = "EXACTLY_ONE_SUPPORTED" =>
              /\ Len(capture[w].seen) = 2
              /\ Reason(w) = Classify(capture[w].seen[1], capture[w].seen[2])
  <1>0. capturer[w] # "none"
    BY DEF Ending
  <1>1. CASE capturer[w] = "deadline"
    <2>1. Reason(w) = "CAPTURE_DEADLINE_EXPIRED"
      BY <1>1, Zenon DEF Reason
    <2> QED  BY <2>1 DEF Reasons, Exhaustion
  <1>2. CASE capturer[w] = "limit"
    <2>1. Reason(w) = "CAPTURE_ATTEMPT_LIMIT"
      BY <1>2, Zenon DEF Reason
    <2> QED  BY <2>1 DEF Reasons, Exhaustion
  <1>3. CASE capturer[w] = "classified"
    <2>1. Reason(w) = Classify(capture[w].seen[1], capture[w].seen[2])
      BY <1>3, Zenon DEF Reason
    <2>2. Len(capture[w].seen) = 2 /\ capture[w] \in CaptureRecord
      BY <1>0, <1>3, Underway
    <2>3. capture[w].seen \in Seq(Observation)
      BY <2>2 DEF CaptureRecord
    <2>4. capture[w].seen[1] \in Observation /\ capture[w].seen[2] \in Observation
      BY <2>2, <2>3
    <2> QED  BY <2>1, <2>2, <2>4, ClassifyIs
  <1> QED  BY <1>1, <1>2, <1>3 DEF Ending

-----------------------------------------------------------------------------
(* The capture starts, and the workflow ends.                              *)
LEMMA NothingSeen ==
  ASSUME NEW t \in Nat
  PROVE  LET c == [state |-> "CAPTURING", started |-> t, journal |-> <<>>,
                   seen |-> <<>>, pairs |-> 0]
         IN c \in CaptureRecord /\ Journal(c) /\ c.state = "CAPTURING"
  <1> DEFINE c == [state |-> "CAPTURING", started |-> t, journal |-> <<>>,
                   seen |-> <<>>, pairs |-> 0]
  <1>1. c \in CaptureRecord
    BY DEF CaptureRecord
  <1>2. /\ c.journal = <<>> /\ c.seen = <<>> /\ c.pairs = 0 /\ c.state = "CAPTURING"
        /\ Len(<<>>) = 0 /\ DOMAIN <<>> = {}
    OBVIOUS
  <1> HIDE DEF c
  <1>3. Cardinality(Pairs(c.journal)) = 0
    <2>1. Pairs(c.journal) = {}
      BY <1>2 DEF Pairs
    <2> QED  BY <2>1, FS_EmptySet
  <1>4. Journal(c)
    BY <1>2, <1>3, EvidenceAssumption DEF Journal
  <1> QED  BY <1>1, <1>2, <1>4 DEF c

LEMMA StartCaptureKeeps ==
  ASSUME IInv, NEW w \in Workflow, StartCapture(w)
  PROVE  IInv'
  <1>1. /\ Typed /\ Known(w) /\ wf[w] # None /\ wf[w].status = "running"
        /\ w \in confirmed /\ capture[w] = None
        /\ wf[w].phase = "awaiting_attachment_capture"
        /\ UNCHANGED <<outside, ledger, disp, runner, page>> /\ CGoto(w, "top")
    BY DEF IInv, StartCapture, Running
  <1> DEFINE c == [state |-> "CAPTURING", started |-> now, journal |-> <<>>,
                   seen |-> <<>>, pairs |-> 0]
  <1>2. c \in CaptureRecord /\ Journal(c) /\ c.state = "CAPTURING"
    BY <1>1, NothingSeen DEF Typed
  <1>3. CaptureStep(w, c)
    BY DEF StartCapture
  <1> HIDE DEF c
  <1>4. c # None
    BY <1>2, EvidenceAssumption
  <1>5. /\ capture' \in [Workflow -> CaptureRecord \cup {None}]
        /\ capture'[w] = c /\ Others(w, capture', capture)
    BY <1>1, <1>2, <1>3 DEF Typed, CaptureStep, Others
  <1>6. /\ capturer' \in [Workflow -> Captures]
        /\ capturer'[w] = "top" /\ Others(w, capturer', capturer)
    BY <1>1 DEF Typed, CGoto, Others, Captures
  <1>7. Writes(w, wf[w].status, "attachment_capture_started", wf[w].dispatch)
    <2>1. "attachment_capture_started" \in Phase
      BY DEF Phase
    <2>2. wf' = [wf EXCEPT ![w].phase = "attachment_capture_started"]
      BY DEF StartCapture
    <2> QED  BY <1>1, <2>1, <2>2, WritesPhase, Zenon
  <1>8. /\ wf'[w].dispatch = wf[w].dispatch /\ wf'[w].phase = "attachment_capture_started"
        /\ wf'[w].status = "running" /\ wf'[w].kept = wf[w].kept
        /\ Others(w, wf', wf) /\ wf'[w] # None
        /\ wf' \in [Workflow -> WorkflowRecord \cup {None}]
    BY <1>1, <1>7, EvidenceAssumption DEF Writes
  <1>9. Typed'
    BY <1>1, <1>5, <1>6, <1>8 DEF Typed, outside, ledger
  <1>10. Dispatching(w) /\ Disposed(w) /\ RunnerKnows(w)
    BY <1>1 DEF Known
  <1>11. Dispatching(w)'
    BY <1>1, <1>4, <1>5, <1>8, <1>10 DEF Dispatching, AtPage, outside, ledger
  <1>12. Disposed(w)'
    BY <1>1, <1>8, <1>10 DEF Disposed, Finished, ledger
  <1>13. RunnerKnows(w)'
    BY <1>1, <1>8, <1>10 DEF RunnerKnows
  <1>14. CapturerKnows(w)'
    <2>1. Journal(capture[w])' <=> Journal(c)
      BY <1>5 DEF Journal, CaptureDeadline
    <2>2. w \in confirmed' /\ Journal(capture[w])' /\ capture'[w].state # "TERMINAL"
      BY <1>1, <1>2, <1>5, <2>1 DEF ledger
    <2>3. capture'[w] # None /\ capturer'[w] # "asked" /\ capturer'[w] # "classified"
      BY <1>4, <1>5, <1>6
    <2> QED  BY <2>2, <2>3 DEF CapturerKnows
  <1>15. Known(w)'
    BY <1>11, <1>12, <1>13, <1>14 DEF Known
  <1>16. /\ UNCHANGED <<outside, ledger, disp>>
         /\ Others(w, runner', runner) /\ Others(w, page', page)
    BY <1>1 DEF Others
  <1> QED  BY <1>1, <1>5, <1>6, <1>8, <1>9, <1>15, <1>16, RunnersKeep

(* The entry of a workflow's binding is written for no other workflow.     *)
LEMMA EntryWritten ==
  ASSUME IInv, NEW w \in Workflow, wf[w] # None,
         NEW s \in {"RESERVED", "CONSUMED_AMBIGUOUS_PENDING_ACK",
                    "CONSUMED_NOT_SENT_PENDING_ACK", "CONSUMED_RELEASED"},
         entry' = [entry EXCEPT ![intent[w].binding].state = s]
  PROVE  /\ entry' \in [Binding -> EntryRecord \cup {None}]
         /\ intent[w] # None /\ intent[w].binding \in Binding
         /\ entry'[intent[w].binding] # None
         /\ entry'[intent[w].binding].owner = w
         /\ entry'[intent[w].binding].state = s
         /\ \A b \in Binding : entry'[b] = None <=> entry[b] = None
         /\ \A u \in Workflow \ {w} : intent[u] # None =>
               entry'[intent[u].binding] = entry[intent[u].binding]
         /\ \A b \in Binding : entry[b] # None => entry'[b].owner = entry[b].owner
         /\ \A b \in Binding : b # intent[w].binding => entry'[b] = entry[b]
  <1>1. Typed /\ Admitted(w)
    BY DEF IInv
  <1>2. PICK b : b = intent[w].binding
    OBVIOUS
  <1>3. /\ intent[w] # None /\ b \in Binding /\ entry[b] # None /\ entry[b].owner = w
    BY <1>1, <1>2 DEF Typed, Admitted, IntentRecord
  <1>4. entry \in [Binding -> EntryRecord \cup {None}] /\ entry[b] \in EntryRecord
    BY <1>1, <1>3 DEF Typed
  <1> DEFINE e == [entry[b] EXCEPT !.state = s]
  <1>5. entry' = [entry EXCEPT ![b] = e]
    BY <1>2, Zenon
  <1>6. e \in EntryRecord /\ e.owner = w /\ e.state = s
    BY <1>3, <1>4 DEF EntryRecord
  <1> HIDE DEF e
  <1>7. e # None
    BY <1>6, EvidenceAssumption
  <1>8. /\ entry' \in [Binding -> EntryRecord \cup {None}] /\ entry'[b] = e
        /\ \A a \in Binding : a # b => entry'[a] = entry[a]
    BY <1>3, <1>4, <1>5, <1>6
  <1>9. \A a \in Binding : /\ entry'[a] = None <=> entry[a] = None
                           /\ entry[a] # None => entry'[a].owner = entry[a].owner
    BY <1>3, <1>6, <1>7, <1>8
  <1>10. ASSUME NEW u \in Workflow \ {w}, intent[u] # None
         PROVE  entry'[intent[u].binding] = entry[intent[u].binding]
    <2>1. intent[u].binding \in Binding /\ entry[intent[u].binding].owner = u
      <3>1. Admitted(u)
        BY DEF IInv
      <3> QED  BY <1>1, <1>10, <3>1 DEF Typed, Admitted, Unknown, IntentRecord
    <2>2. intent[u].binding # b
      BY <1>3, <2>1
    <2> QED  BY <1>8, <2>1, <2>2
  <1> QED  BY <1>2, <1>3, <1>6, <1>7, <1>8, <1>9, <1>10

(* What the outcome of a Send says.                                        *)
LEMMA SendOutcomeIs ==
  ASSUME NEW s \in Absences, NEW t \in Nat
  PROVE  /\ SendOutcome(s, t) \in DispositionRecord
         /\ SendOutcome(s, t).kind # "execution"
         /\ SendOutcome(s, t).reason = s /\ SendOutcome(s, t).at = t
         /\ Pending(SendOutcome(s, t)) \in
              {"CONSUMED_AMBIGUOUS_PENDING_ACK", "CONSUMED_NOT_SENT_PENDING_ACK"}
  <1> DEFINE d == SendOutcome(s, t)
  <1>1. /\ d.kind \in {"ambiguous", "absence"} /\ d.reason = s /\ d.at = t
        /\ d \in DispositionRecord
    <2>1. s \in Reasons
      BY DEF Reasons, Absences
    <2>2. <<>> \in Seq(Observation)
      OBVIOUS
    <2>3. CASE s = "AMBIGUOUS"
      BY <2>1, <2>2, <2>3 DEF SendOutcome, DispositionRecord
    <2>4. CASE s # "AMBIGUOUS"
      BY <2>1, <2>2, <2>4 DEF SendOutcome, DispositionRecord
    <2> QED  BY <2>3, <2>4
  <1> HIDE DEF d
  <1>2. CASE d.kind = "ambiguous"
    <2>1. Pending(d) = "CONSUMED_AMBIGUOUS_PENDING_ACK"
      BY <1>2, Zenon DEF Pending
    <2> QED  BY <1>1, <1>2, <2>1 DEF d
  <1>3. CASE d.kind = "absence"
    <2>1. Pending(d) = "CONSUMED_NOT_SENT_PENDING_ACK"
      BY <1>3, Zenon DEF Pending
    <2> QED  BY <1>1, <1>3, <2>1 DEF d
  <1> QED  BY <1>1, <1>2, <1>3

(* What the disposition of a capture says.                                 *)
LEMMA ExecutionIs ==
  ASSUME NEW r \in Reasons, NEW s \in Seq(Observation), NEW t \in Nat
  PROVE  /\ Execution(r, s, t) \in DispositionRecord
         /\ Execution(r, s, t).kind = "execution"
         /\ Execution(r, s, t).reason = r /\ Execution(r, s, t).at = t
         /\ Len(s) = 2 => Execution(r, s, t).seen = s
         /\ Pending(Execution(r, s, t)) = "RESERVED"
  <1> DEFINE d == Execution(r, s, t)
  <1>1. /\ d.kind = "execution" /\ d.reason = r /\ d.at = t
        /\ Len(s) = 2 => d.seen = s
        /\ d \in DispositionRecord
    BY DEF Execution, DispositionRecord
  <1> HIDE DEF d
  <1>2. Pending(d) = "RESERVED"
    BY <1>1, Zenon DEF Pending
  <1> QED  BY <1>1, <1>2 DEF d

(* The runner that signs has the answer in the dispatch.                   *)
LEMMA Answered ==
  ASSUME IInv, NEW w \in Workflow, Running(w), runner[w] = "signing"
  PROVE  /\ wf[w].dispatch # None /\ wf[w].dispatch.state \in Absences
         /\ wf[w].dispatch.seen \in Nat
  <1>1. Typed /\ wf[w] # None /\ Dispatching(w) /\ RunnerKnows(w)
    BY DEF IInv, Known, Running
  <1>2. wf[w].phase = "receipt_dispatch_resolved"
    BY <1>1 DEF RunnerKnows
  <1>3. wf[w].dispatch # None /\ wf[w].dispatch.state \in Absences
        /\ DispatchValid(wf[w].dispatch, intent[w])
    BY <1>1, <1>2 DEF Dispatching, Early
  <1>4. wf[w] \in WorkflowRecord
    BY <1>1 DEF Typed
  <1>5. wf[w].dispatch \in Dispatch
    BY <1>3, <1>4 DEF WorkflowRecord
  <1>6. wf[w].dispatch.seen # None
    BY <1>3 DEF DispatchValid, Absences
  <1> QED  BY <1>3, <1>5, <1>6 DEF Dispatch

LEMMA PersistTerminalKeeps ==
  ASSUME IInv, NEW w \in Workflow, PersistTerminal(w)
  PROVE  IInv'
  <1>1. /\ Typed /\ Admitted(w) /\ Known(w) /\ wf[w] # None /\ wf[w].status = "running"
        /\ runner[w] = "signing" /\ disp[w] = None /\ capture[w] = None
        /\ w \notin confirmed /\ Goto(w, "none")
        /\ UNCHANGED <<outside, intent, live, permanent, confirmed, acked,
                       capture, capturer, page>>
    BY DEF IInv, PersistTerminal, At, Running
  <1>2. Dispatching(w) /\ Disposed(w) /\ RunnerKnows(w) /\ CapturerKnows(w)
    BY <1>1 DEF Known
  <1>3. wf[w].phase = "receipt_dispatch_resolved" /\ w \notin acked
    BY <1>1, <1>2 DEF RunnerKnows, Disposed
  <1>4. wf[w].dispatch # None /\ wf[w].dispatch.state \in Absences
        /\ wf[w].dispatch.seen \in Nat
    BY <1>1, Answered DEF Running
  <1> DEFINE d == SendOutcome(wf[w].dispatch.state, wf[w].dispatch.seen)
  <1>5. /\ d \in DispositionRecord /\ d.kind # "execution"
        /\ Pending(d) \in {"CONSUMED_AMBIGUOUS_PENDING_ACK", "CONSUMED_NOT_SENT_PENDING_ACK"}
    BY <1>4, SendOutcomeIs
  <1>6. /\ disp' = [disp EXCEPT ![w] = d]
        /\ entry' = [entry EXCEPT ![intent[w].binding].state = Pending(d)]
    BY DEF PersistTerminal
  <1>7. Writes(w, "succeeded", "attachment_disposition_terminal", wf[w].dispatch)
    <2>1. "attachment_disposition_terminal" \in Phase
      BY DEF Phase
    <2>2. wf' = [wf EXCEPT ![w].phase = "attachment_disposition_terminal",
                           ![w].status = "succeeded"]
      BY DEF PersistTerminal
    <2> QED  BY <1>1, <2>1, <2>2, WritesEnd
  <1>8. /\ wf'[w].dispatch = wf[w].dispatch
        /\ wf'[w].phase = "attachment_disposition_terminal"
        /\ wf'[w].status = "succeeded" /\ wf'[w].kept = wf[w].kept
        /\ Others(w, wf', wf) /\ wf'[w] # None
        /\ wf' \in [Workflow -> WorkflowRecord \cup {None}]
    BY <1>7, EvidenceAssumption DEF Writes
  <1>9. d = SendOutcome(wf[w].dispatch.state, wf[w].dispatch.seen)
    OBVIOUS
  <1> HIDE DEF d
  <1>10. /\ entry' \in [Binding -> EntryRecord \cup {None}]
         /\ intent[w] # None /\ entry'[intent[w].binding] # None
         /\ entry'[intent[w].binding].owner = w
         /\ entry'[intent[w].binding].state = Pending(d)
         /\ \A b \in Binding : entry'[b] = None <=> entry[b] = None
         /\ \A u \in Workflow \ {w} : intent[u] # None =>
               entry'[intent[u].binding] = entry[intent[u].binding]
    <2>1. Pending(d) \in {"RESERVED", "CONSUMED_AMBIGUOUS_PENDING_ACK",
                          "CONSUMED_NOT_SENT_PENDING_ACK", "CONSUMED_RELEASED"}
      BY <1>5
    <2> QED  BY <1>1, <1>6, <2>1, EntryWritten, Zenon
  <1>11. /\ disp' \in [Workflow -> DispositionRecord \cup {None}]
         /\ disp'[w] = d /\ d # None /\ Others(w, disp', disp)
    BY <1>1, <1>5, <1>6, EvidenceAssumption DEF Typed, Others
  <1>12. /\ runner' \in [Workflow -> Places] /\ runner'[w] = "none"
         /\ Others(w, runner', runner)
    BY <1>1 DEF Typed, Goto, Places, Others
  <1>13. Typed'
    BY <1>1, <1>8, <1>10, <1>11, <1>12 DEF Typed, outside
  <1>14. Dispatching(w)'
    BY <1>1, <1>2, <1>4, <1>8 DEF Dispatching, AtPage, Finished, outside
  <1>15. Disposed(w)'
    BY <1>1, <1>3, <1>4, <1>8, <1>9, <1>11 DEF Disposed, Finished
  <1>16. RunnerKnows(w)'
    BY <1>12 DEF RunnerKnows
  <1>17. CapturerKnows(w)'
    BY <1>1, <1>2 DEF CapturerKnows
  <1>18. Known(w)'
    BY <1>14, <1>15, <1>16, <1>17 DEF Known
  <1>19. Admitted(w)'
    BY <1>1, <1>3, <1>8, <1>10, <1>11 DEF Admitted, outside
  <1>20. Elsewhere(w)
    BY <1>1, <1>8, <1>10, <1>11, <1>12 DEF Elsewhere, Others
  <1>21. Capacities'
    BY <1>1, <1>10, CapacitiesKept DEF IInv
  <1>22. UNCHANGED outside
    BY <1>1
  <1> QED  BY <1>13, <1>18, <1>19, <1>20, <1>21, <1>22, StepKeeps

LEMMA TerminalAtIs ==
  ASSUME IInv, NEW w \in Workflow, capturer[w] # "none"
  PROVE  TerminalAt(w) \in Nat
  <1>1. capture[w] \in CaptureRecord /\ now \in Nat /\ CaptureWindow \in Nat
    BY Underway, EvidenceAssumption DEF IInv, Typed
  <1>2. capture[w].started \in Nat /\ capture[w].seen \in Seq(Observation)
    BY <1>1 DEF CaptureRecord
  <1>3. capture[w].seen # <<>> => Last(capture[w].seen).at \in Nat
    <2>1. ASSUME capture[w].seen # <<>>
          PROVE  Last(capture[w].seen) \in Observation
      BY <1>2, <2>1 DEF Last
    <2> QED  BY <2>1 DEF Observation
  <1>4. CaptureDeadline(capture[w]) \in Nat
    BY <1>1, <1>2 DEF CaptureDeadline
  <1>5. PICK l : l = IF capture[w].seen = <<>> THEN capture[w].started
                     ELSE Last(capture[w].seen).at
    OBVIOUS
  <1>6. l \in Nat
    BY <1>2, <1>3, <1>5
  <1>7. PICK t : t = IF l > now THEN l ELSE now
    OBVIOUS
  <1>8. TerminalAt(w) = IF capturer[w] = "deadline" /\ t > CaptureDeadline(capture[w])
                        THEN CaptureDeadline(capture[w]) ELSE t
    BY <1>5, <1>7, Zenon DEF TerminalAt
  <1> QED  BY <1>1, <1>4, <1>6, <1>7, <1>8

(* The confirmed phases are behind whatever an exchange runner remembers.  *)
LEMMA RunnerPast ==
  ASSUME IInv, NEW w \in Workflow, wf[w] # None,
         wf[w].phase \in AtPage \cup Finished
  PROVE  runner[w] = "none"
  <1>1. Typed /\ Dispatching(w) /\ RunnerKnows(w)
    BY DEF IInv, Known
  <1>2. runner[w] \in Places
    BY <1>1 DEF Typed
  <1>3. wf[w].phase \notin Early \cup {"receipt_dispatch_armed", "receipt_dispatch_resolved"}
    BY DEF Early, AtPage, Finished
  <1>4. wf[w].dispatch # None
    BY <1>1, <1>3 DEF Dispatching
  <1> QED  BY <1>1, <1>2, <1>3, <1>4 DEF RunnerKnows, Places, Early

LEMMA PersistDispositionKeeps ==
  ASSUME IInv, NEW w \in Workflow, PersistDisposition(w)
  PROVE  IInv'
  <1>1. /\ Typed /\ capturer[w] \in Ending /\ capturer[w] # "none" /\ CGoto(w, "none")
        /\ capture[w].state = "CAPTURING" /\ Accepted(Reason(w), capture[w].seen)
        /\ UNCHANGED <<outside, ledger, runner, page>>
    BY DEF IInv, PersistDisposition, CAt, Ending
  <1>2. /\ wf[w] # None /\ capture[w] # None /\ capture[w] \in CaptureRecord
        /\ Journal(capture[w]) /\ w \in confirmed
    BY <1>1, Underway
  <1>3. Admitted(w) /\ Known(w)
    BY DEF IInv
  <1>4. Dispatching(w) /\ Disposed(w) /\ RunnerKnows(w)
    BY <1>2, <1>3 DEF Known
  <1>5. /\ disp[w] = None /\ w \notin acked /\ wf[w].phase \in AtPage
        /\ wf[w].dispatch # None
    BY <1>1, <1>2, <1>4 DEF Disposed, Dispatching, Finished
  <1>6. runner[w] = "none"
    BY <1>2, <1>5, RunnerPast
  <1>7. PICK r : r = Reason(w)
    OBVIOUS
  <1>8. PICK t : t = TerminalAt(w)
    OBVIOUS
  <1>9. r \in Reasons /\ t \in Nat /\ capture[w].seen \in Seq(Observation)
    BY <1>1, <1>2, <1>7, <1>8, ReasonIs, TerminalAtIs DEF CaptureRecord
  <1> DEFINE d == Execution(r, capture[w].seen, t)
             c == [capture[w] EXCEPT !.state = "TERMINAL"]
  <1>10. /\ d \in DispositionRecord /\ d.kind = "execution" /\ d.reason = r /\ d.at = t
         /\ Pending(d) = "RESERVED"
    BY <1>9, ExecutionIs
  <1>11. /\ c \in CaptureRecord /\ c.state = "TERMINAL" /\ c.seen = capture[w].seen
         /\ c.journal = capture[w].journal /\ c.pairs = capture[w].pairs
         /\ c.started = capture[w].started
    BY <1>2 DEF CaptureRecord
  <1>12. CaptureStep(w, c) /\ disp' = [disp EXCEPT ![w] = d]
    BY <1>7, <1>8 DEF PersistDisposition
  <1>13. d = Execution(r, capture[w].seen, t)
    OBVIOUS
  <1> HIDE DEF c, d
  <1>14. c # None /\ d # None
    BY <1>10, <1>11, EvidenceAssumption
  <1>15. /\ capture' \in [Workflow -> CaptureRecord \cup {None}]
         /\ capture'[w] = c /\ Others(w, capture', capture)
    BY <1>1, <1>11, <1>12 DEF Typed, CaptureStep, Others
  <1>16. /\ disp' \in [Workflow -> DispositionRecord \cup {None}]
         /\ disp'[w] = d /\ Others(w, disp', disp)
    BY <1>1, <1>10, <1>12 DEF Typed, Others
  <1>17. /\ capturer' \in [Workflow -> Captures]
         /\ capturer'[w] = "none" /\ Others(w, capturer', capturer)
    BY <1>1 DEF Typed, CGoto, Others, Captures
  <1>18. Writes(w, "succeeded", "attachment_disposition_terminal", wf[w].dispatch)
    <2>1. "attachment_disposition_terminal" \in Phase
      BY DEF Phase
    <2>2. wf' = [wf EXCEPT ![w].phase = "attachment_disposition_terminal",
                           ![w].status = "succeeded"]
      BY DEF PersistDisposition
    <2> QED  BY <1>1, <1>2, <2>1, <2>2, WritesEnd
  <1>19. /\ wf'[w].dispatch = wf[w].dispatch
         /\ wf'[w].phase = "attachment_disposition_terminal"
         /\ wf'[w].status = "succeeded" /\ wf'[w].kept = wf[w].kept
         /\ Others(w, wf', wf) /\ wf'[w] # None
         /\ wf' \in [Workflow -> WorkflowRecord \cup {None}]
    BY <1>18, EvidenceAssumption DEF Writes
  <1>20. Typed'
    BY <1>1, <1>15, <1>16, <1>17, <1>19 DEF Typed, outside, ledger
  <1>21. Dispatching(w)'
    BY <1>1, <1>2, <1>4, <1>5, <1>19 DEF Dispatching, AtPage, Finished, outside, ledger
  <1>22. Disposed(w)'
    BY <1>1, <1>5, <1>11, <1>14, <1>15, <1>16, <1>19 DEF Disposed, Finished, ledger
  <1>23. RunnerKnows(w)'
    BY <1>1, <1>6 DEF RunnerKnows
  <1>24. Concluded(w)'
    <2>1. d = Execution(IF r \in Exhaustion THEN r ELSE Classify(c.seen[1], c.seen[2]),
                        c.seen, t)
      <3>1. r \in Exhaustion \/ r = Classify(capture[w].seen[1], capture[w].seen[2])
        BY <1>1, <1>7, ReasonIs
      <3> QED  BY <1>11, <1>13, <3>1
    <2>2. Accepted(r, c.seen)
      BY <1>1, <1>7, <1>11
    <2> QED  BY <1>10, <1>14, <1>15, <1>16, <2>1, <2>2 DEF Concluded
  <1>25. CapturerKnows(w)'
    <2>1. Journal(c)
      BY <1>2, <1>11 DEF Journal, CaptureDeadline
    <2>2. Journal(capture[w])' <=> Journal(c)
      BY <1>15 DEF Journal, CaptureDeadline
    <2>3. w \in confirmed'
      BY <1>1, <1>2 DEF ledger
    <2>4. capturer'[w] # "asked" /\ capturer'[w] # "classified"
      BY <1>17
    <2> QED  BY <1>17, <1>24, <2>1, <2>2, <2>3, <2>4 DEF CapturerKnows
  <1>26. Known(w)'
    BY <1>21, <1>22, <1>23, <1>25 DEF Known
  <1>27. Admitted(w)'
    <2>1. Pending(disp[w])' = "RESERVED"
      BY <1>10, <1>16 DEF Pending
    <2> QED  BY <1>1, <1>2, <1>3, <1>5, <1>16, <1>19, <2>1 DEF Admitted, outside, ledger
  <1>28. Elsewhere(w)
    BY <1>1, <1>15, <1>16, <1>17, <1>19 DEF Elsewhere, Others, ledger
  <1>29. Capacities'
    BY <1>1, CapacitiesKept DEF IInv, ledger
  <1>30. UNCHANGED outside
    BY <1>1
  <1> QED  BY <1>20, <1>26, <1>27, <1>28, <1>29, <1>30, StepKeeps

-----------------------------------------------------------------------------
(* A release frees a place in the ledger, an admission takes one.          *)
LEMMA ReleaseKeeps ==
  ASSUME IInv, NEW w \in Workflow, Release(w)
  PROVE  IInv'
  <1>1. /\ Typed /\ Admitted(w) /\ Known(w) /\ wf[w] # None /\ disp[w] # None
        /\ w \notin acked /\ wf[w].phase = "attachment_disposition_terminal"
        /\ wf[w].status = "succeeded"
        /\ acked' = acked \cup {w} /\ live' = live - 1
        /\ entry' = [entry EXCEPT ![intent[w].binding].state = "CONSUMED_RELEASED"]
        /\ UNCHANGED <<outside, intent, permanent, confirmed, capture, disp, runner,
                       capturer, page>>
    BY DEF IInv, Release
  <1>2. Dispatching(w) /\ Disposed(w) /\ RunnerKnows(w) /\ CapturerKnows(w)
    BY <1>1 DEF Known
  <1>3. runner[w] = "none"
    BY <1>1, RunnerPast DEF Finished
  <1>4. Writes(w, "succeeded", "attachment_evidence_released", wf[w].dispatch)
    <2>1. "attachment_evidence_released" \in Phase
      BY DEF Phase
    <2>2. wf' = [wf EXCEPT ![w].phase = "attachment_evidence_released"]
      BY DEF Release
    <2> QED  BY <1>1, <2>1, <2>2, WritesPhase, Zenon
  <1>5. /\ wf'[w].dispatch = wf[w].dispatch
        /\ wf'[w].phase = "attachment_evidence_released"
        /\ wf'[w].status = "succeeded" /\ wf'[w].kept = wf[w].kept
        /\ Others(w, wf', wf) /\ wf'[w] # None
        /\ wf' \in [Workflow -> WorkflowRecord \cup {None}]
    BY <1>4, EvidenceAssumption DEF Writes
  <1>6. /\ entry' \in [Binding -> EntryRecord \cup {None}]
        /\ intent[w] # None /\ entry'[intent[w].binding] # None
        /\ entry'[intent[w].binding].owner = w
        /\ entry'[intent[w].binding].state = "CONSUMED_RELEASED"
        /\ \A b \in Binding : entry'[b] = None <=> entry[b] = None
        /\ \A u \in Workflow \ {w} : intent[u] # None =>
              entry'[intent[u].binding] = entry[intent[u].binding]
    BY <1>1, EntryWritten, Zenon
  <1>7. Capacities'
    <2> DEFINE L == {u \in Workflow : intent[u] # None /\ u \notin acked}
               K == {u \in Workflow : intent'[u] # None /\ u \notin acked'}
    <2>1. K = L \ {w} /\ w \in L
      BY <1>1, <1>6
    <2>2. IsFiniteSet(L)
      <3>1. L \subseteq Workflow
        OBVIOUS
      <3> QED  BY <3>1, EvidenceAssumption, FS_Subset
    <2>3. Cardinality(K) = Cardinality(L) - 1
      <3> HIDE DEF K, L
      <3> QED  BY <2>1, <2>2, FS_RemoveElement
    <2>4. live = Cardinality(L) /\ permanent = Cardinality({b \in Binding : entry[b] # None})
      BY DEF IInv, Capacities
    <2>5. {b \in Binding : entry'[b] # None} = {b \in Binding : entry[b] # None}
      BY <1>6
    <2>6. live' = Cardinality(K)
      <3> HIDE DEF K, L
      <3> QED  BY <1>1, <2>3, <2>4
    <2>7. permanent' = Cardinality({b \in Binding : entry'[b] # None})
      BY <1>1, <2>4, <2>5
    <2> QED  BY <2>6, <2>7 DEF Capacities
  <1>8. live' \in Nat
    <2>1. IsFiniteSet({u \in Workflow : intent[u] # None /\ u \notin acked}')
      <3>1. {u \in Workflow : intent[u] # None /\ u \notin acked}' \subseteq Workflow
        OBVIOUS
      <3> QED  BY <3>1, EvidenceAssumption, FS_Subset
    <2> QED  BY <1>7, <2>1, FS_CardinalityType DEF Capacities
  <1>9. Typed'
    BY <1>1, <1>5, <1>6, <1>8 DEF Typed, outside
  <1>10. Dispatching(w)'
    <2>1. now' = now /\ confirmed' = confirmed /\ page' = page /\ capture' = capture
          /\ intent' = intent
      BY <1>1 DEF outside
    <2>2. wf[w].dispatch # None
      BY <1>1, <1>2 DEF Dispatching, Early
    <2> QED  BY <1>1, <1>2, <1>5, <2>1, <2>2 DEF Dispatching, AtPage, Finished
  <1>11. Disposed(w)'
    BY <1>1, <1>2, <1>5 DEF Disposed, Finished
  <1>12. RunnerKnows(w)'
    BY <1>1, <1>3 DEF RunnerKnows
  <1>13. CapturerKnows(w)'
    BY <1>1, <1>2 DEF CapturerKnows, Concluded
  <1>14. Known(w)'
    BY <1>10, <1>11, <1>12, <1>13 DEF Known
  <1>15. Admitted(w)'
    BY <1>1, <1>5, <1>6 DEF Admitted, outside
  <1>16. Elsewhere(w)
    BY <1>1, <1>5, <1>6 DEF Elsewhere, Others
  <1>17. UNCHANGED outside
    BY <1>1
  <1> QED  BY <1>7, <1>9, <1>14, <1>15, <1>16, <1>17, StepKeeps

LEMMA AdmitKeeps ==
  ASSUME IInv, NEW w \in Workflow, NEW b \in Binding, Admit(w, b)
  PROVE  IInv'
  <1>1. /\ Typed /\ intent[w] = None /\ entry[b] = None
        /\ live' = live + 1 /\ permanent' = permanent + 1
        /\ UNCHANGED <<outside, confirmed, acked, capture, disp, capturer, page>>
    BY DEF IInv, Admit, Free
  <1>2. wf[w] = None /\ Unknown(w)
    BY <1>1 DEF IInv, Admitted
  <1> DEFINE r == [status |-> "running", phase |-> "browser_owned", kept |-> TRUE,
                   dispatch |-> None]
             i == [binding |-> b, created |-> now]
             e == [owner |-> w, state |-> "RESERVED"]
  <1>3. /\ r \in WorkflowRecord /\ r.status = "running" /\ r.phase = "browser_owned"
        /\ r.kept /\ r.dispatch = None
    BY DEF WorkflowRecord, Phase
  <1>4. i \in IntentRecord /\ i.binding = b /\ i.created = now
    BY <1>1 DEF Typed, IntentRecord
  <1>5. e \in EntryRecord /\ e.owner = w /\ e.state = "RESERVED"
    BY DEF EntryRecord
  <1>6. /\ wf' = [wf EXCEPT ![w] = r] /\ intent' = [intent EXCEPT ![w] = i]
        /\ entry' = [entry EXCEPT ![b] = e] /\ runner' = [runner EXCEPT ![w] = "begin"]
    BY DEF Admit
  <1> HIDE DEF r, i, e
  <1>7. r # None /\ i # None /\ e # None
    BY <1>3, <1>4, <1>5, EvidenceAssumption
  <1>8. /\ wf' \in [Workflow -> WorkflowRecord \cup {None}] /\ wf'[w] = r
        /\ Others(w, wf', wf)
    BY <1>1, <1>3, <1>6 DEF Typed, Others
  <1>9. /\ intent' \in [Workflow -> IntentRecord \cup {None}] /\ intent'[w] = i
        /\ Others(w, intent', intent)
    BY <1>1, <1>4, <1>6 DEF Typed, Others
  <1>10. /\ entry' \in [Binding -> EntryRecord \cup {None}] /\ entry'[b] = e
         /\ \A a \in Binding : a # b => entry'[a] = entry[a]
    BY <1>1, <1>5, <1>6 DEF Typed
  <1>11. /\ runner' \in [Workflow -> Places] /\ runner'[w] = "begin"
         /\ Others(w, runner', runner)
    BY <1>1, <1>6 DEF Typed, Others, Places
  <1>12. Typed'
    BY <1>1, <1>8, <1>9, <1>10, <1>11 DEF Typed, outside
  <1>13. Admitted(w)'
    <2>1. now \in Nat
      BY <1>1 DEF Typed
    <2> QED  BY <1>1, <1>2, <1>3, <1>4, <1>5, <1>7, <1>8, <1>9, <1>10, <2>1
             DEF Admitted, Unknown, outside
  <1>14. Known(w)'
    <2>1. Dispatching(w)'
      BY <1>1, <1>2, <1>3, <1>8 DEF Dispatching, Early, AtPage, Unknown
    <2>2. Disposed(w)'
      BY <1>1, <1>2, <1>3, <1>8 DEF Disposed, Finished, Unknown
    <2>3. RunnerKnows(w)'
      BY <1>3, <1>8, <1>11 DEF RunnerKnows
    <2>4. CapturerKnows(w)'
      BY <1>1, <1>2 DEF CapturerKnows, Unknown
    <2> QED  BY <2>1, <2>2, <2>3, <2>4 DEF Known
  <1>15. Elsewhere(w)
    <2>1. ASSUME NEW u \in Workflow \ {w}, intent[u] # None
          PROVE  entry'[intent[u].binding] = entry[intent[u].binding]
      <3>1. entry[intent[u].binding] # None /\ intent[u].binding \in Binding
        BY <1>1, <2>1 DEF IInv, Typed, Admitted, Unknown, IntentRecord
      <3> QED  BY <1>1, <1>10, <3>1
    <2> QED  BY <1>1, <1>8, <1>9, <1>11, <2>1 DEF Elsewhere, Others
  <1>16. Capacities'
    <2> DEFINE L == {u \in Workflow : intent[u] # None /\ u \notin acked}
               K == {u \in Workflow : intent'[u] # None /\ u \notin acked'}
               P == {a \in Binding : entry[a] # None}
               Q == {a \in Binding : entry'[a] # None}
    <2>1. K = L \cup {w} /\ w \notin L
      BY <1>1, <1>2, <1>7, <1>9 DEF Unknown, Others
    <2>2. Q = P \cup {b} /\ b \notin P
      BY <1>1, <1>7, <1>10
    <2>3. IsFiniteSet(L) /\ IsFiniteSet(P)
      <3>1. L \subseteq Workflow /\ P \subseteq Binding
        OBVIOUS
      <3> HIDE DEF L, P
      <3> QED  BY <3>1, EvidenceAssumption, FS_Subset
    <2>4. live = Cardinality(L) /\ permanent = Cardinality(P)
      BY DEF IInv, Capacities
    <2>5. live' = Cardinality(K) /\ permanent' = Cardinality(Q)
      <3> HIDE DEF K, L, P, Q
      <3> QED  BY <1>1, <2>1, <2>2, <2>3, <2>4, FS_AddElement
    <2> QED  BY <2>5 DEF Capacities
  <1>17. UNCHANGED outside
    BY <1>1
  <1> QED  BY <1>12, <1>13, <1>14, <1>15, <1>16, <1>17, StepKeeps

-----------------------------------------------------------------------------
(* A crash forgets the runners, a restart starts what can go on, and the   *)
(* clock only moves what may still be done.                                *)
LEMMA CrashKeeps ==
  ASSUME IInv, Crash
  PROVE  IInv'
  <1>1. /\ Typed /\ Bounded /\ Capacities /\ crashes' = crashes + 1 /\ crashes < Crashes
        /\ up' = FALSE
        /\ runner' = [w \in Workflow |-> "none"] /\ capturer' = [w \in Workflow |-> "none"]
        /\ UNCHANGED <<now, wf, ledger, capture, disp, page>>
    BY DEF IInv, Crash
  <1>2. runner' \in [Workflow -> Places] /\ capturer' \in [Workflow -> Captures]
    BY <1>1 DEF Places, Captures
  <1>3. Typed' /\ Bounded'
    <2>1. Typed'
      <3>1. up' \in BOOLEAN
        BY <1>1, Zenon
      <3>2. crashes' \in Nat
        BY <1>1 DEF Typed
      <3> QED  BY <1>1, <1>2, <3>1, <3>2 DEF Typed, ledger
    <2>2. Bounded'
      BY <1>1, EvidenceAssumption DEF Bounded, Typed
    <2> QED  BY <2>1, <2>2
  <1>4. Capacities'
    BY <1>1 DEF Capacities, ledger
  <1>5. ASSUME NEW w \in Workflow
        PROVE  Admitted(w)' /\ Known(w)'
    <2>1. Admitted(w) /\ Known(w)
      BY DEF IInv
    <2>2. runner'[w] = "none" /\ capturer'[w] = "none"
      BY <1>1
    <2>3. Admitted(w)'
      BY <1>1, <2>1, <2>2 DEF Admitted, Unknown, ledger
    <2>4. wf[w] # None => Dispatching(w)'
      BY <1>1, <2>1 DEF Known, Dispatching, ledger
    <2>5. wf[w] # None => Disposed(w)'
      BY <1>1, <2>1 DEF Known, Disposed, ledger
    <2>6. RunnerKnows(w)'
      BY <2>2 DEF RunnerKnows
    <2>7. wf[w] # None => CapturerKnows(w)'
      BY <1>1, <2>1, <2>2 DEF Known, CapturerKnows, Concluded, ledger
    <2> QED  BY <1>1, <2>3, <2>4, <2>5, <2>6, <2>7 DEF Known
  <1> QED  BY <1>3, <1>4, <1>5 DEF IInv

LEMMA ReloadedIs ==
  ASSUME IInv, NEW w \in Workflow
  PROVE  /\ wf[w] = None => Reloaded(w) = None
         /\ wf[w] # None =>
              /\ Reloaded(w) \in WorkflowRecord
              /\ Reloaded(w).dispatch = wf[w].dispatch /\ Reloaded(w).kept = wf[w].kept
              /\ \/ Reloaded(w) = wf[w] /\ ~(Running(w) /\ wf[w].phase \in Reconcilable)
                 \/ /\ Running(w) /\ wf[w].phase \in Reconcilable
                    /\ Reloaded(w).phase = "restart_reconciling"
                    /\ Reloaded(w).status = "running"
                 \/ /\ Running(w) /\ wf[w].phase \notin Reconcilable
                    /\ Reloaded(w).phase = wf[w].phase
                    /\ Reloaded(w).status = "human_required"
  <1> DEFINE G == ~Running(w) \/ Capturable(w)
             H == Running(w) /\ wf[w].phase \in Reconcilable
  <1>1. ~(G /\ H)
    BY DEF Capturable, Reconcilable
  <1>2. CASE G
    <2>1. Reloaded(w) = wf[w]
      BY <1>1, <1>2, Zenon DEF Reloaded
    <2>2. wf[w] # None => wf[w] \in WorkflowRecord
      BY DEF IInv, Typed
    <2> QED  BY <1>1, <1>2, <2>1, <2>2
  <1>3. CASE H
    <2>1. Reloaded(w) = WithPhase(wf[w], "restart_reconciling")
      BY <1>1, <1>3, Zenon DEF Reloaded, WithPhase
    <2>2. wf[w] # None /\ wf[w] \in WorkflowRecord /\ wf[w].status = "running"
      BY <1>3 DEF IInv, Typed, Running
    <2>3. "restart_reconciling" \in Phase
      BY DEF Phase
    <2> DEFINE n == WithPhase(wf[w], "restart_reconciling")
    <2>4. /\ n \in WorkflowRecord /\ n.phase = "restart_reconciling"
          /\ n.status = "running" /\ n.dispatch = wf[w].dispatch /\ n.kept = wf[w].kept
      BY <2>2, <2>3, EditsPhase
    <2> HIDE DEF n
    <2>5. Reloaded(w) = n
      BY <2>1 DEF n
    <2> QED  BY <1>3, <2>2, <2>4, <2>5
  <1>4. CASE ~G /\ ~H
    <2>1. Reloaded(w) = WithStatus(wf[w], "human_required")
      BY <1>4, Zenon DEF Reloaded, WithStatus
    <2>2. wf[w] # None /\ wf[w] \in WorkflowRecord
      BY <1>4 DEF IInv, Typed, Running
    <2> DEFINE n == WithStatus(wf[w], "human_required")
    <2>3. /\ n \in WorkflowRecord /\ n.phase = wf[w].phase
          /\ n.status = "human_required" /\ n.dispatch = wf[w].dispatch
          /\ n.kept = wf[w].kept
      BY <2>2, EditsStatus
    <2> HIDE DEF n
    <2>4. Reloaded(w) = n
      BY <2>1 DEF n
    <2> QED  BY <1>4, <2>2, <2>3, <2>4
  <1> QED  BY <1>2, <1>3, <1>4

LEMMA RestartKeeps ==
  ASSUME IInv, Restart
  PROVE  IInv'
  <1>1. /\ Typed /\ Bounded /\ Capacities /\ up' = TRUE
        /\ wf' = [w \in Workflow |-> Reloaded(w)]
        /\ runner' = [w \in Workflow |-> ResumesAt(w)]
        /\ capturer' = [w \in Workflow |-> RecapturesAt(w)]
        /\ UNCHANGED <<now, crashes, ledger, capture, disp, page>>
    BY DEF IInv, Restart
  <1>2. \A w \in Workflow :
          /\ ResumesAt(w) \in {"none", "reconciling"}
          /\ RecapturesAt(w) \in {"none", "restarted"}
          /\ Reloaded(w) \in WorkflowRecord \cup {None}
    BY ReloadedIs DEF ResumesAt, RecapturesAt
  <1>3. wf' \in [Workflow -> WorkflowRecord \cup {None}]
    BY <1>1, <1>2
  <1>4. runner' \in [Workflow -> Places] /\ capturer' \in [Workflow -> Captures]
    BY <1>1, <1>2 DEF Places, Captures
  <1>5. Typed' /\ Bounded'
    BY <1>1, <1>3, <1>4 DEF Typed, Bounded, ledger
  <1>6. Capacities'
    BY <1>1 DEF Capacities, ledger
  <1>7. ASSUME NEW w \in Workflow
        PROVE  Admitted(w)' /\ Known(w)'
    <2>1. Admitted(w) /\ Known(w)
      BY DEF IInv
    <2>2. /\ wf'[w] = Reloaded(w) /\ runner'[w] = ResumesAt(w)
          /\ capturer'[w] = RecapturesAt(w)
      BY <1>1
    <2>3. CASE wf[w] = None
      <3>1. wf'[w] = None /\ runner'[w] = "none" /\ capturer'[w] = "none"
        BY <2>2, <2>3, ReloadedIs DEF ResumesAt, RecapturesAt, Running
      <3> QED  BY <1>1, <2>1, <2>3, <3>1 DEF Admitted, Unknown, Known, ledger
    <2>4. CASE wf[w] # None
      <3>1. /\ wf'[w] # None
            /\ wf'[w].dispatch = wf[w].dispatch /\ wf'[w].kept = wf[w].kept
            /\ \/ wf'[w] = wf[w] /\ ~(Running(w) /\ wf[w].phase \in Reconcilable)
               \/ /\ Running(w) /\ wf[w].phase \in Reconcilable
                  /\ wf'[w].phase = "restart_reconciling" /\ wf'[w].status = "running"
               \/ /\ Running(w) /\ wf[w].phase \notin Reconcilable
                  /\ wf'[w].phase = wf[w].phase /\ wf'[w].status = "human_required"
        BY <2>2, <2>4, ReloadedIs, EvidenceAssumption
      <3>2. Dispatching(w) /\ Disposed(w) /\ CapturerKnows(w)
        BY <2>1, <2>4 DEF Known
      <3>3. Admitted(w)'
        BY <1>1, <2>1, <2>4, <3>1 DEF Admitted, ledger
      <3>4. Dispatching(w)'
        <4>1. /\ now' = now /\ confirmed' = confirmed /\ page' = page
              /\ capture' = capture /\ intent' = intent
          BY <1>1 DEF ledger
        <4>2. CASE wf'[w].phase = wf[w].phase
          BY <3>1, <3>2, <4>1, <4>2 DEF Dispatching
        <4>3. CASE /\ wf[w].phase \in Reconcilable
                   /\ wf'[w].phase = "restart_reconciling"
          <5>1. w \notin confirmed
            BY <3>2, <4>3 DEF Dispatching, Reconcilable, AtPage, Finished
          <5>2. wf[w].dispatch = None \/ wf[w].dispatch.state = "ARMED"
            BY <3>2, <4>3 DEF Dispatching, Reconcilable
          <5> QED  BY <3>1, <3>2, <4>1, <4>3, <5>1, <5>2 DEF Dispatching, Early, AtPage
        <4> QED  BY <3>1, <4>2, <4>3
      <3>5. Disposed(w)'
        <4>1. disp' = disp /\ acked' = acked /\ capture' = capture
          BY <1>1 DEF ledger
        <4>2. CASE wf'[w] = wf[w]
          BY <3>2, <4>1, <4>2 DEF Disposed
        <4>3. CASE /\ Running(w) /\ wf[w].phase \in Reconcilable
                   /\ wf'[w].phase = "restart_reconciling" /\ wf'[w].status = "running"
          BY <3>1, <3>2, <4>1, <4>3 DEF Disposed, Running, Reconcilable, Finished
        <4>4. CASE /\ Running(w) /\ wf'[w].phase = wf[w].phase
                   /\ wf'[w].status = "human_required"
          BY <3>1, <3>2, <4>1, <4>4 DEF Disposed, Running
        <4> QED  BY <3>1, <4>2, <4>3, <4>4
      <3>6. RunnerKnows(w)'
        BY <2>2, <3>1 DEF RunnerKnows, ResumesAt
      <3>7. CapturerKnows(w)'
        BY <1>1, <2>2, <3>2 DEF CapturerKnows, Concluded, RecapturesAt, ledger
      <3> QED  BY <3>3, <3>4, <3>5, <3>6, <3>7 DEF Known
    <2> QED  BY <2>3, <2>4
  <1> QED  BY <1>5, <1>6, <1>7 DEF IInv

LEMMA TickKeeps ==
  ASSUME IInv, Tick
  PROVE  IInv'
  <1>1. /\ Typed /\ Bounded /\ Capacities /\ now < Horizon /\ now' = now + 1
        /\ UNCHANGED <<crashes, up, wf, ledger, capture, disp, runner, capturer, page>>
    BY DEF IInv, Tick
  <1>2. now \in Nat /\ now' \in Nat /\ \A t \in Nat : t <= now => t <= now'
    BY <1>1 DEF Typed
  <1>3. Typed' /\ Bounded'
    <2>1. Typed'
      BY <1>1, <1>2 DEF Typed, ledger
    <2>2. Bounded'
      BY <1>1, <1>2, EvidenceAssumption DEF Bounded
    <2> QED  BY <2>1, <2>2
  <1>4. Capacities'
    BY <1>1 DEF Capacities, ledger
  <1>5. ASSUME NEW w \in Workflow
        PROVE  Admitted(w)' /\ Known(w)'
    <2>1. Admitted(w) /\ Known(w)
      BY DEF IInv
    <2>2. Admitted(w)'
      <3>1. wf[w] # None => intent[w].created \in Nat
        BY <1>1, <2>1 DEF Typed, Admitted, IntentRecord
      <3> QED  BY <1>1, <1>2, <2>1, <3>1 DEF Admitted, Unknown, ledger
    <2>3. wf[w] # None => Dispatching(w)'
      <3>1. wf[w] # None /\ wf[w].dispatch # None => wf[w].dispatch.armed \in Nat
        <4>1. wf[w] # None => wf[w] \in WorkflowRecord
          BY <1>1 DEF Typed
        <4>2. wf[w] # None /\ wf[w].dispatch # None => wf[w].dispatch \in Dispatch
          BY <4>1 DEF WorkflowRecord
        <4> QED  BY <4>2 DEF Dispatch
      <3> QED  BY <1>1, <1>2, <2>1, <3>1 DEF Known, Dispatching, ledger
    <2>4. wf[w] # None => Disposed(w)'
      BY <1>1, <2>1 DEF Known, Disposed, ledger
    <2>5. wf[w] # None => RunnerKnows(w)'
      BY <1>1, <2>1 DEF Known, RunnerKnows
    <2>6. wf[w] # None => CapturerKnows(w)'
      BY <1>1, <2>1 DEF Known, CapturerKnows, Concluded, ledger
    <2> QED  BY <1>1, <2>2, <2>3, <2>4, <2>5, <2>6 DEF Known
  <1> QED  BY <1>3, <1>4, <1>5 DEF IInv

-----------------------------------------------------------------------------
(* The invariant is of every state, and says what the runs check.          *)
LEMMA StartsSo == Init => IInv
  <1> SUFFICES ASSUME Init
               PROVE  IInv
    OBVIOUS
  <1>1. Typed
    <2>1. up \in BOOLEAN
      BY Zenon DEF Init
    <2> QED  BY <2>1 DEF Init, Typed, Places, Captures
  <1>2. Bounded
    BY EvidenceAssumption DEF Init, Bounded
  <1>3. Capacities
    <2>1. /\ {w \in Workflow : intent[w] # None /\ w \notin acked} = {}
          /\ {b \in Binding : entry[b] # None} = {}
      BY DEF Init
    <2> QED  BY <2>1, FS_EmptySet DEF Init, Capacities
  <1>4. ASSUME NEW w \in Workflow
        PROVE  Admitted(w) /\ Known(w)
    <2>1. wf[w] = None /\ Unknown(w)
      BY DEF Init, Unknown
    <2> QED  BY <2>1 DEF Admitted, Known
  <1> QED  BY <1>1, <1>2, <1>3, <1>4 DEF IInv

LEMMA StepOfOne ==
  ASSUME IInv, NEW w \in Workflow,
         ExchangeStep(w) \/ Reconcile(w) \/ CaptureRun(w)
  PROVE  IInv'
  <1>1. CASE ExchangeStep(w)
    BY <1>1, ArmKeeps, ExpireArmedKeeps, AskToSendKeeps, ConfirmKeeps, ConfirmRefusedKeeps,
       SendFailsKeeps, PersistTerminalKeeps, SigningFailsKeeps, RunnerStopsKeeps
       DEF ExchangeStep
  <1>2. CASE Reconcile(w)
    BY <1>2, ReconcileAbsentKeeps, ReconcileFoundKeeps, ReconcileFailsKeeps DEF Reconcile
  <1>3. CASE CaptureRun(w)
    BY <1>3, AfterRestartKeeps, CaptureTopKeeps, ObserveKeeps, ObserveLateKeeps,
       ObserveFailsKeeps, QuietOverKeeps, PersistDispositionKeeps, DispositionFailsKeeps,
       CapturerStopsKeeps DEF CaptureRun
  <1> QED  BY <1>1, <1>2, <1>3

LEMMA StutterKeeps ==
  ASSUME IInv, UNCHANGED vars
  PROVE  IInv'
  <1>1. UNCHANGED <<now, crashes, up, wf, intent, entry, live, permanent, confirmed,
                    acked, capture, disp, runner, capturer, page>>
    BY DEF vars, outside, ledger
  <1>2. Typed' /\ Bounded' /\ Capacities'
    BY <1>1 DEF IInv, Typed, Bounded, Capacities
  <1>3. ASSUME NEW w \in Workflow
        PROVE  Admitted(w)' /\ Known(w)'
    <2>1. Admitted(w) /\ Known(w)
      BY DEF IInv
    <2>2. Admitted(w)'
      BY <1>1, <2>1 DEF Admitted, Unknown
    <2>3. wf[w] # None => Dispatching(w)'
      BY <1>1, <2>1 DEF Known, Dispatching
    <2>4. wf[w] # None => Disposed(w)' /\ RunnerKnows(w)'
      BY <1>1, <2>1 DEF Known, Disposed, RunnerKnows
    <2>5. wf[w] # None => CapturerKnows(w)'
      BY <1>1, <2>1 DEF Known, CapturerKnows, Concluded
    <2> QED  BY <1>1, <2>2, <2>3, <2>4, <2>5 DEF Known
  <1> QED  BY <1>2, <1>3 DEF IInv

LEMMA NextKeeps == IInv /\ [Next]_vars => IInv'
  <1> SUFFICES ASSUME IInv, [Next]_vars
               PROVE  IInv'
    OBVIOUS
  <1>1. ASSUME NEW w \in Workflow,
               \/ \E b \in Binding : Admit(w, b)
               \/ \E done \in {"clicked", "stopped"} : Click(w, done)
               \/ ExchangeStep(w) \/ Reconcile(w)
               \/ StartCapture(w) \/ CaptureRun(w)
               \/ Cancel(w) \/ Release(w)
        PROVE  IInv'
    BY <1>1, AdmitKeeps, ClickKeeps, StepOfOne, StartCaptureKeeps, CancelKeeps, ReleaseKeeps
  <1>2. CASE Crash \/ Restart \/ Tick
    BY <1>2, CrashKeeps, RestartKeeps, TickKeeps
  <1>3. CASE UNCHANGED vars
    BY <1>3, StutterKeeps
  <1> QED  BY <1>1, <1>2, <1>3 DEF Next

LEMMA Invariance == Spec => []IInv
  <1> QED  BY StartsSo, NextKeeps, PTL DEF Spec

(* The relations validateAttachmentEvidenceState demands, one by one.      *)
LEMMA IntentsValid ==
  ASSUME IInv, NEW w \in Workflow, intent[w] # None
  PROVE  IntentValid(w)
  <1>1. wf[w] # None /\ Admitted(w)
    BY DEF IInv, Admitted, Unknown
  <1>2. Dispatching(w)
    BY <1>1 DEF IInv, Known
  <1> QED  BY <1>1, <1>2 DEF IntentValid, Admitted, Dispatching

LEMMA CapturesValid ==
  ASSUME IInv, NEW w \in Workflow, capture[w] # None
  PROVE  CaptureValid(w)
  <1>1. wf[w] # None
    BY DEF IInv, Admitted, Unknown
  <1>2. Disposed(w) /\ CapturerKnows(w) /\ capture[w] \in CaptureRecord
    BY <1>1 DEF IInv, Known, Typed
  <1>3. w \in confirmed /\ Journal(capture[w])
    BY <1>2 DEF CapturerKnows
  <1>4. capture[w].state = "CAPTURING" => disp[w] = None
    BY <1>2 DEF Disposed
  <1>5. ASSUME capture[w].state = "TERMINAL"
        PROVE  /\ Ended(w) /\ disp[w] # None /\ disp[w].kind = "execution"
               /\ disp[w] = Execution(IF disp[w].reason \in Exhaustion THEN disp[w].reason
                                      ELSE Classify(capture[w].seen[1], capture[w].seen[2]),
                                      capture[w].seen, disp[w].at)
               /\ Accepted(disp[w].reason, capture[w].seen)
    <2>1. Concluded(w)
      BY <1>2, <1>5 DEF CapturerKnows
    <2>2. disp[w].kind = "execution"
      BY <2>1 DEF Concluded, Execution
    <2>3. Ended(w)
      BY <1>1, <1>2, <2>1 DEF Disposed, Concluded, Ended, Finished
    <2> QED  BY <2>1, <2>2, <2>3 DEF Concluded
  <1>6. \A k \in DOMAIN capture[w].seen :
          /\ capture[w].seen[k].seq \in DOMAIN capture[w].journal
          /\ capture[w].journal[capture[w].seen[k].seq] # "RECOVERABLE"
    BY <1>3 DEF Journal
  <1> QED  BY <1>3, <1>4, <1>5, <1>6 DEF CaptureValid, Journal, Pairs

LEMMA DispositionsValid ==
  ASSUME IInv, NEW w \in Workflow, disp[w] # None
  PROVE  DispositionValid(w)
  <1> SUFFICES ASSUME capture[w] = None
               PROVE  /\ disp[w].kind # "execution" /\ w \notin confirmed
                      /\ intent[w] # None /\ Ended(w)
                      /\ wf[w].dispatch # None /\ wf[w].dispatch.state = disp[w].reason
                      /\ wf[w].dispatch.seen = disp[w].at
    BY DEF DispositionValid
  <1>1. wf[w] # None /\ intent[w] # None
    BY DEF IInv, Admitted, Unknown
  <1>2. Disposed(w) /\ Dispatching(w)
    BY <1>1 DEF IInv, Known
  <1>3. /\ wf[w].dispatch # None /\ wf[w].dispatch.state \in Absences
        /\ disp[w] = SendOutcome(wf[w].dispatch.state, wf[w].dispatch.seen)
    BY <1>2 DEF Disposed
  <1>4. /\ disp[w].kind # "execution" /\ disp[w].reason = wf[w].dispatch.state
        /\ disp[w].at = wf[w].dispatch.seen
    BY <1>3 DEF SendOutcome
  <1>5. w \notin confirmed
    BY <1>2, <1>3 DEF Dispatching, Absences
  <1>6. Ended(w)
    BY <1>1, <1>2 DEF Disposed, Ended, Finished
  <1> QED  BY <1>1, <1>3, <1>4, <1>5, <1>6

LEMMA AcksValid ==
  ASSUME IInv, NEW w \in Workflow, w \in acked
  PROVE  AckValid(w)
  <1>1. wf[w] # None /\ intent[w] # None /\ Admitted(w)
    BY DEF IInv, Admitted, Unknown
  <1>2. Disposed(w)
    BY <1>1 DEF IInv, Known
  <1> QED  BY <1>1, <1>2 DEF AckValid, Admitted, Disposed, Finished

LEMMA TypesOK == IInv => TypeOK
  <1> SUFFICES ASSUME IInv
               PROVE  TypeOK
    OBVIOUS
  <1>1. Typed /\ Bounded
    BY DEF IInv
  <1>2. ASSUME NEW w \in Workflow
        PROVE  /\ wf[w] # None => /\ wf[w].status \in {"running", "human_required",
                                                       "succeeded"}
                                  /\ wf[w].phase \in Phase
               /\ intent[w] # None => intent[w] \in [binding : Binding, created : Nat]
               /\ runner[w] \in {"none", "begin", "armed", "sending", "signing",
                                 "reconciling"}
               /\ capturer[w] \in {"none", "restarted", "top", "asked", "quiet"} \cup Ending
               /\ page[w] \in {"untouched", "asked", "clicked", "stopped"}
    <2>1. wf[w] # None => wf[w] \in WorkflowRecord
      BY <1>1 DEF Typed
    <2>2. wf[w] # None => /\ wf[w].status \in {"running", "human_required", "succeeded"}
                          /\ wf[w].phase \in Phase
      BY <2>1 DEF WorkflowRecord
    <2>3. /\ runner[w] \in Places /\ capturer[w] \in Captures
          /\ page[w] \in {"untouched", "asked", "clicked", "stopped"}
          /\ intent[w] # None => intent[w] \in IntentRecord
      BY <1>1 DEF Typed
    <2> QED  BY <2>2, <2>3 DEF Places, Captures, IntentRecord
  <1>3. \A b \in Binding : entry[b] # None => entry[b].owner \in Workflow
    BY <1>1 DEF Typed, EntryRecord
  <1>4. confirmed \subseteq Workflow /\ acked \subseteq Workflow /\ up \in BOOLEAN
    BY <1>1, Zenon DEF Typed
  <1> QED  BY <1>1, <1>2, <1>3, <1>4 DEF TypeOK, Typed, Bounded

LEMMA IInvIsValid == IInv => StateValid
  <1> SUFFICES ASSUME IInv
               PROVE  StateValid
    OBVIOUS
  <1>1. CapacityValid
    BY DEF IInv, Capacities, CapacityValid
  <1>2. \A w \in Workflow : w \in confirmed => intent[w] # None
    BY DEF IInv, Admitted, Unknown
  <1> QED  BY <1>1, <1>2, TypesOK, IntentsValid, CapturesValid, DispositionsValid, AcksValid
           DEF StateValid

(* A positive receipt is of a capture that saw the image twice.            *)
LEMMA PositiveIsSeen ==
  ASSUME IInv, NEW w \in Workflow, disp[w] # None,
         disp[w].reason = "EXACTLY_ONE_SUPPORTED"
  PROVE  LET f == disp[w].seen[1]
             l == disp[w].seen[2]
         IN /\ f.shows = l.shows /\ f.shows.images = 1 /\ f.shows.structure = "complete"
            /\ l.at > f.at /\ l.at <= CaptureDeadline(capture[w])
            /\ capture[w].journal[f.seq] = "CANDIDATE"
            /\ capture[w].journal[f.seq + 1] = "PAIR_COMPLETED"
  <1>1. wf[w] # None
    BY DEF IInv, Admitted, Unknown
  <1>2. Disposed(w) /\ CapturerKnows(w)
    BY <1>1 DEF IInv, Known
  <1>3. capture[w] # None
    BY <1>2 DEF Disposed, SendOutcome, Absences
  <1>4. /\ Journal(capture[w]) /\ Concluded(w) /\ capture[w] \in CaptureRecord
    BY <1>2, <1>3 DEF CapturerKnows, Disposed, IInv, Typed
  <1>5. PICK s : s = capture[w].seen
    OBVIOUS
  <1>6. s \in Seq(Observation) /\ Len(s) \in Nat /\ Len(s) <= 2
    BY <1>4, <1>5 DEF CaptureRecord, Journal
  <1>7. "EXACTLY_ONE_SUPPORTED" \notin Exhaustion
    BY DEF Exhaustion
  <1>8. ~(Len(s) < 2)
    BY <1>4, <1>5, <1>7 DEF Concluded, Accepted
  <1>9. Len(s) = 2
    <2>1. \A n \in Nat : n <= 2 /\ ~(n < 2) => n = 2
      OBVIOUS
    <2> QED  BY <1>6, <1>8, <2>1
  <1>10. s[1] \in Observation /\ s[2] \in Observation /\ 1 \in DOMAIN s /\ 2 \in DOMAIN s
    <2>1. DOMAIN s = 1..2
      BY <1>6, <1>9
    <2>2. s[1] \in Observation /\ s[2] \in Observation
      <3>1. 1 \in 1..Len(s) /\ 2 \in 1..Len(s)
        BY <1>9
      <3> QED  BY <1>6, <3>1, ElementOfSeq
    <2> QED  BY <2>1, <2>2
  <1>11. disp[w] = Execution(Classify(s[1], s[2]), s, disp[w].at)
    BY <1>4, <1>5, <1>7 DEF Concluded
  <1>12. Classify(s[1], s[2]) = "EXACTLY_ONE_SUPPORTED" /\ disp[w].seen = s
    BY <1>9, <1>11 DEF Execution
  <1>13. Stable(s[1], s[2]) /\ s[2].shows.images = 1 /\ s[1].shows.structure = "complete"
    BY <1>10, <1>12, ClassifyIs
  <1>14. /\ s[1].at \in Nat /\ s[2].at \in Nat
    BY <1>10 DEF Observation
  <1>15. /\ s[2].at > s[1].at /\ s[1].shows = s[2].shows /\ s[2].seq = s[1].seq + 1
    BY <1>13, <1>14 DEF Stable
  <1>16. /\ capture[w].journal[s[1].seq] = "CANDIDATE"
         /\ capture[w].journal[s[2].seq] = "PAIR_COMPLETED"
         /\ s[2].at <= CaptureDeadline(capture[w])
    BY <1>4, <1>5, <1>10 DEF Journal
  <1> QED  BY <1>12, <1>13, <1>15, <1>16

LEMMA IInvIsTrue == IInv => EvidenceIsTrue
  <1> SUFFICES ASSUME IInv, NEW w \in Workflow
               PROVE  /\ w \in confirmed => page[w] = "clicked"
                      /\ wf[w] # None /\ wf[w].dispatch # None
                           /\ wf[w].dispatch.state = "PROVEN_ABSENT"
                           => page[w] # "clicked"
    BY PositiveIsSeen DEF EvidenceIsTrue
  <1>1. w \in confirmed => wf[w] # None
    BY DEF IInv, Admitted, Unknown
  <1>2. wf[w] # None => Dispatching(w)
    BY DEF IInv, Known
  <1> QED  BY <1>1, <1>2 DEF Dispatching

-----------------------------------------------------------------------------
(* validateAttachmentEvidenceState never refuses what the runners, a       *)
(* release or a restart of src/broker.mjs write: the intents, bindings,    *)
(* dispatches, captures, dispositions, acknowledgements and the two        *)
(* counters of src/store.mjs agree in every state.                         *)
THEOREM LedgersStayValid == Spec => []StateValid
  <1> QED  BY Invariance, IInvIsValid, PTL

(* Whatever is observed and whenever the broker crashes, a confirmed Send  *)
(* was clicked, a Send proven absent by reconciliation was not, and a      *)
(* positive receipt rests on two consecutive equal observations of one     *)
(* image, made before the deadline, that no recovery separates.            *)
THEOREM EvidenceStaysTrue == Spec => []EvidenceIsTrue
  <1> QED  BY Invariance, IInvIsTrue, PTL

-----------------------------------------------------------------------------
(* Nothing is done twice.                                                  *)
Once ==
  /\ \A w \in Workflow :
       /\ page'[w] = "asked" => page[w] \in {"untouched", "asked"}
       /\ disp[w] # None => disp'[w] = disp[w]
       /\ intent[w] # None => intent'[w] = intent[w]
       /\ w \in acked => w \in acked' /\ disp[w] # None
  /\ \A b \in Binding : entry[b] # None =>
       /\ entry'[b] # None /\ entry'[b].owner = entry[b].owner
       /\ entry[b].state # "RESERVED" => entry'[b].state # "RESERVED"

LEMMA AckedDisposed ==
  ASSUME IInv, NEW w \in Workflow, w \in acked
  PROVE  disp[w] # None
  BY AcksValid DEF AckValid

(* Most steps write none of it.                                            *)
LEMMA OnceQuietly ==
  ASSUME IInv, UNCHANGED <<ledger, disp>>,
         \A w \in Workflow : page'[w] = "asked" => page[w] \in {"untouched", "asked"}
  PROVE  Once
  BY AckedDisposed DEF Once, ledger

LEMMA OnceEntry ==
  ASSUME IInv, NEW w \in Workflow, wf[w] # None,
         NEW s \in {"CONSUMED_AMBIGUOUS_PENDING_ACK", "CONSUMED_NOT_SENT_PENDING_ACK",
                    "CONSUMED_RELEASED"},
         entry' = [entry EXCEPT ![intent[w].binding].state = s]
  PROVE  \A b \in Binding : entry[b] # None =>
            /\ entry'[b] # None /\ entry'[b].owner = entry[b].owner
            /\ entry[b].state # "RESERVED" => entry'[b].state # "RESERVED"
  <1>1. s \in {"RESERVED", "CONSUMED_AMBIGUOUS_PENDING_ACK",
               "CONSUMED_NOT_SENT_PENDING_ACK", "CONSUMED_RELEASED"}
    OBVIOUS
  <1>2. /\ entry'[intent[w].binding].state = s
        /\ \A b \in Binding : entry'[b] = None <=> entry[b] = None
        /\ \A b \in Binding : entry[b] # None => entry'[b].owner = entry[b].owner
        /\ \A b \in Binding : b # intent[w].binding => entry'[b] = entry[b]
    BY <1>1, EntryWritten, Zenon
  <1> QED  BY <1>2

LEMMA OnceAdmit ==
  ASSUME IInv, NEW w \in Workflow, NEW b \in Binding, Admit(w, b)
  PROVE  Once
  <1>1. /\ Typed /\ intent[w] = None /\ entry[b] = None
        /\ UNCHANGED <<acked, disp, page>>
    BY DEF IInv, Admit, Free
  <1>2. \A u \in Workflow : u # w => intent'[u] = intent[u]
    BY <1>1 DEF Admit, Typed
  <1>3. \A a \in Binding : a # b => entry'[a] = entry[a]
    BY <1>1 DEF Admit, Typed
  <1> QED  BY <1>1, <1>2, <1>3, AckedDisposed DEF Once

LEMMA OncePersistTerminal ==
  ASSUME IInv, NEW w \in Workflow, PersistTerminal(w)
  PROVE  Once
  <1>1. /\ Typed /\ wf[w] # None /\ disp[w] = None /\ Running(w) /\ runner[w] = "signing"
        /\ UNCHANGED <<intent, acked, page>>
    BY DEF IInv, PersistTerminal, At, Running
  <1> DEFINE d == SendOutcome(wf[w].dispatch.state, wf[w].dispatch.seen)
  <1>2. /\ disp' = [disp EXCEPT ![w] = d]
        /\ entry' = [entry EXCEPT ![intent[w].binding].state = Pending(d)]
    BY DEF PersistTerminal
  <1>3. Pending(d) \in {"CONSUMED_AMBIGUOUS_PENDING_ACK", "CONSUMED_NOT_SENT_PENDING_ACK"}
    BY <1>1, Answered, SendOutcomeIs
  <1> HIDE DEF d
  <1>4. \A u \in Workflow : u # w => disp'[u] = disp[u]
    BY <1>1, <1>2 DEF Typed
  <1>5. \A b \in Binding : entry[b] # None =>
            /\ entry'[b] # None /\ entry'[b].owner = entry[b].owner
            /\ entry[b].state # "RESERVED" => entry'[b].state # "RESERVED"
    BY <1>1, <1>2, <1>3, OnceEntry
  <1> QED  BY <1>1, <1>4, <1>5, AckedDisposed DEF Once

LEMMA OncePersistDisposition ==
  ASSUME IInv, NEW w \in Workflow, PersistDisposition(w)
  PROVE  Once
  <1>1. /\ Typed /\ capture[w].state = "CAPTURING" /\ capturer[w] # "none"
        /\ UNCHANGED <<ledger, page>>
    BY DEF IInv, PersistDisposition, CAt, Ending
  <1>2. disp[w] = None
    <2>1. wf[w] # None /\ capture[w] # None
      BY <1>1, Underway
    <2>2. Disposed(w)
      BY <2>1 DEF IInv, Known
    <2> QED  BY <1>1, <2>1, <2>2 DEF Disposed
  <1>3. \A u \in Workflow : u # w => disp'[u] = disp[u]
    BY <1>1 DEF PersistDisposition, Typed
  <1> QED  BY <1>1, <1>2, <1>3, AckedDisposed DEF Once, ledger

LEMMA OnceRelease ==
  ASSUME IInv, NEW w \in Workflow, Release(w)
  PROVE  Once
  <1>1. /\ wf[w] # None /\ acked' = acked \cup {w}
        /\ entry' = [entry EXCEPT ![intent[w].binding].state = "CONSUMED_RELEASED"]
        /\ UNCHANGED <<intent, disp, page>>
    BY DEF Release
  <1>2. \A b \in Binding : entry[b] # None =>
            /\ entry'[b] # None /\ entry'[b].owner = entry[b].owner
            /\ entry[b].state # "RESERVED" => entry'[b].state # "RESERVED"
    BY <1>1, OnceEntry
  <1> QED  BY <1>1, <1>2, AckedDisposed DEF Once

LEMMA OnceAtPage ==
  ASSUME IInv, NEW w \in Workflow,
         AskToSend(w) \/ \E done \in {"clicked", "stopped"} : Click(w, done)
  PROVE  Once
  <1>1. page \in [Workflow -> {"untouched", "asked", "clicked", "stopped"}]
    BY DEF IInv, Typed
  <1>2. CASE AskToSend(w)
    <2>1. page[w] = "untouched"
      BY <1>2 DEF AskToSend, At, Running, IInv, Known, RunnerKnows
    <2>2. \A u \in Workflow : u # w => page'[u] = page[u]
      BY <1>1, <1>2 DEF AskToSend
    <2>3. UNCHANGED <<ledger, disp>>
      BY <1>2 DEF AskToSend
    <2> QED  BY <2>1, <2>2, <2>3, OnceQuietly
  <1>3. CASE \E done \in {"clicked", "stopped"} : Click(w, done)
    <2>1. \A u \in Workflow : page'[u] = "asked" => page[u] = "asked"
      BY <1>1, <1>3 DEF Click
    <2>2. UNCHANGED <<ledger, disp>>
      BY <1>3 DEF Click
    <2> QED  BY <2>1, <2>2, OnceQuietly
  <1> QED  BY <1>2, <1>3

LEMMA OnceRun ==
  ASSUME IInv, NEW w \in Workflow,
         ExchangeStep(w) \/ Reconcile(w) \/ CaptureRun(w)
  PROVE  Once
  <1>1. ASSUME UNCHANGED <<ledger, disp, page>>
        PROVE  Once
    BY <1>1, OnceQuietly
  <1>2. CASE ExchangeStep(w)
    <2>1. CASE Arm(w) \/ ConfirmRefused(w) \/ SigningFails(w) \/ RunnerStops(w)
      BY <1>1, <2>1 DEF Arm, ConfirmRefused, SigningFails, RunnerStops
    <2>2. CASE ExpireArmed(w) \/ SendFails(w)
      BY <1>1, <2>2 DEF ExpireArmed, SendFails, Resolved
    <2>3. CASE Confirm(w)
      BY <2>3, AckedDisposed DEF Confirm, Once
    <2> QED  BY <1>2, <2>1, <2>2, <2>3, OnceAtPage, OncePersistTerminal DEF ExchangeStep
  <1>3. CASE Reconcile(w)
    <2>1. UNCHANGED <<ledger, disp, page>>
      BY <1>3, Zenon
         DEF Reconcile, ReconcileAbsent, ReconcileFound, ReconcileFails, Resolved
    <2> QED  BY <1>1, <2>1
  <1>4. CASE CaptureRun(w)
    <2>1. CASE AfterRestart(w) \/ CaptureTop(w) \/ Observe(w) \/ QuietOver(w)
      BY <1>1, <2>1 DEF AfterRestart, CaptureTop, Observe, QuietOver
    <2>2. CASE ObserveLate(w) \/ ObserveFails(w) \/ DispositionFails(w) \/ CapturerStops(w)
      BY <1>1, <2>2 DEF ObserveLate, ObserveFails, DispositionFails, CapturerStops
    <2> QED  BY <1>4, <2>1, <2>2, OncePersistDisposition DEF CaptureRun
  <1> QED  BY <1>2, <1>3, <1>4

LEMMA OnceNext == IInv /\ [Next]_vars => Once
  <1> SUFFICES ASSUME IInv, [Next]_vars
               PROVE  Once
    OBVIOUS
  <1>1. ASSUME UNCHANGED <<ledger, disp, page>>
        PROVE  Once
    BY <1>1, OnceQuietly
  <1>2. ASSUME NEW w \in Workflow,
               \/ \E b \in Binding : Admit(w, b)
               \/ \E done \in {"clicked", "stopped"} : Click(w, done)
               \/ ExchangeStep(w) \/ Reconcile(w)
               \/ StartCapture(w) \/ CaptureRun(w)
               \/ Cancel(w) \/ Release(w)
        PROVE  Once
    <2>1. CASE StartCapture(w) \/ Cancel(w)
      BY <1>1, <2>1 DEF StartCapture, Cancel
    <2> QED  BY <1>2, <2>1, OnceAdmit, OnceAtPage, OnceRun, OnceRelease
  <1>3. CASE Crash \/ Restart \/ Tick
    BY <1>1, <1>3 DEF Crash, Restart, Tick
  <1>4. CASE UNCHANGED vars
    BY <1>1, <1>4 DEF vars
  <1> QED  BY <1>2, <1>3, <1>4 DEF Next

(* Whatever crashes and restarts: a workflow's prompt is handed to the     *)
(* driver once, and a disposition, an acknowledgement and the owner of an  *)
(* external binding are for good.                                          *)
THEOREM NothingIsDoneTwice == Spec => DoneOnce
  <1>1. IInv /\ [Next]_vars =>
          /\ \A w \in Workflow :
               /\ page'[w] = "asked" => page[w] \in {"untouched", "asked"}
               /\ disp[w] # None => disp'[w] = disp[w]
               /\ intent[w] # None => intent'[w] = intent[w]
               /\ w \in acked => w \in acked' /\ disp[w] # None
          /\ \A b \in Binding : entry[b] # None =>
               /\ entry'[b] # None /\ entry'[b].owner = entry[b].owner
               /\ entry[b].state # "RESERVED" => entry'[b].state # "RESERVED"
    BY OnceNext DEF Once
  <1> QED  BY <1>1, Invariance, PTL DEF Spec, DoneOnce
===============================================================================
