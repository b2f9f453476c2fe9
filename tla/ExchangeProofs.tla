--------------------------- MODULE ExchangeProofs ---------------------------
(***************************************************************************)
(* Proofs about the marked exchange, for any number of exchanges, faults,  *)
(* cancellations, crashes and turns of a person: a prompt is sent at most  *)
(* once, a result is the exchange's own, one exchange runs at a time, and  *)
(* the binding's checkpoint only advances.                                 *)
(*                                                                         *)
(* One browser child exists at a time, of the broker or left by one that   *)
(* crashed; it looks for its marker before it goes on, and nobody else     *)
(* puts that marker on the page.  The page only grows, so a pair once seen *)
(* stays where it is, and an anchor moves only while nothing is captured.  *)
(***************************************************************************)
EXTENDS Exchange, TLAPS, FiniteSetTheorems, SequenceTheorems

(* Where nothing has been captured for a runner, and where it has.         *)
Early == {"reconcile", "absent", "send", "retry", "reanchored", "capture",
          "store"}
Storing == {"store", "late store"}
Committing == {"commit", "late commit"}
Past == {"committed", "complete", "late complete"}
LatePlaces == {"late read", "late store", "late commit", "late complete"}

(* A broker that is down has no runner, no child, and holds nothing; only  *)
(* then is there a child of an earlier one.                                *)
Down ==
  /\ orphan # None => ~up
  /\ ~up => /\ driver = None /\ admission = {} /\ cancelling = {}
            /\ \A e \in Exchange : pc[e] = "none" /\ abandoning[e] = None

Unclicked(child) == child # None /\ child.stage \in {"composed", "fenced"}

(* A child past its look for the marker, and a conclusion of absence.      *)
Looked ==
  /\ Unclicked(driver) => ~Delivered(driver.turn)
  /\ Unclicked(orphan) => ~Delivered(orphan.turn)
  /\ AbsentIsTrue

Once == \A e \in Exchange : \A i, j \in Deliveries(e) : i = j

(* A running workflow of a broker that is up has its admission; what works *)
(* on a stopped one leaves it stopped.                                     *)
Admission ==
  /\ \A e \in Exchange : up /\ Running(e) => e \in admission
  /\ \A e \in Exchange : pc[e] # "none" => wf[e] # None
  /\ \A e \in Exchange : pc[e] \in LatePlaces => ~Running(e)
  /\ \A e \in Exchange :
       abandoning[e] # None => abandoning[e].status = "human_required"

PairAt(n, e) ==
  /\ n + 2 <= Len(conv)
  /\ conv[n + 1] = Prompt(e) /\ conv[n + 2] = Answer(e)

(* The result of one exchange, where it is on its way to the checkpoint.   *)
ResultOf(e) == wf[e] # None =>
  /\ wf[e].result \in {0, wf[e].before + 2}
  /\ wf[e].result > 0 => PairAt(wf[e].before, e)
  /\ wf[e].result > 0 /\ wf[e].status = "running" =>
       wf[e].phase = "response_captured"
  /\ wf[e].phase = "response_captured" => wf[e].result > 0
  /\ wf[e].status = "succeeded" => 0 < wf[e].result /\ wf[e].result <= head
  /\ pc[e] \in Early => wf[e].result = 0
  /\ pc[e] \in Storing => PairAt(wf[e].before, e)
  /\ pc[e] \in Committing \cup Past => wf[e].result > 0
  /\ pc[e] \in Past => wf[e].result <= head

Results == \A e \in Exchange : ResultOf(e)

IInv == TypeOK /\ Down /\ Looked /\ Once /\ Admission /\ RunsAlone /\ Results

-----------------------------------------------------------------------------
(* What each transition changes of a workflow, and what it leaves.         *)
LEMMA PhasedRecord ==
  ASSUME NEW w \in Workflow, NEW p \in Phases
  PROVE  /\ Phased(w, p) \in Workflow
         /\ Phased(w, p).status = w.status
         /\ Phased(w, p).phase = p
         /\ Phased(w, p).before = w.before
         /\ Phased(w, p).sent = w.sent
         /\ Phased(w, p).result = w.result
         /\ Phased(w, p).late = w.late
         /\ Phased(w, p).code = w.code
BY DEF Phased, Workflow, Statuses, Phases, Codes

LEMMA AnchoredRecord ==
  ASSUME NEW w \in Workflow, NEW n \in Nat
  PROVE  /\ Anchored(w, n) \in Workflow
         /\ Anchored(w, n).status = w.status
         /\ Anchored(w, n).phase = w.phase
         /\ Anchored(w, n).before = n
         /\ Anchored(w, n).sent = w.sent
         /\ Anchored(w, n).result = w.result
         /\ Anchored(w, n).late = w.late
         /\ Anchored(w, n).code = w.code
BY DEF Anchored, Workflow, Statuses, Phases, Codes

LEMMA HaltedRecord ==
  ASSUME NEW w \in Workflow, NEW c \in Codes
  PROVE  /\ Halted(w, c) \in Workflow
         /\ Halted(w, c).status = "human_required"
         /\ Halted(w, c).phase = w.phase
         /\ Halted(w, c).before = w.before
         /\ Halted(w, c).sent = w.sent
         /\ Halted(w, c).result = w.result
         /\ Halted(w, c).late = w.late
         /\ Halted(w, c).code = c
<1> DEFINE mid == [w EXCEPT !.status = "human_required"]
<1>1. /\ mid \in Workflow
      /\ mid.status = "human_required"
      /\ mid.phase = w.phase
      /\ mid.before = w.before
      /\ mid.sent = w.sent
      /\ mid.result = w.result
      /\ mid.late = w.late
      /\ mid.code = w.code
  BY DEF Workflow, Statuses, Phases, Codes
<1>2. Halted(w, c) = [mid EXCEPT !.code = c]
  BY DEF Halted
<1> HIDE DEF mid
<1> QED BY <1>1, <1>2 DEF Workflow, Statuses, Phases, Codes

LEMMA ConfirmedRecord ==
  ASSUME NEW w \in Workflow
  PROVE  /\ Confirmed(w) \in Workflow
         /\ Confirmed(w).status = w.status
         /\ Confirmed(w).phase = "send_confirmed"
         /\ Confirmed(w).before = w.before
         /\ Confirmed(w).sent = TRUE
         /\ Confirmed(w).result = w.result
         /\ Confirmed(w).late = w.late
         /\ Confirmed(w).code = w.code
<1> DEFINE mid == [w EXCEPT !.phase = "send_confirmed"]
<1>1. /\ mid \in Workflow
      /\ mid.status = w.status
      /\ mid.phase = "send_confirmed"
      /\ mid.before = w.before
      /\ mid.sent = w.sent
      /\ mid.result = w.result
      /\ mid.late = w.late
      /\ mid.code = w.code
  BY DEF Workflow, Statuses, Phases, Codes
<1>2. Confirmed(w) = [mid EXCEPT !.sent = TRUE]
  BY DEF Confirmed
<1> HIDE DEF mid
<1> QED BY <1>1, <1>2 DEF Workflow, Statuses, Phases, Codes

LEMMA CapturedRecord ==
  ASSUME NEW w \in Workflow
  PROVE  /\ Captured(w) \in Workflow
         /\ Captured(w).status = w.status
         /\ Captured(w).phase = "response_captured"
         /\ Captured(w).before = w.before
         /\ Captured(w).sent = w.sent
         /\ Captured(w).result = w.before + 2
         /\ Captured(w).late = w.late
         /\ Captured(w).code = w.code
<1> DEFINE mid == [w EXCEPT !.phase = "response_captured"]
<1>1. /\ mid \in Workflow
      /\ mid.status = w.status
      /\ mid.phase = "response_captured"
      /\ mid.before = w.before
      /\ mid.sent = w.sent
      /\ mid.result = w.result
      /\ mid.late = w.late
      /\ mid.code = w.code
  BY DEF Workflow, Statuses, Phases, Codes
<1>2. Captured(w) = [mid EXCEPT !.result = w.before + 2]
  BY DEF Captured
<1> HIDE DEF mid
<1> QED BY <1>1, <1>2 DEF Workflow, Statuses, Phases, Codes

LEMMA CapturedLateRecord ==
  ASSUME NEW w \in Workflow
  PROVE  /\ CapturedLate(w) \in Workflow
         /\ CapturedLate(w).status = w.status
         /\ CapturedLate(w).phase = "response_captured"
         /\ CapturedLate(w).before = w.before
         /\ CapturedLate(w).sent = w.sent
         /\ CapturedLate(w).result = w.before + 2
         /\ CapturedLate(w).late = TRUE
         /\ CapturedLate(w).code = w.code
<1> DEFINE mid == Captured(w)
<1>1. /\ mid \in Workflow
      /\ mid.status = w.status
      /\ mid.phase = "response_captured"
      /\ mid.before = w.before
      /\ mid.sent = w.sent
      /\ mid.result = w.before + 2
      /\ mid.late = w.late
      /\ mid.code = w.code
  BY CapturedRecord
<1>2. CapturedLate(w) = [mid EXCEPT !.late = TRUE]
  BY DEF CapturedLate
<1> HIDE DEF mid
<1> QED BY <1>1, <1>2 DEF Workflow, Statuses, Phases, Codes

LEMMA SucceededRecord ==
  ASSUME NEW w \in Workflow
  PROVE  /\ Succeeded(w) \in Workflow
         /\ Succeeded(w).status = "succeeded"
         /\ Succeeded(w).phase = "head_committed"
         /\ Succeeded(w).before = w.before
         /\ Succeeded(w).sent = w.sent
         /\ Succeeded(w).result = w.result
         /\ Succeeded(w).late = w.late
         /\ Succeeded(w).code = w.code
<1> DEFINE mid == [w EXCEPT !.status = "succeeded"]
<1>1. /\ mid \in Workflow
      /\ mid.status = "succeeded"
      /\ mid.phase = w.phase
      /\ mid.before = w.before
      /\ mid.sent = w.sent
      /\ mid.result = w.result
      /\ mid.late = w.late
      /\ mid.code = w.code
  BY DEF Workflow, Statuses, Phases, Codes
<1>2. Succeeded(w) = [mid EXCEPT !.phase = "head_committed"]
  BY DEF Succeeded
<1> HIDE DEF mid
<1> QED BY <1>1, <1>2 DEF Workflow, Statuses, Phases, Codes

LEMMA SucceededLateRecord ==
  ASSUME NEW w \in Workflow
  PROVE  /\ SucceededLate(w) \in Workflow
         /\ SucceededLate(w).status = "succeeded"
         /\ SucceededLate(w).phase = "head_committed"
         /\ SucceededLate(w).before = w.before
         /\ SucceededLate(w).sent = w.sent
         /\ SucceededLate(w).result = w.result
         /\ SucceededLate(w).late = w.late
         /\ SucceededLate(w).code = "none"
<1> DEFINE mid == Succeeded(w)
<1>1. /\ mid \in Workflow
      /\ mid.status = "succeeded"
      /\ mid.phase = "head_committed"
      /\ mid.before = w.before
      /\ mid.sent = w.sent
      /\ mid.result = w.result
      /\ mid.late = w.late
      /\ mid.code = w.code
  BY SucceededRecord
<1>2. SucceededLate(w) = [mid EXCEPT !.code = "none"]
  BY DEF SucceededLate
<1> HIDE DEF mid
<1> QED BY <1>1, <1>2 DEF Workflow, Statuses, Phases, Codes

LEMMA AbandonedRecord ==
  ASSUME NEW w \in Workflow
  PROVE  /\ Abandoned(w) \in Workflow
         /\ Abandoned(w).status = "cancelled"
         /\ Abandoned(w).phase = "recovery_abandoned"
         /\ Abandoned(w).before = w.before
         /\ Abandoned(w).sent = w.sent
         /\ Abandoned(w).result = w.result
         /\ Abandoned(w).late = w.late
         /\ Abandoned(w).code = "none"
<1> DEFINE p == Phased(w, "recovery_abandoned")
           mid == [p EXCEPT !.status = "cancelled"]
<1>1. /\ p \in Workflow
      /\ p.status = w.status /\ p.phase = "recovery_abandoned"
      /\ p.before = w.before /\ p.sent = w.sent /\ p.result = w.result
      /\ p.late = w.late /\ p.code = w.code
  BY PhasedRecord DEF Phases
<1>2. Abandoned(w) = [mid EXCEPT !.code = "none"]
  BY DEF Abandoned
<1> HIDE DEF p
<1>3. /\ mid \in Workflow
      /\ mid.status = "cancelled" /\ mid.phase = "recovery_abandoned"
      /\ mid.before = w.before /\ mid.sent = w.sent /\ mid.result = w.result
      /\ mid.late = w.late /\ mid.code = w.code
  BY <1>1 DEF Workflow, Statuses, Phases, Codes
<1> HIDE DEF mid
<1> QED BY <1>2, <1>3 DEF Workflow, Statuses, Phases, Codes

-----------------------------------------------------------------------------
(* The checkpoint is a number of messages of the page.                     *)
LEMMA HeadNat ==
  ASSUME TypeOK
  PROVE  head \in Nat /\ Len(conv) \in Nat /\ head <= Len(conv)
<1>1. Len(conv) \in Nat
  BY LenProperties DEF TypeOK
<1>2. head \in 0..Len(conv)
  BY DEF TypeOK
<1> QED BY <1>1, <1>2

(* What a transition makes of the workflow it writes; all others are as    *)
(* they were.                                                              *)
LEMMA RecordAbsentWrites ==
  ASSUME TypeOK, NEW e \in Exchange, RecordAbsent(e)
  PROVE  /\ wf[e] \in Workflow
         /\ wf'[e] \in Workflow
         /\ \A f \in Exchange \ {e} : wf'[f] = wf[f]
         /\ wf'[e].status = wf[e].status
         /\ wf'[e].phase = "browser_owned"
         /\ wf'[e].before = wf[e].before
         /\ wf'[e].result = wf[e].result
<1>1. wf[e] \in Workflow
  BY DEF RecordAbsent, Running, TypeOK
<1>2. wf' = [wf EXCEPT ![e] = Phased(wf[e], "browser_owned")]
  BY DEF RecordAbsent
<1>3. /\ wf'[e] = Phased(wf[e], "browser_owned")
      /\ \A f \in Exchange \ {e} : wf'[f] = wf[f]
  BY <1>2 DEF TypeOK
<1> QED BY <1>1, <1>3, PhasedRecord DEF Phases

LEMMA RecordReanchorWrites ==
  ASSUME TypeOK, NEW e \in Exchange, RecordReanchor(e)
  PROVE  /\ wf[e] \in Workflow
         /\ wf'[e] \in Workflow
         /\ \A f \in Exchange \ {e} : wf'[f] = wf[f]
         /\ wf'[e].status = wf[e].status
         /\ wf'[e].phase = wf[e].phase
         /\ wf'[e].before = head
         /\ wf'[e].result = wf[e].result
<1>1. wf[e] \in Workflow
  BY DEF RecordReanchor, Running, TypeOK
<1>2. wf' = [wf EXCEPT ![e] = Anchored(wf[e], head)]
  BY DEF RecordReanchor
<1>3. /\ wf'[e] = Anchored(wf[e], head)
      /\ \A f \in Exchange \ {e} : wf'[f] = wf[f]
  BY <1>2 DEF TypeOK
<1>4. head \in Nat
  BY HeadNat
<1> QED BY <1>1, <1>3, AnchoredRecord, <1>4

LEMMA CapturePausedWrites ==
  ASSUME TypeOK, NEW e \in Exchange, CapturePaused(e)
  PROVE  /\ wf[e] \in Workflow
         /\ wf'[e] \in Workflow
         /\ \A f \in Exchange \ {e} : wf'[f] = wf[f]
         /\ wf'[e].status = "human_required"
         /\ wf'[e].phase = wf[e].phase
         /\ wf'[e].before = wf[e].before
         /\ wf'[e].result = wf[e].result
<1>1. wf[e] \in Workflow
  BY DEF CapturePaused, Running, TypeOK
<1>2. wf' = [wf EXCEPT ![e] = Halted(wf[e], "recoverable")]
  BY DEF CapturePaused
<1>3. /\ wf'[e] = Halted(wf[e], "recoverable")
      /\ \A f \in Exchange \ {e} : wf'[f] = wf[f]
  BY <1>2 DEF TypeOK
<1> QED BY <1>1, <1>3, HaltedRecord DEF Codes

LEMMA StoreWrites ==
  ASSUME TypeOK, NEW e \in Exchange, Store(e)
  PROVE  /\ wf[e] \in Workflow
         /\ wf'[e] \in Workflow
         /\ \A f \in Exchange \ {e} : wf'[f] = wf[f]
         /\ wf'[e].status = wf[e].status
         /\ wf'[e].phase = "response_captured"
         /\ wf'[e].before = wf[e].before
         /\ wf'[e].result = wf[e].before + 2
<1>1. wf[e] \in Workflow
  BY DEF Store, Running, TypeOK
<1>2. wf' = [wf EXCEPT ![e] = Captured(wf[e])]
  BY DEF Store
<1>3. /\ wf'[e] = Captured(wf[e])
      /\ \A f \in Exchange \ {e} : wf'[f] = wf[f]
  BY <1>2 DEF TypeOK
<1> QED BY <1>1, <1>3, CapturedRecord

LEMMA SucceedWrites ==
  ASSUME TypeOK, NEW e \in Exchange, Succeed(e)
  PROVE  /\ wf[e] \in Workflow
         /\ wf'[e] \in Workflow
         /\ \A f \in Exchange \ {e} : wf'[f] = wf[f]
         /\ wf'[e].status = "succeeded"
         /\ wf'[e].phase = "head_committed"
         /\ wf'[e].before = wf[e].before
         /\ wf'[e].result = wf[e].result
<1>1. wf[e] \in Workflow
  BY DEF Succeed, Running, TypeOK
<1>2. wf' = [wf EXCEPT ![e] = Succeeded(wf[e])]
  BY DEF Succeed
<1>3. /\ wf'[e] = Succeeded(wf[e])
      /\ \A f \in Exchange \ {e} : wf'[f] = wf[f]
  BY <1>2 DEF TypeOK
<1> QED BY <1>1, <1>3, SucceededRecord

LEMMA CaughtWrites ==
  ASSUME TypeOK, NEW e \in Exchange, Caught(e)
  PROVE  \/ UNCHANGED wf
         \/ /\ Running(e) /\ wf[e].phase = "browser_owned"
            /\ wf[e] \in Workflow
            /\ wf'[e] \in Workflow
            /\ \A f \in Exchange \ {e} : wf'[f] = wf[f]
            /\ wf'[e].status = wf[e].status
            /\ wf'[e].phase = "restart_reconciling"
            /\ wf'[e].before = wf[e].before
            /\ wf'[e].result = wf[e].result
<1>1. CASE /\ Running(e) /\ e \in Reviews
           /\ wf[e].phase = "browser_owned" /\ error[e] # "human only"
  <2>1. wf[e] \in Workflow
    BY <1>1 DEF Caught, Running, TypeOK
  <2>2. /\ Running(e) /\ wf[e].phase = "browser_owned"
        /\ wf' = [wf EXCEPT ![e] = Phased(wf[e], "restart_reconciling")]
    BY <1>1 DEF Caught, Running, TypeOK
  <2>3. /\ wf'[e] = Phased(wf[e], "restart_reconciling")
        /\ \A f \in Exchange \ {e} : wf'[f] = wf[f]
    BY <2>2 DEF TypeOK
  <2> QED BY <2>1, <2>2, <2>3, PhasedRecord DEF Phases
<1>2. CASE ~(/\ Running(e) /\ e \in Reviews
             /\ wf[e].phase = "browser_owned" /\ error[e] # "human only")
  BY <1>2 DEF Caught, Running, TypeOK
<1> QED BY <1>1, <1>2

LEMMA StopWrites ==
  ASSUME TypeOK, NEW e \in Exchange, Stop(e)
  PROVE  \/ UNCHANGED wf
         \/ /\ Running(e)
            /\ wf[e] \in Workflow
            /\ wf'[e] \in Workflow
            /\ \A f \in Exchange \ {e} : wf'[f] = wf[f]
            /\ wf'[e].status = "human_required"
            /\ wf'[e].phase = wf[e].phase
            /\ wf'[e].before = wf[e].before
            /\ wf'[e].result = wf[e].result
<1>1. CASE Running(e)
  <2>1. wf[e] \in Workflow
    BY <1>1 DEF Stop, Running, TypeOK
  <2>2. /\ Running(e)
        /\ wf' = [wf EXCEPT ![e] = Halted(wf[e],
                IF error[e] = "recoverable" THEN "recoverable" ELSE "final")]
    BY <1>1 DEF Stop, Running, TypeOK
  <2>3. /\ wf'[e] = Halted(wf[e],
                IF error[e] = "recoverable" THEN "recoverable" ELSE "final")
        /\ \A f \in Exchange \ {e} : wf'[f] = wf[f]
    BY <2>2 DEF TypeOK
  <2> QED BY <2>1, <2>2, <2>3, HaltedRecord DEF Codes
<1>2. CASE ~(Running(e))
  BY <1>2 DEF Stop, Running, TypeOK
<1> QED BY <1>1, <1>2

LEMMA SentWrites ==
  ASSUME TypeOK, NEW e \in Exchange, Sent(e)
  PROVE  \/ UNCHANGED wf
         \/ /\ Running(e)
            /\ wf[e] \in Workflow
            /\ wf'[e] \in Workflow
            /\ \A f \in Exchange \ {e} : wf'[f] = wf[f]
            /\ wf'[e].status = wf[e].status
            /\ wf'[e].phase = "send_confirmed"
            /\ wf'[e].before = wf[e].before
            /\ wf'[e].result = wf[e].result
<1>1. CASE Running(e)
  <2>1. wf[e] \in Workflow
    BY <1>1 DEF Sent, DriverAt, Running, TypeOK
  <2>2. /\ Running(e)
        /\ wf' = [wf EXCEPT ![e] = Confirmed(wf[e])]
    BY <1>1 DEF Sent, DriverAt, Running, TypeOK
  <2>3. /\ wf'[e] = Confirmed(wf[e])
        /\ \A f \in Exchange \ {e} : wf'[f] = wf[f]
    BY <2>2 DEF TypeOK
  <2> QED BY <2>1, <2>2, <2>3, ConfirmedRecord
<1>2. CASE ~(Running(e))
  BY <1>2 DEF Sent, DriverAt, Running, TypeOK
<1> QED BY <1>1, <1>2

LEMMA CancelPersistsWrites ==
  ASSUME TypeOK, NEW e \in Exchange, CancelPersists(e)
  PROVE  \/ UNCHANGED wf
         \/ /\ Running(e)
            /\ wf[e] \in Workflow
            /\ wf'[e] \in Workflow
            /\ \A f \in Exchange \ {e} : wf'[f] = wf[f]
            /\ wf'[e].status = "human_required"
            /\ wf'[e].phase = wf[e].phase
            /\ wf'[e].before = wf[e].before
            /\ wf'[e].result = wf[e].result
<1>1. CASE Running(e)
  <2>1. wf[e] \in Workflow
    BY <1>1 DEF CancelPersists, Running, TypeOK
  <2>2. /\ Running(e)
        /\ wf' = [wf EXCEPT ![e] = Halted(wf[e], "final")]
    BY <1>1 DEF CancelPersists, Running, TypeOK
  <2>3. /\ wf'[e] = Halted(wf[e], "final")
        /\ \A f \in Exchange \ {e} : wf'[f] = wf[f]
    BY <2>2 DEF TypeOK
  <2> QED BY <2>1, <2>2, <2>3, HaltedRecord DEF Codes
<1>2. CASE ~(Running(e))
  BY <1>2 DEF CancelPersists, Running, TypeOK
<1> QED BY <1>1, <1>2

LEMMA AbandonPersistsWrites ==
  ASSUME TypeOK, NEW e \in Exchange, AbandonPersists(e)
  PROVE  \/ UNCHANGED wf
         \/ /\ abandoning[e] = wf[e]
            /\ wf[e] \in Workflow
            /\ wf'[e] \in Workflow
            /\ \A f \in Exchange \ {e} : wf'[f] = wf[f]
            /\ wf'[e].status = "cancelled"
            /\ wf'[e].phase = "recovery_abandoned"
            /\ wf'[e].before = wf[e].before
            /\ wf'[e].result = wf[e].result
<1>1. CASE abandoning[e] = wf[e]
  <2>1. wf[e] \in Workflow
    BY <1>1 DEF AbandonPersists, Running, TypeOK
  <2>2. /\ abandoning[e] = wf[e]
        /\ wf' = [wf EXCEPT ![e] = Abandoned(wf[e])]
    BY <1>1 DEF AbandonPersists, Running, TypeOK
  <2>3. /\ wf'[e] = Abandoned(wf[e])
        /\ \A f \in Exchange \ {e} : wf'[f] = wf[f]
    BY <2>2 DEF TypeOK
  <2> QED BY <2>1, <2>2, <2>3, AbandonedRecord
<1>2. CASE ~(abandoning[e] = wf[e])
  BY <1>2 DEF AbandonPersists, Running, TypeOK
<1> QED BY <1>1, <1>2

LEMMA LateStoreWrites ==
  ASSUME TypeOK, Admission, NEW e \in Exchange, LateStore(e)
  PROVE  \/ UNCHANGED wf
         \/ /\ wf[e].status = "human_required"
            /\ wf[e] \in Workflow
            /\ wf'[e] \in Workflow
            /\ \A f \in Exchange \ {e} : wf'[f] = wf[f]
            /\ wf'[e].status = wf[e].status
            /\ wf'[e].phase = "response_captured"
            /\ wf'[e].before = wf[e].before
            /\ wf'[e].result = wf[e].before + 2
<1>1. CASE wf[e].status = "human_required"
  <2>1. wf[e] \in Workflow
    BY <1>1 DEF LateStore, Running, TypeOK, Admission
  <2>2. /\ wf[e].status = "human_required"
        /\ wf' = [wf EXCEPT ![e] = CapturedLate(wf[e])]
    BY <1>1 DEF LateStore, Running, TypeOK, Admission
  <2>3. /\ wf'[e] = CapturedLate(wf[e])
        /\ \A f \in Exchange \ {e} : wf'[f] = wf[f]
    BY <2>2 DEF TypeOK
  <2> QED BY <2>1, <2>2, <2>3, CapturedLateRecord
<1>2. CASE ~(wf[e].status = "human_required")
  BY <1>2 DEF LateStore, Running, TypeOK, Admission
<1> QED BY <1>1, <1>2

LEMMA LateCompleteWrites ==
  ASSUME TypeOK, Admission, NEW e \in Exchange, LateComplete(e)
  PROVE  /\ wf[e] \in Workflow
         /\ wf'[e] \in Workflow
         /\ \A f \in Exchange \ {e} : wf'[f] = wf[f]
         /\ wf'[e].status = "succeeded"
         /\ wf'[e].phase = "head_committed"
         /\ wf'[e].before = wf[e].before
         /\ wf'[e].result = wf[e].result
<1>1. wf[e] \in Workflow
  BY DEF LateComplete, Running, TypeOK, Admission
<1>2. wf' = [wf EXCEPT ![e] = SucceededLate(wf[e])]
  BY DEF LateComplete
<1>3. /\ wf'[e] = SucceededLate(wf[e])
      /\ \A f \in Exchange \ {e} : wf'[f] = wf[f]
  BY <1>2 DEF TypeOK
<1> QED BY <1>1, <1>3, SucceededLateRecord

LEMMA StartWrites ==
  ASSUME TypeOK, NEW e \in Exchange, Start(e)
  PROVE  /\ wf[e] = None /\ wf'[e] \in Workflow
         /\ \A f \in Exchange \ {e} : wf'[f] = wf[f]
         /\ wf'[e].status = "running" /\ wf'[e].phase = "browser_owned"
         /\ wf'[e].before = head /\ wf'[e].result = 0
<1> DEFINE new == [status |-> "running", phase |-> "browser_owned",
                   before |-> head, sent |-> FALSE, result |-> 0,
                   late |-> FALSE, code |-> "none"]
<1>1. /\ new \in Workflow
      /\ new.status = "running" /\ new.phase = "browser_owned"
      /\ new.before = head /\ new.result = 0
  BY HeadNat DEF Workflow, Statuses, Phases, Codes
<1>2. wf[e] = None /\ wf' = [wf EXCEPT ![e] = new]
  BY DEF Start
<1> HIDE DEF new
<1> QED BY <1>1, <1>2 DEF TypeOK

(* A restart leaves at most one workflow running, which it admits.         *)
LEMMA RestartWrites ==
  ASSUME TypeOK, Restart, NEW e \in Exchange
  PROVE  \/ /\ wf'[e] = wf[e]
            /\ Running(e) => e \in admission' /\ pc'[e] = "begin"
         \/ /\ wf[e] \in Workflow /\ wf'[e] \in Workflow /\ Running(e)
            /\ wf'[e].before = wf[e].before /\ wf'[e].result = wf[e].result
            /\ \/ wf'[e].status = "human_required" /\ wf'[e].phase = wf[e].phase
               \/ /\ wf'[e].status = "running" /\ e \in admission'
                  /\ wf[e].phase = "browser_owned"
                  /\ wf'[e].phase = "restart_reconciling"
<1>1. CASE \A f \in Exchange : ~Running(f)
  BY <1>1 DEF Restart
<1>2. CASE ~\A f \in Exchange : ~Running(f)
  <2>1. PICK first \in Exchange :
          /\ wf' = [f \in Exchange |->
               IF ~Running(f) THEN wf[f]
               ELSE IF f # first THEN Halted(wf[f], "recoverable")
               ELSE IF wf[f].phase = "browser_owned"
               THEN Phased(wf[f], "restart_reconciling") ELSE wf[f]]
          /\ admission' = {first} /\ pc' = [pc EXCEPT ![first] = "begin"]
    BY <1>2 DEF Restart, Goto
  <2>2. wf'[e] = IF ~Running(e) THEN wf[e]
                 ELSE IF e # first THEN Halted(wf[e], "recoverable")
                 ELSE IF wf[e].phase = "browser_owned"
                 THEN Phased(wf[e], "restart_reconciling") ELSE wf[e]
    BY <2>1
  <2>3. Running(e) => wf[e] \in Workflow
    BY DEF TypeOK, Running
  <2>4. CASE ~Running(e)
    BY <2>2, <2>4
  <2>5. CASE Running(e) /\ e # first
    BY <2>2, <2>3, <2>5, HaltedRecord DEF Codes
  <2>6. CASE Running(e) /\ e = first /\ wf[e].phase = "browser_owned"
    BY <2>1, <2>2, <2>3, <2>6, PhasedRecord DEF Phases, Running
  <2>7. CASE Running(e) /\ e = first /\ wf[e].phase # "browser_owned"
    BY <2>1, <2>2, <2>7 DEF TypeOK
  <2> QED BY <2>4, <2>5, <2>6, <2>7
<1> QED BY <1>1, <1>2

-----------------------------------------------------------------------------
(* A workflow runs because it did, or has just been started.               *)
LEMMA RunningFrom ==
  TypeOK /\ Admission /\ [Next]_vars =>
    \A e \in Exchange : Running(e)' => Running(e) \/ Start(e)
<1> SUFFICES ASSUME TypeOK, Admission, [Next]_vars,
                    NEW z \in Exchange
             PROVE  Running(z)' => Running(z) \/ Start(z)
  OBVIOUS
<1> USE NoneAssumption DEF Running, store
<1>1. ASSUME NEW e \in Exchange, RecordAbsent(e)
      PROVE  Running(z)' => Running(z) \/ Start(z)
  BY <1>1, RecordAbsentWrites
<1>2. ASSUME NEW e \in Exchange, RecordReanchor(e)
      PROVE  Running(z)' => Running(z) \/ Start(z)
  BY <1>2, RecordReanchorWrites
<1>3. ASSUME NEW e \in Exchange, Store(e)
      PROVE  Running(z)' => Running(z) \/ Start(z)
  BY <1>3, StoreWrites
<1>4. ASSUME NEW e \in Exchange, Succeed(e)
      PROVE  Running(z)' => Running(z) \/ Start(z)
  BY <1>4, SucceedWrites
<1>5. ASSUME NEW e \in Exchange, Caught(e)
      PROVE  Running(z)' => Running(z) \/ Start(z)
  BY <1>5, CaughtWrites
<1>6. ASSUME NEW e \in Exchange, Stop(e)
      PROVE  Running(z)' => Running(z) \/ Start(z)
  BY <1>6, StopWrites
<1>7. ASSUME NEW e \in Exchange, Sent(e)
      PROVE  Running(z)' => Running(z) \/ Start(z)
  BY <1>7, SentWrites
<1>8. ASSUME NEW e \in Exchange, CapturePaused(e)
      PROVE  Running(z)' => Running(z) \/ Start(z)
  BY <1>8, CapturePausedWrites
<1>9. ASSUME NEW e \in Exchange, LateStore(e)
      PROVE  Running(z)' => Running(z) \/ Start(z)
  BY <1>9, LateStoreWrites
<1>10. ASSUME NEW e \in Exchange, LateComplete(e)
       PROVE  Running(z)' => Running(z) \/ Start(z)
  BY <1>10, LateCompleteWrites
<1>11. ASSUME NEW e \in Exchange, Start(e)
       PROVE  Running(z)' => Running(z) \/ Start(z)
  BY <1>11, StartWrites
<1>12. ASSUME NEW e \in Exchange, CancelPersists(e)
       PROVE  Running(z)' => Running(z) \/ Start(z)
  BY <1>12, CancelPersistsWrites
<1>13. ASSUME NEW e \in Exchange, AbandonPersists(e)
       PROVE  Running(z)' => Running(z) \/ Start(z)
  BY <1>13, AbandonPersistsWrites
<1>14. ASSUME Restart PROVE Running(z)' => Running(z) \/ Start(z)
  BY <1>14, RestartWrites
<1>15. CASE UNCHANGED <<wf>>
  BY <1>15
<1>16. ASSUME NEW e \in Exchange, Runner(e)
       PROVE  Running(z)' => Running(z) \/ Start(z)
  BY <1>16, <1>1, <1>2, <1>3, <1>4, <1>5, <1>6, <1>15 DEF Runner, Overtaken,
    Interrupted, Begin, ReadDelivered, ReadAbsent, Spawn, Retry, Capture,
    Commit, Finish, Rerun
<1>17. ASSUME NEW e \in Exchange, Driver(e)
       PROVE  Running(z)' => Running(z) \/ Start(z)
  BY <1>17, <1>7, <1>15 DEF Driver, Check, RefuseGenerating, RefuseMarker,
    Reanchor, Fence, Click, Kill
<1>18. ASSUME NEW e \in Exchange, Fault(e)
       PROVE  Running(z)' => Running(z) \/ Start(z)
  BY <1>18, <1>8, <1>15 DEF Fault, FailUnclicked, FailUnproven, LoseControl
<1>19. ASSUME NEW e \in Exchange, Late(e)
       PROVE  Running(z)' => Running(z) \/ Start(z)
  BY <1>19, <1>9, <1>10, <1>15 DEF Late, LateRead, LateCommit
<1>20. ASSUME NEW e \in Exchange, User(e)
       PROVE  Running(z)' => Running(z) \/ Start(z)
  BY <1>20, <1>11, <1>15 DEF User, Cancel, Abandon, Reconcile
<1>21. ASSUME NEW e \in Exchange, Writes(e)
       PROVE  Running(z)' => Running(z) \/ Start(z)
  BY <1>21, <1>12, <1>13, <1>15 DEF Writes
<1> QED
  BY <1>14, <1>15, <1>16, <1>17, <1>18, <1>19, <1>20, <1>21 DEF Next, Reply,
    HumanSends, Crash, OrphanClicks, OrphanEnds, vars

(* A workflow that runs on keeps its admission in a broker that stays up.  *)
LEMMA AdmissionKept ==
  TypeOK /\ Down /\ Admission /\ [Next]_vars =>
    \A e \in Exchange :
      up' /\ Running(e) /\ Running(e)' /\ (up => e \in admission)
        => e \in admission'
<1> SUFFICES ASSUME TypeOK, Down, Admission, [Next]_vars,
                    NEW z \in Exchange, up', Running(z), Running(z)',
                    up => z \in admission
             PROVE  z \in admission'
  OBVIOUS
<1> USE DEF Admission, LatePlaces, Running, page, store, locks, users, runner,
    process, Goto, Fail, Spend, Leave, LateLeave
<1>1. ASSUME NEW e \in Exchange, Overtaken(e) PROVE z \in admission'
  BY <1>1 DEF Overtaken
<1>2. ASSUME NEW e \in Exchange, Interrupted(e) PROVE z \in admission'
  BY <1>2 DEF Interrupted
<1>3. ASSUME NEW e \in Exchange, Succeed(e) PROVE z \in admission'
  BY <1>3 DEF Succeed
<1>4. ASSUME NEW e \in Exchange, Caught(e) PROVE z \in admission'
  BY <1>4 DEF Caught
<1>5. ASSUME NEW e \in Exchange, Stop(e) PROVE z \in admission'
  BY <1>5 DEF Stop
<1>6. ASSUME NEW e \in Exchange, Sent(e) PROVE z \in admission'
  BY <1>6 DEF Sent, DriverAt
<1>7. ASSUME NEW e \in Exchange, Kill(e) PROVE z \in admission'
  BY <1>7 DEF Kill
<1>8. ASSUME NEW e \in Exchange, CapturePaused(e) PROVE z \in admission'
  BY <1>8 DEF CapturePaused
<1>9. ASSUME NEW e \in Exchange, LateRead(e) PROVE z \in admission'
  BY <1>9 DEF LateRead
<1>10. ASSUME NEW e \in Exchange, LateStore(e) PROVE z \in admission'
  BY <1>10 DEF LateStore
<1>11. ASSUME NEW e \in Exchange, LateCommit(e) PROVE z \in admission'
  BY <1>11 DEF LateCommit
<1>12. ASSUME NEW e \in Exchange, LateComplete(e) PROVE z \in admission'
  BY <1>12 DEF LateComplete
<1>13. ASSUME NEW e \in Exchange, Start(e) PROVE z \in admission'
  BY <1>13 DEF Start
<1>14. ASSUME NEW e \in Exchange, Reconcile(e) PROVE z \in admission'
  BY <1>14 DEF Reconcile
<1>15. ASSUME NEW e \in Exchange, AbandonPersists(e) PROVE z \in admission'
  <2>1. z # e \/ UNCHANGED admission
    BY <1>15 DEF AbandonPersists
  <2>2. up /\ z \in admission
    BY <1>15 DEF AbandonPersists, process
  <2> QED BY <1>15, <2>1, <2>2 DEF AbandonPersists
<1>16. ASSUME Crash PROVE z \in admission'
  BY <1>16 DEF Crash
<1>17. ASSUME Restart PROVE z \in admission'
  BY <1>17, RestartWrites DEF Running
<1>18. CASE UNCHANGED <<up, admission>>
  BY <1>18
<1>19. ASSUME NEW e \in Exchange, Runner(e) PROVE z \in admission'
  BY <1>19, <1>1, <1>2, <1>3, <1>4, <1>5, <1>18 DEF Runner, Begin,
    ReadDelivered, ReadAbsent, RecordAbsent, Spawn, Retry, RecordReanchor,
    Capture, Store, Commit, Finish, Rerun
<1>20. ASSUME NEW e \in Exchange, Driver(e) PROVE z \in admission'
  BY <1>20, <1>6, <1>7, <1>18 DEF Driver, Check, RefuseGenerating,
    RefuseMarker, Reanchor, Fence, Click
<1>21. ASSUME NEW e \in Exchange, Fault(e) PROVE z \in admission'
  BY <1>21, <1>8, <1>18 DEF Fault, FailUnclicked, FailUnproven, LoseControl
<1>22. ASSUME NEW e \in Exchange, Late(e) PROVE z \in admission'
  BY <1>22, <1>9, <1>10, <1>11, <1>12, <1>18 DEF Late
<1>23. ASSUME NEW e \in Exchange, User(e) PROVE z \in admission'
  BY <1>23, <1>13, <1>14, <1>18 DEF User, Cancel, Abandon
<1>24. ASSUME NEW e \in Exchange, Writes(e) PROVE z \in admission'
  BY <1>24, <1>15, <1>18 DEF Writes, CancelPersists
<1> QED
  BY <1>16, <1>17, <1>18, <1>19, <1>20, <1>21, <1>22, <1>23, <1>24 DEF Next,
    Reply, HumanSends, OrphanClicks, OrphanEnds, vars

(* A workflow stays in the store.                                          *)
LEMMA WorkflowsStay ==
  TypeOK /\ Admission /\ [Next]_vars =>
    \A e \in Exchange : wf[e] # None => wf'[e] # None
<1> SUFFICES ASSUME TypeOK, Admission, [Next]_vars,
                    NEW z \in Exchange, wf[z] # None
             PROVE  wf'[z] # None
  OBVIOUS
<1> USE NoneAssumption DEF store
<1>1. ASSUME NEW e \in Exchange, RecordAbsent(e) PROVE wf'[z] # None
  BY <1>1, RecordAbsentWrites
<1>2. ASSUME NEW e \in Exchange, RecordReanchor(e) PROVE wf'[z] # None
  BY <1>2, RecordReanchorWrites
<1>3. ASSUME NEW e \in Exchange, Store(e) PROVE wf'[z] # None
  BY <1>3, StoreWrites
<1>4. ASSUME NEW e \in Exchange, Succeed(e) PROVE wf'[z] # None
  BY <1>4, SucceedWrites
<1>5. ASSUME NEW e \in Exchange, Caught(e) PROVE wf'[z] # None
  BY <1>5, CaughtWrites
<1>6. ASSUME NEW e \in Exchange, Stop(e) PROVE wf'[z] # None
  BY <1>6, StopWrites
<1>7. ASSUME NEW e \in Exchange, Sent(e) PROVE wf'[z] # None
  BY <1>7, SentWrites
<1>8. ASSUME NEW e \in Exchange, CapturePaused(e) PROVE wf'[z] # None
  BY <1>8, CapturePausedWrites
<1>9. ASSUME NEW e \in Exchange, LateStore(e) PROVE wf'[z] # None
  BY <1>9, LateStoreWrites
<1>10. ASSUME NEW e \in Exchange, LateComplete(e) PROVE wf'[z] # None
  BY <1>10, LateCompleteWrites
<1>11. ASSUME NEW e \in Exchange, Start(e) PROVE wf'[z] # None
  BY <1>11, StartWrites
<1>12. ASSUME NEW e \in Exchange, CancelPersists(e) PROVE wf'[z] # None
  BY <1>12, CancelPersistsWrites
<1>13. ASSUME NEW e \in Exchange, AbandonPersists(e) PROVE wf'[z] # None
  BY <1>13, AbandonPersistsWrites
<1>14. ASSUME Restart PROVE wf'[z] # None
  BY <1>14, RestartWrites
<1>15. CASE UNCHANGED <<wf>>
  BY <1>15
<1>16. ASSUME NEW e \in Exchange, Runner(e) PROVE wf'[z] # None
  BY <1>16, <1>1, <1>2, <1>3, <1>4, <1>5, <1>6, <1>15 DEF Runner, Overtaken,
    Interrupted, Begin, ReadDelivered, ReadAbsent, Spawn, Retry, Capture,
    Commit, Finish, Rerun
<1>17. ASSUME NEW e \in Exchange, Driver(e) PROVE wf'[z] # None
  BY <1>17, <1>7, <1>15 DEF Driver, Check, RefuseGenerating, RefuseMarker,
    Reanchor, Fence, Click, Kill
<1>18. ASSUME NEW e \in Exchange, Fault(e) PROVE wf'[z] # None
  BY <1>18, <1>8, <1>15 DEF Fault, FailUnclicked, FailUnproven, LoseControl
<1>19. ASSUME NEW e \in Exchange, Late(e) PROVE wf'[z] # None
  BY <1>19, <1>9, <1>10, <1>15 DEF Late, LateRead, LateCommit
<1>20. ASSUME NEW e \in Exchange, User(e) PROVE wf'[z] # None
  BY <1>20, <1>11, <1>15 DEF User, Cancel, Abandon, Reconcile
<1>21. ASSUME NEW e \in Exchange, Writes(e) PROVE wf'[z] # None
  BY <1>21, <1>12, <1>13, <1>15 DEF Writes
<1> QED
  BY <1>14, <1>15, <1>16, <1>17, <1>18, <1>19, <1>20, <1>21 DEF Next, Reply,
    HumanSends, Crash, OrphanClicks, OrphanEnds, vars

(* A runner goes on, or starts; a late one starts for a stopped workflow.  *)
Going(z) ==
  /\ pc'[z] # "none" => pc[z] # "none" \/ wf[z] # None \/ Start(z)
  /\ pc'[z] \in LatePlaces =>
       pc[z] \in LatePlaces \/ (~Running(z) /\ ~Start(z))

(* A runner is started for a workflow there is, and a late one for a       *)
(* stopped workflow.                                                       *)
LEMMA PlaceFrom ==
  TypeOK /\ Admission /\ [Next]_vars =>
    \A z \in Exchange : Going(z)
<1> SUFFICES ASSUME TypeOK, Admission, [Next]_vars,
                    NEW z \in Exchange
             PROVE  Going(z)
  OBVIOUS
<1> USE DEF Going, TypeOK, LatePlaces, page, store, locks, users, runner,
  process,
    Goto, Fail, Spend, Leave, LateLeave
<1>1. ASSUME NEW e \in Exchange, Overtaken(e) PROVE Going(z)
  BY <1>1 DEF Overtaken
<1>2. ASSUME NEW e \in Exchange, Interrupted(e) PROVE Going(z)
  BY <1>2 DEF Interrupted
<1>3. ASSUME NEW e \in Exchange, Begin(e) PROVE Going(z)
  BY <1>3 DEF Begin
<1>4. ASSUME NEW e \in Exchange, ReadDelivered(e) PROVE Going(z)
  BY <1>4 DEF ReadDelivered
<1>5. ASSUME NEW e \in Exchange, ReadAbsent(e) PROVE Going(z)
  BY <1>5 DEF ReadAbsent
<1>6. ASSUME NEW e \in Exchange, RecordAbsent(e) PROVE Going(z)
  BY <1>6 DEF RecordAbsent
<1>7. ASSUME NEW e \in Exchange, Retry(e) PROVE Going(z)
  BY <1>7 DEF Retry
<1>8. ASSUME NEW e \in Exchange, RecordReanchor(e) PROVE Going(z)
  BY <1>8 DEF RecordReanchor
<1>9. ASSUME NEW e \in Exchange, Capture(e) PROVE Going(z)
  BY <1>9 DEF Capture
<1>10. ASSUME NEW e \in Exchange, Store(e) PROVE Going(z)
  BY <1>10 DEF Store
<1>11. ASSUME NEW e \in Exchange, Commit(e) PROVE Going(z)
  BY <1>11 DEF Commit
<1>12. ASSUME NEW e \in Exchange, Finish(e) PROVE Going(z)
  BY <1>12 DEF Finish
<1>13. ASSUME NEW e \in Exchange, Succeed(e) PROVE Going(z)
  BY <1>13 DEF Succeed
<1>14. ASSUME NEW e \in Exchange, Caught(e) PROVE Going(z)
  BY <1>14 DEF Caught
<1>15. ASSUME NEW e \in Exchange, Stop(e) PROVE Going(z)
  BY <1>15 DEF Stop
<1>16. ASSUME NEW e \in Exchange, Rerun(e) PROVE Going(z)
  BY <1>16 DEF Rerun
<1>17. ASSUME NEW e \in Exchange, RefuseGenerating(e) PROVE Going(z)
  BY <1>17 DEF RefuseGenerating, DriverAt
<1>18. ASSUME NEW e \in Exchange, RefuseMarker(e) PROVE Going(z)
  BY <1>18 DEF RefuseMarker, DriverAt
<1>19. ASSUME NEW e \in Exchange, Reanchor(e) PROVE Going(z)
  BY <1>19 DEF Reanchor, DriverAt
<1>20. ASSUME NEW e \in Exchange, Sent(e) PROVE Going(z)
  BY <1>20 DEF Sent, DriverAt
<1>21. ASSUME NEW e \in Exchange, Kill(e) PROVE Going(z)
  BY <1>21 DEF Kill
<1>22. ASSUME NEW e \in Exchange, CapturePaused(e) PROVE Going(z)
  BY <1>22 DEF CapturePaused
<1>23. ASSUME NEW e \in Exchange, FailUnclicked(e) PROVE Going(z)
  BY <1>23 DEF FailUnclicked, DriverAt
<1>24. ASSUME NEW e \in Exchange, FailUnproven(e) PROVE Going(z)
  BY <1>24 DEF FailUnproven, DriverAt
<1>25. ASSUME NEW e \in Exchange, LoseControl(e) PROVE Going(z)
  BY <1>25 DEF LoseControl, DriverAt
<1>26. ASSUME NEW e \in Exchange, LateRead(e) PROVE Going(z)
  BY <1>26 DEF LateRead
<1>27. ASSUME NEW e \in Exchange, LateStore(e) PROVE Going(z)
  BY <1>27 DEF LateStore
<1>28. ASSUME NEW e \in Exchange, LateCommit(e) PROVE Going(z)
  BY <1>28 DEF LateCommit
<1>29. ASSUME NEW e \in Exchange, LateComplete(e) PROVE Going(z)
  BY <1>29 DEF LateComplete
<1>30. ASSUME NEW e \in Exchange, Start(e) PROVE Going(z)
  BY <1>30 DEF Start
<1>31. ASSUME NEW e \in Exchange, Reconcile(e) PROVE Going(z)
  BY <1>31 DEF Reconcile, Running, Start
<1>32. ASSUME Crash PROVE Going(z)
  BY <1>32 DEF Crash
<1>33. ASSUME Restart PROVE Going(z)
  BY <1>33 DEF Restart, LeaseFree, Running
<1>34. CASE UNCHANGED <<pc>>
  BY <1>34
<1> QED
  BY <1>1, <1>2, <1>3, <1>4, <1>5, <1>6, <1>7, <1>8, <1>9, <1>10, <1>11,
    <1>12, <1>13, <1>14, <1>15, <1>16, <1>17, <1>18, <1>19, <1>20, <1>21,
    <1>22, <1>23, <1>24, <1>25, <1>26, <1>27, <1>28, <1>29, <1>30, <1>31,
    <1>32, <1>33, <1>34 DEF Next, Runner, Driver, Fault, Late, User, Writes,
    Spawn, Check, Fence, Click, Cancel, Abandon, CancelPersists,
    AbandonPersists, Reply, HumanSends, OrphanClicks, OrphanEnds, vars

(* An abandonment is of a workflow that stopped.                           *)
LEMMA AbandonFrom ==
  TypeOK /\ Admission /\ [Next]_vars =>
    \A e \in Exchange :
      abandoning'[e] # None => abandoning'[e].status = "human_required"
<1> SUFFICES ASSUME TypeOK, Admission, [Next]_vars,
                    NEW z \in Exchange, abandoning'[z] # None
             PROVE  abandoning'[z].status = "human_required"
  OBVIOUS
<1> USE DEF TypeOK, Admission, page, store, locks, users, runner, process,
    Goto, Fail, Spend, Leave, LateLeave
<1>1. ASSUME NEW e \in Exchange, Abandon(e)
      PROVE  abandoning'[z].status = "human_required"
  BY <1>1 DEF Abandon
<1>2. ASSUME NEW e \in Exchange, AbandonPersists(e)
      PROVE  abandoning'[z].status = "human_required"
  BY <1>2 DEF AbandonPersists
<1>3. ASSUME Crash PROVE abandoning'[z].status = "human_required"
  BY <1>3 DEF Crash
<1>4. CASE UNCHANGED <<abandoning>>
  BY <1>4
<1>5. ASSUME NEW e \in Exchange, Runner(e)
      PROVE  abandoning'[z].status = "human_required"
  BY <1>5, <1>4 DEF Runner, Overtaken, Interrupted, Begin, ReadDelivered,
    ReadAbsent, RecordAbsent, Spawn, Retry, RecordReanchor, Capture, Store,
    Commit, Finish, Succeed, Caught, Stop, Rerun
<1>6. ASSUME NEW e \in Exchange, Driver(e)
      PROVE  abandoning'[z].status = "human_required"
  BY <1>6, <1>4 DEF Driver, Check, RefuseGenerating, RefuseMarker, Reanchor,
    Fence, Click, Sent, Kill
<1>7. ASSUME NEW e \in Exchange, Fault(e)
      PROVE  abandoning'[z].status = "human_required"
  BY <1>7, <1>4 DEF Fault, CapturePaused, FailUnclicked, FailUnproven,
    LoseControl
<1>8. ASSUME NEW e \in Exchange, Late(e)
      PROVE  abandoning'[z].status = "human_required"
  BY <1>8, <1>4 DEF Late, LateRead, LateStore, LateCommit, LateComplete
<1>9. ASSUME NEW e \in Exchange, User(e)
      PROVE  abandoning'[z].status = "human_required"
  BY <1>9, <1>1, <1>4 DEF User, Start, Cancel, Reconcile
<1>10. ASSUME NEW e \in Exchange, Writes(e)
       PROVE  abandoning'[z].status = "human_required"
  BY <1>10, <1>2, <1>4 DEF Writes, CancelPersists
<1> QED
  BY <1>3, <1>4, <1>5, <1>6, <1>7, <1>8, <1>9, <1>10 DEF Next, Reply,
    HumanSends, Restart, OrphanClicks, OrphanEnds, vars

(* A running workflow starts with its admission and keeps it.              *)
LEMMA AdmissionStep ==
  TypeOK /\ Down /\ Admission /\ [Next]_vars => Admission'
<1> SUFFICES ASSUME TypeOK, Down, Admission, [Next]_vars PROVE Admission'
  OBVIOUS
<1>1. ASSUME NEW e \in Exchange, up', Running(e)' PROVE e \in admission'
  <2>1. CASE Running(e)
    BY <1>1, <2>1, AdmissionKept DEF Admission
  <2>2. CASE Start(e)
    BY <2>2 DEF Start
  <2> QED BY <1>1, <2>1, <2>2, RunningFrom
<1>2. ASSUME NEW e \in Exchange, pc'[e] # "none" PROVE wf'[e] # None
  <2>1. CASE Start(e)
    BY <2>1, StartWrites, NoneAssumption
  <2>2. CASE wf[e] # None
    BY <2>2, WorkflowsStay
  <2> QED BY <1>2, <2>1, <2>2, PlaceFrom DEF Admission, Going
<1>3. ASSUME NEW e \in Exchange, pc'[e] \in LatePlaces PROVE ~Running(e)'
  <2>1. CASE Start(e)
    BY <1>3, <2>1 DEF Start, Goto, TypeOK, LatePlaces
  <2>2. CASE ~Start(e)
    <3>1. ~Running(e)
      BY <1>3, PlaceFrom DEF Admission, Going
    <3> QED BY <2>2, <3>1, RunningFrom
  <2> QED BY <2>1, <2>2
<1> QED BY <1>1, <1>2, <1>3, AbandonFrom DEF Admission

(* A workflow starts where nobody else holds an admission, and every       *)
(* running one holds its own.                                              *)
LEMMA AloneStep ==
  TypeOK /\ Admission /\ RunsAlone /\ [Next]_vars => RunsAlone'
<1> SUFFICES ASSUME TypeOK, Admission, RunsAlone, [Next]_vars,
                    NEW e \in Exchange, NEW f \in Exchange,
                    Running(e)', Running(f)'
             PROVE  e = f
  BY DEF RunsAlone
<1>1. ASSUME NEW a \in Exchange, NEW b \in Exchange, Start(a), Running(b)
      PROVE  a = b
  BY <1>1 DEF Start, CanAdmit, Admission
<1>2. ASSUME NEW a \in Exchange, NEW b \in Exchange, Start(a), Start(b)
      PROVE  a = b
  <2>1. b \in admission'
    BY <1>2 DEF Start
  <2> QED BY <1>2, <2>1 DEF Start, CanAdmit
<1>3. CASE Running(e) /\ Running(f)
  BY <1>3 DEF RunsAlone
<1> QED BY <1>1, <1>2, <1>3, RunningFrom

-----------------------------------------------------------------------------
(* A child of an earlier broker is there only while no broker is up.       *)
LEMMA DownStep ==
  TypeOK /\ Down /\ [Next]_vars => Down'
<1> SUFFICES ASSUME TypeOK, Down, [Next]_vars PROVE Down'
  OBVIOUS
<1> USE NoneAssumption DEF Down, TypeOK, page, store, locks, users, runner,
    process, Goto, Fail, Spend, Leave, LateLeave
<1>1. ASSUME NEW e \in Exchange, Overtaken(e) PROVE Down'
  BY <1>1 DEF Overtaken
<1>2. ASSUME NEW e \in Exchange, Interrupted(e) PROVE Down'
  BY <1>2 DEF Interrupted
<1>3. ASSUME NEW e \in Exchange, Begin(e) PROVE Down'
  BY <1>3 DEF Begin
<1>4. ASSUME NEW e \in Exchange, ReadDelivered(e) PROVE Down'
  BY <1>4 DEF ReadDelivered
<1>5. ASSUME NEW e \in Exchange, ReadAbsent(e) PROVE Down'
  BY <1>5 DEF ReadAbsent
<1>6. ASSUME NEW e \in Exchange, RecordAbsent(e) PROVE Down'
  BY <1>6 DEF RecordAbsent
<1>7. ASSUME NEW e \in Exchange, Spawn(e) PROVE Down'
  BY <1>7 DEF Spawn
<1>8. ASSUME NEW e \in Exchange, Retry(e) PROVE Down'
  BY <1>8 DEF Retry
<1>9. ASSUME NEW e \in Exchange, RecordReanchor(e) PROVE Down'
  BY <1>9 DEF RecordReanchor
<1>10. ASSUME NEW e \in Exchange, Capture(e) PROVE Down'
  BY <1>10 DEF Capture
<1>11. ASSUME NEW e \in Exchange, Store(e) PROVE Down'
  BY <1>11 DEF Store
<1>12. ASSUME NEW e \in Exchange, Commit(e) PROVE Down'
  BY <1>12 DEF Commit
<1>13. ASSUME NEW e \in Exchange, Finish(e) PROVE Down'
  BY <1>13 DEF Finish
<1>14. ASSUME NEW e \in Exchange, Succeed(e) PROVE Down'
  BY <1>14 DEF Succeed
<1>15. ASSUME NEW e \in Exchange, Caught(e) PROVE Down'
  BY <1>15 DEF Caught
<1>16. ASSUME NEW e \in Exchange, Stop(e) PROVE Down'
  BY <1>16 DEF Stop
<1>17. ASSUME NEW e \in Exchange, Rerun(e) PROVE Down'
  BY <1>17 DEF Rerun
<1>18. ASSUME NEW e \in Exchange, Check(e) PROVE Down'
  BY <1>18 DEF Check, DriverAt
<1>19. ASSUME NEW e \in Exchange, RefuseGenerating(e) PROVE Down'
  BY <1>19 DEF RefuseGenerating, DriverAt
<1>20. ASSUME NEW e \in Exchange, RefuseMarker(e) PROVE Down'
  BY <1>20 DEF RefuseMarker, DriverAt
<1>21. ASSUME NEW e \in Exchange, Reanchor(e) PROVE Down'
  BY <1>21 DEF Reanchor, DriverAt
<1>22. ASSUME NEW e \in Exchange, Fence(e) PROVE Down'
  BY <1>22 DEF Fence, DriverAt
<1>23. ASSUME NEW e \in Exchange, Click(e) PROVE Down'
  BY <1>23 DEF Click, DriverAt
<1>24. ASSUME NEW e \in Exchange, Sent(e) PROVE Down'
  BY <1>24 DEF Sent, DriverAt
<1>25. ASSUME NEW e \in Exchange, Kill(e) PROVE Down'
  BY <1>25 DEF Kill
<1>26. ASSUME NEW e \in Exchange, CapturePaused(e) PROVE Down'
  BY <1>26 DEF CapturePaused
<1>27. ASSUME NEW e \in Exchange, FailUnclicked(e) PROVE Down'
  BY <1>27 DEF FailUnclicked, DriverAt
<1>28. ASSUME NEW e \in Exchange, FailUnproven(e) PROVE Down'
  BY <1>28 DEF FailUnproven, DriverAt
<1>29. ASSUME NEW e \in Exchange, LoseControl(e) PROVE Down'
  BY <1>29 DEF LoseControl, DriverAt
<1>30. ASSUME NEW e \in Exchange, LateRead(e) PROVE Down'
  BY <1>30 DEF LateRead
<1>31. ASSUME NEW e \in Exchange, LateStore(e) PROVE Down'
  BY <1>31 DEF LateStore
<1>32. ASSUME NEW e \in Exchange, LateCommit(e) PROVE Down'
  BY <1>32 DEF LateCommit
<1>33. ASSUME NEW e \in Exchange, LateComplete(e) PROVE Down'
  BY <1>33 DEF LateComplete
<1>34. ASSUME NEW e \in Exchange, Start(e) PROVE Down'
  BY <1>34 DEF Start
<1>35. ASSUME NEW e \in Exchange, Cancel(e) PROVE Down'
  BY <1>35 DEF Cancel
<1>36. ASSUME NEW e \in Exchange, Abandon(e) PROVE Down'
  BY <1>36 DEF Abandon
<1>37. ASSUME NEW e \in Exchange, Reconcile(e) PROVE Down'
  BY <1>37 DEF Reconcile
<1>38. ASSUME NEW e \in Exchange, CancelPersists(e) PROVE Down'
  BY <1>38 DEF CancelPersists
<1>39. ASSUME NEW e \in Exchange, AbandonPersists(e) PROVE Down'
  BY <1>39 DEF AbandonPersists
<1>40. ASSUME Crash PROVE Down'
  BY <1>40 DEF Crash
<1>41. ASSUME Restart PROVE Down'
  BY <1>41 DEF Restart, LeaseFree
<1>42. ASSUME OrphanClicks PROVE Down'
  BY <1>42 DEF OrphanClicks
<1>43. ASSUME OrphanEnds PROVE Down'
  BY <1>43 DEF OrphanEnds
<1>44. CASE UNCHANGED <<orphan, up, driver, admission, cancelling, pc, abandoning>>
  BY <1>44
<1> QED
  BY <1>1, <1>2, <1>3, <1>4, <1>5, <1>6, <1>7, <1>8, <1>9, <1>10, <1>11,
    <1>12, <1>13, <1>14, <1>15, <1>16, <1>17, <1>18, <1>19, <1>20, <1>21,
    <1>22, <1>23, <1>24, <1>25, <1>26, <1>27, <1>28, <1>29, <1>30, <1>31,
    <1>32, <1>33, <1>34, <1>35, <1>36, <1>37, <1>38, <1>39, <1>40, <1>41,
    <1>42, <1>43, <1>44 DEF Next, Runner, Driver, Fault, Late, User, Writes,
    Reply, HumanSends, vars

(* What a message more on the page shows.                                  *)
LEMMA ShownMore ==
  ASSUME TypeOK, NEW m \in Message, conv' = Append(conv, m), NEW e \in Exchange
  PROVE  /\ Deliveries(e)' = Deliveries(e) \cup
                             (IF m = Prompt(e) THEN {Len(conv) + 1} ELSE {})
         /\ Delivered(e)' <=> Delivered(e) \/ m = Prompt(e)
<1>1. conv \in Seq(Message) /\ Len(conv) \in Nat /\ DOMAIN conv = 1..Len(conv)
  BY LenProperties DEF TypeOK
<1>2. /\ DOMAIN conv' = 1..(Len(conv) + 1)
      /\ conv'[Len(conv) + 1] = m
      /\ \A i \in 1..Len(conv) : conv'[i] = conv[i]
  BY <1>1, AppendProperties
<1>3. Deliveries(e)' = Deliveries(e) \cup
                         (IF m = Prompt(e) THEN {Len(conv) + 1} ELSE {})
  BY <1>1, <1>2 DEF Deliveries, Prompt
<1> QED BY <1>3 DEF Delivered

(* The marked prompts are messages, and differ from each other and from    *)
(* all else.                                                               *)
LEMMA MessagesDiffer ==
  ASSUME NEW e \in Exchange
  PROVE  /\ Prompt(e) \in Message /\ Answer(e) \in Message
         /\ Prompt(Human) \in Message /\ Prompt(Human) # Prompt(e)
         /\ \A f \in Exchange : Prompt(f) = Prompt(e) => f = e
         /\ \A t : Answer(t) # Prompt(e)
BY ExchangeAssumption DEF Prompt, Answer, Message

(* Absence is concluded from a page that does not show the marker.         *)
LEMMA AbsentFrom ==
  TypeOK /\ [Next]_vars =>
    \A e \in Exchange : pc'[e] = "absent" => pc[e] = "absent" \/ ReadAbsent(e)
<1> SUFFICES ASSUME TypeOK, [Next]_vars,
                    NEW z \in Exchange, pc'[z] = "absent"
             PROVE  pc[z] = "absent" \/ ReadAbsent(z)
  OBVIOUS
<1> USE DEF TypeOK, page, store, locks, users, runner, process, Goto, Fail,
    Spend, Leave, LateLeave
<1>1. ASSUME NEW e \in Exchange, Overtaken(e)
      PROVE  pc[z] = "absent" \/ ReadAbsent(z)
  BY <1>1 DEF Overtaken
<1>2. ASSUME NEW e \in Exchange, Interrupted(e)
      PROVE  pc[z] = "absent" \/ ReadAbsent(z)
  BY <1>2 DEF Interrupted
<1>3. ASSUME NEW e \in Exchange, Begin(e)
      PROVE  pc[z] = "absent" \/ ReadAbsent(z)
  BY <1>3 DEF Begin
<1>4. ASSUME NEW e \in Exchange, ReadDelivered(e)
      PROVE  pc[z] = "absent" \/ ReadAbsent(z)
  BY <1>4 DEF ReadDelivered
<1>5. ASSUME NEW e \in Exchange, ReadAbsent(e)
      PROVE  pc[z] = "absent" \/ ReadAbsent(z)
  BY <1>5 DEF ReadAbsent
<1>6. ASSUME NEW e \in Exchange, RecordAbsent(e)
      PROVE  pc[z] = "absent" \/ ReadAbsent(z)
  BY <1>6 DEF RecordAbsent
<1>7. ASSUME NEW e \in Exchange, Retry(e)
      PROVE  pc[z] = "absent" \/ ReadAbsent(z)
  BY <1>7 DEF Retry
<1>8. ASSUME NEW e \in Exchange, RecordReanchor(e)
      PROVE  pc[z] = "absent" \/ ReadAbsent(z)
  BY <1>8 DEF RecordReanchor
<1>9. ASSUME NEW e \in Exchange, Capture(e)
      PROVE  pc[z] = "absent" \/ ReadAbsent(z)
  BY <1>9 DEF Capture
<1>10. ASSUME NEW e \in Exchange, Store(e)
       PROVE  pc[z] = "absent" \/ ReadAbsent(z)
  BY <1>10 DEF Store
<1>11. ASSUME NEW e \in Exchange, Commit(e)
       PROVE  pc[z] = "absent" \/ ReadAbsent(z)
  BY <1>11 DEF Commit
<1>12. ASSUME NEW e \in Exchange, Finish(e)
       PROVE  pc[z] = "absent" \/ ReadAbsent(z)
  BY <1>12 DEF Finish
<1>13. ASSUME NEW e \in Exchange, Succeed(e)
       PROVE  pc[z] = "absent" \/ ReadAbsent(z)
  BY <1>13 DEF Succeed
<1>14. ASSUME NEW e \in Exchange, Caught(e)
       PROVE  pc[z] = "absent" \/ ReadAbsent(z)
  BY <1>14 DEF Caught
<1>15. ASSUME NEW e \in Exchange, Stop(e)
       PROVE  pc[z] = "absent" \/ ReadAbsent(z)
  BY <1>15 DEF Stop
<1>16. ASSUME NEW e \in Exchange, Rerun(e)
       PROVE  pc[z] = "absent" \/ ReadAbsent(z)
  BY <1>16 DEF Rerun
<1>17. ASSUME NEW e \in Exchange, RefuseGenerating(e)
       PROVE  pc[z] = "absent" \/ ReadAbsent(z)
  BY <1>17 DEF RefuseGenerating, DriverAt
<1>18. ASSUME NEW e \in Exchange, RefuseMarker(e)
       PROVE  pc[z] = "absent" \/ ReadAbsent(z)
  BY <1>18 DEF RefuseMarker, DriverAt
<1>19. ASSUME NEW e \in Exchange, Reanchor(e)
       PROVE  pc[z] = "absent" \/ ReadAbsent(z)
  BY <1>19 DEF Reanchor, DriverAt
<1>20. ASSUME NEW e \in Exchange, Sent(e)
       PROVE  pc[z] = "absent" \/ ReadAbsent(z)
  BY <1>20 DEF Sent, DriverAt
<1>21. ASSUME NEW e \in Exchange, Kill(e)
       PROVE  pc[z] = "absent" \/ ReadAbsent(z)
  BY <1>21 DEF Kill
<1>22. ASSUME NEW e \in Exchange, CapturePaused(e)
       PROVE  pc[z] = "absent" \/ ReadAbsent(z)
  BY <1>22 DEF CapturePaused
<1>23. ASSUME NEW e \in Exchange, FailUnclicked(e)
       PROVE  pc[z] = "absent" \/ ReadAbsent(z)
  BY <1>23 DEF FailUnclicked, DriverAt
<1>24. ASSUME NEW e \in Exchange, FailUnproven(e)
       PROVE  pc[z] = "absent" \/ ReadAbsent(z)
  BY <1>24 DEF FailUnproven, DriverAt
<1>25. ASSUME NEW e \in Exchange, LoseControl(e)
       PROVE  pc[z] = "absent" \/ ReadAbsent(z)
  BY <1>25 DEF LoseControl, DriverAt
<1>26. ASSUME NEW e \in Exchange, LateRead(e)
       PROVE  pc[z] = "absent" \/ ReadAbsent(z)
  BY <1>26 DEF LateRead
<1>27. ASSUME NEW e \in Exchange, LateStore(e)
       PROVE  pc[z] = "absent" \/ ReadAbsent(z)
  BY <1>27 DEF LateStore
<1>28. ASSUME NEW e \in Exchange, LateCommit(e)
       PROVE  pc[z] = "absent" \/ ReadAbsent(z)
  BY <1>28 DEF LateCommit
<1>29. ASSUME NEW e \in Exchange, LateComplete(e)
       PROVE  pc[z] = "absent" \/ ReadAbsent(z)
  BY <1>29 DEF LateComplete
<1>30. ASSUME NEW e \in Exchange, Start(e)
       PROVE  pc[z] = "absent" \/ ReadAbsent(z)
  BY <1>30 DEF Start
<1>31. ASSUME NEW e \in Exchange, Reconcile(e)
       PROVE  pc[z] = "absent" \/ ReadAbsent(z)
  BY <1>31 DEF Reconcile
<1>32. ASSUME Crash PROVE pc[z] = "absent" \/ ReadAbsent(z)
  BY <1>32 DEF Crash
<1>33. ASSUME Restart PROVE pc[z] = "absent" \/ ReadAbsent(z)
  BY <1>33 DEF Restart, LeaseFree
<1>34. CASE UNCHANGED <<pc>>
  BY <1>34
<1> QED
  BY <1>1, <1>2, <1>3, <1>4, <1>5, <1>6, <1>7, <1>8, <1>9, <1>10, <1>11,
    <1>12, <1>13, <1>14, <1>15, <1>16, <1>17, <1>18, <1>19, <1>20, <1>21,
    <1>22, <1>23, <1>24, <1>25, <1>26, <1>27, <1>28, <1>29, <1>30, <1>31,
    <1>32, <1>33, <1>34 DEF Next, Runner, Driver, Fault, Late, User, Writes,
    Spawn, Check, Fence, Click, Cancel, Abandon, CancelPersists,
    AbandonPersists, Reply, HumanSends, OrphanClicks, OrphanEnds, vars

(* The child of a broker went on from its look, or was on its way.         *)
Chosen ==
  \/ Unclicked(driver) /\ driver'.turn = driver.turn
  \/ \E z \in Exchange : Check(z) /\ driver'.turn = z

(* A child that is about to click has looked for its marker.               *)
LEMMA ChildFrom ==
  TypeOK /\ Down /\ [Next]_vars =>
    (Unclicked(driver)' => Chosen)
<1> SUFFICES ASSUME TypeOK, Down, [Next]_vars,
                    Unclicked(driver)'
             PROVE  Chosen
  OBVIOUS
<1> USE NoneAssumption DEF Chosen, Unclicked, Child, Stages, page, store, locks,
    users, runner, process, Goto, Fail, Spend, Leave, LateLeave
<1>1. ASSUME NEW e \in Exchange, Spawn(e) PROVE Chosen
  BY <1>1 DEF Spawn
<1>2. ASSUME NEW e \in Exchange, Check(e) PROVE Chosen
  BY <1>2 DEF Check, DriverAt
<1>3. ASSUME NEW e \in Exchange, RefuseGenerating(e) PROVE Chosen
  BY <1>3 DEF RefuseGenerating, DriverAt
<1>4. ASSUME NEW e \in Exchange, RefuseMarker(e) PROVE Chosen
  BY <1>4 DEF RefuseMarker, DriverAt
<1>5. ASSUME NEW e \in Exchange, Reanchor(e) PROVE Chosen
  BY <1>5 DEF Reanchor, DriverAt
<1>6. ASSUME NEW e \in Exchange, Fence(e) PROVE Chosen
  BY <1>6 DEF Fence, DriverAt
<1>7. ASSUME NEW e \in Exchange, Click(e) PROVE Chosen
  BY <1>7 DEF Click, DriverAt
<1>8. ASSUME NEW e \in Exchange, Sent(e) PROVE Chosen
  BY <1>8 DEF Sent, DriverAt
<1>9. ASSUME NEW e \in Exchange, Kill(e) PROVE Chosen
  BY <1>9 DEF Kill
<1>10. ASSUME NEW e \in Exchange, FailUnclicked(e) PROVE Chosen
  BY <1>10 DEF FailUnclicked, DriverAt
<1>11. ASSUME NEW e \in Exchange, FailUnproven(e) PROVE Chosen
  BY <1>11 DEF FailUnproven, DriverAt
<1>12. ASSUME NEW e \in Exchange, LoseControl(e) PROVE Chosen
  BY <1>12 DEF LoseControl, DriverAt
<1>13. ASSUME Crash PROVE Chosen
  BY <1>13 DEF Crash
<1>14. CASE UNCHANGED <<driver>>
  BY <1>14
<1>15. ASSUME NEW e \in Exchange, Runner(e) PROVE Chosen
  BY <1>15, <1>1, <1>14 DEF Runner, Overtaken, Interrupted, Begin,
    ReadDelivered, ReadAbsent, RecordAbsent, Retry, RecordReanchor, Capture,
    Store, Commit, Finish, Succeed, Caught, Stop, Rerun
<1>16. ASSUME NEW e \in Exchange, Driver(e) PROVE Chosen
  BY <1>16, <1>2, <1>3, <1>4, <1>5, <1>6, <1>7, <1>8, <1>9, <1>14 DEF Driver
<1>17. ASSUME NEW e \in Exchange, Fault(e) PROVE Chosen
  BY <1>17, <1>10, <1>11, <1>12, <1>14 DEF Fault, CapturePaused
<1>18. ASSUME NEW e \in Exchange, Late(e) PROVE Chosen
  BY <1>18, <1>14 DEF Late, LateRead, LateStore, LateCommit, LateComplete
<1>19. ASSUME NEW e \in Exchange, User(e) PROVE Chosen
  BY <1>19, <1>14 DEF User, Start, Cancel, Abandon, Reconcile
<1>20. ASSUME NEW e \in Exchange, Writes(e) PROVE Chosen
  BY <1>20, <1>14 DEF Writes, CancelPersists, AbandonPersists
<1> QED
  BY <1>13, <1>14, <1>15, <1>16, <1>17, <1>18, <1>19, <1>20 DEF Next, Reply,
    HumanSends, Restart, OrphanClicks, OrphanEnds, vars

(* A child is left by the broker that crashes.                             *)
LEMMA OrphanFrom ==
  TypeOK /\ Down /\ [Next]_vars =>
    orphan' \in {orphan, None} \/ Crash
<1> SUFFICES ASSUME TypeOK, Down, [Next]_vars,
                    ~Crash
             PROVE  orphan' \in {orphan, None}
  OBVIOUS
<1> USE DEF page, store, locks, users, runner, process, Goto, Fail, Spend,
    Leave, LateLeave
<1>1. ASSUME Crash PROVE orphan' \in {orphan, None} \/ Crash
  BY <1>1 DEF Crash
<1>2. ASSUME OrphanClicks PROVE orphan' \in {orphan, None} \/ Crash
  BY <1>2 DEF OrphanClicks
<1>3. ASSUME OrphanEnds PROVE orphan' \in {orphan, None} \/ Crash
  BY <1>3 DEF OrphanEnds
<1>4. CASE UNCHANGED <<orphan>>
  BY <1>4
<1>5. ASSUME NEW e \in Exchange, Runner(e)
      PROVE  orphan' \in {orphan, None} \/ Crash
  BY <1>5, <1>4 DEF Runner, Overtaken, Interrupted, Begin, ReadDelivered,
    ReadAbsent, RecordAbsent, Spawn, Retry, RecordReanchor, Capture, Store,
    Commit, Finish, Succeed, Caught, Stop, Rerun
<1>6. ASSUME NEW e \in Exchange, Driver(e)
      PROVE  orphan' \in {orphan, None} \/ Crash
  BY <1>6, <1>4 DEF Driver, Check, RefuseGenerating, RefuseMarker, Reanchor,
    Fence, Click, Sent, Kill
<1>7. ASSUME NEW e \in Exchange, Fault(e)
      PROVE  orphan' \in {orphan, None} \/ Crash
  BY <1>7, <1>4 DEF Fault, CapturePaused, FailUnclicked, FailUnproven,
    LoseControl
<1>8. ASSUME NEW e \in Exchange, Late(e)
      PROVE  orphan' \in {orphan, None} \/ Crash
  BY <1>8, <1>4 DEF Late, LateRead, LateStore, LateCommit, LateComplete
<1>9. ASSUME NEW e \in Exchange, User(e)
      PROVE  orphan' \in {orphan, None} \/ Crash
  BY <1>9, <1>4 DEF User, Start, Cancel, Abandon, Reconcile
<1>10. ASSUME NEW e \in Exchange, Writes(e)
       PROVE  orphan' \in {orphan, None} \/ Crash
  BY <1>10, <1>4 DEF Writes, CancelPersists, AbandonPersists
<1> QED
  BY <1>1, <1>2, <1>3, <1>4, <1>5, <1>6, <1>7, <1>8, <1>9, <1>10 DEF Next,
    Reply, HumanSends, Restart, vars

(* The last message is one.                                                *)
LEMMA LastSpoken ==
  ASSUME TypeOK, conv # <<>>
  PROVE  Last(conv) \in Message
<1>1. conv \in Seq(Message)
  BY DEF TypeOK
<1>2. Len(conv) \in Nat \ {0}
  BY <1>1, EmptySeq
<1>3. Len(conv) \in 1..Len(conv)
  BY <1>2
<1> QED BY <1>1, <1>3, ElementOfSeq DEF Last

(* A message is put on the page, a marked one by its own child.            *)
Spoken ==
  \E m \in Message :
    /\ conv' = Append(conv, m)
    /\ \A z \in Exchange : m = Prompt(z) =>
         Click(z) \/ (OrphanClicks /\ orphan.turn = z)

(* Only the child of an exchange puts its marker on the page, after the    *)
(* look and once.                                                          *)
LEMMA PageFrom ==
  TypeOK /\ [Next]_vars =>
    UNCHANGED conv \/ Spoken
<1> SUFFICES ASSUME TypeOK, [Next]_vars,
                    ~UNCHANGED conv
             PROVE  Spoken
  OBVIOUS
<1> USE DEF Spoken, TypeOK, page, store, locks, users, runner, process, Goto,
  Fail,
    Spend, Leave, LateLeave
<1>1. ASSUME NEW e \in Exchange, Click(e) PROVE Spoken
  <2>1. Prompt(e) \in Message /\ conv' = Append(conv, Prompt(e))
    BY <1>1, MessagesDiffer DEF Click
  <2>2. \A z \in Exchange : Prompt(e) = Prompt(z) => z = e
    BY MessagesDiffer
  <2> QED BY <1>1, <2>1, <2>2
<1>2. ASSUME Reply PROVE Spoken
  <2>1. Last(conv) \in Message
    BY <1>2, LastSpoken DEF Reply, Generating
  <2>2. Answer(Last(conv).turn) \in Message
    BY <2>1 DEF Answer, Message
  <2>3. \A z \in Exchange : Answer(Last(conv).turn) # Prompt(z)
    BY DEF Answer, Prompt
  <2> QED BY <1>2, <2>2, <2>3 DEF Reply
<1>3. ASSUME HumanSends PROVE Spoken
  <2>1. Prompt(Human) \in Message /\ \A z \in Exchange : Prompt(Human) # Prompt(z)
    BY ExchangeAssumption DEF Prompt, Message
  <2> QED BY <1>3, <2>1 DEF HumanSends
<1>4. ASSUME OrphanClicks PROVE Spoken
  <2>1. orphan.turn \in Exchange /\ conv' = Append(conv, Prompt(orphan.turn))
    BY <1>4 DEF OrphanClicks, Child
  <2> QED BY <1>4, <2>1, MessagesDiffer
<1>5. CASE UNCHANGED <<conv>>
  BY <1>5
<1>6. ASSUME NEW e \in Exchange, Runner(e) PROVE Spoken
  BY <1>6, <1>5 DEF Runner, Overtaken, Interrupted, Begin, ReadDelivered,
    ReadAbsent, RecordAbsent, Spawn, Retry, RecordReanchor, Capture, Store,
    Commit, Finish, Succeed, Caught, Stop, Rerun
<1>7. ASSUME NEW e \in Exchange, Driver(e) PROVE Spoken
  BY <1>7, <1>1, <1>5 DEF Driver, Check, RefuseGenerating, RefuseMarker,
    Reanchor, Fence, Sent, Kill
<1>8. ASSUME NEW e \in Exchange, Fault(e) PROVE Spoken
  BY <1>8, <1>5 DEF Fault, CapturePaused, FailUnclicked, FailUnproven,
    LoseControl
<1>9. ASSUME NEW e \in Exchange, Late(e) PROVE Spoken
  BY <1>9, <1>5 DEF Late, LateRead, LateStore, LateCommit, LateComplete
<1>10. ASSUME NEW e \in Exchange, User(e) PROVE Spoken
  BY <1>10, <1>5 DEF User, Start, Cancel, Abandon, Reconcile
<1>11. ASSUME NEW e \in Exchange, Writes(e) PROVE Spoken
  BY <1>11, <1>5 DEF Writes, CancelPersists, AbandonPersists
<1> QED
  BY <1>2, <1>3, <1>4, <1>5, <1>6, <1>7, <1>8, <1>9, <1>10, <1>11 DEF Next,
    Crash, Restart, OrphanEnds, vars

(* A page that stays shows what it showed.                                 *)
LEMMA PageKept ==
  ASSUME TypeOK, UNCHANGED conv, NEW e \in Exchange
  PROVE  Deliveries(e)' = Deliveries(e) /\ (Delivered(e)' <=> Delivered(e))
BY DEF Deliveries, Delivered

(* A prompt is new on the page only by the click of a child that looked.   *)
LEMMA DeliveredFrom ==
  ASSUME TypeOK, [Next]_vars, NEW e \in Exchange, Delivered(e)', ~Delivered(e)
  PROVE  Click(e) \/ (OrphanClicks /\ orphan.turn = e)
<1>1. CASE UNCHANGED conv
  BY <1>1, PageKept
<1>2. CASE ~UNCHANGED conv
  <2>1. PICK m \in Message :
          /\ conv' = Append(conv, m)
          /\ \A z \in Exchange : m = Prompt(z) =>
               Click(z) \/ (OrphanClicks /\ orphan.turn = z)
    BY <1>2, PageFrom DEF Spoken
  <2>2. m = Prompt(e)
    BY <2>1, ShownMore
  <2> QED BY <2>1, <2>2
<1> QED BY <1>1, <1>2

(* What a child or a runner has concluded stays true: while there is a     *)
(* child of one broker there is none of another.                           *)
LEMMA LookedStep ==
  TypeOK /\ Down /\ Looked /\ [Next]_vars => Looked'
<1> SUFFICES ASSUME TypeOK, Down, Looked, [Next]_vars PROVE Looked'
  OBVIOUS
<1>1. ASSUME Unclicked(driver)' PROVE ~Delivered(driver.turn)'
  <2>1. CASE Unclicked(driver) /\ driver'.turn = driver.turn
    <3>1. driver.turn \in Exchange /\ ~Delivered(driver.turn)
      BY <2>1, NoneAssumption DEF Looked, Unclicked, TypeOK, Child
    <3>2. ~Click(driver.turn)
      <4> SUFFICES ASSUME Click(driver.turn) PROVE FALSE
        OBVIOUS
      <4>1. driver' = [turn |-> driver.turn, stage |-> "clicked"]
        BY DEF Click
      <4> QED BY <1>1, <4>1 DEF Unclicked
    <3>3. ~OrphanClicks
      BY <2>1 DEF OrphanClicks, Down, Unclicked
    <3>4. ~Delivered(driver.turn)'
      <4> DEFINE t == driver.turn
      <4> QED BY <3>1, <3>2, <3>3, <2>1, DeliveredFrom
    <3> QED BY <3>4, <2>1
  <2>2. ASSUME NEW e \in Exchange, Check(e), driver'.turn = e
        PROVE  ~Delivered(driver.turn)'
    <3>1. ~Delivered(e) /\ UNCHANGED conv
      BY <2>2 DEF Check, AbsentAt, page
    <3> QED BY <2>2, <3>1, PageKept
  <2> QED BY <1>1, <2>1, <2>2, ChildFrom DEF Chosen
<1>2. ASSUME Unclicked(orphan)' PROVE ~Delivered(orphan.turn)'
  <2>1. CASE Crash
    <3>1. orphan' = driver /\ UNCHANGED conv
      BY <2>1 DEF Crash, page
    <3>2. Unclicked(driver)
      BY <1>2, <3>1 DEF Unclicked
    <3>3. driver.turn \in Exchange /\ ~Delivered(driver.turn)
      BY <3>2, NoneAssumption DEF Looked, Unclicked, TypeOK, Child
    <3> QED BY <3>1, <3>3, PageKept
  <2>2. CASE orphan' = orphan /\ ~Crash
    <3>1. Unclicked(orphan)
      BY <1>2, <2>2 DEF Unclicked
    <3>2. orphan.turn \in Exchange /\ ~Delivered(orphan.turn)
      BY <3>1, NoneAssumption DEF Looked, Unclicked, TypeOK, Child
    <3>3. ~OrphanClicks
      BY <2>2, <3>1, NoneAssumption DEF OrphanClicks, Unclicked
    <3>4. ~up
      BY <3>1 DEF Down, Unclicked
    <3>5. ~Click(orphan.turn)
      BY <3>2, <3>4 DEF Click, DriverAt, Down
    <3> QED BY <2>2, <3>2, <3>3, <3>5, DeliveredFrom
  <2>3. orphan' # None
    BY <1>2 DEF Unclicked
  <2> QED BY <2>1, <2>2, <2>3, OrphanFrom
<1>3. ASSUME NEW e \in Exchange, pc'[e] = "absent" PROVE ~Delivered(e)'
  <2>1. CASE pc[e] = "absent"
    <3>1. ~Delivered(e)
      BY <2>1 DEF Looked, AbsentIsTrue
    <3>2. ~Click(e)
      BY <2>1 DEF Click, DriverAt
    <3>3. ~OrphanClicks
      BY <2>1 DEF OrphanClicks, Down
    <3> QED BY <3>1, <3>2, <3>3, DeliveredFrom
  <2>2. CASE ReadAbsent(e)
    BY <2>2, PageKept DEF ReadAbsent, AbsentAt, page
  <2> QED BY <1>3, <2>1, <2>2, AbsentFrom
<1> QED BY <1>1, <1>2, <1>3 DEF Looked, AbsentIsTrue

(* A prompt is clicked only where it is not on the page.                   *)
LEMMA OnceStep ==
  TypeOK /\ Looked /\ Once /\ [Next]_vars => Once'
<1> SUFFICES ASSUME TypeOK, Looked, Once, [Next]_vars, NEW e \in Exchange
             PROVE  \A i, j \in Deliveries(e)' : i = j
  BY DEF Once
<1>1. CASE UNCHANGED conv
  BY <1>1, PageKept DEF Once
<1>2. CASE ~UNCHANGED conv
  <2>1. PICK m \in Message :
          /\ conv' = Append(conv, m)
          /\ \A z \in Exchange : m = Prompt(z) =>
               Click(z) \/ (OrphanClicks /\ orphan.turn = z)
    BY <1>2, PageFrom DEF Spoken
  <2>2. CASE m # Prompt(e)
    BY <2>1, <2>2, ShownMore DEF Once
  <2>3. CASE m = Prompt(e)
    <3>1. Deliveries(e) = {}
      <4>1. CASE Click(e)
        <5>1. driver = [turn |-> e, stage |-> "fenced"]
          BY <4>1 DEF Click, DriverAt
        <5>2. driver \in Child
          BY <5>1 DEF Child, Stages
        <5>3. Unclicked(driver) /\ driver.turn = e
          BY <5>1, <5>2, NoneAssumption DEF Unclicked
        <5> QED BY <5>3 DEF Looked, Delivered
      <4>2. CASE OrphanClicks /\ orphan.turn = e
        <5>1. Unclicked(orphan)
          BY <4>2 DEF OrphanClicks, Unclicked
        <5> QED BY <4>2, <5>1 DEF Looked, Delivered
      <4> QED BY <2>1, <2>3, <4>1, <4>2
    <3> QED BY <2>1, <2>3, <3>1, ShownMore
  <2> QED BY <2>2, <2>3
<1> QED BY <1>1, <1>2

-----------------------------------------------------------------------------
(* A pair on the page stays where it is, as the page only grows.           *)
PairStill(n, e) ==
  /\ n + 2 <= Len(conv')
  /\ conv'[n + 1] = Prompt(e) /\ conv'[n + 2] = Answer(e)

LEMMA PairStays ==
  ASSUME TypeOK, [Next]_vars, NEW n \in Nat, NEW e \in Exchange, PairAt(n, e)
  PROVE  PairStill(n, e)
<1>1. CASE UNCHANGED conv
  BY <1>1 DEF PairAt, PairStill
<1>2. CASE ~UNCHANGED conv
  <2>1. PICK m \in Message : conv' = Append(conv, m)
    BY <1>2, PageFrom DEF Spoken
  <2>2. conv \in Seq(Message) /\ Len(conv) \in Nat
    BY LenProperties DEF TypeOK
  <2>3. /\ Len(conv') = Len(conv) + 1
        /\ \A i \in 1..Len(conv) : conv'[i] = conv[i]
    BY <2>1, <2>2, AppendProperties
  <2>4. n + 1 \in 1..Len(conv) /\ n + 2 \in 1..Len(conv)
    BY <2>2 DEF PairAt
  <2> QED BY <2>2, <2>3, <2>4 DEF PairAt, PairStill
<1> QED BY <1>1, <1>2

(* No message is taken from the page.                                      *)
LEMMA PageGrows ==
  ASSUME TypeOK, [Next]_vars
  PROVE  /\ conv' \in Seq(Message)
         /\ Len(conv') \in Nat /\ Len(conv) <= Len(conv')
<1>1. conv \in Seq(Message) /\ Len(conv) \in Nat
  BY LenProperties DEF TypeOK
<1>2. CASE UNCHANGED conv
  BY <1>1, <1>2
<1>3. CASE ~UNCHANGED conv
  <2>1. PICK m \in Message : conv' = Append(conv, m)
    BY <1>3, PageFrom DEF Spoken
  <2> QED BY <1>1, <2>1, AppendProperties
<1> QED BY <1>2, <1>3

(* A pair that a reading found is on the page.                             *)
LEMMA PairIsSeen ==
  ASSUME TypeOK, NEW n \in Nat, NEW e \in Exchange, PairAfter(n, e)
  PROVE  PairAt(n, e)
BY HeadNat DEF PairAfter, PairAt

(* A result past the capture covers the pair after the anchor.             *)
LEMMA ResultNow ==
  ASSUME TypeOK, Admission, Results, NEW e \in Exchange, pc[e] \in Committing
  PROVE  /\ wf[e] \in Workflow /\ wf[e].result = wf[e].before + 2
         /\ wf[e].before \in Nat /\ wf[e].result <= Len(conv)
<1>1. wf[e] # None
  BY DEF Admission, Committing
<1>2. wf[e] \in Workflow
  BY <1>1 DEF TypeOK
<1>3. wf[e].result \in Nat /\ wf[e].before \in Nat
  BY <1>2 DEF Workflow
<1>4. ResultOf(e)
  BY DEF Results
<1>5. wf[e].result > 0 /\ wf[e].result \in {0, wf[e].before + 2}
  BY <1>1, <1>4 DEF ResultOf
<1>6. PairAt(wf[e].before, e)
  BY <1>1, <1>4, <1>5 DEF ResultOf
<1> QED BY <1>2, <1>3, <1>5, <1>6 DEF PairAt

(* The checkpoint moves over what the page shows, and forward.             *)
LEMMA HeadFrom ==
  TypeOK /\ Admission /\ Results /\ [Next]_vars =>
    head' \in head..Len(conv)
<1> SUFFICES ASSUME TypeOK, Admission, Results, [Next]_vars,
                    ~UNCHANGED head
             PROVE  head' \in head..Len(conv)
  BY HeadNat
<1> USE HeadNat DEF page, store, locks, users, runner, process, Goto, Fail,
    Spend, Leave, LateLeave
<1>1. ASSUME NEW e \in Exchange, Commit(e) PROVE head' \in head..Len(conv)
  <2>1. head = wf[e].before /\ head' = wf[e].result /\ pc[e] \in Committing
    BY <1>1 DEF Commit, Committing
  <2> QED BY <2>1, ResultNow
<1>2. ASSUME NEW e \in Exchange, Reanchor(e) PROVE head' \in head..Len(conv)
  BY <1>2 DEF Reanchor, DriverAt
<1>3. ASSUME NEW e \in Exchange, LateCommit(e) PROVE head' \in head..Len(conv)
  <2>1. head = wf[e].before /\ head' = wf[e].result /\ pc[e] \in Committing
    BY <1>3 DEF LateCommit, Committing
  <2> QED BY <2>1, ResultNow
<1>4. CASE UNCHANGED <<head>>
  BY <1>4
<1>5. ASSUME NEW e \in Exchange, Runner(e) PROVE head' \in head..Len(conv)
  BY <1>5, <1>1, <1>4 DEF Runner, Overtaken, Interrupted, Begin,
    ReadDelivered, ReadAbsent, RecordAbsent, Spawn, Retry, RecordReanchor,
    Capture, Store, Finish, Succeed, Caught, Stop, Rerun
<1>6. ASSUME NEW e \in Exchange, Driver(e) PROVE head' \in head..Len(conv)
  BY <1>6, <1>2, <1>4 DEF Driver, Check, RefuseGenerating, RefuseMarker,
    Fence, Click, Sent, Kill
<1>7. ASSUME NEW e \in Exchange, Fault(e) PROVE head' \in head..Len(conv)
  BY <1>7, <1>4 DEF Fault, CapturePaused, FailUnclicked, FailUnproven,
    LoseControl
<1>8. ASSUME NEW e \in Exchange, Late(e) PROVE head' \in head..Len(conv)
  BY <1>8, <1>3, <1>4 DEF Late, LateRead, LateStore, LateComplete
<1>9. ASSUME NEW e \in Exchange, User(e) PROVE head' \in head..Len(conv)
  BY <1>9, <1>4 DEF User, Start, Cancel, Abandon, Reconcile
<1>10. ASSUME NEW e \in Exchange, Writes(e) PROVE head' \in head..Len(conv)
  BY <1>10, <1>4 DEF Writes, CancelPersists, AbandonPersists
<1> QED
  BY <1>4, <1>5, <1>6, <1>7, <1>8, <1>9, <1>10 DEF Next, Reply, HumanSends,
    Crash, Restart, OrphanClicks, OrphanEnds, vars

(* A step that keeps the anchor and the result of a workflow.              *)
Kept(z) ==
  /\ wf'[z].before = wf[z].before /\ wf'[z].result = wf[z].result
  /\ wf'[z].phase = "response_captured" => wf[z].phase = "response_captured"
  /\ wf'[z].status = "running" =>
       /\ wf[z].status = "running"
       /\ wf'[z].phase = wf[z].phase \/ wf[z].result = 0
  /\ wf'[z].status = "succeeded" =>
       wf[z].status = "succeeded" \/ pc[z] \in Past

(* What a step makes of a workflow.                                        *)
Moved(z) ==
  \/ wf'[z] = wf[z]
  \/ /\ wf[z] = None /\ wf'[z] \in Workflow /\ pc'[z] = "begin"
     /\ wf'[z].status = "running" /\ wf'[z].phase = "browser_owned"
     /\ wf'[z].result = 0
  \/ /\ wf[z] \in Workflow /\ wf'[z] \in Workflow
     /\ \/ Kept(z)
        \/ /\ wf'[z].status = wf[z].status /\ wf'[z].phase = wf[z].phase
           /\ wf[z].result = 0 /\ wf'[z].result = 0 /\ pc'[z] = "retry"
        \/ /\ wf'[z].status = wf[z].status
           /\ wf'[z].phase = "response_captured"
           /\ wf[z].status # "succeeded"
           /\ wf'[z].before = wf[z].before
           /\ wf'[z].result = wf[z].before + 2
           /\ pc[z] \in Storing /\ pc'[z] \in Committing

(* A workflow is started, is anchored again or gets its result, or keeps   *)
(* both.                                                                   *)
LEMMA WorkflowFrom ==
  TypeOK /\ Admission /\ Results /\ [Next]_vars =>
    \A z \in Exchange : Moved(z)
<1> SUFFICES ASSUME TypeOK, Admission, Results, [Next]_vars,
                    NEW z \in Exchange
             PROVE  Moved(z)
  OBVIOUS
<1> USE NoneAssumption DEF Moved, store, Kept
<1>1. ASSUME NEW e \in Exchange, RecordAbsent(e) PROVE Moved(z)
  <2>1. pc[e] \in Early
    BY <1>1 DEF RecordAbsent, Early
  <2>2. ResultOf(e)
    BY DEF Results
  <2>3. wf[e] \in Workflow
    BY <1>1, RecordAbsentWrites
  <2>4. wf[e].result = 0
    BY <2>1, <2>2, <2>3, NoneAssumption DEF ResultOf
  <2> QED BY <1>1, <2>4, RecordAbsentWrites
<1>2. ASSUME NEW e \in Exchange, RecordReanchor(e) PROVE Moved(z)
  <2>1. pc[e] \in Early
    BY <1>2 DEF RecordReanchor, Early
  <2>2. ResultOf(e)
    BY DEF Results
  <2>3. wf[e] \in Workflow
    BY <1>2, RecordReanchorWrites
  <2>4. wf[e].result = 0
    BY <2>1, <2>2, <2>3, NoneAssumption DEF ResultOf
  <2> QED BY <1>2, <2>4, RecordReanchorWrites DEF RecordReanchor, Goto, TypeOK
<1>3. ASSUME NEW e \in Exchange, Store(e) PROVE Moved(z)
  BY <1>3, StoreWrites DEF Store, Running, Goto, TypeOK, Storing, Committing
<1>4. ASSUME NEW e \in Exchange, Succeed(e) PROVE Moved(z)
  BY <1>4, SucceedWrites DEF Succeed, Past
<1>5. ASSUME NEW e \in Exchange, Caught(e) PROVE Moved(z)
  <2>1. CASE UNCHANGED wf
    BY <2>1
  <2>2. CASE Running(e) /\ ~UNCHANGED wf
    <3>1. ResultOf(e)
      BY DEF Results
    <3>2. wf[e] \in Workflow
      BY <1>5, <2>2, CaughtWrites
    <3>3. wf[e].phase = "browser_owned"
      BY <1>5, <2>2, CaughtWrites DEF Caught
    <3>4. wf[e].result = 0
      BY <2>2, <3>1, <3>2, <3>3, NoneAssumption DEF ResultOf, Running, Workflow
    <3> QED BY <1>5, <2>2, <3>4, CaughtWrites
  <2> QED BY <1>5, <2>1, <2>2, CaughtWrites
<1>6. ASSUME NEW e \in Exchange, Stop(e) PROVE Moved(z)
  BY <1>6, StopWrites
<1>7. ASSUME NEW e \in Exchange, Sent(e) PROVE Moved(z)
  <2>1. CASE UNCHANGED wf
    BY <2>1
  <2>2. CASE Running(e) /\ ~UNCHANGED wf
    <3>1. ResultOf(e)
      BY DEF Results
    <3>2. wf[e] \in Workflow
      BY <1>7, <2>2, SentWrites
    <3>3. pc[e] \in Early
      BY <1>7, <2>2, SentWrites DEF Sent, DriverAt, Early
    <3>4. wf[e].result = 0
      BY <2>2, <3>1, <3>2, <3>3, NoneAssumption DEF ResultOf, Running, Workflow
    <3> QED BY <1>7, <2>2, <3>4, SentWrites
  <2> QED BY <1>7, <2>1, <2>2, SentWrites
<1>8. ASSUME NEW e \in Exchange, CapturePaused(e) PROVE Moved(z)
  BY <1>8, CapturePausedWrites
<1>9. ASSUME NEW e \in Exchange, LateStore(e) PROVE Moved(z)
  BY <1>9, LateStoreWrites DEF LateStore, Goto, TypeOK, Storing, Committing
<1>10. ASSUME NEW e \in Exchange, LateComplete(e) PROVE Moved(z)
  BY <1>10, LateCompleteWrites DEF LateComplete, Past
<1>11. ASSUME NEW e \in Exchange, Start(e) PROVE Moved(z)
  BY <1>11, StartWrites DEF Start, Goto, TypeOK
<1>12. ASSUME NEW e \in Exchange, CancelPersists(e) PROVE Moved(z)
  BY <1>12, CancelPersistsWrites
<1>13. ASSUME NEW e \in Exchange, AbandonPersists(e) PROVE Moved(z)
  BY <1>13, AbandonPersistsWrites
<1>14. ASSUME Restart PROVE Moved(z)
  <2>1. CASE wf'[z] = wf[z]
    BY <2>1
  <2>2. CASE wf'[z] # wf[z]
    <3>1. ResultOf(z)
      BY DEF Results
    <3>2. wf[z] \in Workflow /\ Running(z)
      BY <1>14, <2>2, RestartWrites
    <3>3. wf[z].phase = "browser_owned" => wf[z].result = 0
      BY <3>1, <3>2, NoneAssumption DEF ResultOf, Running, Workflow
    <3> QED BY <1>14, <2>2, <3>2, <3>3, RestartWrites DEF Running
  <2> QED BY <2>1, <2>2
<1>15. CASE UNCHANGED <<wf>>
  BY <1>15
<1>16. ASSUME NEW e \in Exchange, Runner(e) PROVE Moved(z)
  BY <1>16, <1>1, <1>2, <1>3, <1>4, <1>5, <1>6, <1>15 DEF Runner, Overtaken,
    Interrupted, Begin, ReadDelivered, ReadAbsent, Spawn, Retry, Capture,
    Commit, Finish, Rerun
<1>17. ASSUME NEW e \in Exchange, Driver(e) PROVE Moved(z)
  BY <1>17, <1>7, <1>15 DEF Driver, Check, RefuseGenerating, RefuseMarker,
    Reanchor, Fence, Click, Kill
<1>18. ASSUME NEW e \in Exchange, Fault(e) PROVE Moved(z)
  BY <1>18, <1>8, <1>15 DEF Fault, FailUnclicked, FailUnproven, LoseControl
<1>19. ASSUME NEW e \in Exchange, Late(e) PROVE Moved(z)
  BY <1>19, <1>9, <1>10, <1>15 DEF Late, LateRead, LateCommit
<1>20. ASSUME NEW e \in Exchange, User(e) PROVE Moved(z)
  BY <1>20, <1>11, <1>15 DEF User, Cancel, Abandon, Reconcile
<1>21. ASSUME NEW e \in Exchange, Writes(e) PROVE Moved(z)
  BY <1>21, <1>12, <1>13, <1>15 DEF Writes
<1> QED
  BY <1>14, <1>15, <1>16, <1>17, <1>18, <1>19, <1>20, <1>21 DEF Next, Reply,
    HumanSends, Crash, OrphanClicks, OrphanEnds, vars

(* A stored response is a result.                                          *)
LEMMA StoreGives ==
  ASSUME TypeOK, NEW e \in Exchange, Store(e)
  PROVE  wf'[e].result > 0
<1>1. wf[e] \in Workflow /\ wf'[e].result = wf[e].before + 2
  BY StoreWrites
<1>2. wf[e].before \in Nat
  BY <1>1 DEF Workflow
<1> QED BY <1>1, <1>2

(* So is one stored late.                                                  *)
LEMMA LateStoreGives ==
  ASSUME TypeOK, Admission, NEW e \in Exchange, LateStore(e),
         wf[e].status = "human_required"
  PROVE  wf'[e].result > 0
<1>1. wf[e] \in Workflow /\ wf' = [wf EXCEPT ![e] = CapturedLate(wf[e])]
  BY DEF LateStore, Admission, TypeOK
<1>2. wf'[e] = CapturedLate(wf[e]) /\ wf[e].before \in Nat
  BY <1>1 DEF Workflow, TypeOK
<1>3. wf'[e].result = wf[e].before + 2
  BY <1>1, <1>2, CapturedLateRecord
<1> QED BY <1>2, <1>3

(* Where a runner goes on from.                                            *)
PlaceOf(z) ==
  /\ pc'[z] \in Early =>
       pc[z] \in Early \/ (Running(z) /\ wf[z].phase # "response_captured")
  /\ pc'[z] \in Storing => pc[z] \in Storing \/ PairAt(wf[z].before, z)
  /\ pc'[z] \in Committing \cup Past =>
       \/ pc[z] \in Committing \cup Past
       \/ wf[z] # None /\ wf[z].phase = "response_captured"
       \/ wf'[z].result > 0
  /\ pc'[z] \in Past =>
       pc[z] \in Past \/ (UNCHANGED wf /\ head' = wf[z].result)

(* A runner gets to a place from the one before it.                        *)
LEMMA PlaceFollows ==
  TypeOK /\ Admission /\ Results /\ [Next]_vars =>
    \A z \in Exchange : PlaceOf(z)
<1> SUFFICES ASSUME TypeOK, Admission, Results, [Next]_vars,
                    NEW z \in Exchange
             PROVE  PlaceOf(z)
  OBVIOUS
<1> USE DEF TypeOK, PlaceOf, Early, Storing, Committing, Past, page, store,
    locks, users, runner, process, Goto, Fail, Spend, Leave, LateLeave
<1>1. ASSUME NEW e \in Exchange, Overtaken(e) PROVE PlaceOf(z)
  BY <1>1 DEF Overtaken
<1>2. ASSUME NEW e \in Exchange, Interrupted(e) PROVE PlaceOf(z)
  BY <1>2 DEF Interrupted
<1>3. ASSUME NEW e \in Exchange, Begin(e) PROVE PlaceOf(z)
  BY <1>3 DEF Begin, Running
<1>4. ASSUME NEW e \in Exchange, ReadDelivered(e) PROVE PlaceOf(z)
  <2>1. wf[e] # None /\ wf[e].before \in Nat /\ PairAt(wf[e].before, e)
    <3>1. PairAfter(wf[e].before, e) /\ wf[e] # None
      BY <1>4 DEF ReadDelivered, Running
    <3>2. wf[e].before \in Nat
      BY <3>1 DEF Workflow
    <3> QED BY <3>1, <3>2, PairIsSeen
  <2> QED BY <1>4, <2>1 DEF ReadDelivered
<1>5. ASSUME NEW e \in Exchange, ReadAbsent(e) PROVE PlaceOf(z)
  BY <1>5 DEF ReadAbsent
<1>6. ASSUME NEW e \in Exchange, RecordAbsent(e) PROVE PlaceOf(z)
  BY <1>6 DEF RecordAbsent
<1>7. ASSUME NEW e \in Exchange, Retry(e) PROVE PlaceOf(z)
  BY <1>7 DEF Retry
<1>8. ASSUME NEW e \in Exchange, RecordReanchor(e) PROVE PlaceOf(z)
  BY <1>8 DEF RecordReanchor
<1>9. ASSUME NEW e \in Exchange, Capture(e) PROVE PlaceOf(z)
  <2>1. wf[e] # None /\ wf[e].before \in Nat /\ PairAt(wf[e].before, e)
    <3>1. PairAfter(wf[e].before, e) /\ wf[e] # None
      BY <1>9 DEF Capture, Running
    <3>2. wf[e].before \in Nat
      BY <3>1 DEF Workflow
    <3> QED BY <3>1, <3>2, PairIsSeen
  <2> QED BY <1>9, <2>1 DEF Capture
<1>10. ASSUME NEW e \in Exchange, Store(e) PROVE PlaceOf(z)
  <2>1. CASE z = e
    <3>1. wf'[e].result > 0
      BY <1>10, StoreGives
    <3> QED BY <1>10, <2>1, <3>1 DEF Store
  <2>2. CASE z # e
    BY <1>10, <2>2 DEF Store
  <2> QED BY <2>1, <2>2
<1>11. ASSUME NEW e \in Exchange, Commit(e) PROVE PlaceOf(z)
  BY <1>11 DEF Commit
<1>12. ASSUME NEW e \in Exchange, Finish(e) PROVE PlaceOf(z)
  BY <1>12 DEF Finish
<1>13. ASSUME NEW e \in Exchange, Succeed(e) PROVE PlaceOf(z)
  BY <1>13 DEF Succeed
<1>14. ASSUME NEW e \in Exchange, Caught(e) PROVE PlaceOf(z)
  BY <1>14 DEF Caught
<1>15. ASSUME NEW e \in Exchange, Stop(e) PROVE PlaceOf(z)
  BY <1>15 DEF Stop
<1>16. ASSUME NEW e \in Exchange, Rerun(e) PROVE PlaceOf(z)
  BY <1>16 DEF Rerun
<1>17. ASSUME NEW e \in Exchange, RefuseGenerating(e) PROVE PlaceOf(z)
  BY <1>17 DEF RefuseGenerating, DriverAt
<1>18. ASSUME NEW e \in Exchange, RefuseMarker(e) PROVE PlaceOf(z)
  BY <1>18 DEF RefuseMarker, DriverAt
<1>19. ASSUME NEW e \in Exchange, Reanchor(e) PROVE PlaceOf(z)
  BY <1>19 DEF Reanchor, DriverAt
<1>20. ASSUME NEW e \in Exchange, Sent(e) PROVE PlaceOf(z)
  BY <1>20 DEF Sent, DriverAt
<1>21. ASSUME NEW e \in Exchange, Kill(e) PROVE PlaceOf(z)
  BY <1>21 DEF Kill
<1>22. ASSUME NEW e \in Exchange, CapturePaused(e) PROVE PlaceOf(z)
  BY <1>22 DEF CapturePaused
<1>23. ASSUME NEW e \in Exchange, FailUnclicked(e) PROVE PlaceOf(z)
  BY <1>23 DEF FailUnclicked, DriverAt
<1>24. ASSUME NEW e \in Exchange, FailUnproven(e) PROVE PlaceOf(z)
  BY <1>24 DEF FailUnproven, DriverAt
<1>25. ASSUME NEW e \in Exchange, LoseControl(e) PROVE PlaceOf(z)
  BY <1>25 DEF LoseControl, DriverAt
<1>26. ASSUME NEW e \in Exchange, LateRead(e) PROVE PlaceOf(z)
  <2>1. wf[e] # None /\ wf[e].before \in Nat
    BY <1>26 DEF LateRead, Admission, Workflow
  <2>2. PairAfter(wf[e].before, e) => PairAt(wf[e].before, e)
    BY <2>1, PairIsSeen
  <2> QED BY <1>26, <2>1, <2>2 DEF LateRead
<1>27. ASSUME NEW e \in Exchange, LateStore(e) PROVE PlaceOf(z)
  <2>1. CASE wf[e].status = "human_required" /\ z = e
    <3>1. wf'[e].result > 0
      BY <1>27, <2>1, LateStoreGives
    <3> QED BY <1>27, <2>1, <3>1 DEF LateStore
  <2>2. CASE ~(wf[e].status = "human_required" /\ z = e)
    BY <1>27, <2>2 DEF LateStore
  <2> QED BY <2>1, <2>2
<1>28. ASSUME NEW e \in Exchange, LateCommit(e) PROVE PlaceOf(z)
  BY <1>28 DEF LateCommit
<1>29. ASSUME NEW e \in Exchange, LateComplete(e) PROVE PlaceOf(z)
  BY <1>29 DEF LateComplete
<1>30. ASSUME NEW e \in Exchange, Start(e) PROVE PlaceOf(z)
  BY <1>30 DEF Start
<1>31. ASSUME NEW e \in Exchange, Reconcile(e) PROVE PlaceOf(z)
  BY <1>31 DEF Reconcile, LateCaptured
<1>32. ASSUME Crash PROVE PlaceOf(z)
  BY <1>32 DEF Crash
<1>33. ASSUME Restart PROVE PlaceOf(z)
  BY <1>33 DEF Restart, LeaseFree
<1>34. CASE UNCHANGED <<pc>>
  BY <1>34
<1> QED
  BY <1>1, <1>2, <1>3, <1>4, <1>5, <1>6, <1>7, <1>8, <1>9, <1>10, <1>11,
    <1>12, <1>13, <1>14, <1>15, <1>16, <1>17, <1>18, <1>19, <1>20, <1>21,
    <1>22, <1>23, <1>24, <1>25, <1>26, <1>27, <1>28, <1>29, <1>30, <1>31,
    <1>32, <1>33, <1>34 DEF Next, Runner, Driver, Fault, Late, User, Writes,
    Spawn, Check, Fence, Click, Cancel, Abandon, CancelPersists,
    AbandonPersists, Reply, HumanSends, OrphanClicks, OrphanEnds, vars

(* What stands behind the result of one exchange, step by step.            *)
LEMMA ResultOfStep ==
  ASSUME TypeOK, Admission, Results, [Next]_vars, NEW e \in Exchange,
         wf'[e] # None
  PROVE  ResultOf(e)'
<1>1. ResultOf(e) /\ PlaceOf(e)
  BY PlaceFollows DEF Results
<1>2. head \in Nat /\ head' \in Nat /\ head <= head'
  BY HeadNat, HeadFrom
<1>3. CASE wf'[e] = wf[e] \/ (wf[e] \in Workflow /\ wf'[e] \in Workflow /\ Kept(e))
  <2>1. /\ wf[e] \in Workflow /\ wf[e] # None
        /\ wf[e].before \in Nat /\ wf[e].result \in Nat
    BY <1>3, NoneAssumption DEF TypeOK, Workflow
  <2>2. Kept(e)
    BY <1>3 DEF Kept
  <2>3. /\ wf'[e].before = wf[e].before /\ wf'[e].result = wf[e].result
        /\ wf[e].result \in {0, wf[e].before + 2}
    BY <1>1, <2>1, <2>2 DEF ResultOf, Kept
  <2>4. wf[e].result > 0 => PairStill(wf[e].before, e)
    BY <1>1, <2>1, PairStays DEF ResultOf
  <2>5. wf'[e].result > 0 /\ wf'[e].status = "running" =>
          wf'[e].phase = "response_captured"
    BY <1>1, <2>1, <2>2, <2>3 DEF ResultOf, Kept
  <2>6. wf'[e].phase = "response_captured" => wf'[e].result > 0
    BY <1>1, <2>1, <2>2, <2>3 DEF ResultOf, Kept
  <2>7. wf'[e].status = "succeeded" => 0 < wf'[e].result /\ wf'[e].result <= head'
    <3>1. wf[e].status = "succeeded" \/ pc[e] \in Past =>
            0 < wf[e].result /\ wf[e].result <= head
      BY <1>1, <2>1 DEF ResultOf
    <3>2. wf'[e].status = "succeeded" => 0 < wf[e].result /\ wf[e].result <= head
      BY <2>2, <3>1, <1>3 DEF Kept
    <3> QED BY <1>2, <2>1, <2>3, <3>2
  <2>8. pc'[e] \in Early => wf'[e].result = 0
    <3>1. Running(e) /\ wf[e].phase # "response_captured" => wf[e].result = 0
      BY <1>1, <2>1 DEF ResultOf, Running
    <3> QED BY <1>1, <2>1, <2>3, <3>1 DEF ResultOf, PlaceOf
  <2>9. pc'[e] \in Storing => PairStill(wf[e].before, e)
    <3>1. pc'[e] \in Storing => PairAt(wf[e].before, e)
      BY <1>1, <2>1 DEF ResultOf, PlaceOf
    <3> QED BY <2>1, <3>1, PairStays
  <2>10. pc'[e] \in Committing \cup Past => wf'[e].result > 0
    BY <1>1, <2>1, <2>3 DEF ResultOf, PlaceOf
  <2>11. pc'[e] \in Past => wf'[e].result <= head'
    BY <1>1, <1>2, <2>1, <2>3 DEF ResultOf, PlaceOf
  <2> QED BY <2>1, <2>3, <2>4, <2>5, <2>6, <2>7, <2>8, <2>9, <2>10, <2>11
      DEF ResultOf, PairAt, PairStill
<1>4. CASE pc'[e] = "begin" /\ wf'[e] \in Workflow /\ wf'[e].status = "running"
           /\ wf'[e].phase = "browser_owned" /\ wf'[e].result = 0
  BY <1>4 DEF ResultOf, Early, Storing, Committing, Past
<1>5. CASE /\ wf[e] \in Workflow /\ wf'[e] \in Workflow
           /\ wf'[e].status = wf[e].status /\ wf'[e].phase = wf[e].phase
           /\ wf[e].result = 0 /\ wf'[e].result = 0 /\ pc'[e] = "retry"
  <2>1. wf[e].phase # "response_captured" /\ wf[e].status # "succeeded"
    BY <1>1, <1>5, NoneAssumption DEF ResultOf
  <2> QED BY <1>5, <2>1 DEF ResultOf, Early, Storing, Committing, Past
<1>6. CASE /\ wf[e] \in Workflow /\ wf'[e] \in Workflow
           /\ wf'[e].status = wf[e].status /\ wf'[e].phase = "response_captured"
           /\ wf[e].status # "succeeded"
           /\ wf'[e].before = wf[e].before
           /\ wf'[e].result = wf[e].before + 2
           /\ pc[e] \in Storing /\ pc'[e] \in Committing
  <2>1. wf[e].before \in Nat /\ PairAt(wf[e].before, e)
    BY <1>1, <1>6, NoneAssumption DEF ResultOf, Workflow
  <2>2. PairStill(wf[e].before, e)
    BY <2>1, PairStays
  <2>3. wf[e].before + 2 > 0
    BY <2>1
  <2> QED BY <1>6, <2>1, <2>2, <2>3
      DEF ResultOf, PairAt, PairStill, Early, Storing, Committing, Past
<1> QED BY <1>3, <1>4, <1>5, <1>6, WorkflowFrom DEF Moved

(* The same of every exchange.                                             *)
LEMMA ResultsStep ==
  TypeOK /\ Admission /\ Results /\ [Next]_vars => Results'
<1> SUFFICES ASSUME TypeOK, Admission, Results, [Next]_vars, NEW e \in Exchange
             PROVE  ResultOf(e)'
  BY DEF Results
<1>1. CASE wf'[e] # None
  BY <1>1, ResultOfStep
<1>2. CASE wf'[e] = None
  BY <1>2 DEF ResultOf
<1> QED BY <1>1, <1>2

-----------------------------------------------------------------------------
(* The bookkeeping of a step is well formed.                               *)
LEMMA LedgerTyped ==
  TypeOK /\ Admission /\ [Next]_vars => (committed \in Exchange \cup {None}
    /\ reconciled \in Exchange \cup {None})'
<1> SUFFICES ASSUME TypeOK, Admission, [Next]_vars
             PROVE  (committed \in Exchange \cup {None} /\ reconciled \in Exchange \cup {None})'
  OBVIOUS
<1> USE DEF TypeOK, page, store, locks, users, runner, process, Goto, Fail,
    Spend, Leave, LateLeave
<1>1. ASSUME NEW e \in Exchange, Commit(e)
      PROVE  (committed \in Exchange \cup {None} /\ reconciled \in Exchange \cup {None})'
  BY <1>1 DEF Commit
<1>2. ASSUME NEW e \in Exchange, LateCommit(e)
      PROVE  (committed \in Exchange \cup {None} /\ reconciled \in Exchange \cup {None})'
  BY <1>2 DEF LateCommit
<1>3. CASE UNCHANGED <<committed, reconciled>>
  BY <1>3
<1>4. ASSUME NEW e \in Exchange, Runner(e)
      PROVE  (committed \in Exchange \cup {None} /\ reconciled \in Exchange \cup {None})'
  BY <1>4, <1>1, <1>3 DEF Runner, Overtaken, Interrupted, Begin,
    ReadDelivered, ReadAbsent, RecordAbsent, Spawn, Retry, RecordReanchor,
    Capture, Store, Finish, Succeed, Caught, Stop, Rerun
<1>5. ASSUME NEW e \in Exchange, Driver(e)
      PROVE  (committed \in Exchange \cup {None} /\ reconciled \in Exchange \cup {None})'
  BY <1>5, <1>3 DEF Driver, Check, RefuseGenerating, RefuseMarker, Reanchor,
    Fence, Click, Sent, Kill
<1>6. ASSUME NEW e \in Exchange, Fault(e)
      PROVE  (committed \in Exchange \cup {None} /\ reconciled \in Exchange \cup {None})'
  BY <1>6, <1>3 DEF Fault, CapturePaused, FailUnclicked, FailUnproven,
    LoseControl
<1>7. ASSUME NEW e \in Exchange, Late(e)
      PROVE  (committed \in Exchange \cup {None} /\ reconciled \in Exchange \cup {None})'
  BY <1>7, <1>2, <1>3 DEF Late, LateRead, LateStore, LateComplete
<1>8. ASSUME NEW e \in Exchange, User(e)
      PROVE  (committed \in Exchange \cup {None} /\ reconciled \in Exchange \cup {None})'
  BY <1>8, <1>3 DEF User, Start, Cancel, Abandon, Reconcile
<1>9. ASSUME NEW e \in Exchange, Writes(e)
      PROVE  (committed \in Exchange \cup {None} /\ reconciled \in Exchange \cup {None})'
  BY <1>9, <1>3 DEF Writes, CancelPersists, AbandonPersists
<1> QED
  BY <1>3, <1>4, <1>5, <1>6, <1>7, <1>8, <1>9 DEF Next, Reply, HumanSends,
    Crash, Restart, OrphanClicks, OrphanEnds, vars

LEMMA ActiveTyped ==
  TypeOK /\ Admission /\ [Next]_vars => (active \in BOOLEAN)'
<1> SUFFICES ASSUME TypeOK, Admission, [Next]_vars PROVE (active \in BOOLEAN)'
  OBVIOUS
<1> USE DEF TypeOK, page, store, locks, users, runner, process, Goto, Fail,
    Spend, Leave, LateLeave
<1>1. ASSUME NEW e \in Exchange, Overtaken(e) PROVE (active \in BOOLEAN)'
  BY <1>1 DEF Overtaken
<1>2. ASSUME NEW e \in Exchange, Interrupted(e) PROVE (active \in BOOLEAN)'
  BY <1>2 DEF Interrupted
<1>3. ASSUME NEW e \in Exchange, Finish(e) PROVE (active \in BOOLEAN)'
  BY <1>3 DEF Finish
<1>4. ASSUME NEW e \in Exchange, Succeed(e) PROVE (active \in BOOLEAN)'
  BY <1>4 DEF Succeed
<1>5. ASSUME NEW e \in Exchange, Caught(e) PROVE (active \in BOOLEAN)'
  BY <1>5 DEF Caught
<1>6. ASSUME NEW e \in Exchange, Stop(e) PROVE (active \in BOOLEAN)'
  BY <1>6 DEF Stop
<1>7. ASSUME NEW e \in Exchange, Rerun(e) PROVE (active \in BOOLEAN)'
  BY <1>7 DEF Rerun
<1>8. ASSUME NEW e \in Exchange, Sent(e) PROVE (active \in BOOLEAN)'
  BY <1>8 DEF Sent, DriverAt
<1>9. ASSUME NEW e \in Exchange, Kill(e) PROVE (active \in BOOLEAN)'
  BY <1>9 DEF Kill
<1>10. ASSUME NEW e \in Exchange, CapturePaused(e) PROVE (active \in BOOLEAN)'
  BY <1>10 DEF CapturePaused
<1>11. ASSUME NEW e \in Exchange, LateRead(e) PROVE (active \in BOOLEAN)'
  BY <1>11 DEF LateRead
<1>12. ASSUME NEW e \in Exchange, LateStore(e) PROVE (active \in BOOLEAN)'
  BY <1>12 DEF LateStore
<1>13. ASSUME NEW e \in Exchange, LateCommit(e) PROVE (active \in BOOLEAN)'
  BY <1>13 DEF LateCommit
<1>14. ASSUME NEW e \in Exchange, LateComplete(e) PROVE (active \in BOOLEAN)'
  BY <1>14 DEF LateComplete
<1>15. ASSUME NEW e \in Exchange, Start(e) PROVE (active \in BOOLEAN)'
  BY <1>15 DEF Start
<1>16. ASSUME NEW e \in Exchange, Reconcile(e) PROVE (active \in BOOLEAN)'
  BY <1>16 DEF Reconcile
<1>17. ASSUME NEW e \in Exchange, AbandonPersists(e)
       PROVE  (active \in BOOLEAN)'
  BY <1>17 DEF AbandonPersists
<1>18. ASSUME Crash PROVE (active \in BOOLEAN)'
  BY <1>18 DEF Crash
<1>19. ASSUME Restart PROVE (active \in BOOLEAN)'
  BY <1>19 DEF Restart, LeaseFree
<1>20. CASE UNCHANGED <<active>>
  BY <1>20
<1>21. ASSUME NEW e \in Exchange, Runner(e) PROVE (active \in BOOLEAN)'
  BY <1>21, <1>1, <1>2, <1>3, <1>4, <1>5, <1>6, <1>7, <1>20 DEF Runner, Begin,
    ReadDelivered, ReadAbsent, RecordAbsent, Spawn, Retry, RecordReanchor,
    Capture, Store, Commit
<1>22. ASSUME NEW e \in Exchange, Driver(e) PROVE (active \in BOOLEAN)'
  BY <1>22, <1>8, <1>9, <1>20 DEF Driver, Check, RefuseGenerating,
    RefuseMarker, Reanchor, Fence, Click
<1>23. ASSUME NEW e \in Exchange, Fault(e) PROVE (active \in BOOLEAN)'
  BY <1>23, <1>10, <1>20 DEF Fault, FailUnclicked, FailUnproven, LoseControl
<1>24. ASSUME NEW e \in Exchange, Late(e) PROVE (active \in BOOLEAN)'
  BY <1>24, <1>11, <1>12, <1>13, <1>14, <1>20 DEF Late
<1>25. ASSUME NEW e \in Exchange, User(e) PROVE (active \in BOOLEAN)'
  BY <1>25, <1>15, <1>16, <1>20 DEF User, Cancel, Abandon
<1>26. ASSUME NEW e \in Exchange, Writes(e) PROVE (active \in BOOLEAN)'
  BY <1>26, <1>17, <1>20 DEF Writes, CancelPersists
<1> QED
  BY <1>18, <1>19, <1>20, <1>21, <1>22, <1>23, <1>24, <1>25, <1>26 DEF Next,
    Reply, HumanSends, OrphanClicks, OrphanEnds, vars

LEMMA UpTyped ==
  TypeOK /\ Admission /\ [Next]_vars => (up \in BOOLEAN)'
<1> SUFFICES ASSUME TypeOK, Admission, [Next]_vars PROVE (up \in BOOLEAN)'
  OBVIOUS
<1> USE DEF TypeOK, page, store, locks, users, runner, process, Goto, Fail,
    Spend, Leave, LateLeave
<1>1. ASSUME Crash PROVE (up \in BOOLEAN)'
  BY <1>1 DEF Crash
<1>2. ASSUME Restart PROVE (up \in BOOLEAN)'
  BY <1>2 DEF Restart, LeaseFree
<1>3. CASE UNCHANGED <<up>>
  BY <1>3
<1>4. ASSUME NEW e \in Exchange, Runner(e) PROVE (up \in BOOLEAN)'
  BY <1>4, <1>3 DEF Runner, Overtaken, Interrupted, Begin, ReadDelivered,
    ReadAbsent, RecordAbsent, Spawn, Retry, RecordReanchor, Capture, Store,
    Commit, Finish, Succeed, Caught, Stop, Rerun
<1>5. ASSUME NEW e \in Exchange, Driver(e) PROVE (up \in BOOLEAN)'
  BY <1>5, <1>3 DEF Driver, Check, RefuseGenerating, RefuseMarker, Reanchor,
    Fence, Click, Sent, Kill
<1>6. ASSUME NEW e \in Exchange, Fault(e) PROVE (up \in BOOLEAN)'
  BY <1>6, <1>3 DEF Fault, CapturePaused, FailUnclicked, FailUnproven,
    LoseControl
<1>7. ASSUME NEW e \in Exchange, Late(e) PROVE (up \in BOOLEAN)'
  BY <1>7, <1>3 DEF Late, LateRead, LateStore, LateCommit, LateComplete
<1>8. ASSUME NEW e \in Exchange, User(e) PROVE (up \in BOOLEAN)'
  BY <1>8, <1>3 DEF User, Start, Cancel, Abandon, Reconcile
<1>9. ASSUME NEW e \in Exchange, Writes(e) PROVE (up \in BOOLEAN)'
  BY <1>9, <1>3 DEF Writes, CancelPersists, AbandonPersists
<1> QED
  BY <1>1, <1>2, <1>3, <1>4, <1>5, <1>6, <1>7, <1>8, <1>9 DEF Next, Reply,
    HumanSends, OrphanClicks, OrphanEnds, vars

LEMMA AdmissionTyped ==
  TypeOK /\ Admission /\ [Next]_vars => (admission \subseteq Exchange)'
<1> SUFFICES ASSUME TypeOK, Admission, [Next]_vars
             PROVE  (admission \subseteq Exchange)'
  OBVIOUS
<1> USE DEF TypeOK, page, store, locks, users, runner, process, Goto, Fail,
    Spend, Leave, LateLeave
<1>1. ASSUME NEW e \in Exchange, Overtaken(e)
      PROVE  (admission \subseteq Exchange)'
  BY <1>1 DEF Overtaken
<1>2. ASSUME NEW e \in Exchange, Interrupted(e)
      PROVE  (admission \subseteq Exchange)'
  BY <1>2 DEF Interrupted
<1>3. ASSUME NEW e \in Exchange, Succeed(e)
      PROVE  (admission \subseteq Exchange)'
  BY <1>3 DEF Succeed
<1>4. ASSUME NEW e \in Exchange, Caught(e)
      PROVE  (admission \subseteq Exchange)'
  BY <1>4 DEF Caught
<1>5. ASSUME NEW e \in Exchange, Stop(e) PROVE (admission \subseteq Exchange)'
  BY <1>5 DEF Stop
<1>6. ASSUME NEW e \in Exchange, Sent(e) PROVE (admission \subseteq Exchange)'
  BY <1>6 DEF Sent, DriverAt
<1>7. ASSUME NEW e \in Exchange, Kill(e) PROVE (admission \subseteq Exchange)'
  BY <1>7 DEF Kill
<1>8. ASSUME NEW e \in Exchange, CapturePaused(e)
      PROVE  (admission \subseteq Exchange)'
  BY <1>8 DEF CapturePaused
<1>9. ASSUME NEW e \in Exchange, LateRead(e)
      PROVE  (admission \subseteq Exchange)'
  BY <1>9 DEF LateRead
<1>10. ASSUME NEW e \in Exchange, LateStore(e)
       PROVE  (admission \subseteq Exchange)'
  BY <1>10 DEF LateStore
<1>11. ASSUME NEW e \in Exchange, LateCommit(e)
       PROVE  (admission \subseteq Exchange)'
  BY <1>11 DEF LateCommit
<1>12. ASSUME NEW e \in Exchange, LateComplete(e)
       PROVE  (admission \subseteq Exchange)'
  BY <1>12 DEF LateComplete
<1>13. ASSUME NEW e \in Exchange, Start(e)
       PROVE  (admission \subseteq Exchange)'
  BY <1>13 DEF Start
<1>14. ASSUME NEW e \in Exchange, Reconcile(e)
       PROVE  (admission \subseteq Exchange)'
  BY <1>14 DEF Reconcile
<1>15. ASSUME NEW e \in Exchange, AbandonPersists(e)
       PROVE  (admission \subseteq Exchange)'
  BY <1>15 DEF AbandonPersists
<1>16. ASSUME Crash PROVE (admission \subseteq Exchange)'
  BY <1>16 DEF Crash
<1>17. ASSUME Restart PROVE (admission \subseteq Exchange)'
  BY <1>17, ZenonT(40) DEF Restart, LeaseFree
<1>18. CASE UNCHANGED <<admission>>
  BY <1>18
<1>19. ASSUME NEW e \in Exchange, Runner(e)
       PROVE  (admission \subseteq Exchange)'
  BY <1>19, <1>1, <1>2, <1>3, <1>4, <1>5, <1>18 DEF Runner, Begin,
    ReadDelivered, ReadAbsent, RecordAbsent, Spawn, Retry, RecordReanchor,
    Capture, Store, Commit, Finish, Rerun
<1>20. ASSUME NEW e \in Exchange, Driver(e)
       PROVE  (admission \subseteq Exchange)'
  BY <1>20, <1>6, <1>7, <1>18 DEF Driver, Check, RefuseGenerating,
    RefuseMarker, Reanchor, Fence, Click
<1>21. ASSUME NEW e \in Exchange, Fault(e)
       PROVE  (admission \subseteq Exchange)'
  BY <1>21, <1>8, <1>18 DEF Fault, FailUnclicked, FailUnproven, LoseControl
<1>22. ASSUME NEW e \in Exchange, Late(e) PROVE (admission \subseteq Exchange)'
  BY <1>22, <1>9, <1>10, <1>11, <1>12, <1>18 DEF Late
<1>23. ASSUME NEW e \in Exchange, User(e) PROVE (admission \subseteq Exchange)'
  BY <1>23, <1>13, <1>14, <1>18 DEF User, Cancel, Abandon
<1>24. ASSUME NEW e \in Exchange, Writes(e)
       PROVE  (admission \subseteq Exchange)'
  BY <1>24, <1>15, <1>18 DEF Writes, CancelPersists
<1> QED
  BY <1>16, <1>17, <1>18, <1>19, <1>20, <1>21, <1>22, <1>23, <1>24 DEF Next,
    Reply, HumanSends, OrphanClicks, OrphanEnds, vars

LEMMA ControllersTyped ==
  TypeOK /\ Admission /\ [Next]_vars => (controllers \subseteq Exchange
    /\ aborted \subseteq Exchange)'
<1> SUFFICES ASSUME TypeOK, Admission, [Next]_vars
             PROVE  (controllers \subseteq Exchange /\ aborted \subseteq Exchange)'
  OBVIOUS
<1> USE DEF TypeOK, page, store, locks, users, runner, process, Goto, Fail,
    Spend, Leave, LateLeave
<1>1. ASSUME NEW e \in Exchange, Overtaken(e)
      PROVE  (controllers \subseteq Exchange /\ aborted \subseteq Exchange)'
  BY <1>1 DEF Overtaken
<1>2. ASSUME NEW e \in Exchange, Interrupted(e)
      PROVE  (controllers \subseteq Exchange /\ aborted \subseteq Exchange)'
  BY <1>2 DEF Interrupted
<1>3. ASSUME NEW e \in Exchange, Finish(e)
      PROVE  (controllers \subseteq Exchange /\ aborted \subseteq Exchange)'
  BY <1>3 DEF Finish
<1>4. ASSUME NEW e \in Exchange, Succeed(e)
      PROVE  (controllers \subseteq Exchange /\ aborted \subseteq Exchange)'
  BY <1>4 DEF Succeed
<1>5. ASSUME NEW e \in Exchange, Caught(e)
      PROVE  (controllers \subseteq Exchange /\ aborted \subseteq Exchange)'
  BY <1>5 DEF Caught
<1>6. ASSUME NEW e \in Exchange, Stop(e)
      PROVE  (controllers \subseteq Exchange /\ aborted \subseteq Exchange)'
  BY <1>6 DEF Stop
<1>7. ASSUME NEW e \in Exchange, Rerun(e)
      PROVE  (controllers \subseteq Exchange /\ aborted \subseteq Exchange)'
  BY <1>7 DEF Rerun
<1>8. ASSUME NEW e \in Exchange, Sent(e)
      PROVE  (controllers \subseteq Exchange /\ aborted \subseteq Exchange)'
  BY <1>8 DEF Sent, DriverAt
<1>9. ASSUME NEW e \in Exchange, Kill(e)
      PROVE  (controllers \subseteq Exchange /\ aborted \subseteq Exchange)'
  BY <1>9 DEF Kill
<1>10. ASSUME NEW e \in Exchange, CapturePaused(e)
       PROVE  (controllers \subseteq Exchange /\ aborted \subseteq Exchange)'
  BY <1>10 DEF CapturePaused
<1>11. ASSUME NEW e \in Exchange, LateRead(e)
       PROVE  (controllers \subseteq Exchange /\ aborted \subseteq Exchange)'
  BY <1>11 DEF LateRead
<1>12. ASSUME NEW e \in Exchange, LateStore(e)
       PROVE  (controllers \subseteq Exchange /\ aborted \subseteq Exchange)'
  BY <1>12 DEF LateStore
<1>13. ASSUME NEW e \in Exchange, LateCommit(e)
       PROVE  (controllers \subseteq Exchange /\ aborted \subseteq Exchange)'
  BY <1>13 DEF LateCommit
<1>14. ASSUME NEW e \in Exchange, LateComplete(e)
       PROVE  (controllers \subseteq Exchange /\ aborted \subseteq Exchange)'
  BY <1>14 DEF LateComplete
<1>15. ASSUME NEW e \in Exchange, Start(e)
       PROVE  (controllers \subseteq Exchange /\ aborted \subseteq Exchange)'
  BY <1>15 DEF Start
<1>16. ASSUME NEW e \in Exchange, Cancel(e)
       PROVE  (controllers \subseteq Exchange /\ aborted \subseteq Exchange)'
  BY <1>16 DEF Cancel
<1>17. ASSUME NEW e \in Exchange, Reconcile(e)
       PROVE  (controllers \subseteq Exchange /\ aborted \subseteq Exchange)'
  BY <1>17 DEF Reconcile
<1>18. ASSUME NEW e \in Exchange, AbandonPersists(e)
       PROVE  (controllers \subseteq Exchange /\ aborted \subseteq Exchange)'
  BY <1>18 DEF AbandonPersists
<1>19. ASSUME Crash
       PROVE  (controllers \subseteq Exchange /\ aborted \subseteq Exchange)'
  BY <1>19 DEF Crash
<1>20. ASSUME Restart
       PROVE  (controllers \subseteq Exchange /\ aborted \subseteq Exchange)'
  BY <1>20, ZenonT(40) DEF Restart, LeaseFree
<1>21. CASE UNCHANGED <<controllers, aborted>>
  BY <1>21
<1> QED
  BY <1>1, <1>2, <1>3, <1>4, <1>5, <1>6, <1>7, <1>8, <1>9, <1>10, <1>11,
    <1>12, <1>13, <1>14, <1>15, <1>16, <1>17, <1>18, <1>19, <1>20, <1>21, ZenonT(40) DEF
    Next, Runner, Driver, Fault, Late, User, Writes, Begin, ReadDelivered,
    ReadAbsent, RecordAbsent, Spawn, Retry, RecordReanchor, Capture, Store,
    Commit, Check, RefuseGenerating, RefuseMarker, Reanchor, Fence, Click,
    FailUnclicked, FailUnproven, LoseControl, Abandon, CancelPersists, Reply,
    HumanSends, OrphanClicks, OrphanEnds, vars

LEMMA CancellingTyped ==
  TypeOK /\ Admission /\ [Next]_vars => (cancelling \subseteq Exchange)'
<1> SUFFICES ASSUME TypeOK, Admission, [Next]_vars
             PROVE  (cancelling \subseteq Exchange)'
  OBVIOUS
<1> USE DEF TypeOK, page, store, locks, users, runner, process, Goto, Fail,
    Spend, Leave, LateLeave
<1>1. ASSUME NEW e \in Exchange, Cancel(e)
      PROVE  (cancelling \subseteq Exchange)'
  BY <1>1 DEF Cancel
<1>2. ASSUME NEW e \in Exchange, CancelPersists(e)
      PROVE  (cancelling \subseteq Exchange)'
  BY <1>2 DEF CancelPersists
<1>3. ASSUME Crash PROVE (cancelling \subseteq Exchange)'
  BY <1>3 DEF Crash
<1>4. CASE UNCHANGED <<cancelling>>
  BY <1>4
<1>5. ASSUME NEW e \in Exchange, Runner(e)
      PROVE  (cancelling \subseteq Exchange)'
  BY <1>5, <1>4 DEF Runner, Overtaken, Interrupted, Begin, ReadDelivered,
    ReadAbsent, RecordAbsent, Spawn, Retry, RecordReanchor, Capture, Store,
    Commit, Finish, Succeed, Caught, Stop, Rerun
<1>6. ASSUME NEW e \in Exchange, Driver(e)
      PROVE  (cancelling \subseteq Exchange)'
  BY <1>6, <1>4 DEF Driver, Check, RefuseGenerating, RefuseMarker, Reanchor,
    Fence, Click, Sent, Kill
<1>7. ASSUME NEW e \in Exchange, Fault(e)
      PROVE  (cancelling \subseteq Exchange)'
  BY <1>7, <1>4 DEF Fault, CapturePaused, FailUnclicked, FailUnproven,
    LoseControl
<1>8. ASSUME NEW e \in Exchange, Late(e) PROVE (cancelling \subseteq Exchange)'
  BY <1>8, <1>4 DEF Late, LateRead, LateStore, LateCommit, LateComplete
<1>9. ASSUME NEW e \in Exchange, User(e) PROVE (cancelling \subseteq Exchange)'
  BY <1>9, <1>1, <1>4 DEF User, Start, Abandon, Reconcile
<1>10. ASSUME NEW e \in Exchange, Writes(e)
       PROVE  (cancelling \subseteq Exchange)'
  BY <1>10, <1>2, <1>4 DEF Writes, AbandonPersists
<1> QED
  BY <1>3, <1>4, <1>5, <1>6, <1>7, <1>8, <1>9, <1>10 DEF Next, Reply,
    HumanSends, Restart, OrphanClicks, OrphanEnds, vars

LEMMA AbandoningTyped ==
  TypeOK /\ Admission
    /\ [Next]_vars => (abandoning \in [Exchange -> Workflow \cup {None}])'
<1> SUFFICES ASSUME TypeOK, Admission, [Next]_vars
             PROVE  (abandoning \in [Exchange -> Workflow \cup {None}])'
  OBVIOUS
<1> USE DEF TypeOK, page, store, locks, users, runner, process, Goto, Fail,
    Spend, Leave, LateLeave
<1>1. ASSUME NEW e \in Exchange, Abandon(e)
      PROVE  (abandoning \in [Exchange -> Workflow \cup {None}])'
  BY <1>1 DEF Abandon
<1>2. ASSUME NEW e \in Exchange, AbandonPersists(e)
      PROVE  (abandoning \in [Exchange -> Workflow \cup {None}])'
  BY <1>2 DEF AbandonPersists
<1>3. ASSUME Crash PROVE (abandoning \in [Exchange -> Workflow \cup {None}])'
  BY <1>3 DEF Crash
<1>4. CASE UNCHANGED <<abandoning>>
  BY <1>4
<1>5. ASSUME NEW e \in Exchange, Runner(e)
      PROVE  (abandoning \in [Exchange -> Workflow \cup {None}])'
  BY <1>5, <1>4 DEF Runner, Overtaken, Interrupted, Begin, ReadDelivered,
    ReadAbsent, RecordAbsent, Spawn, Retry, RecordReanchor, Capture, Store,
    Commit, Finish, Succeed, Caught, Stop, Rerun
<1>6. ASSUME NEW e \in Exchange, Driver(e)
      PROVE  (abandoning \in [Exchange -> Workflow \cup {None}])'
  BY <1>6, <1>4 DEF Driver, Check, RefuseGenerating, RefuseMarker, Reanchor,
    Fence, Click, Sent, Kill
<1>7. ASSUME NEW e \in Exchange, Fault(e)
      PROVE  (abandoning \in [Exchange -> Workflow \cup {None}])'
  BY <1>7, <1>4 DEF Fault, CapturePaused, FailUnclicked, FailUnproven,
    LoseControl
<1>8. ASSUME NEW e \in Exchange, Late(e)
      PROVE  (abandoning \in [Exchange -> Workflow \cup {None}])'
  BY <1>8, <1>4 DEF Late, LateRead, LateStore, LateCommit, LateComplete
<1>9. ASSUME NEW e \in Exchange, User(e)
      PROVE  (abandoning \in [Exchange -> Workflow \cup {None}])'
  BY <1>9, <1>1, <1>4 DEF User, Start, Cancel, Reconcile
<1>10. ASSUME NEW e \in Exchange, Writes(e)
       PROVE  (abandoning \in [Exchange -> Workflow \cup {None}])'
  BY <1>10, <1>2, <1>4 DEF Writes, CancelPersists
<1> QED
  BY <1>3, <1>4, <1>5, <1>6, <1>7, <1>8, <1>9, <1>10 DEF Next, Reply,
    HumanSends, Restart, OrphanClicks, OrphanEnds, vars

LEMMA PlacesTyped ==
  TypeOK /\ Admission /\ [Next]_vars => (pc \in [Exchange -> Places])'
<1> SUFFICES ASSUME TypeOK, Admission, [Next]_vars
             PROVE  (pc \in [Exchange -> Places])'
  OBVIOUS
<1> USE DEF TypeOK, Places, page, store, locks, users, runner, process, Goto,
    Fail, Spend, Leave, LateLeave
<1>1. ASSUME NEW e \in Exchange, Overtaken(e)
      PROVE  (pc \in [Exchange -> Places])'
  BY <1>1 DEF Overtaken
<1>2. ASSUME NEW e \in Exchange, Interrupted(e)
      PROVE  (pc \in [Exchange -> Places])'
  BY <1>2 DEF Interrupted
<1>3. ASSUME NEW e \in Exchange, Begin(e) PROVE (pc \in [Exchange -> Places])'
  BY <1>3 DEF Begin
<1>4. ASSUME NEW e \in Exchange, ReadDelivered(e)
      PROVE  (pc \in [Exchange -> Places])'
  BY <1>4 DEF ReadDelivered
<1>5. ASSUME NEW e \in Exchange, ReadAbsent(e)
      PROVE  (pc \in [Exchange -> Places])'
  BY <1>5 DEF ReadAbsent
<1>6. ASSUME NEW e \in Exchange, RecordAbsent(e)
      PROVE  (pc \in [Exchange -> Places])'
  BY <1>6 DEF RecordAbsent
<1>7. ASSUME NEW e \in Exchange, Retry(e) PROVE (pc \in [Exchange -> Places])'
  BY <1>7 DEF Retry
<1>8. ASSUME NEW e \in Exchange, RecordReanchor(e)
      PROVE  (pc \in [Exchange -> Places])'
  BY <1>8 DEF RecordReanchor
<1>9. ASSUME NEW e \in Exchange, Capture(e)
      PROVE  (pc \in [Exchange -> Places])'
  BY <1>9 DEF Capture
<1>10. ASSUME NEW e \in Exchange, Store(e) PROVE (pc \in [Exchange -> Places])'
  BY <1>10 DEF Store
<1>11. ASSUME NEW e \in Exchange, Commit(e)
       PROVE  (pc \in [Exchange -> Places])'
  BY <1>11 DEF Commit
<1>12. ASSUME NEW e \in Exchange, Finish(e)
       PROVE  (pc \in [Exchange -> Places])'
  BY <1>12 DEF Finish
<1>13. ASSUME NEW e \in Exchange, Succeed(e)
       PROVE  (pc \in [Exchange -> Places])'
  BY <1>13 DEF Succeed
<1>14. ASSUME NEW e \in Exchange, Caught(e)
       PROVE  (pc \in [Exchange -> Places])'
  BY <1>14 DEF Caught
<1>15. ASSUME NEW e \in Exchange, Stop(e) PROVE (pc \in [Exchange -> Places])'
  BY <1>15 DEF Stop
<1>16. ASSUME NEW e \in Exchange, Rerun(e) PROVE (pc \in [Exchange -> Places])'
  BY <1>16 DEF Rerun
<1>17. ASSUME NEW e \in Exchange, RefuseGenerating(e)
       PROVE  (pc \in [Exchange -> Places])'
  BY <1>17 DEF RefuseGenerating, DriverAt
<1>18. ASSUME NEW e \in Exchange, RefuseMarker(e)
       PROVE  (pc \in [Exchange -> Places])'
  BY <1>18 DEF RefuseMarker, DriverAt
<1>19. ASSUME NEW e \in Exchange, Reanchor(e)
       PROVE  (pc \in [Exchange -> Places])'
  BY <1>19 DEF Reanchor, DriverAt
<1>20. ASSUME NEW e \in Exchange, Sent(e) PROVE (pc \in [Exchange -> Places])'
  BY <1>20, ZenonT(40) DEF Sent, DriverAt
<1>21. ASSUME NEW e \in Exchange, Kill(e) PROVE (pc \in [Exchange -> Places])'
  BY <1>21 DEF Kill
<1>22. ASSUME NEW e \in Exchange, CapturePaused(e)
       PROVE  (pc \in [Exchange -> Places])'
  BY <1>22 DEF CapturePaused
<1>23. ASSUME NEW e \in Exchange, FailUnclicked(e)
       PROVE  (pc \in [Exchange -> Places])'
  BY <1>23 DEF FailUnclicked, DriverAt
<1>24. ASSUME NEW e \in Exchange, FailUnproven(e)
       PROVE  (pc \in [Exchange -> Places])'
  BY <1>24 DEF FailUnproven, DriverAt
<1>25. ASSUME NEW e \in Exchange, LoseControl(e)
       PROVE  (pc \in [Exchange -> Places])'
  BY <1>25 DEF LoseControl, DriverAt
<1>26. ASSUME NEW e \in Exchange, LateRead(e)
       PROVE  (pc \in [Exchange -> Places])'
  BY <1>26 DEF LateRead
<1>27. ASSUME NEW e \in Exchange, LateStore(e)
       PROVE  (pc \in [Exchange -> Places])'
  BY <1>27 DEF LateStore
<1>28. ASSUME NEW e \in Exchange, LateCommit(e)
       PROVE  (pc \in [Exchange -> Places])'
  BY <1>28 DEF LateCommit
<1>29. ASSUME NEW e \in Exchange, LateComplete(e)
       PROVE  (pc \in [Exchange -> Places])'
  BY <1>29 DEF LateComplete
<1>30. ASSUME NEW e \in Exchange, Start(e) PROVE (pc \in [Exchange -> Places])'
  BY <1>30 DEF Start
<1>31. ASSUME NEW e \in Exchange, Reconcile(e)
       PROVE  (pc \in [Exchange -> Places])'
  BY <1>31 DEF Reconcile
<1>32. ASSUME Crash PROVE (pc \in [Exchange -> Places])'
  BY <1>32 DEF Crash
<1>33. ASSUME Restart PROVE (pc \in [Exchange -> Places])'
  BY <1>33 DEF Restart, LeaseFree
<1>34. CASE UNCHANGED <<pc>>
  BY <1>34
<1> QED
  BY <1>1, <1>2, <1>3, <1>4, <1>5, <1>6, <1>7, <1>8, <1>9, <1>10, <1>11,
    <1>12, <1>13, <1>14, <1>15, <1>16, <1>17, <1>18, <1>19, <1>20, <1>21,
    <1>22, <1>23, <1>24, <1>25, <1>26, <1>27, <1>28, <1>29, <1>30, <1>31,
    <1>32, <1>33, <1>34 DEF Next, Runner, Driver, Fault, Late, User, Writes,
    Spawn, Check, Fence, Click, Cancel, Abandon, CancelPersists,
    AbandonPersists, Reply, HumanSends, OrphanClicks, OrphanEnds, vars

LEMMA ErrorTyped ==
  TypeOK /\ Admission
    /\ [Next]_vars => (error \in [Exchange -> {"none", "recoverable", "final", "human only"}])'
<1> SUFFICES ASSUME TypeOK, Admission, [Next]_vars
             PROVE  (error \in [Exchange -> {"none", "recoverable", "final", "human only"}])'
  OBVIOUS
<1> USE DEF TypeOK, page, store, locks, users, runner, process, Goto, Fail,
    Spend, Leave, LateLeave
<1>1. ASSUME NEW e \in Exchange, Overtaken(e)
      PROVE  (error \in [Exchange -> {"none", "recoverable", "final", "human only"}])'
  BY <1>1 DEF Overtaken
<1>2. ASSUME NEW e \in Exchange, Interrupted(e)
      PROVE  (error \in [Exchange -> {"none", "recoverable", "final", "human only"}])'
  BY <1>2 DEF Interrupted
<1>3. ASSUME NEW e \in Exchange, Commit(e)
      PROVE  (error \in [Exchange -> {"none", "recoverable", "final", "human only"}])'
  BY <1>3 DEF Commit
<1>4. ASSUME NEW e \in Exchange, Succeed(e)
      PROVE  (error \in [Exchange -> {"none", "recoverable", "final", "human only"}])'
  BY <1>4 DEF Succeed
<1>5. ASSUME NEW e \in Exchange, Caught(e)
      PROVE  (error \in [Exchange -> {"none", "recoverable", "final", "human only"}])'
  BY <1>5 DEF Caught
<1>6. ASSUME NEW e \in Exchange, Stop(e)
      PROVE  (error \in [Exchange -> {"none", "recoverable", "final", "human only"}])'
  BY <1>6 DEF Stop
<1>7. ASSUME NEW e \in Exchange, RefuseMarker(e)
      PROVE  (error \in [Exchange -> {"none", "recoverable", "final", "human only"}])'
  BY <1>7 DEF RefuseMarker, DriverAt
<1>8. ASSUME NEW e \in Exchange, Sent(e)
      PROVE  (error \in [Exchange -> {"none", "recoverable", "final", "human only"}])'
  BY <1>8 DEF Sent, DriverAt
<1>9. ASSUME NEW e \in Exchange, Kill(e)
      PROVE  (error \in [Exchange -> {"none", "recoverable", "final", "human only"}])'
  BY <1>9 DEF Kill
<1>10. ASSUME NEW e \in Exchange, CapturePaused(e)
       PROVE  (error \in [Exchange -> {"none", "recoverable", "final", "human only"}])'
  BY <1>10 DEF CapturePaused
<1>11. ASSUME NEW e \in Exchange, FailUnproven(e)
       PROVE  (error \in [Exchange -> {"none", "recoverable", "final", "human only"}])'
  BY <1>11 DEF FailUnproven, DriverAt
<1>12. ASSUME Crash
       PROVE  (error \in [Exchange -> {"none", "recoverable", "final", "human only"}])'
  BY <1>12 DEF Crash
<1>13. CASE UNCHANGED <<error>>
  BY <1>13
<1>14. ASSUME NEW e \in Exchange, Runner(e)
       PROVE  (error \in [Exchange -> {"none", "recoverable", "final", "human only"}])'
  BY <1>14, <1>1, <1>2, <1>3, <1>4, <1>5, <1>6, <1>13 DEF Runner, Begin,
    ReadDelivered, ReadAbsent, RecordAbsent, Spawn, Retry, RecordReanchor,
    Capture, Store, Finish, Rerun
<1>15. ASSUME NEW e \in Exchange, Driver(e)
       PROVE  (error \in [Exchange -> {"none", "recoverable", "final", "human only"}])'
  BY <1>15, <1>7, <1>8, <1>9, <1>13 DEF Driver, Check, RefuseGenerating,
    Reanchor, Fence, Click
<1>16. ASSUME NEW e \in Exchange, Fault(e)
       PROVE  (error \in [Exchange -> {"none", "recoverable", "final", "human only"}])'
  BY <1>16, <1>10, <1>11, <1>13 DEF Fault, FailUnclicked, LoseControl
<1>17. ASSUME NEW e \in Exchange, Late(e)
       PROVE  (error \in [Exchange -> {"none", "recoverable", "final", "human only"}])'
  BY <1>17, <1>13 DEF Late, LateRead, LateStore, LateCommit, LateComplete
<1>18. ASSUME NEW e \in Exchange, User(e)
       PROVE  (error \in [Exchange -> {"none", "recoverable", "final", "human only"}])'
  BY <1>18, <1>13 DEF User, Start, Cancel, Abandon, Reconcile
<1>19. ASSUME NEW e \in Exchange, Writes(e)
       PROVE  (error \in [Exchange -> {"none", "recoverable", "final", "human only"}])'
  BY <1>19, <1>13 DEF Writes, CancelPersists, AbandonPersists
<1> QED
  BY <1>12, <1>13, <1>14, <1>15, <1>16, <1>17, <1>18, <1>19 DEF Next, Reply,
    HumanSends, Restart, OrphanClicks, OrphanEnds, vars

LEMMA ChildrenTyped ==
  TypeOK /\ Admission /\ [Next]_vars => (driver \in Child \cup {None}
    /\ orphan \in Child \cup {None})'
<1> SUFFICES ASSUME TypeOK, Admission, [Next]_vars
             PROVE  (driver \in Child \cup {None} /\ orphan \in Child \cup {None})'
  OBVIOUS
<1> USE DEF TypeOK, Child, Stages, page, store, locks, users, runner, process,
    Goto, Fail, Spend, Leave, LateLeave
<1>1. ASSUME NEW e \in Exchange, Spawn(e)
      PROVE  (driver \in Child \cup {None} /\ orphan \in Child \cup {None})'
  BY <1>1 DEF Spawn
<1>2. ASSUME NEW e \in Exchange, Check(e)
      PROVE  (driver \in Child \cup {None} /\ orphan \in Child \cup {None})'
  BY <1>2 DEF Check, DriverAt
<1>3. ASSUME NEW e \in Exchange, RefuseGenerating(e)
      PROVE  (driver \in Child \cup {None} /\ orphan \in Child \cup {None})'
  BY <1>3 DEF RefuseGenerating, DriverAt
<1>4. ASSUME NEW e \in Exchange, RefuseMarker(e)
      PROVE  (driver \in Child \cup {None} /\ orphan \in Child \cup {None})'
  BY <1>4 DEF RefuseMarker, DriverAt
<1>5. ASSUME NEW e \in Exchange, Reanchor(e)
      PROVE  (driver \in Child \cup {None} /\ orphan \in Child \cup {None})'
  BY <1>5 DEF Reanchor, DriverAt
<1>6. ASSUME NEW e \in Exchange, Fence(e)
      PROVE  (driver \in Child \cup {None} /\ orphan \in Child \cup {None})'
  BY <1>6 DEF Fence, DriverAt
<1>7. ASSUME NEW e \in Exchange, Click(e)
      PROVE  (driver \in Child \cup {None} /\ orphan \in Child \cup {None})'
  BY <1>7 DEF Click, DriverAt
<1>8. ASSUME NEW e \in Exchange, Sent(e)
      PROVE  (driver \in Child \cup {None} /\ orphan \in Child \cup {None})'
  BY <1>8 DEF Sent, DriverAt
<1>9. ASSUME NEW e \in Exchange, Kill(e)
      PROVE  (driver \in Child \cup {None} /\ orphan \in Child \cup {None})'
  BY <1>9 DEF Kill
<1>10. ASSUME NEW e \in Exchange, FailUnclicked(e)
       PROVE  (driver \in Child \cup {None} /\ orphan \in Child \cup {None})'
  BY <1>10 DEF FailUnclicked, DriverAt
<1>11. ASSUME NEW e \in Exchange, FailUnproven(e)
       PROVE  (driver \in Child \cup {None} /\ orphan \in Child \cup {None})'
  BY <1>11 DEF FailUnproven, DriverAt
<1>12. ASSUME NEW e \in Exchange, LoseControl(e)
       PROVE  (driver \in Child \cup {None} /\ orphan \in Child \cup {None})'
  BY <1>12 DEF LoseControl, DriverAt
<1>13. ASSUME Crash
       PROVE  (driver \in Child \cup {None} /\ orphan \in Child \cup {None})'
  BY <1>13 DEF Crash
<1>14. ASSUME OrphanClicks
       PROVE  (driver \in Child \cup {None} /\ orphan \in Child \cup {None})'
  BY <1>14 DEF OrphanClicks
<1>15. ASSUME OrphanEnds
       PROVE  (driver \in Child \cup {None} /\ orphan \in Child \cup {None})'
  BY <1>15 DEF OrphanEnds
<1>16. CASE UNCHANGED <<driver, orphan>>
  BY <1>16
<1>17. ASSUME NEW e \in Exchange, Runner(e)
       PROVE  (driver \in Child \cup {None} /\ orphan \in Child \cup {None})'
  BY <1>17, <1>1, <1>16 DEF Runner, Overtaken, Interrupted, Begin,
    ReadDelivered, ReadAbsent, RecordAbsent, Retry, RecordReanchor, Capture,
    Store, Commit, Finish, Succeed, Caught, Stop, Rerun
<1>18. ASSUME NEW e \in Exchange, Driver(e)
       PROVE  (driver \in Child \cup {None} /\ orphan \in Child \cup {None})'
  BY <1>18, <1>2, <1>3, <1>4, <1>5, <1>6, <1>7, <1>8, <1>9, <1>16 DEF Driver
<1>19. ASSUME NEW e \in Exchange, Fault(e)
       PROVE  (driver \in Child \cup {None} /\ orphan \in Child \cup {None})'
  BY <1>19, <1>10, <1>11, <1>12, <1>16 DEF Fault, CapturePaused
<1>20. ASSUME NEW e \in Exchange, Late(e)
       PROVE  (driver \in Child \cup {None} /\ orphan \in Child \cup {None})'
  BY <1>20, <1>16 DEF Late, LateRead, LateStore, LateCommit, LateComplete
<1>21. ASSUME NEW e \in Exchange, User(e)
       PROVE  (driver \in Child \cup {None} /\ orphan \in Child \cup {None})'
  BY <1>21, <1>16 DEF User, Start, Cancel, Abandon, Reconcile
<1>22. ASSUME NEW e \in Exchange, Writes(e)
       PROVE  (driver \in Child \cup {None} /\ orphan \in Child \cup {None})'
  BY <1>22, <1>16 DEF Writes, CancelPersists, AbandonPersists
<1> QED
  BY <1>13, <1>14, <1>15, <1>16, <1>17, <1>18, <1>19, <1>20, <1>21, <1>22 DEF
    Next, Reply, HumanSends, Restart, vars

(* A bound is spent down to zero.                                          *)
LEMMA SpendTyped ==
  ASSUME TypeOK,
         NEW what \in {"humans", "faults", "cancels", "crashes", "starts"},
         Spend(what)
  PROVE  left' \in Budget
<1>1. left \in Budget /\ left[what] > 0 /\ left' = [left EXCEPT ![what] = @ - 1]
  BY DEF TypeOK, Spend
<1>2. left[what] - 1 \in Nat
  BY <1>1 DEF Budget
<1> QED BY <1>1, <1>2 DEF Budget

LEMMA LeftTyped ==
  TypeOK /\ Admission /\ [Next]_vars => (left \in Budget)'
<1> SUFFICES ASSUME TypeOK, Admission, [Next]_vars PROVE (left \in Budget)'
  OBVIOUS
<1> USE DEF page, store, locks, users, runner, process, Goto, Fail, Leave,
    LateLeave
<1>1. ASSUME NEW e \in Exchange, CapturePaused(e) PROVE (left \in Budget)'
  BY <1>1, SpendTyped DEF CapturePaused
<1>2. ASSUME NEW e \in Exchange, FailUnclicked(e) PROVE (left \in Budget)'
  BY <1>2, SpendTyped DEF FailUnclicked, DriverAt
<1>3. ASSUME NEW e \in Exchange, FailUnproven(e) PROVE (left \in Budget)'
  BY <1>3, SpendTyped DEF FailUnproven, DriverAt
<1>4. ASSUME NEW e \in Exchange, LoseControl(e) PROVE (left \in Budget)'
  BY <1>4, SpendTyped DEF LoseControl, DriverAt
<1>5. ASSUME NEW e \in Exchange, Start(e) PROVE (left \in Budget)'
  BY <1>5, SpendTyped DEF Start
<1>6. ASSUME NEW e \in Exchange, Cancel(e) PROVE (left \in Budget)'
  BY <1>6, SpendTyped DEF Cancel
<1>7. ASSUME HumanSends PROVE (left \in Budget)'
  BY <1>7, SpendTyped DEF HumanSends
<1>8. ASSUME Crash PROVE (left \in Budget)'
  BY <1>8, SpendTyped DEF Crash
<1>9. CASE UNCHANGED <<left>>
  BY <1>9 DEF TypeOK
<1>10. ASSUME NEW e \in Exchange, Runner(e) PROVE (left \in Budget)'
  BY <1>10, <1>9 DEF Runner, Overtaken, Interrupted, Begin, ReadDelivered,
    ReadAbsent, RecordAbsent, Spawn, Retry, RecordReanchor, Capture, Store,
    Commit, Finish, Succeed, Caught, Stop, Rerun
<1>11. ASSUME NEW e \in Exchange, Driver(e) PROVE (left \in Budget)'
  BY <1>11, <1>9 DEF Driver, Check, RefuseGenerating, RefuseMarker, Reanchor,
    Fence, Click, Sent, Kill
<1>12. ASSUME NEW e \in Exchange, Fault(e) PROVE (left \in Budget)'
  BY <1>12, <1>1, <1>2, <1>3, <1>4, <1>9 DEF Fault
<1>13. ASSUME NEW e \in Exchange, Late(e) PROVE (left \in Budget)'
  BY <1>13, <1>9 DEF Late, LateRead, LateStore, LateCommit, LateComplete
<1>14. ASSUME NEW e \in Exchange, User(e) PROVE (left \in Budget)'
  BY <1>14, <1>5, <1>6, <1>9 DEF User, Abandon, Reconcile
<1>15. ASSUME NEW e \in Exchange, Writes(e) PROVE (left \in Budget)'
  BY <1>15, <1>9 DEF Writes, CancelPersists, AbandonPersists
<1> QED
  BY <1>7, <1>8, <1>9, <1>10, <1>11, <1>12, <1>13, <1>14, <1>15 DEF Next,
    Reply, Restart, OrphanClicks, OrphanEnds, vars

(* Every transition of the store maps the exchanges to workflows.          *)
LEMMA StoreIsMap ==
  TypeOK /\ Admission /\ [Next]_vars =>
    wf' = [g \in Exchange |-> wf'[g]]
<1> SUFFICES ASSUME TypeOK, Admission, [Next]_vars,
                    ~UNCHANGED wf
             PROVE  wf' = [g \in Exchange |-> wf'[g]]
  BY DEF TypeOK
<1> USE DEF TypeOK, store, Leave, LateLeave
<1>1. ASSUME NEW e \in Exchange, RecordAbsent(e)
      PROVE  wf' = [g \in Exchange |-> wf'[g]]
  BY <1>1 DEF RecordAbsent
<1>2. ASSUME NEW e \in Exchange, RecordReanchor(e)
      PROVE  wf' = [g \in Exchange |-> wf'[g]]
  BY <1>2 DEF RecordReanchor
<1>3. ASSUME NEW e \in Exchange, Store(e)
      PROVE  wf' = [g \in Exchange |-> wf'[g]]
  BY <1>3 DEF Store
<1>4. ASSUME NEW e \in Exchange, Succeed(e)
      PROVE  wf' = [g \in Exchange |-> wf'[g]]
  BY <1>4 DEF Succeed
<1>5. ASSUME NEW e \in Exchange, Caught(e)
      PROVE  wf' = [g \in Exchange |-> wf'[g]]
  BY <1>5 DEF Caught
<1>6. ASSUME NEW e \in Exchange, Stop(e)
      PROVE  wf' = [g \in Exchange |-> wf'[g]]
  BY <1>6 DEF Stop
<1>7. ASSUME NEW e \in Exchange, Sent(e)
      PROVE  wf' = [g \in Exchange |-> wf'[g]]
  BY <1>7 DEF Sent, DriverAt
<1>8. ASSUME NEW e \in Exchange, CapturePaused(e)
      PROVE  wf' = [g \in Exchange |-> wf'[g]]
  BY <1>8 DEF CapturePaused
<1>9. ASSUME NEW e \in Exchange, LateStore(e)
      PROVE  wf' = [g \in Exchange |-> wf'[g]]
  BY <1>9 DEF LateStore
<1>10. ASSUME NEW e \in Exchange, LateComplete(e)
       PROVE  wf' = [g \in Exchange |-> wf'[g]]
  BY <1>10 DEF LateComplete
<1>11. ASSUME NEW e \in Exchange, Start(e)
       PROVE  wf' = [g \in Exchange |-> wf'[g]]
  BY <1>11 DEF Start
<1>12. ASSUME NEW e \in Exchange, CancelPersists(e)
       PROVE  wf' = [g \in Exchange |-> wf'[g]]
  BY <1>12 DEF CancelPersists
<1>13. ASSUME NEW e \in Exchange, AbandonPersists(e)
       PROVE  wf' = [g \in Exchange |-> wf'[g]]
  BY <1>13 DEF AbandonPersists
<1>14. ASSUME Restart PROVE wf' = [g \in Exchange |-> wf'[g]]
  BY <1>14 DEF Restart, LeaseFree, CanAdmit
<1>15. CASE UNCHANGED <<wf>>
  BY <1>15
<1>16. ASSUME NEW e \in Exchange, Runner(e)
       PROVE  wf' = [g \in Exchange |-> wf'[g]]
  BY <1>16, <1>1, <1>2, <1>3, <1>4, <1>5, <1>6, <1>15 DEF Runner, Overtaken,
    Interrupted, Begin, ReadDelivered, ReadAbsent, Spawn, Retry, Capture,
    Commit, Finish, Rerun
<1>17. ASSUME NEW e \in Exchange, Driver(e)
       PROVE  wf' = [g \in Exchange |-> wf'[g]]
  BY <1>17, <1>7, <1>15 DEF Driver, Check, RefuseGenerating, RefuseMarker,
    Reanchor, Fence, Click, Kill
<1>18. ASSUME NEW e \in Exchange, Fault(e)
       PROVE  wf' = [g \in Exchange |-> wf'[g]]
  BY <1>18, <1>8, <1>15 DEF Fault, FailUnclicked, FailUnproven, LoseControl
<1>19. ASSUME NEW e \in Exchange, Late(e)
       PROVE  wf' = [g \in Exchange |-> wf'[g]]
  BY <1>19, <1>9, <1>10, <1>15 DEF Late, LateRead, LateCommit
<1>20. ASSUME NEW e \in Exchange, User(e)
       PROVE  wf' = [g \in Exchange |-> wf'[g]]
  BY <1>20, <1>11, <1>15 DEF User, Cancel, Abandon, Reconcile
<1>21. ASSUME NEW e \in Exchange, Writes(e)
       PROVE  wf' = [g \in Exchange |-> wf'[g]]
  BY <1>21, <1>12, <1>13, <1>15 DEF Writes
<1> QED
  BY <1>14, <1>15, <1>16, <1>17, <1>18, <1>19, <1>20, <1>21 DEF Next, Reply,
    HumanSends, Crash, OrphanClicks, OrphanEnds, vars

(* Every step keeps the state well formed.                                 *)
LEMMA TypeStep ==
  TypeOK /\ Admission /\ Results /\ [Next]_vars => TypeOK'
<1> SUFFICES ASSUME TypeOK, Admission, Results, [Next]_vars PROVE TypeOK'
  OBVIOUS
<1>1. \A e \in Exchange : wf'[e] \in Workflow \cup {None}
  <2> TAKE e \in Exchange
  <2>1. wf[e] \in Workflow \cup {None}
    BY DEF TypeOK
  <2> QED BY <2>1, WorkflowFrom DEF Moved
<1>2. wf' \in [Exchange -> Workflow \cup {None}]
  BY <1>1, StoreIsMap
<1>3. head' \in 0..Len(conv')
  BY PageGrows, HeadNat, HeadFrom
<1> QED
  BY <1>2, <1>3, PageGrows, LedgerTyped, ActiveTyped, UpTyped, AdmissionTyped,
     ControllersTyped, CancellingTyped, AbandoningTyped, PlacesTyped, ErrorTyped,
     ChildrenTyped, LeftTyped DEF TypeOK

-----------------------------------------------------------------------------
(* The inductive invariant holds at first.                                 *)
LEMMA InitIInv == Init => IInv
<1> SUFFICES ASSUME Init PROVE IInv
  OBVIOUS
<1>1. conv = <<>> /\ Len(conv) = 0 /\ conv \in Seq(Message) /\ DOMAIN conv = {}
  BY EmptySeq, LenProperties DEF Init
<1>2. TypeOK
  <2>1. left \in Budget
    BY ExchangeAssumption DEF Init
  <2>2. conv \in Seq(Message) /\ head \in 0..Len(conv)
    BY <1>1 DEF Init
  <2>3. /\ wf \in [Exchange -> Workflow \cup {None}]
        /\ abandoning \in [Exchange -> Workflow \cup {None}]
        /\ pc \in [Exchange -> Places]
        /\ error \in [Exchange -> {"none", "recoverable", "final", "human only"}]
    BY DEF Init, Places
  <2> QED BY <2>1, <2>2, <2>3 DEF Init, TypeOK
<1>3. \A e \in Exchange : Deliveries(e) = {} /\ ~Running(e) /\ wf[e] = None
  BY <1>1 DEF Init, Deliveries, Running
<1>4. Down /\ Looked /\ Once /\ RunsAlone
  BY <1>3 DEF Init, Down, Looked, Unclicked, AbsentIsTrue, Delivered, Once,
     RunsAlone
<1>5. Admission /\ Results
  BY <1>3 DEF Init, Admission, LatePlaces, Results, ResultOf
<1> QED BY <1>2, <1>4, <1>5 DEF IInv

(* Every step keeps it.                                                    *)
LEMMA NextIInv == IInv /\ [Next]_vars => IInv'
BY DownStep, LookedStep, OnceStep, AdmissionStep, AloneStep, ResultsStep,
   TypeStep
   DEF IInv

(* So it always holds.                                                     *)
LEMMA Invariance == Spec => []IInv
BY InitIInv, NextIInv, PTL DEF Spec

(* The marker of an exchange is on the page at most once, whatever fails,  *)
(* is retried, crashes or is restarted, and it is taken to be absent only  *)
(* where it is (recoverBrowserOwnedAfterRestart, the driver's look).       *)
THEOREM SentAtMostOnce == Spec => []SentOnce
<1>1. IInv => SentOnce
  <2> SUFFICES ASSUME IInv, NEW e \in Exchange
               PROVE  Cardinality(Deliveries(e)) <= 1
    BY DEF IInv, Looked, SentOnce, AtMostOnce
  <2>1. CASE Deliveries(e) = {}
    BY <2>1, FS_EmptySet
  <2>2. CASE Deliveries(e) # {}
    <3>1. PICK i \in Deliveries(e) : TRUE
      BY <2>2
    <3>2. Deliveries(e) = {i}
      BY <3>1 DEF IInv, Once
    <3> QED BY <3>2, FS_Singleton
  <2> QED BY <2>1, <2>2
<1> QED BY <1>1, Invariance, PTL

(* A durable result is the exchange's own prompt with the answer to it,    *)
(* and a succeeded exchange has its pair under the binding's checkpoint.   *)
THEOREM ResultsStayOwn == Spec => []ResultsAreOwn
<1>1. IInv => ResultsAreOwn
  <2> SUFFICES ASSUME IInv PROVE ResultsAreOwn
    OBVIOUS
  <2>1. TypeOK /\ Len(conv) \in Nat /\ head \in Nat
    BY HeadNat DEF IInv
  <2>2. ASSUME NEW e \in Exchange, wf[e] # None, wf[e].result > 0
        PROVE  /\ wf[e].result <= Len(conv)
               /\ conv[wf[e].result - 1] = Prompt(e)
               /\ conv[wf[e].result] = Answer(e)
    <3>1. ResultOf(e)
      BY DEF IInv, Results
    <3>2. wf[e].before \in Nat
      BY <2>1, <2>2 DEF TypeOK, Workflow
    <3>3. wf[e].result = wf[e].before + 2 /\ PairAt(wf[e].before, e)
      BY <2>2, <3>1, <3>2 DEF ResultOf
    <3>4. wf[e].result - 1 = wf[e].before + 1
      BY <3>2, <3>3
    <3> QED BY <3>3, <3>4 DEF PairAt
  <2>3. SucceededIsCovered
    BY DEF IInv, Results, ResultOf, SucceededIsCovered
  <2> QED BY <2>1, <2>2, <2>3 DEF ResultsAreOwn, ResultAttributable
<1> QED BY <1>1, Invariance, PTL

(* A workflow of the binding starts, or is started again by a new broker,  *)
(* only where no other one runs (#reserveTaskSpaceAdmission).              *)
THEOREM OneExchangeRuns == Spec => []RunsAlone
BY Invariance, PTL DEF IInv

(* The checkpoint never goes back over messages it covered: a commit       *)
(* replaces the anchor by the end of the pair after it, and a re-anchoring *)
(* goes to the end of a page that only grows.                              *)
THEOREM CheckpointAdvances == Spec => HeadAdvances
<1>1. IInv /\ [Next]_vars => [head' >= head]_head
  <2> SUFFICES ASSUME IInv, [Next]_vars PROVE head' >= head
    OBVIOUS
  <2> QED BY HeadFrom, HeadNat DEF IInv
<1> QED BY <1>1, Invariance, PTL DEF Spec, HeadAdvances

=============================================================================
