---------------------------- MODULE Continuation ----------------------------
(***************************************************************************)
(* A convergence that outlives its chat (broker.mjs with                   *)
(* conversation-continuation.mjs).  When the conversation is exhausted the *)
(* runner prepares one blank conversation, has the same candidate reviewed *)
(* there, and promotes it.  A person may do parts of this by hand, resume  *)
(* what was paused, cancel or abandon it; each write compares the record   *)
(* with the one it was decided on.                                         *)
(*                                                                         *)
(* "blank" is the successor preparation, "attempt" the successor review in *)
(* force, "paused" the review the checkpoint names.                        *)
(***************************************************************************)
EXTENDS Convergence

NextChat == wf.chat + 1
Intent   == Review(wf.cycle, NextChat, wf.attempt)

\* buildSuccessorPreparation: the provider itself said the chat is exhausted.
MayPrepare == /\ Exhausted(wf.paused) /\ wf.attempt = 0 /\ wf.chat < MaxChats
              /\ wf.phase \in {"successor_preparing", "continuation_paused"}

\* buildConvergenceResume: the pause is over, and its plan is gone.
Resumed(phase) == [wf EXCEPT !.status = "running", !.phase = phase,
                             !.paused = NoReview, !.blank = "none",
                             !.reason = "none"]

\* buildSuccessorPromotion.
Promoted == [Resumed("chatgpt_running") EXCEPT !.chat = NextChat,
                                               !.child = Intent, !.attempt = 0]

Handing == wf.status = "running" /\ wf.phase \in Successor

-----------------------------------------------------------------------------
(* The runner: #completeAutomaticSuccessor.                                  *)

\* The reservation is durable before the browser is asked, and says whether
\* this call may create the conversation.
Reserving == [wf EXCEPT !.blank = "dispatched"]

Reserve ==
  /\ run.pc = "start" /\ Handing /\ wf.phase = "successor_preparing"
  /\ MayPrepare
  /\ IF wf.blank = "prepared" THEN Goto("promise") /\ UNCHANGED wf
     ELSE /\ wf' = Reserving
          /\ run' = [run EXCEPT !.pc = "blank", !.create = wf.blank = "none"]
  /\ UNCHANGED <<external, left>>

\* What a failed preparation does: the runner stops, a caller is told.
Refused == IF Handing THEN Stop("successor_preparation_failed")
           ELSE Goto("off") /\ UNCHANGED wf

\* The adapter makes the conversation, or finds the one made before.
MakeBlank ==
  /\ run.pc = "blank"
  /\ \/ /\ run.create
        /\ spaces' = [spaces EXCEPT ![NextChat] = @ + 1]
        /\ \/ Goto("commit") /\ UNCHANGED <<wf, left>>
           \/ Refused /\ Spend("faults")
     \/ /\ run.create /\ Refused /\ Spend("faults") /\ UNCHANGED spaces
     \/ /\ ~run.create /\ UNCHANGED <<spaces, left>>
        /\ IF spaces[NextChat] = 1 THEN Goto("commit") /\ UNCHANGED wf
           ELSE Refused
  /\ UNCHANGED <<children, turns>>

CommitBlank ==
  /\ run.pc = "commit"
  /\ wf' = [wf EXCEPT !.blank = "prepared"]
  /\ Goto(IF Handing THEN "promise" ELSE "off")
  /\ UNCHANGED <<external, left>>

ReserveReview ==
  /\ run.pc = "promise" /\ Handing
  /\ wf' = [wf EXCEPT !.phase = "successor_reviewing", !.attempt = 1]
  /\ Goto("handoff")
  /\ UNCHANGED <<external, left>>

TakeUp ==
  /\ run.pc = "start" /\ Handing /\ wf.phase = "successor_reviewing"
  /\ Goto("handoff")
  /\ UNCHANGED <<wf, external, left>>

\* Mutant of Authorized: the parent is the one the runner remembers.
AuthorizedBefore == wf.attempt # 0

\* persistStarted refuses a child whose parent has changed.
Authorized == Handing /\ wf.phase = "successor_reviewing"

\* The write may land after a cancel that came while it was under way.
AskSuccessor ==
  /\ run.pc = "handoff"
  /\ IF Authorized THEN Attach(Intent, TRUE) /\ Goto("handed")
     ELSE Goto("off") /\ UNCHANGED children
  /\ UNCHANGED <<wf, spaces, turns, left>>

\* Mutant of Retryable: any failure of the first attempt is retried.
RetryableAlways == wf.attempt = 1 /\ Failed(Intent)

\* The one retry: only a first attempt that is proved unsent.
Retryable == wf.attempt = 1 /\ children[Intent].status = "presend"

SuccessorEnds ==
  /\ run.pc = "handed" /\ Handing
  /\ \/ /\ children[Intent].status = "succeeded"
        /\ wf' = Promoted /\ Goto("start")
     \/ /\ Retryable
        /\ wf' = [wf EXCEPT !.attempt = 2] /\ Goto("handoff")
     \/ /\ Failed(Intent) /\ ~Retryable
        /\ Stop("successor_review_incomplete")
  /\ UNCHANGED <<external, left>>

-----------------------------------------------------------------------------
(* A person: each call needs the runner gone (workflow_busy). *)

Idle == run.pc = "off" /\ Spend("acts")

IsPaused == wf.status = "human_required" /\ wf.phase = "continuation_paused"

\* resumeConvergence without a successor.
ResumeSame ==
  /\ Idle /\ IsPaused /\ wf.attempt = 0
  /\ wf.blank # "prepared" \/ ~Automatic
  /\ wf.paused \in DOMAIN children /\ children[wf.paused].status = "succeeded"
  /\ wf' = Resumed("chatgpt_running") /\ Goto("start")
  /\ UNCHANGED external

ResumePrepared ==
  /\ Idle /\ IsPaused /\ Automatic /\ MayPrepare /\ wf.blank = "prepared"
  /\ wf' = [wf EXCEPT !.status = "running", !.phase = "successor_preparing",
                      !.reason = "none"]
  /\ Goto("start")
  /\ UNCHANGED external

ResumePromoted ==
  /\ Idle /\ IsPaused /\ Automatic /\ wf.attempt # 0
  /\ Intent \in DOMAIN children /\ children[Intent].status = "succeeded"
  /\ wf' = Promoted /\ Goto("start")
  /\ UNCHANGED external

\* resumeConvergence with a conversation the person chose and verified.
ResumeVerified ==
  /\ Idle /\ IsPaused /\ MayPrepare
  /\ wf' = [Resumed("codex_captured") EXCEPT !.chat = NextChat,
                                             !.child = NoReview]
  /\ Goto("start")
  /\ UNCHANGED external

PrepareByHand ==
  /\ Idle /\ IsPaused /\ MayPrepare /\ wf.blank # "prepared"
  /\ wf' = Reserving
  /\ run' = [run EXCEPT !.pc = "blank", !.create = wf.blank = "none"]
  /\ UNCHANGED external

\* A review under way when its convergence is cancelled.
Interrupted(k) ==
  IF k \in DOMAIN children /\ children[k].status = "running"
  THEN [children EXCEPT ![k].status = "ambiguous"] ELSE children

\* cancelWorkflow, for what may still be resumed: that authority is revoked
\* first, and then the successor's review is cancelled.
CancelContinuation ==
  /\ run.pc # "down" /\ Spend("acts")
  /\ IsPaused \/ Handing
  /\ wf' = [wf EXCEPT !.status = "cancelled", !.phase = "continuation_cancelled"]
  /\ Goto(IF run.pc = "handoff" THEN "handoff" ELSE "off")
  /\ UNCHANGED external

CancelSuccessor ==
  /\ run.pc # "down" /\ wf.phase = "continuation_cancelled" /\ wf.attempt # 0
  /\ Intent \in DOMAIN children /\ children[Intent].status = "running"
  /\ children' = Interrupted(Intent)
  /\ UNCHANGED <<wf, spaces, turns, run, left>>

\* cancelWorkflow, for a running convergence.
Cancel ==
  /\ run.pc # "down" /\ Spend("acts")
  /\ wf.status = "running" /\ wf.phase \notin Successor
  /\ wf' = [wf EXCEPT !.status = "human_required",
                      !.reason = "cancelled_during_convergence"]
  /\ children' = IF run.pc \in {"link", "watching"}
                 THEN Interrupted(Review(wf.cycle, wf.chat, 1)) ELSE children
  /\ Goto("off")
  /\ UNCHANGED <<spaces, turns>>

Abandon ==
  /\ Idle /\ wf.status = "human_required"
  /\ wf' = [wf EXCEPT !.status = "cancelled", !.phase = "recovery_abandoned"]
  /\ Goto("off")
  /\ UNCHANGED external

Handoff == \/ Reserve \/ MakeBlank \/ CommitBlank \/ ReserveReview \/ TakeUp
           \/ AskSuccessor \/ SuccessorEnds \/ CancelSuccessor

Person == \/ ResumeSame \/ ResumePrepared \/ ResumePromoted \/ ResumeVerified
          \/ PrepareByHand \/ CancelContinuation \/ Cancel \/ Abandon

Next == Runner \/ Handoff \/ Person \/ World \/ Crash \/ Restart

Spec == Init /\ [][Next]_vars

\* A runner that can go on does; a turn, a Send and a review come to an end;
\* the broker is started again.
Fairness ==
  /\ WF_vars(Runner \/ Handoff) /\ WF_vars(Restart)
  /\ WF_vars(\E t \in DOMAIN turns : TurnEnds(t))
  /\ WF_vars(\E k \in DOMAIN children : Send(k) \/ ReviewEnds(k))

FairSpec == Spec /\ Fairness

-----------------------------------------------------------------------------
RecordOK ==
  /\ wf.status \in {"running", "human_required", "succeeded", "cancelled"}
  /\ wf.cycle \in 0..MaxCycles
  /\ wf.thread = wf.rotations + 1 \/ (wf.thread = 0 /\ wf.rotations = 0)
  /\ wf.exits \in 0..Recoveries
  /\ wf.inspections < Retries /\ wf.corrections < Retries
  /\ wf.chat \in 0..MaxChats /\ wf.attempt \in 0..2

\* StateValid: the record stays within its bounds and its parts agree: a thread
\* is replaced only by a rotation that is counted, a launch without an answer
\* and a turn exclude each other, a stored result is the turn's, a turn to be
\* given up is not in force, and a plan for a successor belongs to a pause or a
\* handoff.
StateValid ==
  /\ RecordOK
  /\ wf.status = "running" =>
       /\ wf.launch # 0 => wf.phase = "codex_launching" /\ wf.turn = 0
       /\ wf.phase \in Accepted => wf.turn # 0 /\ turns[wf.turn].thread = wf.thread
       /\ wf.result # 0 => wf.result = wf.turn /\ wf.phase \in Accepted
       /\ wf.rotation # 0 => wf.turn = 0
       /\ wf.phase \in Reviewing => wf.record.cycle = wf.cycle
       /\ wf.blank # "none" => wf.phase \in Successor
       /\ wf.attempt # 0 <=> wf.phase = "successor_reviewing"

\* WorkedOnce: a turn Codex was given is taken or given up once, and never
\* forgotten: one not yet accounted for is the one in force, or the one its
\* launch marker still names (recoverStructuredLaunch, pendingCodexResult).
WorkedOnce ==
  \A t \in DOMAIN turns :
    /\ turns[t].fate # "twice"
    /\ turns[t].fate = "open" =>
         \/ t = wf.turn
         \/ turns[t].mark = wf.launch /\ turns[t].thread = wf.thread

\* SettledOnEvidence: a convergence succeeds only on a candidate Codex gave in
\* this cycle, from a turn that was looked at and counted, not of a thread
\* given up before, with a review of the same cycle that settled it.
SettledOnEvidence ==
  wf.status = "succeeded" =>
    LET t == wf.record.turn IN
    /\ wf.record.cycle = wf.cycle /\ wf.record.kind = "candidate"
    /\ t # 0 /\ turns[t].kind = "candidate" /\ turns[t].fate = "taken"
    /\ ~(wf.checkpoint.cycle \in 1..(wf.cycle - 1)
         /\ turns[t].thread = wf.checkpoint.thread)
    /\ wf.child.cycle = wf.cycle /\ wf.child.chat = wf.chat
    /\ children[wf.child].status = "succeeded"
    /\ children[wf.child].verdict \in {"settled", "weak"}

\* ReviewedOnce: a candidate is sent at most once to each chat, a second attempt
\* only after a first that was never sent, and each chat generation has at most
\* one blank conversation made for it, over any crash, resume and lost answer.
ReviewedOnce ==
  /\ \A k, l \in {c \in DOMAIN children : children[c].sent} :
       k.cycle = l.cycle /\ k.chat = l.chat => k = l
  /\ \A k \in DOMAIN children :
       k.attempt = 2 => Review(k.cycle, k.chat, 1) \in DOMAIN children
  /\ \A g \in DOMAIN spaces : spaces[g] <= 1

\* CancelRevokes: once a person cancels or abandons a convergence, no successor
\* review is created or sent for it, nor a blank conversation committed, though
\* a write was under way; and the convergence never runs again.
CancelRevokes ==
  [][wf.status = "cancelled" =>
       /\ wf' = wf
       /\ \A k \in DOMAIN children' : children'[k].auto =>
            /\ k \in DOMAIN children
            /\ children'[k].sent => children[k].sent]_vars

\* Concludes: a running convergence comes to an end or asks for a person, through
\* lost answers, App Server exits, an exhausted chat and restarts.
Concludes == wf.status = "running" ~> wf.status # "running"

\* PauseHolds: what the docs say of a review by a weaker model under the pause
\* policy: it ends the convergence for a person, so it settles nothing.
\* (Does not hold, README.md:415.)
PauseHolds == wf.status = "succeeded" => wf.record.review # "weak"

\* RestartResumes: what the docs say of a restart: an exact checkpoint is
\* resumed, so a restart alone never asks for a person (CONTINUITY.md:51).
\* (Does not hold.)
RestartResumes ==
  wf.reason \notin {"broker_restarted_during_convergence", "recovery_state_invalid"}
=============================================================================
