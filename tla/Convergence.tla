---------------------------- MODULE Convergence ----------------------------
(***************************************************************************)
(* One convergence of the broker (broker.mjs, #runConvergence): a loop     *)
(* that has Codex work in a thread of the App Server, captures a candidate *)
(* and has ChatGPT review it in a marked exchange, until a review settles  *)
(* it.  Every step here is one durable transition of the workflow record,  *)
(* one external answer, or the death of the broker between two of them.    *)
(* What a person does with it, and the move to another conversation, are   *)
(* in Continuation.                                                        *)
(*                                                                         *)
(* Threads are numbered by their generation and turns by their order.  The *)
(* marker of a launch is the number the turn will have.  Counters that the *)
(* record keeps as metrics only are left out.                              *)
(***************************************************************************)
EXTENDS Integers, Sequences, FiniteSets

CONSTANTS
  MaxCycles,    \* maxCycles of the request
  Recoveries,   \* CODEX_APP_SERVER_LIVENESS_RECOVERY_COUNT
  Retries,      \* CODEX_INSPECTION_ and CODEX_CANDIDATE_CORRECTION_..._COUNT
  MaxChats,     \* MAX_CHAT_GENERATIONS
  Outcomes,     \* what a turn may come to: [kind, inspected]
  Verdicts,     \* what a review may say, "weak..." by a weaker model
  Worlds        \* where it starts, and bounds on what may go wrong or be asked

ASSUME ConvergenceAssumption ==
  /\ {MaxCycles, Recoveries, Retries} \subseteq Nat \ {0}
  /\ MaxChats \in Nat
  /\ Outcomes \subseteq [kind : {"candidate", "blocked", "inconsistent"},
                         inspected : BOOLEAN]
  /\ Verdicts \subseteq {"settled", "continue", "weak", "weak_continue"}
  /\ Worlds \subseteq [start : {"new", "retried", "spent", "manual", "doubted", "captured",
                                "carried", "reviewed", "reused", "lost"},
                       faults : Nat, crashes : Nat, acts : Nat]
  /\ MaxCycles = 1 =>
       \A w \in Worlds : w.start \in {"new", "retried", "captured", "lost"}

VARIABLES
  wf,        \* the durable workflow record
  children,  \* the review exchanges, by the identity of their markers
  spaces,    \* blank conversations made for each chat generation
  turns,     \* the turns the App Server was given
  run,       \* the runner: where it is and what it holds in memory
  left       \* what the bounds still allow

vars     == <<wf, children, spaces, turns, run, left>>
external == <<children, spaces, turns>>

(* convergenceReviewIdentity: the markers, hence the operation key. *)
Review(cycle, chat, attempt) ==
  [cycle |-> cycle, chat |-> chat, attempt |-> attempt]
NoReview == Review(0, 0, 0)
NoRecord == [cycle |-> 0, kind |-> "none", turn |-> 0, review |-> "none"]

Spend(what) == left[what] > 0 /\ left' = [left EXCEPT ![what] = @ - 1]
Goto(p)     == run' = [run EXCEPT !.pc = p]

Successor == {"successor_preparing", "successor_reviewing"}
Reviewing == {"codex_captured", "chatgpt_running", "review_captured"}
Accepted  == {"codex_running", "codex_recovering"}

\* What becomes of a turn, for the properties: a turn is accounted for once.
Account(t, how) ==
  IF t = 0 THEN turns
  ELSE [turns EXCEPT ![t].fate = IF @ = "open" THEN how ELSE "twice"]

-----------------------------------------------------------------------------
(* Outcomes every phase shares. *)

Exhausted(k) == k \in DOMAIN children /\ children[k].status = "exhausted"
Failed(k) == /\ k \in DOMAIN children
             /\ children[k].status \in {"exhausted", "presend", "ambiguous"}

\* buildContinuationCheckpoint succeeds: the current review stopped.
Resumable == /\ wf.phase = "chatgpt_running"
             /\ wf.child = Review(wf.cycle, wf.chat, 1)
             /\ Failed(wf.child)

\* The runner throws: the record keeps what a later resume needs.
Stopped(why) ==
  [wf EXCEPT !.status = "human_required", !.reason = why,
    !.phase  = IF wf.phase \in Successor \/ Resumable THEN "continuation_paused"
               ELSE IF wf.launch # 0 THEN "codex_launching" ELSE "stopped",
    !.paused = IF Resumable THEN wf.child ELSE @]

Stop(why) == wf' = Stopped(why) /\ Goto("off")

\* #captureConvergenceCandidate.  A liveness checkpoint is a blocked candidate
\* of the broker's own, and commits the rotation of the thread with it.
Captured(kind, t, liveness) ==
  [wf EXCEPT !.phase = "codex_captured", !.turn = 0, !.result = 0, !.exits = 0,
    !.inspections = 0, !.corrections = 0, !.inspected = FALSE,
    !.record = [NoRecord EXCEPT !.cycle = wf.cycle, !.kind = kind, !.turn = t],
    !.checkpoints = IF liveness THEN @ + 1 ELSE @,
    !.checkpoint = IF liveness THEN [cycle |-> wf.cycle, thread |-> wf.thread]
                   ELSE @,
    !.rotation = IF liveness THEN wf.cycle
                 ELSE IF run.deferred # 0 THEN run.deferred ELSE @]

Capture(kind, t, how, liveness) ==
  /\ wf' = Captured(kind, t, liveness)
  /\ turns' = Account(t, how)
  /\ run' = [run EXCEPT !.pc = "review", !.got = 0, !.deferred = 0]

-----------------------------------------------------------------------------
(* The start of a runner: a new convergence, a restart or a resume. *)

Unrotated == wf.rotation = 0 /\ wf.checkpoints # wf.rotations

\* #repairMissingConvergenceThreadRotation: one checkpoint without its rotation.
Repairable ==
  /\ wf.checkpoints = wf.rotations + 1
  /\ wf.checkpoint.cycle > 0 /\ wf.thread > 0
  /\ \/ /\ wf.cycle \in {wf.checkpoint.cycle, wf.checkpoint.cycle + 1}
        /\ wf.phase \in Reviewing /\ wf.turn = 0
     \/ /\ wf.cycle = wf.checkpoint.cycle + 1
        /\ wf.phase \in Accepted \cup {"codex_ready"}

Repaired ==
  LET kept == [wf EXCEPT !.rotation = wf.checkpoint.cycle] IN
  IF wf.phase \in Reviewing
  THEN IF wf.phase = "review_captured" /\ wf.cycle > wf.checkpoint.cycle
       THEN [kept EXCEPT !.record.review = "continue"] ELSE kept
  ELSE [kept EXCEPT !.phase = "codex_ready", !.turn = 0, !.result = 0,
          !.inspections = 0, !.inspected = FALSE, !.exits = 0]

Broken == (Unrotated /\ ~Repairable) \/ (wf.rotation # 0 /\ wf.turn # 0)

Starting == /\ run.pc = "start" /\ wf.status = "running"
            /\ wf.phase \notin Successor

RepairRotation ==
  /\ Starting /\ Unrotated /\ Repairable
  /\ wf' = Repaired
  /\ turns' = IF wf.phase \in Reviewing THEN turns ELSE Account(wf.turn, "retired")
  /\ UNCHANGED <<children, spaces, run, left>>

RefuseState ==
  /\ Starting /\ Broken
  /\ Stop("recovery_state_invalid")
  /\ UNCHANGED <<external, left>>

Entry == IF wf.rotation # 0 \/ wf.phase \in Reviewing THEN "loop" ELSE "setup"

Begin ==
  /\ Starting /\ ~Unrotated /\ ~Broken
  /\ Goto(IF wf.launch # 0 THEN "relaunch" ELSE Entry)
  /\ UNCHANGED <<wf, external, left>>

-----------------------------------------------------------------------------
(* A launch whose turn is not known: recoverStructuredLaunch. *)

Launched == {t \in DOMAIN turns : /\ turns[t].mark = wf.launch
                                  /\ turns[t].thread = wf.thread}

\* Mutant of LaunchFound: a launch without an answer is made again.
LaunchAgain ==
  /\ run.pc \in {"relaunch", "lost"} /\ wf.launch # 0
  /\ wf' = [wf EXCEPT !.launch = 0, !.phase = "codex_ready"]
  /\ Goto("ready")
  /\ UNCHANGED <<external, left>>

LaunchFound ==
  /\ run.pc \in {"relaunch", "lost"} /\ wf.launch # 0
  /\ Cardinality(Launched) = 1
  /\ wf' = [wf EXCEPT !.launch = 0, !.turn = CHOOSE t \in Launched : TRUE,
                      !.phase = "codex_running"]
  /\ Goto(IF run.pc = "relaunch" THEN "setup" ELSE "exit")
  /\ UNCHANGED <<external, left>>

\* No turn bears the marker, or the App Server cannot be asked.
LaunchAmbiguous ==
  /\ run.pc \in {"relaunch", "lost"} /\ wf.launch # 0
  /\ IF Cardinality(Launched) = 1 THEN Spend("faults") ELSE UNCHANGED left
  /\ Stop("app_server_launch_ambiguous")
  /\ UNCHANGED external

-----------------------------------------------------------------------------
(* The setup loop: connect, find or open the thread, and the accepted turn. *)

Setup == run.pc = "setup" /\ wf.status = "running"

\* A stored result is consumed without the App Server; its thread is retired.
TakeStoredResult ==
  /\ Setup /\ wf.result # 0
  /\ run' = [run EXCEPT !.pc = "loop", !.got = wf.result, !.deferred = wf.cycle]
  /\ UNCHANGED <<wf, external, left>>

Asking == Setup /\ wf.result = 0 /\ wf.phase \in Accepted

\* Too many exits in a row: ChatGPT is asked for guidance instead.
Exceeded ==
  /\ Asking /\ wf.exits >= Recoveries
  /\ Capture("blocked", wf.turn, "retired", TRUE)
  /\ UNCHANGED <<children, spaces, left>>

\* connect, resumeThread or the reading of the turn fails.
AskFails ==
  /\ Asking /\ wf.exits < Recoveries /\ Spend("faults")
  /\ \/ /\ wf.exits + 1 >= Recoveries
        /\ Capture("blocked", wf.turn, "retired", TRUE)
     \/ /\ wf.exits + 1 < Recoveries
        /\ wf' = [wf EXCEPT !.exits = @ + 1, !.phase = "codex_recovering"]
        /\ UNCHANGED <<turns, run>>
  /\ UNCHANGED <<children, spaces>>

\* The recovered result is stored before anything is made of it.
StoreResult(t) ==
  [wf EXCEPT !.result = t, !.exits = 0, !.phase = "codex_running",
             !.inspected = @ \/ turns[t].inspected]

\* The turn was interrupted: the work is asked again.
Reopened(exits) ==
  [wf EXCEPT !.turn = 0, !.exits = exits, !.phase = "codex_ready",
             !.inspected = @ \/ turns[wf.turn].inspected]

AskTurn ==
  /\ Asking /\ wf.exits < Recoveries
  /\ \/ /\ turns[wf.turn].state = "completed"
        /\ wf' = StoreResult(wf.turn)
        /\ run' = [run EXCEPT !.pc = "loop", !.got = wf.turn]
        /\ UNCHANGED turns
     \/ /\ turns[wf.turn].state = "interrupted" /\ wf.exits + 1 >= Recoveries
        /\ Capture("blocked", wf.turn, "retired", TRUE)
     \/ /\ turns[wf.turn].state = "interrupted" /\ wf.exits + 1 < Recoveries
        /\ wf' = Reopened(wf.exits + 1)
        /\ turns' = Account(wf.turn, "retired")
        /\ Goto("loop")
  /\ UNCHANGED <<children, spaces, left>>

OpenThread ==
  /\ Setup /\ wf.phase \in {"created", "codex_ready"}
  /\ wf' = IF wf.thread # 0 THEN wf
           ELSE [wf EXCEPT !.thread = 1, !.phase = "codex_ready"]
  /\ Goto("loop")
  /\ UNCHANGED <<external, left>>

-----------------------------------------------------------------------------
(* The cycles.  "next" is the head of a later cycle, "ready" the head of the *)
(* inner loop that has Codex take a turn.                                    *)

Settles(record) == /\ record.kind = "candidate"
                   /\ record.review \in {"settled", "weak"}

\* requiresRepairedThreadRotation: a candidate of a thread already given up.
Unsound == wf.rotation # 0 /\ wf.rotation < wf.cycle

\* #completeConvergenceSettlement.
Settlement == [wf EXCEPT !.status = "succeeded", !.phase = "settled",
                         !.rotation = 0]
Settle == wf' = Settlement /\ Goto("off")

\* What follows a captured review, once it was found sound.
Decide(settles) ==
  IF settles THEN Settle
  ELSE IF wf.cycle >= MaxCycles THEN Stop("convergence_cycle_limit_reached")
  ELSE Goto("next") /\ UNCHANGED wf

\* The head of the loop, with what a start or a recovery brought.
Loop ==
  /\ run.pc = "loop" /\ wf.status = "running"
  /\ CASE wf.phase = "review_captured" ->
            Decide(Settles(wf.record) /\ ~Unsound)
       [] wf.phase \in {"codex_captured", "chatgpt_running"} ->
            Goto("review") /\ UNCHANGED wf
       [] wf.phase \notin Reviewing /\ run.got # 0 ->
            Goto("result") /\ UNCHANGED wf
       [] OTHER ->
            /\ wf' = [wf EXCEPT !.cycle = IF @ = 0 THEN 1 ELSE @, !.turn = 0,
                                !.phase = "codex_ready"]
            /\ Goto("ready")
  /\ UNCHANGED <<external, left>>

NextCycle ==
  /\ run.pc = "next" /\ wf.status = "running" /\ wf.rotation = 0
  /\ wf' = [wf EXCEPT !.cycle = @ + 1, !.turn = 0, !.inspections = 0,
                      !.inspected = FALSE, !.phase = "codex_ready"]
  /\ Goto("ready")
  /\ UNCHANGED <<external, left>>

\* #rotateConvergenceThread: a fresh thread, and the marker goes with it.
Rotate ==
  /\ run.pc \in {"next", "ready"} /\ wf.status = "running" /\ wf.rotation # 0
  /\ wf' = [wf EXCEPT !.thread = @ + 1, !.rotations = @ + 1, !.rotation = 0]
  /\ run' = [run EXCEPT !.deferred = 0]
  /\ UNCHANGED <<external, left>>

-----------------------------------------------------------------------------
(* One turn: runStructuredTurn.                                              *)

\* onDispatching: the intent is durable before the request leaves.
Intend ==
  /\ run.pc = "ready" /\ wf.status = "running" /\ wf.rotation = 0
  /\ \A t \in DOMAIN turns : turns[t].thread = wf.thread => turns[t].state # "running"
  /\ wf' = [wf EXCEPT !.launch = Len(turns) + 1, !.phase = "codex_launching"]
  /\ Goto("dispatch")
  /\ UNCHANGED <<external, left>>

Given == Append(turns, [thread |-> wf.thread, mark |-> wf.launch,
                        state |-> "running", kind |-> "candidate",
                        inspected |-> FALSE, fate |-> "open"])

\* turn/start is answered, or the answer is lost, or the request is.
Dispatch ==
  /\ run.pc = "dispatch" /\ wf.status = "running"
  /\ \/ turns' = Given /\ Goto("acked") /\ UNCHANGED left
     \/ turns' = Given /\ Goto("lost") /\ Spend("faults")
     \/ Goto("lost") /\ Spend("faults") /\ UNCHANGED turns
  /\ UNCHANGED <<wf, children, spaces>>

\* onStarted.
Identify ==
  /\ run.pc = "acked" /\ wf.status = "running"
  /\ wf' = [wf EXCEPT !.turn = wf.launch, !.launch = 0, !.phase = "codex_running"]
  /\ Goto("waiting")
  /\ UNCHANGED <<external, left>>

\* The turn completes, or fails, or the App Server goes away under it.
TurnWaits ==
  /\ run.pc = "waiting" /\ wf.status = "running"
  /\ \/ /\ turns[wf.turn].state = "completed"
        /\ run' = [run EXCEPT !.pc = "result", !.got = wf.turn]
        /\ UNCHANGED left
     \/ turns[wf.turn].state = "interrupted" /\ Goto("exit") /\ UNCHANGED left
     \/ Spend("faults") /\ Goto("exit")
  /\ UNCHANGED <<wf, external>>

\* An exit is counted before the turn is asked for again.
CountExit ==
  /\ run.pc = "exit" /\ wf.status = "running"
  /\ wf' = [wf EXCEPT !.exits = @ + 1, !.phase = "codex_recovering"]
  /\ Goto("recover")
  /\ UNCHANGED <<external, left>>

RecoverTurn ==
  /\ run.pc = "recover" /\ wf.status = "running"
  /\ \/ /\ turns[wf.turn].state = "completed"
        /\ wf' = StoreResult(wf.turn)
        /\ run' = [run EXCEPT !.pc = "result", !.got = wf.turn]
        /\ UNCHANGED <<turns, left>>
     \/ /\ turns[wf.turn].state = "interrupted" /\ wf.exits >= Recoveries
        /\ Capture("blocked", wf.turn, "retired", TRUE)
        /\ UNCHANGED left
     \/ /\ turns[wf.turn].state = "interrupted" /\ wf.exits < Recoveries
        /\ wf' = Reopened(wf.exits)
        /\ turns' = Account(wf.turn, "retired")
        /\ Goto("ready")
        /\ UNCHANGED left
     \/ /\ Spend("faults") /\ wf.exits >= Recoveries
        /\ Capture("blocked", wf.turn, "retired", TRUE)
     \/ /\ Spend("faults") /\ wf.exits < Recoveries
        /\ Goto("exit")
        /\ UNCHANGED <<wf, turns>>
  /\ UNCHANGED <<children, spaces>>

\* Mutant of AskedAgain: the stored result is not removed with its turn.
AskedAgainKeeping(what) ==
  [wf EXCEPT ![what] = @ + 1, !.turn = 0, !.exits = 0,
             !.inspected = wf.inspected \/ turns[run.got].inspected,
             !.rotation = IF run.deferred # 0 THEN run.deferred ELSE @,
             !.phase = "codex_ready"]

\* Codex is asked again on the same cycle, for an inspection or a correction.
AskedAgain(what) ==
  [wf EXCEPT ![what] = @ + 1, !.turn = 0, !.result = 0, !.exits = 0,
             !.inspected = wf.inspected \/ turns[run.got].inspected,
             !.rotation = IF run.deferred # 0 THEN run.deferred ELSE @,
             !.phase = "codex_ready"]

\* A result counts only when the workspace was looked at and it is well formed.
TakeResult ==
  /\ run.pc = "result" /\ wf.status = "running"
  /\ LET looked == wf.inspected \/ turns[run.got].inspected
         wrong  == IF looked THEN "corrections" ELSE "inspections"
     IN \/ /\ looked /\ turns[run.got].kind # "inconsistent"
           /\ Capture(turns[run.got].kind, run.got, "taken", FALSE)
        \/ /\ ~looked \/ turns[run.got].kind = "inconsistent"
           /\ wf[wrong] + 1 >= Retries
           /\ Capture("blocked", run.got, "taken", TRUE)
        \/ /\ ~looked \/ turns[run.got].kind = "inconsistent"
           /\ wf[wrong] + 1 < Retries
           /\ wf' = AskedAgain(wrong)
           /\ turns' = Account(run.got, "taken")
           /\ run' = [run EXCEPT !.pc = "ready", !.got = 0, !.deferred = 0]
  /\ UNCHANGED <<children, spaces, left>>

-----------------------------------------------------------------------------
(* The review: a marked exchange of its own, watched to its end.             *)

Born(auto) == [status |-> "running", verdict |-> "none", sent |-> FALSE,
               auto |-> auto]
Attach(key, auto) ==
  children' = IF key \in DOMAIN children THEN children
              ELSE [k \in DOMAIN children \cup {key} |->
                      IF k = key THEN Born(auto) ELSE children[k]]

Linked == wf.phase = "chatgpt_running" /\ wf.child \in DOMAIN children

\* A review of this cycle and chat is resumed, or created under its marker.
AskReview ==
  /\ run.pc = "review" /\ wf.status = "running"
  /\ IF Linked
     THEN Goto("watching") /\ UNCHANGED children
     ELSE /\ Attach(Review(wf.cycle, wf.chat, 1), FALSE)
          /\ Goto("link")
  /\ UNCHANGED <<wf, spaces, turns, left>>

Link ==
  /\ run.pc = "link" /\ wf.status = "running"
  /\ wf' = [wf EXCEPT !.phase = "chatgpt_running",
                      !.child = Review(wf.cycle, wf.chat, 1)]
  /\ Goto("watching")
  /\ UNCHANGED <<external, left>>

\* Mutant of Evaluated: a repaired candidate is taken at its word.
EvaluatedAsSaid ==
  LET said    == children[wf.child].verdict
      settles == wf.record.kind # "blocked" /\ said \in {"settled", "weak"}
      weaker  == wf.cycle # 1 /\ said \in {"weak", "weak_continue"} IN
  IF settles THEN IF weaker THEN "weak" ELSE "settled"
  ELSE IF weaker THEN "weak_continue" ELSE "continue"

\* consumeChatGptReview and evaluateReview: what the broker makes of the answer,
\* and whether a weaker model gave it than the one that gave the first review.
Evaluated ==
  LET said    == children[wf.child].verdict
      settles == /\ wf.record.kind # "blocked" /\ ~Unsound
                 /\ said \in {"settled", "weak"}
      weaker  == wf.cycle # 1 /\ said \in {"weak", "weak_continue"} IN
  IF settles THEN IF weaker THEN "weak" ELSE "settled"
  ELSE IF weaker THEN "weak_continue" ELSE "continue"

CaptureReview ==
  /\ run.pc = "watching" /\ wf.status = "running"
  /\ children[wf.child].status = "succeeded"
  /\ wf' = [wf EXCEPT !.phase = "review_captured", !.record.review = Evaluated]
  /\ Goto("judge")
  /\ UNCHANGED <<external, left>>

\* Any review by a weaker model ends the convergence for a person.
Judge ==
  /\ run.pc = "judge" /\ wf.status = "running"
  /\ IF wf.record.review \in {"weak", "weak_continue"}
     THEN Stop("answering_model_downgraded")
     ELSE Decide(Settles(wf.record))
  /\ UNCHANGED <<external, left>>

\* automaticSuccessorEnabled: as the request asked, and for so many chats.
Automatic == wf.automatic /\ wf.chat < MaxChats

\* Mutant of PendSuccessor: the runner ends and nothing starts the next one.
PendSuccessorIdle ==
  /\ run.pc = "watching" /\ wf.status = "running"
  /\ Exhausted(wf.child) /\ Automatic
  /\ wf' = [wf EXCEPT !.phase = "successor_preparing", !.paused = wf.child]
  /\ Goto("off")
  /\ UNCHANGED <<external, left>>

\* The chat is exhausted: the runner ends, and a new one moves the review.
PendSuccessor ==
  /\ run.pc = "watching" /\ wf.status = "running"
  /\ Exhausted(wf.child) /\ Automatic
  /\ wf' = [wf EXCEPT !.phase = "successor_preparing", !.paused = wf.child]
  /\ Goto("start")
  /\ UNCHANGED <<external, left>>

ReviewFails ==
  /\ run.pc = "watching" /\ wf.status = "running"
  /\ Failed(wf.child)
  /\ ~(Exhausted(wf.child) /\ Automatic)
  /\ Stop("chatgpt_review_incomplete")
  /\ UNCHANGED <<external, left>>

-----------------------------------------------------------------------------
(* The death of the broker, and its restart: initialize, #canResumeConvergence. *)

\* The next broker proves an unsent exchange undelivered and sends it, or gives
\* up one whose record was not complete enough to look for it.
Crash ==
  /\ run.pc # "down" /\ Spend("crashes")
  /\ run' = [pc |-> "down", got |-> 0, deferred |-> 0, create |-> FALSE]
  /\ \E lost \in SUBSET {k \in DOMAIN children :
                        children[k].status = "running" /\ ~children[k].sent} :
       children' = [k \in DOMAIN children |->
         IF k \in lost THEN [children[k] EXCEPT !.status = "ambiguous"]
         ELSE children[k]]
  /\ UNCHANGED <<wf, spaces, turns>>

CanResume ==
  CASE wf.phase = "created" -> wf.thread = 0
    [] wf.phase = "codex_launching" -> wf.launch # 0 /\ wf.turn = 0
    [] wf.phase \in Accepted -> wf.turn # 0
    [] wf.phase = "chatgpt_running" ->
         /\ wf.record.cycle = wf.cycle
         /\ wf.child = Review(wf.cycle, wf.chat, 1)
         /\ wf.child \in DOMAIN children
    [] wf.phase \in {"codex_captured", "review_captured"} ->
         wf.record.cycle = wf.cycle
    [] OTHER -> TRUE

Restart ==
  /\ run.pc = "down"
  /\ IF wf.status # "running" THEN Goto("off") /\ UNCHANGED wf
     ELSE IF CanResume THEN Goto("start") /\ UNCHANGED wf
     ELSE /\ wf' = [wf EXCEPT !.status = "human_required",
                      !.reason = "broker_restarted_during_convergence"]
          /\ Goto("off")
  /\ UNCHANGED <<external, left>>

-----------------------------------------------------------------------------
(* What others do: the App Server and its turns, the exchange and its chat.  *)

TurnEnds(t) ==
  /\ turns[t].state = "running"
  /\ \/ /\ \E o \in Outcomes :
             turns' = [turns EXCEPT ![t].state = "completed", ![t].kind = o.kind,
                                    ![t].inspected = o.inspected]
        /\ UNCHANGED left
     \/ /\ Spend("faults")
        /\ turns' = [turns EXCEPT ![t].state = "interrupted"]
  /\ UNCHANGED <<wf, children, spaces, run>>

Ends(k, how, verdict) ==
  children' = [children EXCEPT ![k].status = how, ![k].verdict = verdict]

\* #successorSendGuard: the parent still asks for exactly this review.
MaySend(k) ==
  children[k].auto =>
    /\ wf.status = "running" /\ wf.phase = "successor_reviewing"
    /\ k = Review(wf.cycle, wf.chat + 1, wf.attempt)

Send(k) ==
  /\ run.pc # "down"
  /\ children[k].status = "running" /\ ~children[k].sent
  /\ IF MaySend(k) THEN children' = [children EXCEPT ![k].sent = TRUE]
     ELSE Ends(k, "ambiguous", "none")
  /\ UNCHANGED <<wf, spaces, turns, run, left>>

\* A sent review answers, meets an exhausted chat, or is lost; an unsent one
\* may fail before its Send, and the driver proves it.
ReviewEnds(k) ==
  /\ run.pc # "down" /\ children[k].status = "running"
  /\ \/ /\ children[k].sent
        /\ \E v \in Verdicts : Ends(k, "succeeded", v)
        /\ UNCHANGED left
     \/ /\ children[k].sent /\ Spend("faults")
        /\ \E how \in {"exhausted", "ambiguous"} : Ends(k, how, "none")
     \/ /\ ~children[k].sent /\ Spend("faults")
        /\ Ends(k, "presend", "none")
  /\ UNCHANGED <<wf, spaces, turns, run>>

\* A person has the paused review reconciled to its answer.
Reconcile(k) ==
  /\ run.pc # "down"
  /\ children[k].status = "ambiguous" /\ children[k].sent
  /\ \E v \in Verdicts : Ends(k, "succeeded", v)
  /\ UNCHANGED <<wf, spaces, turns, run, left>>

World == \/ \E t \in DOMAIN turns : TurnEnds(t)
         \/ \E k \in DOMAIN children :
              Send(k) \/ ReviewEnds(k) \/ Reconcile(k)

Runner ==
  \/ RepairRotation \/ RefuseState \/ Begin
  \/ LaunchFound \/ LaunchAmbiguous
  \/ TakeStoredResult \/ Exceeded \/ AskFails \/ AskTurn \/ OpenThread
  \/ Loop \/ NextCycle \/ Rotate
  \/ Intend \/ Dispatch \/ Identify \/ TurnWaits
  \/ CountExit \/ RecoverTurn \/ TakeResult
  \/ AskReview \/ Link \/ CaptureReview \/ Judge \/ PendSuccessor \/ ReviewFails

-----------------------------------------------------------------------------
(* A new convergence, and records an earlier broker left behind.             *)

Fresh ==
  [status |-> "running", phase |-> "created", cycle |-> 0, thread |-> 0,
   launch |-> 0, turn |-> 0, result |-> 0, exits |-> 0, inspections |-> 0,
   corrections |-> 0, inspected |-> FALSE, rotation |-> 0, checkpoints |-> 0,
   rotations |-> 0, checkpoint |-> [cycle |-> 0, thread |-> 0],
   record |-> NoRecord, child |-> NoReview, chat |-> 0, paused |-> NoReview,
   blank |-> "none", attempt |-> 0, reason |-> "none",
   automatic |-> TRUE]

\* "retried": a turn was given up after all but one of the exits allowed.  "spent"
\* and "manual": the second review exhausted the chat, and the request lets the
\* broker move, or not.  "doubted": its answer was lost.  The others come from a
\* broker that captured a checkpoint in cycle 1 and kept its thread.
Spent ==
  [Fresh EXCEPT !.thread = 1, !.cycle = 2, !.phase = "chatgpt_running",
    !.child = Review(2, 0, 1),
    !.record = [cycle |-> 2, kind |-> "candidate", turn |-> 1, review |-> "none"]]

Retried == [Fresh EXCEPT !.thread = 1, !.cycle = 1, !.phase = "codex_ready",
                         !.exits = Recoveries - 1]

Kept ==
  [Fresh EXCEPT !.thread = 1, !.cycle = 1, !.phase = "codex_captured",
    !.checkpoints = 1, !.checkpoint = [cycle |-> 1, thread |-> 1],
    !.record = [NoRecord EXCEPT !.cycle = 1, !.kind = "blocked"]]

Carried == [Kept EXCEPT !.cycle = 2, !.record = Spent.record]

Left(start) ==
  CASE start = "new"      -> Fresh
    [] start = "retried"  -> Retried
    [] start = "manual"   -> [Spent EXCEPT !.automatic = FALSE]
    [] start \in {"spent", "doubted"} -> Spent
    [] start = "captured" -> Kept
    [] start = "carried"  -> Carried
    [] start = "reviewed" -> [Carried EXCEPT !.phase = "review_captured",
                               !.child = Review(2, 0, 1),
                               !.record.review = "settled"]
    [] start = "reused"   -> [Kept EXCEPT !.cycle = 2, !.phase = "codex_running",
                               !.turn = 1, !.record.review = "continue"]
    [] start = "lost"     -> [Kept EXCEPT !.checkpoints = 2]

LeftReviews(start) ==
  [k \in (IF start \in {"new", "retried", "captured", "lost"} THEN {} ELSE {Review(1, 0, 1)})
           \cup (IF start \in {"reviewed", "spent", "manual", "doubted"}
                 THEN {Review(2, 0, 1)}
                 ELSE {}) |->
     LET ended(how, said) == [Born(FALSE) EXCEPT !.sent = TRUE, !.status = how,
                                                 !.verdict = said]
     IN CASE k.cycle = 1 -> ended("succeeded", "continue")
          [] k.cycle = 2 /\ start \in {"spent", "manual"} -> ended("exhausted", "none")
          [] k.cycle = 2 /\ start = "doubted" -> ended("ambiguous", "none")
          [] OTHER -> ended("succeeded", "settled")]

LeftTurns(start) ==
  LET turn(state, fate) == <<[thread |-> 1, mark |-> 1, state |-> state,
                              kind |-> "candidate", inspected |-> TRUE,
                              fate |-> fate]>>
  IN CASE start = "reused" -> turn("running", "open")
       [] start \in {"spent", "manual", "doubted", "carried", "reviewed"} ->
            turn("completed", "taken")
       [] OTHER -> <<>>

Init ==
  /\ left \in Worlds
  /\ wf = Left(left.start)
  /\ children = LeftReviews(left.start)
  /\ turns = LeftTurns(left.start)
  /\ spaces = [g \in 1..MaxChats |-> 0]
  /\ run = [pc |-> "start", got |-> 0, deferred |-> 0, create |-> FALSE]
=============================================================================
