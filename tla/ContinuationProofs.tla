------------------------- MODULE ContinuationProofs -------------------------
(***************************************************************************)
(* Proofs about a convergence and its continuation, for any bounds on      *)
(* cycles, recoveries, retries, chats, faults, crashes and acts of a       *)
(* person: a turn is accounted for once and never forgotten, a candidate   *)
(* is reviewed once in each chat, a cancel revokes, and the record keeps   *)
(* its bounds and agrees with itself.                                      *)
(*                                                                         *)
(* The runner's place and the record's phase determine each other while    *)
(* the convergence runs, so a step finds in the record what the steps      *)
(* before it left there, also after a crash.                               *)
(***************************************************************************)
EXTENDS Continuation, TLAPS, SequenceTheorems, FiniteSetTheorems

Fields ==
  {"status", "phase", "cycle", "thread", "launch", "turn", "result", "exits",
   "inspections", "corrections", "inspected", "rotation", "checkpoints",
   "rotations", "checkpoint", "record", "child", "chat", "paused", "blank",
   "attempt", "reason", "automatic"}
Turn == [thread : Nat, mark : Nat, inspected : BOOLEAN,
         state : {"running", "completed", "interrupted"},
         kind : {"candidate", "blocked", "inconsistent"},
         fate : {"open", "taken", "retired", "twice"}]
Key == [cycle : Nat, chat : Nat, attempt : {1, 2}]

Shape ==
  /\ DOMAIN wf = Fields /\ DOMAIN run = {"pc", "got", "deferred", "create"}
  /\ turns \in Seq(Turn)
  /\ DOMAIN children \subseteq Key
  /\ \A k \in DOMAIN children :
       DOMAIN children[k] = {"status", "verdict", "sent", "auto"}
  /\ spaces \in [1..MaxChats -> Nat]
  /\ wf.status \in {"running", "human_required", "succeeded", "cancelled"}
  /\ wf.cycle \in Nat /\ wf.thread \in Nat /\ wf.chat \in Nat
  /\ wf.launch \in Nat /\ wf.turn \in Nat /\ wf.attempt \in {0, 1, 2}
  /\ wf.rotation \in Nat
  /\ DOMAIN wf.record = {"cycle", "kind", "turn", "review"}
  /\ wf.checkpoint.cycle \in Nat /\ wf.checkpoint.thread \in Nat
  /\ run.deferred \in Nat

(* Where the runner is while the convergence runs, and in which phase.     *)
Started == {"created", "codex_ready"}
Working == Started \cup {"codex_launching"} \cup Accepted
PhaseAt ==
  /\ run.pc = "setup" => wf.phase \in Started \cup Accepted
  /\ run.pc = "loop" => wf.phase \in Started \cup Accepted \cup Reviewing
  /\ run.pc = "ready" => wf.phase = "codex_ready"
  /\ run.pc \in {"relaunch", "dispatch", "acked", "lost"} =>
       wf.phase = "codex_launching"
  /\ run.pc \in {"waiting", "exit", "recover", "result"} => wf.phase \in Accepted
  /\ run.pc \in {"review", "link"} =>
       wf.phase \in {"codex_captured", "chatgpt_running"}
  /\ run.pc = "watching" => wf.phase = "chatgpt_running"
  /\ run.pc \in {"judge", "next"} => wf.phase = "review_captured"
  /\ run.pc = "promise" => wf.phase = "successor_preparing"
  /\ run.pc = "handed" => wf.phase = "successor_reviewing"
  /\ run.pc \in {"blank", "commit"} => wf.phase = "successor_preparing"
  /\ run.pc = "handoff" => wf.phase = "successor_reviewing"

Anywhere == {"start", "setup", "loop", "ready", "relaunch", "dispatch", "acked",
             "lost", "waiting", "exit", "recover", "result", "review", "link",
             "watching", "judge", "next", "promise", "handed", "blank",
             "commit", "handoff"}
Places ==
  /\ run.pc \in Anywhere \cup {"off", "down"}
  /\ run.pc \in Anywhere =>
       \/ wf.status = "running" /\ PhaseAt
       \/ run.pc \in {"blank", "commit"} /\ IsPaused
       \/ run.pc = "handoff" /\ wf.status = "cancelled"
  /\ wf.status = "running" =>
       /\ run.pc # "off"
       /\ wf.phase \in Working \cup Reviewing \cup Successor

(* The plan for a successor belongs to a pause or to a handoff.            *)
Planned ==
  /\ wf.attempt # 0 \/ wf.blank # "none" =>
       \/ Handing \/ IsPaused \/ wf.status = "cancelled"
  /\ Handing => (wf.attempt # 0 <=> wf.phase = "successor_reviewing")
  /\ run.pc \in {"blank", "commit"} =>
       wf.blank # "none" /\ wf.attempt = 0 /\ wf.chat < MaxChats

(* One conversation is made for the chat to come.                          *)
Blanks ==
  /\ \A g \in 1..MaxChats : spaces[g] <= 1
  /\ \A g \in 1..MaxChats : g > wf.chat + 1 => spaces[g] = 0
  /\ \A g \in 1..MaxChats : g > wf.chat /\ wf.blank = "none" => spaces[g] = 0
  /\ run.pc = "blank" /\ run.create => spaces[NextChat] = 0
  /\ wf.blank # "none" => Exhausted(wf.paused)

(* A second attempt follows a first one that can never be sent.            *)
Unsent(cycle, chat) ==
  /\ Review(cycle, chat, 1) \in DOMAIN children
  /\ children[Review(cycle, chat, 1)].status = "presend"
Attempts ==
  /\ \A k \in DOMAIN children :
       /\ children[k].status = "presend" => ~children[k].sent
       /\ children[k].status = "succeeded" =>
            children[k].verdict \in {"settled", "continue", "weak", "weak_continue"}
       /\ k.attempt = 2 => Unsent(k.cycle, k.chat)
  /\ wf.attempt = 2 => Unsent(wf.cycle, NextChat)

(* What the record knows of turns: it names the turn in force or the       *)
(* launch it waits for, which is the last one, or neither.                 *)
Named ==
  /\ wf.launch = 0 \/ wf.turn = 0
  /\ wf.turn # 0 => wf.turn \in DOMAIN turns /\ turns[wf.turn].fate = "open"
  /\ wf.launch # 0 => wf.launch \in Len(turns)..(Len(turns) + 1)
  /\ wf.launch \in DOMAIN turns =>
       turns[wf.launch].fate = "open" /\ turns[wf.launch].thread = wf.thread
  /\ run.pc = "dispatch" => wf.launch = Len(turns) + 1
  /\ run.pc = "acked" => wf.launch = Len(turns)
  /\ run.got # 0 /\ wf.status = "running" =>
       run.got = wf.turn /\ run.pc \in {"loop", "result"}
  /\ run.pc = "result" => run.got # 0
  /\ run.pc = "loop" /\ wf.phase \in Accepted => run.got # 0

(* What the phase of a running record, or of one that may run again, says. *)
PhaseKnows ==
  /\ wf.status = "running" =>
       /\ wf.phase \in Accepted <=> wf.turn # 0
       /\ wf.phase = "codex_launching" <=> wf.launch # 0
       /\ wf.result \in {0, wf.turn}
       /\ wf.rotation # 0 => wf.launch = 0
  /\ IsPaused => wf.turn = 0 /\ wf.launch = 0 /\ run.got = 0 /\ wf.result = 0
  /\ run.pc \in {"waiting", "exit", "recover"} => wf.result = 0

TurnsKept ==
  \A t \in DOMAIN turns :
    /\ turns[t].mark = t
    /\ turns[t].fate # "twice"
    /\ turns[t].fate = "open" => t \in {wf.turn, wf.launch}

(* What a review is about: the record of the cycle, and a candidate's turn *)
(* that was taken.                                                         *)
UnderReview ==
  \/ wf.status = "running" /\ wf.phase \in Reviewing \cup Successor
  \/ IsPaused

Recorded ==
  UnderReview =>
    /\ wf.record.cycle = wf.cycle
    /\ wf.record.kind = "candidate" =>
         /\ wf.record.turn \in DOMAIN turns
         /\ turns[wf.record.turn].kind = "candidate"
         /\ turns[wf.record.turn].state = "completed"
         /\ turns[wf.record.turn].fate = "taken"
    /\ ~(wf.phase \in {"codex_captured", "review_captured"}) =>
         wf.child.cycle = wf.cycle /\ wf.child.chat = wf.chat
    /\ wf.phase = "review_captured" /\ Settles(wf.record) =>
         /\ wf.child.cycle = wf.cycle /\ wf.child.chat = wf.chat
         /\ wf.child \in DOMAIN children
         /\ children[wf.child].status = "succeeded"
         /\ children[wf.child].verdict \in {"settled", "weak"}

Asked ==
  /\ run.pc = "link" => Review(wf.cycle, wf.chat, 1) \in DOMAIN children
  /\ run.pc = "watching" => wf.child \in DOMAIN children
  /\ run.pc = "handed" => Intent \in DOMAIN children

(* A result is of a turn that completed in the thread in force.            *)
Completed ==
  wf.status = "running" =>
    /\ run.got # 0 => turns[run.got].state = "completed"
    /\ wf.result # 0 => turns[wf.result].state = "completed"
    /\ wf.turn # 0 => turns[wf.turn].thread = wf.thread

(* A thread given up at a checkpoint is left before another turn: a        *)
(* record that kept it is repaired at its next start.                      *)
Unrepaired ==
  /\ wf.rotation = 0 /\ wf.checkpoints # wf.rotations
  /\ run.pc \in {"start", "down"}
  /\ wf.phase \in {"codex_captured", "review_captured", "codex_running"}
GivenUp(t) ==
  /\ wf.checkpoint.cycle \in 1..(wf.cycle - 1)
  /\ turns[t].thread = wf.checkpoint.thread

Rotates ==
  /\ wf.status = "running" \/ IsPaused =>
       \/ wf.checkpoint.cycle = 0
       \/ wf.checkpoint.thread < wf.thread
       \/ wf.rotation # 0
       \/ wf.status = "running" /\ Unrepaired
  /\ wf.status = "running" \/ IsPaused => wf.checkpoint.thread <= wf.thread
  /\ wf.status = "running" => wf.rotation = 0 \/ wf.turn = 0
  /\ UnderReview /\ wf.record.kind = "candidate" /\ GivenUp(wf.record.turn) =>
       \/ wf.status = "running" /\ Unrepaired
       \/ IF wf.phase = "review_captured" THEN ~Settles(wf.record) ELSE Unsound

Settled ==
  /\ SettledOnEvidence
  /\ wf.status = "succeeded" =>
       /\ wf.child \in DOMAIN children /\ wf.record.turn \in DOMAIN turns
       /\ turns[wf.record.turn].state = "completed"

PlanInv   == Planned /\ Blanks /\ Attempts
TurnInv   == Named /\ PhaseKnows /\ TurnsKept /\ Completed
ReviewInv == Recorded /\ Asked /\ Settled

IInv == Shape /\ Places /\ PlanInv /\ TurnInv /\ ReviewInv /\ Rotates

-----------------------------------------------------------------------------
(* What a step leaves of the record, the runner and the rest.              *)
Formed == DOMAIN wf' = Fields /\ DOMAIN run' = {"pc", "got", "deferred", "create"}
Becomes(status, phase) == wf'.status = status /\ wf'.phase = phase
SameTurn == /\ wf'.turn = wf.turn /\ wf'.launch = wf.launch
            /\ wf'.result = wf.result /\ wf'.thread = wf.thread
SamePlan == /\ wf'.attempt = wf.attempt /\ wf'.blank = wf.blank
            /\ wf'.chat = wf.chat /\ wf'.paused = wf.paused
SameReview == wf'.record = wf.record /\ wf'.child = wf.child /\ wf'.cycle = wf.cycle
SameThreads == /\ wf'.checkpoint = wf.checkpoint /\ wf'.rotation = wf.rotation
               /\ wf'.checkpoints = wf.checkpoints /\ wf'.rotations = wf.rotations
Moves(p) == /\ run'.pc = p /\ run'.got = run.got
            /\ run'.deferred = run.deferred /\ run'.create = run.create
Outside == turns' = turns /\ children' = children /\ spaces' = spaces

USE DEF Started, Working, Accepted, Reviewing, Successor, Anywhere

(* A step of Codex's work, or of an ordinary review, leaves the plan for a *)
(* successor alone, of which there is none.                                *)
LEMMA PlanKept ==
  ASSUME IInv, wf.status = "running", wf.phase \notin Successor,
         wf'.attempt = wf.attempt, wf'.blank = wf.blank, wf'.chat = wf.chat,
         wf'.phase # "successor_reviewing", run'.pc \notin {"blank", "commit"},
         children' = children, spaces' = spaces
  PROVE  PlanInv'
  <1>1. wf.attempt = 0 /\ wf.blank = "none"
    BY DEF IInv, PlanInv, Planned, Handing, IsPaused
  <1>2. Planned'
    BY <1>1 DEF Planned, Handing
  <1>3. Blanks'
    BY <1>1 DEF IInv, PlanInv, Blanks
  <1>4. Attempts'
    BY <1>1 DEF IInv, PlanInv, Attempts, Unsent
  <1> QED  BY <1>2, <1>3, <1>4 DEF PlanInv

(* What is left to show of the shape when the reviews stay as they are.    *)
LEMMA ShapeKept ==
  ASSUME Shape, Formed, turns' \in Seq(Turn), children' = children,
         spaces' = spaces,
         wf'.status \in {"running", "human_required", "succeeded", "cancelled"},
         wf'.cycle \in Nat, wf'.thread \in Nat, wf'.chat \in Nat,
         wf'.launch \in Nat, wf'.turn \in Nat, wf'.attempt \in {0, 1, 2},
         wf'.rotation \in Nat,
         DOMAIN wf'.record = {"cycle", "kind", "turn", "review"},
         wf'.checkpoint.cycle \in Nat, wf'.checkpoint.thread \in Nat,
         run'.deferred \in Nat
  PROVE  Shape'
  BY DEF Shape, Formed

(* While Codex works nothing is under review.                              *)
LEMMA WorkKept ==
  ASSUME wf'.status = "running", wf'.phase \in Working,
         run'.pc \notin {"link", "watching", "handed"}
  PROVE  ReviewInv'
  BY DEF ReviewInv, Recorded, UnderReview, IsPaused, Asked, Settled,
         SettledOnEvidence

(* A step that leaves the thread and its checkpoint alone.                 *)
LEMMA ThreadKept ==
  ASSUME IInv, SameThreads, wf'.thread = wf.thread, wf.status = "running",
         wf'.status = "running", wf'.phase \in Working, run.pc # "start",
         run.pc # "down", wf.rotation = 0 \/ wf'.turn = 0
  PROVE  Rotates'
  BY DEF IInv, Rotates, Unrepaired, UnderReview, IsPaused, SameThreads

-----------------------------------------------------------------------------
(* Codex takes a turn. Of an action X, XWrites says what it does to the    *)
(* record, the runner and the rest, and XKeeps that it keeps IInv.         *)

LEMMA IntendWrites ==
  ASSUME Shape, Intend
  PROVE  /\ run.pc = "ready" /\ wf.status = "running" /\ wf.rotation = 0
         /\ Formed /\ Becomes("running", "codex_launching") /\ Moves("dispatch")
         /\ wf'.launch = Len(turns) + 1 /\ wf'.turn = wf.turn
         /\ wf'.result = wf.result /\ wf'.thread = wf.thread
         /\ SamePlan /\ SameReview /\ SameThreads
         /\ Outside
  BY Zenon DEF Shape, Fields, Intend, Goto, external, Formed, Becomes, Moves,
               SamePlan, SameTurn, SameReview, SameThreads, Outside

LEMMA IntendKeeps ==
  ASSUME IInv, Intend
  PROVE  IInv'
  <1> USE IntendWrites DEF IInv, Formed, Becomes, Moves, SamePlan, SameTurn,
               SameReview, SameThreads, Outside
  <1>1. Shape'
    <2>1. /\ wf'.cycle \in Nat /\ wf'.thread \in Nat /\ wf'.chat \in Nat
          /\ wf'.launch \in Nat /\ wf'.turn \in Nat /\ wf'.attempt \in {0, 1, 2}
      BY SMTT(30) DEF Shape
    <2>2. /\ wf'.rotation \in Nat
          /\ DOMAIN wf'.record = {"cycle", "kind", "turn", "review"}
          /\ wf'.checkpoint.cycle \in Nat /\ wf'.checkpoint.thread \in Nat
          /\ run'.deferred \in Nat /\ turns \in Seq(Turn)
      BY SMTT(30) DEF Shape
    <2> QED  BY <2>1, <2>2, ShapeKept
  <1>2. Places'
    BY DEF Shape, Places, PhaseAt, IsPaused
  <1>3. PlanInv'
    BY PlanKept DEF Shape, Places, PhaseAt, IsPaused
  <1>4. TurnInv'
    <2>1. Named'
      BY DEF Shape, Places, PhaseAt, TurnInv, Named, PhaseKnows, IsPaused
    <2>2. PhaseKnows'
      BY DEF Shape, Places, PhaseAt, TurnInv, Named, PhaseKnows, IsPaused
    <2>3. TurnsKept'
      BY SMTT(30) DEF Shape, Places, PhaseAt, TurnInv, Named, PhaseKnows, TurnsKept
    <2>4. Completed'
      BY DEF Shape, Places, PhaseAt, TurnInv, Named, PhaseKnows, TurnsKept,
           Completed
    <2> QED  BY <2>1, <2>2, <2>3, <2>4 DEF TurnInv
  <1>5. ReviewInv'
    BY WorkKept
  <1>6. Rotates'
    BY ThreadKept DEF Shape, Places, PhaseAt, IsPaused, TurnInv, PhaseKnows,
         Named, Rotates
  <1> QED  BY <1>1, <1>2, <1>3, <1>4, <1>5, <1>6 DEF PlanInv, TurnInv, ReviewInv

LEMMA IdentifyWrites ==
  ASSUME Shape, Identify
  PROVE  /\ run.pc = "acked" /\ wf.status = "running"
         /\ Formed /\ Becomes("running", "codex_running") /\ Moves("waiting")
         /\ wf'.launch = 0 /\ wf'.turn = wf.launch
         /\ wf'.result = wf.result /\ wf'.thread = wf.thread
         /\ SamePlan /\ SameReview /\ SameThreads
         /\ Outside
  BY Zenon DEF Shape, Fields, Identify, Goto, external, Formed, Becomes,
               Moves, SamePlan, SameTurn, SameReview, SameThreads, Outside

LEMMA IdentifyKeeps ==
  ASSUME IInv, Identify
  PROVE  IInv'
  <1> USE IdentifyWrites DEF IInv, Formed, Becomes, Moves, SamePlan, SameTurn,
               SameReview, SameThreads, Outside
  <1>1. Shape'
    <2>1. /\ wf'.cycle \in Nat /\ wf'.thread \in Nat /\ wf'.chat \in Nat
          /\ wf'.launch \in Nat /\ wf'.turn \in Nat /\ wf'.attempt \in {0, 1, 2}
      BY SMTT(30) DEF Shape
    <2>2. /\ wf'.rotation \in Nat
          /\ DOMAIN wf'.record = {"cycle", "kind", "turn", "review"}
          /\ wf'.checkpoint.cycle \in Nat /\ wf'.checkpoint.thread \in Nat
          /\ run'.deferred \in Nat /\ turns \in Seq(Turn)
      BY SMTT(30) DEF Shape
    <2> QED  BY <2>1, <2>2, ShapeKept
  <1>2. Places'
    BY DEF Shape, Places, PhaseAt, IsPaused
  <1>3. PlanInv'
    BY PlanKept DEF Shape, Places, PhaseAt, IsPaused
  <1>4. TurnInv'
    <2>1. Named'
      BY DEF Shape, Places, PhaseAt, TurnInv, Named, PhaseKnows, IsPaused
    <2>2. PhaseKnows'
      BY DEF Shape, Places, PhaseAt, TurnInv, Named, PhaseKnows, IsPaused
    <2>3. TurnsKept'
      BY SMTT(30) DEF Shape, Places, PhaseAt, TurnInv, Named, PhaseKnows, TurnsKept
    <2>4. Completed'
      BY DEF Shape, Places, PhaseAt, TurnInv, Named, PhaseKnows, TurnsKept,
           Completed
    <2> QED  BY <2>1, <2>2, <2>3, <2>4 DEF TurnInv
  <1>5. ReviewInv'
    BY WorkKept
  <1>6. Rotates'
    BY ThreadKept DEF Shape, Places, PhaseAt, IsPaused, TurnInv, PhaseKnows,
         Named, Rotates
  <1> QED  BY <1>1, <1>2, <1>3, <1>4, <1>5, <1>6 DEF PlanInv, TurnInv, ReviewInv

LEMMA CountExitWrites ==
  ASSUME Shape, CountExit
  PROVE  /\ run.pc = "exit" /\ wf.status = "running"
         /\ Formed /\ Becomes("running", "codex_recovering") /\ Moves("recover")
         /\ SameTurn /\ SamePlan /\ SameReview /\ SameThreads
         /\ Outside
  BY Zenon DEF Shape, Fields, CountExit, Goto, external, Formed, Becomes,
               Moves, SamePlan, SameTurn, SameReview, SameThreads, Outside

LEMMA CountExitKeeps ==
  ASSUME IInv, CountExit
  PROVE  IInv'
  <1> USE CountExitWrites DEF IInv, Formed, Becomes, Moves, SamePlan,
               SameTurn, SameReview, SameThreads, Outside
  <1>1. Shape'
    <2>1. /\ wf'.cycle \in Nat /\ wf'.thread \in Nat /\ wf'.chat \in Nat
          /\ wf'.launch \in Nat /\ wf'.turn \in Nat /\ wf'.attempt \in {0, 1, 2}
      BY SMTT(30) DEF Shape
    <2>2. /\ wf'.rotation \in Nat
          /\ DOMAIN wf'.record = {"cycle", "kind", "turn", "review"}
          /\ wf'.checkpoint.cycle \in Nat /\ wf'.checkpoint.thread \in Nat
          /\ run'.deferred \in Nat /\ turns \in Seq(Turn)
      BY SMTT(30) DEF Shape
    <2> QED  BY <2>1, <2>2, ShapeKept
  <1>2. Places'
    BY DEF Shape, Places, PhaseAt, IsPaused
  <1>3. PlanInv'
    BY PlanKept DEF Shape, Places, PhaseAt, IsPaused
  <1>4. TurnInv'
    <2>1. Named'
      BY DEF Shape, Places, PhaseAt, TurnInv, Named, PhaseKnows, IsPaused
    <2>2. PhaseKnows'
      BY DEF Shape, Places, PhaseAt, TurnInv, Named, PhaseKnows, IsPaused
    <2>3. TurnsKept'
      BY SMTT(30) DEF Shape, Places, PhaseAt, TurnInv, Named, PhaseKnows, TurnsKept
    <2>4. Completed'
      BY DEF Shape, Places, PhaseAt, TurnInv, Named, PhaseKnows, TurnsKept,
           Completed
    <2> QED  BY <2>1, <2>2, <2>3, <2>4 DEF TurnInv
  <1>5. ReviewInv'
    BY WorkKept
  <1>6. Rotates'
    BY ThreadKept DEF Shape, Places, PhaseAt, IsPaused, TurnInv, PhaseKnows,
         Named, Rotates
  <1> QED  BY <1>1, <1>2, <1>3, <1>4, <1>5, <1>6 DEF PlanInv, TurnInv, ReviewInv

LEMMA NextCycleWrites ==
  ASSUME Shape, NextCycle
  PROVE  /\ run.pc = "next" /\ wf.status = "running" /\ wf.rotation = 0
         /\ Formed /\ Becomes("running", "codex_ready") /\ Moves("ready")
         /\ wf'.cycle = wf.cycle + 1 /\ wf'.turn = 0 /\ wf'.launch = wf.launch
         /\ wf'.result = wf.result /\ wf'.thread = wf.thread
         /\ SamePlan /\ SameThreads
         /\ wf'.record = wf.record /\ wf'.child = wf.child
         /\ Outside
  BY Zenon DEF Shape, Fields, NextCycle, Goto, external, Formed, Becomes,
               Moves, SamePlan, SameTurn, SameReview, SameThreads, Outside

LEMMA NextCycleKeeps ==
  ASSUME IInv, NextCycle
  PROVE  IInv'
  <1> USE NextCycleWrites DEF IInv, Formed, Becomes, Moves, SamePlan,
               SameTurn, SameReview, SameThreads, Outside
  <1>1. wf'.cycle \in Nat
    BY DEF Shape
  <1>2. Shape'
    <2>1. /\ wf'.cycle \in Nat /\ wf'.thread \in Nat /\ wf'.chat \in Nat
          /\ wf'.launch \in Nat /\ wf'.turn \in Nat /\ wf'.attempt \in {0, 1, 2}
      BY <1>1, SMTT(30) DEF Shape
    <2>2. /\ wf'.rotation \in Nat
          /\ DOMAIN wf'.record = {"cycle", "kind", "turn", "review"}
          /\ wf'.checkpoint.cycle \in Nat /\ wf'.checkpoint.thread \in Nat
          /\ run'.deferred \in Nat /\ turns \in Seq(Turn)
      BY SMTT(30) DEF Shape
    <2> QED  BY <2>1, <2>2, ShapeKept
  <1>3. Places'
    BY DEF Shape, Places, PhaseAt, IsPaused
  <1>4. PlanInv'
    BY PlanKept DEF Shape, Places, PhaseAt, IsPaused
  <1>5. TurnInv'
    <2>1. Named'
      BY DEF Shape, Places, PhaseAt, TurnInv, Named, PhaseKnows, IsPaused
    <2>2. PhaseKnows'
      BY DEF Shape, Places, PhaseAt, TurnInv, Named, PhaseKnows, IsPaused
    <2>3. TurnsKept'
      BY SMTT(30) DEF Shape, Places, PhaseAt, TurnInv, Named, PhaseKnows, TurnsKept
    <2>4. Completed'
      BY DEF Shape, Places, PhaseAt, TurnInv, Named, PhaseKnows, TurnsKept,
           Completed
    <2> QED  BY <2>1, <2>2, <2>3, <2>4 DEF TurnInv
  <1>6. ReviewInv'
    BY WorkKept
  <1>7. Rotates'
    BY ThreadKept DEF Shape, Places, PhaseAt, IsPaused, TurnInv, PhaseKnows,
         Named, Rotates
  <1> QED  BY <1>1, <1>2, <1>3, <1>4, <1>5, <1>6, <1>7 DEF PlanInv, TurnInv, ReviewInv

LEMMA RotateWrites ==
  ASSUME Shape, Rotate
  PROVE  /\ run.pc \in {"next", "ready"} /\ wf.status = "running"
         /\ wf.rotation # 0
         /\ Formed /\ Becomes("running", wf.phase)
         /\ run'.pc = run.pc /\ run'.got = run.got /\ run'.deferred = 0
         /\ wf'.thread = wf.thread + 1 /\ wf'.rotation = 0
         /\ wf'.checkpoint = wf.checkpoint
         /\ wf'.turn = wf.turn /\ wf'.launch = wf.launch /\ wf'.result = wf.result
         /\ SamePlan /\ SameReview
         /\ Outside
  BY Zenon DEF Shape, Fields, Rotate, Goto, external, Formed, Becomes, Moves,
               SamePlan, SameTurn, SameReview, SameThreads, Outside

LEMMA RotateKeeps ==
  ASSUME IInv, Rotate
  PROVE  IInv'
  <1> USE RotateWrites DEF IInv, Formed, Becomes, Moves, SamePlan, SameTurn,
               SameReview, SameThreads, Outside
  <1>1. wf'.thread \in Nat
    BY DEF Shape
  <1>2. wf.phase \in {"codex_ready", "review_captured"}
    BY DEF Shape, Places, PhaseAt, IsPaused
  <1>3. Shape'
    <2>1. /\ wf'.cycle \in Nat /\ wf'.thread \in Nat /\ wf'.chat \in Nat
          /\ wf'.launch \in Nat /\ wf'.turn \in Nat /\ wf'.attempt \in {0, 1, 2}
      BY <1>1, SMTT(30) DEF Shape
    <2>2. /\ wf'.rotation \in Nat
          /\ DOMAIN wf'.record = {"cycle", "kind", "turn", "review"}
          /\ wf'.checkpoint.cycle \in Nat /\ wf'.checkpoint.thread \in Nat
          /\ run'.deferred \in Nat /\ turns \in Seq(Turn)
      BY SMTT(30) DEF Shape
    <2> QED  BY <2>1, <2>2, ShapeKept
  <1>4. Places'
    BY <1>2 DEF Shape, Places, PhaseAt, IsPaused
  <1>5. PlanInv'
    BY PlanKept, <1>2
  <1>6. TurnInv'
    <2>1. Named'
      BY <1>2 DEF Shape, Places, PhaseAt, TurnInv, Named, PhaseKnows, IsPaused
    <2>2. PhaseKnows'
      BY <1>2 DEF Shape, Places, PhaseAt, TurnInv, Named, PhaseKnows, IsPaused
    <2>3. TurnsKept'
      BY <1>2, SMTT(30) DEF Shape, Places, PhaseAt, TurnInv, Named, PhaseKnows, TurnsKept
    <2>4. Completed'
      BY <1>2 DEF Shape, Places, PhaseAt, TurnInv, Named, PhaseKnows, TurnsKept,
           Completed
    <2> QED  BY <2>1, <2>2, <2>3, <2>4 DEF TurnInv
  <1>7. Recorded' /\ Asked'
    BY <1>2 DEF Places, PhaseAt, ReviewInv, Recorded, UnderReview, Asked,
         IsPaused
  <1>8. Settled'
    BY DEF Settled, SettledOnEvidence
  <1>9. wf.checkpoint.thread <= wf.thread => wf.checkpoint.thread < wf'.thread
    BY SMTT(30) DEF Shape
  <1>10. wf'.checkpoint.thread < wf'.thread
    BY <1>9 DEF Shape, Rotates
  <1>11. UnderReview' /\ wf'.record.kind = "candidate" /\ GivenUp(wf.record.turn)' =>
         wf'.phase = "review_captured" /\ ~Settles(wf'.record)
    <2>1. UnderReview' => UnderReview /\ wf.phase = "review_captured"
      BY <1>2 DEF UnderReview, IsPaused
    <2>2. ~Unrepaired
      BY DEF Unrepaired
    <2>3. GivenUp(wf.record.turn)' => GivenUp(wf.record.turn)
      BY DEF GivenUp
    <2>4. wf'.phase = wf.phase /\ wf'.record = wf.record
      OBVIOUS
    <2> QED  BY <2>1, <2>2, <2>3, <2>4 DEF Rotates
  <1>12. wf'.checkpoint.thread \in Nat /\ wf'.thread \in Nat
    BY <1>1 DEF Shape
  <1>13. Rotates'
    BY <1>10, <1>11, <1>12 DEF Rotates
  <1> QED  BY <1>1, <1>2, <1>3, <1>4, <1>5, <1>6, <1>7, <1>8, <1>9, <1>10,
         <1>11, <1>12, <1>13 DEF PlanInv, TurnInv, ReviewInv

LEMMA OpenThreadWrites ==
  ASSUME Shape, OpenThread
  PROVE  /\ run.pc = "setup" /\ wf.status = "running"
         /\ wf.phase \in Started
         /\ Formed /\ wf'.status = "running" /\ wf'.phase \in Started
         /\ Moves("loop")
         /\ wf'.thread = IF wf.thread = 0 THEN 1 ELSE wf.thread
         /\ wf'.turn = wf.turn /\ wf'.launch = wf.launch /\ wf'.result = wf.result
         /\ SamePlan /\ SameReview /\ SameThreads
         /\ Outside
  BY Zenon DEF Shape, Fields, OpenThread, Goto, external, Setup, Started,
               Formed, Becomes, Moves, SamePlan, SameTurn, SameReview,
               SameThreads, Outside

LEMMA OpenThreadKeeps ==
  ASSUME IInv, OpenThread
  PROVE  IInv'
  <1> USE OpenThreadWrites DEF IInv, Formed, Becomes, Moves, SamePlan,
               SameTurn, SameReview, SameThreads, Outside
  <1>1. wf'.thread \in Nat
    BY DEF Shape
  <1>2. Shape'
    <2>1. /\ wf'.cycle \in Nat /\ wf'.thread \in Nat /\ wf'.chat \in Nat
          /\ wf'.launch \in Nat /\ wf'.turn \in Nat /\ wf'.attempt \in {0, 1, 2}
      BY <1>1, SMTT(30) DEF Shape
    <2>2. /\ wf'.rotation \in Nat
          /\ DOMAIN wf'.record = {"cycle", "kind", "turn", "review"}
          /\ wf'.checkpoint.cycle \in Nat /\ wf'.checkpoint.thread \in Nat
          /\ run'.deferred \in Nat /\ turns \in Seq(Turn)
      BY SMTT(30) DEF Shape
    <2> QED  BY <2>1, <2>2, ShapeKept
  <1>3. Places'
    BY DEF Shape, Places, PhaseAt, IsPaused
  <1>4. PlanInv'
    BY PlanKept DEF Shape, Places, PhaseAt, IsPaused
  <1>5. TurnInv'
    <2>1. Named'
      BY DEF Shape, Places, PhaseAt, TurnInv, Named, PhaseKnows, IsPaused
    <2>2. PhaseKnows'
      BY DEF Shape, Places, PhaseAt, TurnInv, Named, PhaseKnows, IsPaused
    <2>3. TurnsKept'
      BY SMTT(30) DEF Shape, Places, PhaseAt, TurnInv, Named, PhaseKnows, TurnsKept
    <2>4. Completed'
      BY DEF Shape, Places, PhaseAt, TurnInv, Named, PhaseKnows, TurnsKept,
           Completed
    <2> QED  BY <2>1, <2>2, <2>3, <2>4 DEF TurnInv
  <1>6. ReviewInv'
    BY WorkKept
  <1>7. Rotates'
    BY DEF Shape, Places, PhaseAt, IsPaused, TurnInv, PhaseKnows, Rotates,
         Unrepaired, UnderReview, IsPaused
  <1> QED  BY <1>1, <1>2, <1>3, <1>4, <1>5, <1>6, <1>7 DEF PlanInv, TurnInv, ReviewInv

LEMMA TakeStoredResultWrites ==
  ASSUME Shape, TakeStoredResult
  PROVE  /\ run.pc = "setup" /\ wf.status = "running" /\ wf.result # 0
         /\ Formed /\ wf' = wf
         /\ run'.pc = "loop" /\ run'.got = wf.result
         /\ run'.deferred = wf.cycle
         /\ Outside
  BY Zenon DEF Shape, Fields, TakeStoredResult, Goto, external, Setup, Formed,
               Becomes, Moves, SamePlan, SameTurn, SameReview, SameThreads,
               Outside

LEMMA TakeStoredResultKeeps ==
  ASSUME IInv, TakeStoredResult
  PROVE  IInv'
  <1> USE TakeStoredResultWrites DEF IInv, Formed, Becomes, Moves, SamePlan,
               SameTurn, SameReview, SameThreads, Outside
  <1>1. Shape'
    <2>1. /\ wf'.cycle \in Nat /\ wf'.thread \in Nat /\ wf'.chat \in Nat
          /\ wf'.launch \in Nat /\ wf'.turn \in Nat /\ wf'.attempt \in {0, 1, 2}
      BY SMTT(30) DEF Shape
    <2>2. /\ wf'.rotation \in Nat
          /\ DOMAIN wf'.record = {"cycle", "kind", "turn", "review"}
          /\ wf'.checkpoint.cycle \in Nat /\ wf'.checkpoint.thread \in Nat
          /\ run'.deferred \in Nat /\ turns \in Seq(Turn)
      BY SMTT(30) DEF Shape
    <2> QED  BY <2>1, <2>2, ShapeKept
  <1>2. Places'
    BY DEF Shape, Places, PhaseAt, IsPaused
  <1>3. PlanInv'
    BY PlanKept DEF Shape, Places, PhaseAt, IsPaused
  <1>4. TurnInv'
    <2>1. Named'
      BY DEF Shape, Places, PhaseAt, TurnInv, Named, PhaseKnows, IsPaused
    <2>2. PhaseKnows'
      BY DEF Shape, Places, PhaseAt, TurnInv, Named, PhaseKnows, IsPaused
    <2>3. TurnsKept'
      BY SMTT(30) DEF Shape, Places, PhaseAt, TurnInv, Named, PhaseKnows, TurnsKept
    <2>4. Completed'
      BY DEF Shape, Places, PhaseAt, TurnInv, Named, PhaseKnows, TurnsKept,
           Completed
    <2> QED  BY <2>1, <2>2, <2>3, <2>4 DEF TurnInv
  <1>5. ReviewInv'
    BY WorkKept DEF Shape, Places, PhaseAt, TurnInv, Named, PhaseKnows,
         TurnsKept, Completed, IsPaused
  <1>6. Rotates'
    BY ThreadKept DEF Shape, Places, PhaseAt, IsPaused, TurnInv, PhaseKnows,
         Named, Rotates
  <1> QED  BY <1>1, <1>2, <1>3, <1>4, <1>5, <1>6 DEF PlanInv, TurnInv, ReviewInv

LEMMA TurnWaitsWrites ==
  ASSUME Shape, TurnWaits
  PROVE  /\ run.pc = "waiting" /\ wf.status = "running"
         /\ wf' = wf /\ Outside /\ Formed /\ run'.deferred = run.deferred
         /\ \/ /\ turns[wf.turn].state = "completed"
               /\ run'.pc = "result" /\ run'.got = wf.turn
            \/ run'.pc = "exit" /\ run'.got = run.got
  <1>1. run.pc = "waiting" /\ wf.status = "running" /\ wf' = wf /\ Outside
    BY DEF TurnWaits, external, Outside
  <1>2. CASE run' = [run EXCEPT !.pc = "result", !.got = wf.turn]
    <2>1. Formed /\ run'.deferred = run.deferred
      BY <1>1, <1>2, Zenon DEF Shape, Formed
    <2>2. run'.pc = "result" /\ run'.got = wf.turn
      BY <1>2, Zenon DEF Shape
    <2>3. run'.pc # "exit"
      BY <2>2
    <2> QED  BY <1>1, <2>1, <2>2, <2>3, Zenon DEF TurnWaits, Goto, Shape
  <1>3. CASE Goto("exit")
    BY <1>1, <1>3, Zenon DEF Shape, Formed, Goto
  <1> QED  BY <1>2, <1>3 DEF TurnWaits

LEMMA TurnWaitsKeeps ==
  ASSUME IInv, TurnWaits
  PROVE  IInv'
  <1> USE TurnWaitsWrites DEF IInv, Formed, Becomes, Moves, SamePlan,
               SameTurn, SameReview, SameThreads, Outside
  <1>1. Shape'
    <2>1. /\ wf'.cycle \in Nat /\ wf'.thread \in Nat /\ wf'.chat \in Nat
          /\ wf'.launch \in Nat /\ wf'.turn \in Nat /\ wf'.attempt \in {0, 1, 2}
      BY SMTT(30) DEF Shape
    <2>2. /\ wf'.rotation \in Nat
          /\ DOMAIN wf'.record = {"cycle", "kind", "turn", "review"}
          /\ wf'.checkpoint.cycle \in Nat /\ wf'.checkpoint.thread \in Nat
          /\ run'.deferred \in Nat /\ turns \in Seq(Turn)
      BY SMTT(30) DEF Shape
    <2> QED  BY <2>1, <2>2, ShapeKept
  <1>2. Places'
    BY DEF Shape, Places, PhaseAt, IsPaused
  <1>3. PlanInv'
    BY PlanKept DEF Shape, Places, PhaseAt, IsPaused
  <1>4. TurnInv'
    <2>1. Named'
      BY DEF Shape, Places, PhaseAt, TurnInv, Named, PhaseKnows, IsPaused
    <2>2. PhaseKnows'
      BY DEF Shape, Places, PhaseAt, TurnInv, Named, PhaseKnows, IsPaused
    <2>3. TurnsKept'
      BY SMTT(30) DEF Shape, Places, PhaseAt, TurnInv, Named, PhaseKnows, TurnsKept
    <2>4. Completed'
      BY DEF Shape, Places, PhaseAt, TurnInv, Named, PhaseKnows, TurnsKept,
           Completed
    <2> QED  BY <2>1, <2>2, <2>3, <2>4 DEF TurnInv
  <1>5. ReviewInv'
    BY WorkKept DEF Shape, Places, PhaseAt, IsPaused
  <1>6. Rotates'
    BY ThreadKept DEF Shape, Places, PhaseAt, IsPaused, TurnInv, PhaseKnows,
         Named, Rotates
  <1> QED  BY <1>1, <1>2, <1>3, <1>4, <1>5, <1>6 DEF PlanInv, TurnInv, ReviewInv

-----------------------------------------------------------------------------
(* A turn is accounted for: its fate is told, and nothing else of it.      *)
Accounts(t, how) ==
  /\ turns' \in Seq(Turn) /\ Len(turns') = Len(turns)
  /\ \A u \in DOMAIN turns :
       /\ turns'[u].mark = turns[u].mark /\ turns'[u].state = turns[u].state
       /\ turns'[u].kind = turns[u].kind /\ turns'[u].thread = turns[u].thread
       /\ turns'[u].fate = IF u = t THEN how ELSE turns[u].fate

LEMMA AccountWrites ==
  ASSUME turns \in Seq(Turn), NEW t \in DOMAIN turns, turns[t].fate = "open",
         NEW how \in {"taken", "retired"}, turns' = Account(t, how)
  PROVE  Accounts(t, how)
  <1> DEFINE told == [turns[t] EXCEPT !.fate = how]
  <1>1. t # 0 /\ t \in Nat
    OBVIOUS
  <1>2. turns' = [turns EXCEPT ![t] = told]
    BY <1>1, Zenon DEF Account
  <1>3. turns[t] \in Turn
    OBVIOUS
  <1>4. told \in Turn
    BY <1>3 DEF Turn
  <1>5. /\ told.fate = how /\ told.mark = turns[t].mark
        /\ told.state = turns[t].state /\ told.kind = turns[t].kind
        /\ told.thread = turns[t].thread
    BY <1>3 DEF Turn
  <1> HIDE DEF told
  <1>6. turns' \in Seq(Turn) /\ Len(turns') = Len(turns)
    BY <1>2, <1>4
  <1>7. \A u \in DOMAIN turns : turns'[u] = IF u = t THEN told ELSE turns[u]
    BY <1>2
  <1> QED  BY <1>5, <1>6, <1>7 DEF Accounts

(* The turn in force is given up or asked anew, at the same cycle.         *)
LEMMA AnewKeeps ==
  ASSUME IInv, wf.status = "running", wf.phase \in Started \cup Accepted,
         Formed, Becomes("running", "codex_ready"),
         wf'.turn = 0, wf'.launch = wf.launch, wf'.result = 0,
         wf'.thread = wf.thread, SamePlan, SameReview,
         wf'.checkpoint = wf.checkpoint, wf'.rotation \in Nat,
         wf'.rotation # 0 \/ (wf.rotation = 0 /\ run.pc \notin {"start", "down"}),
         run'.pc \in {"start", "loop", "ready"}, run'.got = 0,
         run'.deferred \in Nat, children' = children, spaces' = spaces,
         \/ wf.turn = 0 /\ turns' = turns
         \/ wf.turn # 0 /\ \E how \in {"taken", "retired"} : Accounts(wf.turn, how)
  PROVE  IInv'
  <1> USE DEF IInv, Formed, Becomes, SamePlan, SameReview
  <1>1. /\ turns' \in Seq(Turn) /\ Len(turns') = Len(turns)
        /\ DOMAIN turns = 1..Len(turns) /\ DOMAIN turns' = 1..Len(turns)
    BY DEF Shape, Accounts
  <1>2. wf.launch = 0
    BY DEF TurnInv, PhaseKnows
  <1>3. \A u \in DOMAIN turns :
          /\ turns'[u].mark = turns[u].mark
          /\ turns'[u].fate # "twice"
          /\ turns'[u].fate = "open" => u # wf.turn /\ turns[u].fate = "open"
    BY <1>1, <1>2 DEF TurnInv, TurnsKept, Accounts
  <1>4. Shape'
    BY <1>1 DEF Shape
  <1>5. Places'
    BY DEF Places, PhaseAt
  <1>6. PlanInv'
    BY PlanKept
  <1>7. Named'
    BY <1>1, <1>2 DEF Named
  <1>8. PhaseKnows'
    BY <1>2 DEF PhaseKnows, IsPaused
  <1>9. TurnsKept'
    <2> SUFFICES ASSUME NEW u \in DOMAIN turns'
                 PROVE  /\ turns'[u].mark = u
                        /\ turns'[u].fate # "twice"
                        /\ turns'[u].fate # "open"
      BY DEF TurnsKept
    <2> QED  BY <1>1, <1>2, <1>3 DEF TurnInv, TurnsKept
  <1>10. Completed'
    BY DEF Completed
  <1>11. ReviewInv'
    BY WorkKept
  <1>12. Rotates'
    BY DEF Rotates, Unrepaired, UnderReview, IsPaused
  <1> QED  BY <1>4, <1>5, <1>6, <1>7, <1>8, <1>9, <1>10, <1>11, <1>12 DEF TurnInv

(* The answer of the turn in force is stored before it is looked at.       *)
LEMMA StoreWrites ==
  ASSUME Shape, wf' = StoreResult(wf.turn), wf.status = "running",
         DOMAIN run' = DOMAIN run
  PROVE  /\ Formed /\ Becomes("running", "codex_running")
         /\ wf'.result = wf.turn /\ wf'.turn = wf.turn
         /\ wf'.launch = wf.launch /\ wf'.thread = wf.thread
         /\ SamePlan /\ SameReview /\ SameThreads
  BY Zenon DEF Shape, Fields, StoreResult, Formed, Becomes, SamePlan, SameReview,
               SameThreads

LEMMA StoreKeeps ==
  ASSUME IInv, wf.status = "running", wf.phase \in Accepted,
         run.pc \in {"setup", "recover"}, turns[wf.turn].state = "completed",
         wf' = StoreResult(wf.turn), DOMAIN run' = DOMAIN run,
         run'.pc \in {"loop", "result"}, run'.got = wf.turn,
         run'.deferred = run.deferred, Outside
  PROVE  IInv'
  <1> USE StoreWrites DEF IInv, Formed, Becomes, SamePlan, SameReview, Outside
  <1>1. Shape'
    BY DEF Shape, SameThreads
  <1>2. Places'
    BY DEF Places, PhaseAt
  <1>3. PlanInv'
    BY PlanKept
  <1>4. TurnInv'
    BY DEF Shape, TurnInv, Named, PhaseKnows, TurnsKept, Completed, IsPaused,
           SameThreads, Rotates
  <1>5. ReviewInv'
    BY WorkKept
  <1>6. Rotates'
    BY ThreadKept DEF Rotates
  <1> QED  BY <1>1, <1>2, <1>3, <1>4, <1>5, <1>6

(* A candidate, or a checkpoint of the broker's own, is put on record.     *)
LEMMA CaptureWrites ==
  ASSUME Shape, NEW kind, NEW t, NEW how, NEW liveness \in BOOLEAN,
         wf.status = "running", Capture(kind, t, how, liveness)
  PROVE  /\ Formed /\ Becomes("running", "codex_captured")
         /\ run'.pc = "review" /\ run'.got = 0 /\ run'.deferred = 0
         /\ wf'.turn = 0 /\ wf'.result = 0
         /\ wf'.launch = wf.launch /\ wf'.thread = wf.thread
         /\ SamePlan /\ wf'.cycle = wf.cycle /\ wf'.child = wf.child
         /\ DOMAIN wf'.record = {"cycle", "kind", "turn", "review"}
         /\ wf'.record.cycle = wf.cycle /\ wf'.record.kind = kind
         /\ wf'.record.turn = t
         /\ wf'.checkpoint = IF liveness
                             THEN [cycle |-> wf.cycle, thread |-> wf.thread]
                             ELSE wf.checkpoint
         /\ wf'.rotation = IF liveness THEN wf.cycle
                           ELSE IF run.deferred # 0 THEN run.deferred
                           ELSE wf.rotation
  <1>1. wf' = Captured(kind, t, liveness)
    BY DEF Capture
  <1>2. /\ Becomes("running", "codex_captured")
        /\ wf'.turn = 0 /\ wf'.result = 0 /\ wf'.launch = wf.launch
        /\ wf'.thread = wf.thread /\ wf'.cycle = wf.cycle /\ wf'.child = wf.child
    BY <1>1, Zenon DEF Shape, Fields, Captured, Becomes
  <1>3. SamePlan /\ DOMAIN wf' = Fields
    BY <1>1, Zenon DEF Shape, Fields, Captured, SamePlan
  <1>4. /\ DOMAIN wf'.record = {"cycle", "kind", "turn", "review"}
        /\ wf'.record.cycle = wf.cycle /\ wf'.record.kind = kind
        /\ wf'.record.turn = t
    BY <1>1, Zenon DEF Shape, Fields, Captured, NoRecord
  <1>5. wf'.checkpoint = IF liveness
                         THEN [cycle |-> wf.cycle, thread |-> wf.thread]
                         ELSE wf.checkpoint
    BY <1>1, Zenon DEF Shape, Fields, Captured
  <1>6. wf'.rotation = IF liveness THEN wf.cycle
                       ELSE IF run.deferred # 0 THEN run.deferred
                       ELSE wf.rotation
    BY <1>1, Zenon DEF Shape, Fields, Captured
  <1>7. /\ DOMAIN run' = {"pc", "got", "deferred", "create"}
        /\ run'.pc = "review" /\ run'.got = 0 /\ run'.deferred = 0
    BY Zenon DEF Shape, Capture
  <1> QED  BY <1>2, <1>3, <1>4, <1>5, <1>6, <1>7 DEF Formed

LEMMA CaptureKeeps ==
  ASSUME IInv, NEW kind, NEW how \in {"taken", "retired"},
         NEW liveness \in BOOLEAN, wf.status = "running",
         wf.phase \in Accepted, run.pc \in {"setup", "recover", "result"},
         Capture(kind, wf.turn, how, liveness),
         children' = children, spaces' = spaces,
         liveness => kind = "blocked",
         kind = "candidate" => /\ turns[wf.turn].kind = "candidate"
                               /\ turns[wf.turn].state = "completed"
                               /\ how = "taken"
  PROVE  IInv'
  <1> USE DEF IInv, Formed, Becomes, SamePlan
  <1>1. /\ wf.turn \in DOMAIN turns /\ turns[wf.turn].fate = "open"
        /\ wf.turn # 0 /\ wf.launch = 0 /\ wf.rotation = 0
    BY DEF TurnInv, Named, PhaseKnows, Rotates
  <1>2. Accounts(wf.turn, how)
    BY <1>1, AccountWrites DEF Shape, Capture
  <1>3. /\ turns' \in Seq(Turn) /\ Len(turns') = Len(turns)
        /\ DOMAIN turns = 1..Len(turns) /\ DOMAIN turns' = 1..Len(turns)
    BY <1>2 DEF Shape, Accounts
  <1> USE CaptureWrites
  <1>4. Shape'
    <2>1. wf'.checkpoint.cycle \in Nat /\ wf'.checkpoint.thread \in Nat
      BY DEF Shape
    <2>2. wf'.rotation \in Nat
      BY DEF Shape
    <2>3. /\ wf.cycle \in Nat /\ wf.thread \in Nat /\ wf.chat \in Nat
          /\ wf.launch \in Nat /\ wf.attempt \in {0, 1, 2}
      BY DEF Shape
    <2> QED  BY <1>3, <2>1, <2>2, <2>3, ShapeKept
  <1>5. Places'
    BY DEF Places, PhaseAt
  <1>6. PlanInv'
    BY PlanKept DEF Shape
  <1>7. Named' /\ PhaseKnows' /\ Completed'
    <2>1. Named'
      BY <1>1, <1>3 DEF Named
    <2>2. PhaseKnows' /\ Completed'
      BY <1>1 DEF PhaseKnows, Completed, IsPaused
    <2> QED  BY <2>1, <2>2
  <1>8. TurnsKept'
    <2> SUFFICES ASSUME NEW u \in DOMAIN turns'
                 PROVE  /\ turns'[u].mark = u
                        /\ turns'[u].fate # "twice"
                        /\ turns'[u].fate # "open"
      BY DEF TurnsKept
    <2> QED  BY <1>1, <1>2, <1>3 DEF TurnInv, TurnsKept, Accounts
  <1>9. ReviewInv'
    <2>1. kind = "candidate" =>
            /\ turns'[wf.turn].kind = "candidate"
            /\ turns'[wf.turn].state = "completed"
            /\ turns'[wf.turn].fate = "taken"
      BY <1>1, <1>2 DEF Accounts
    <2>2. Recorded'
      BY <1>1, <1>3, <2>1 DEF Recorded
    <2>3. Asked' /\ Settled'
      BY DEF Asked, Settled, SettledOnEvidence
    <2> QED  BY <2>2, <2>3 DEF ReviewInv
  <1>10. Rotates'
    <2>1. wf.checkpoint.cycle = 0 \/ wf.checkpoint.thread < wf.thread
      BY <1>1 DEF Rotates, Unrepaired
    <2>2. kind = "candidate" => ~GivenUp(wf.record.turn)'
      <3> SUFFICES ASSUME kind = "candidate" PROVE ~GivenUp(wf.record.turn)'
        OBVIOUS
      <3>1. /\ wf'.checkpoint = wf.checkpoint /\ wf'.record.turn = wf.turn
            /\ wf'.cycle = wf.cycle
        OBVIOUS
      <3>2. turns'[wf.turn].thread = wf.thread
        BY <1>1, <1>2 DEF Accounts, TurnInv, Completed
      <3>3. wf.thread \in Nat /\ wf.checkpoint.thread \in Nat /\ wf.cycle \in Nat
        BY DEF Shape
      <3> HIDE DEF IInv
      <3> QED  BY <2>1, <3>1, <3>2, <3>3 DEF GivenUp
    <2>3. wf'.checkpoint.thread <= wf'.thread
      BY DEF Rotates, Shape
    <2>4. \/ wf'.checkpoint.cycle = 0
          \/ wf'.checkpoint.thread < wf'.thread
          \/ wf'.rotation # 0
      BY <2>1 DEF Shape
    <2> QED  BY <2>2, <2>3, <2>4 DEF Rotates
  <1> QED  BY <1>4, <1>5, <1>6, <1>7, <1>8, <1>9, <1>10 DEF TurnInv

LEMMA ExceededKeeps == ASSUME IInv, Exceeded PROVE IInv'
  <1>1. /\ run.pc = "setup" /\ wf.status = "running" /\ wf.phase \in Accepted
        /\ Capture("blocked", wf.turn, "retired", TRUE)
        /\ children' = children /\ spaces' = spaces
    BY DEF Exceeded, Asking, Setup
  <1> QED  BY <1>1, CaptureKeeps

(* An exit is counted: the turn is asked for again.                        *)
LEMMA AskedLater ==
  ASSUME IInv, run.pc = "setup", wf.status = "running", wf.phase \in Accepted,
         wf' = [wf EXCEPT !.exits = @ + 1, !.phase = "codex_recovering"],
         run' = run, Outside
  PROVE  IInv'
  <1>1. /\ DOMAIN wf' = Fields /\ Becomes("running", "codex_recovering")
        /\ SameTurn /\ SamePlan /\ SameReview /\ SameThreads
    BY Zenon DEF IInv, Shape, Fields, Becomes, SameTurn, SamePlan, SameReview,
                 SameThreads
  <1> USE <1>1 DEF IInv, Becomes, SameTurn, SamePlan, SameReview, Outside
  <1>2. Shape'
    BY DEF Shape, SameThreads
  <1>3. Places'
    BY DEF Places, PhaseAt
  <1>4. PlanInv'
    BY PlanKept
  <1>5. TurnInv'
    BY DEF Shape, TurnInv, Named, PhaseKnows, TurnsKept, Completed, IsPaused,
           SameThreads
  <1>6. ReviewInv'
    BY WorkKept
  <1>7. Rotates'
    BY ThreadKept DEF Rotates
  <1> QED  BY <1>2, <1>3, <1>4, <1>5, <1>6, <1>7

LEMMA AskFailsKeeps == ASSUME IInv, AskFails PROVE IInv'
  <1>1. /\ run.pc = "setup" /\ wf.status = "running" /\ wf.phase \in Accepted
        /\ children' = children /\ spaces' = spaces
    BY DEF AskFails, Asking, Setup
  <1>2. CASE Capture("blocked", wf.turn, "retired", TRUE)
    BY <1>1, <1>2, CaptureKeeps
  <1>3. CASE /\ wf' = [wf EXCEPT !.exits = @ + 1, !.phase = "codex_recovering"]
             /\ turns' = turns /\ run' = run
    BY <1>1, <1>3, AskedLater DEF Outside
  <1> QED  BY <1>2, <1>3 DEF AskFails

(* An interrupted turn is given up.                                        *)
LEMMA ReopenKeeps ==
  ASSUME IInv, NEW exits, wf.status = "running", wf.phase \in Accepted,
         run.pc \in {"setup", "recover"}, wf.result = 0,
         wf' = Reopened(exits), turns' = Account(wf.turn, "retired"),
         NEW p \in {"loop", "ready"}, Goto(p),
         children' = children, spaces' = spaces
  PROVE  IInv'
  <1>1. /\ DOMAIN wf' = Fields /\ Becomes("running", "codex_ready")
        /\ wf'.turn = 0 /\ wf'.launch = wf.launch /\ wf'.result = wf.result
        /\ wf'.thread = wf.thread
    BY Zenon DEF IInv, Shape, Fields, Becomes, Reopened
  <1>2. SamePlan /\ SameReview /\ SameThreads
    BY Zenon DEF IInv, Shape, Fields, SamePlan, SameReview, SameThreads, Reopened
  <1>3. DOMAIN run' = DOMAIN run /\ Moves(p)
    BY Zenon DEF IInv, Shape, Goto, Moves
  <1>4. /\ wf.turn \in DOMAIN turns /\ turns[wf.turn].fate = "open"
        /\ wf.turn # 0 /\ wf.rotation = 0 /\ run.got = 0
    BY DEF IInv, TurnInv, Named, PhaseKnows, Rotates
  <1>5. Accounts(wf.turn, "retired")
    BY <1>4, AccountWrites DEF IInv, Shape
  <1>6. wf'.rotation \in Nat /\ run'.deferred \in Nat
    BY <1>2, <1>3 DEF IInv, Shape, SameThreads, Moves
  <1>7. Formed
    BY <1>1, <1>3 DEF Formed, IInv, Shape
  <1> QED
    BY <1>1, <1>2, <1>3, <1>4, <1>5, <1>6, <1>7, AnewKeeps DEF SameThreads, Moves

LEMMA AskTurnKeeps == ASSUME IInv, AskTurn PROVE IInv'
  <1>1. /\ run.pc = "setup" /\ wf.status = "running" /\ wf.phase \in Accepted
        /\ wf.result = 0 /\ children' = children /\ spaces' = spaces
    BY DEF AskTurn, Asking, Setup
  <1>2. CASE /\ turns[wf.turn].state = "completed"
             /\ wf' = StoreResult(wf.turn)
             /\ run' = [run EXCEPT !.pc = "loop", !.got = wf.turn]
             /\ turns' = turns
    <2>1. /\ DOMAIN run' = DOMAIN run /\ run'.pc = "loop"
          /\ run'.got = wf.turn /\ run'.deferred = run.deferred
      BY <1>2, Zenon DEF IInv, Shape
    <2> QED  BY <1>1, <1>2, <2>1, StoreKeeps DEF Outside
  <1>3. CASE Capture("blocked", wf.turn, "retired", TRUE)
    BY <1>1, <1>3, CaptureKeeps
  <1>4. CASE /\ wf' = Reopened(wf.exits + 1)
             /\ turns' = Account(wf.turn, "retired")
             /\ Goto("loop")
    BY <1>1, <1>4, ReopenKeeps
  <1> QED  BY <1>2, <1>3, <1>4 DEF AskTurn

LEMMA RecoverAgain ==
  ASSUME IInv, run.pc = "recover", wf.status = "running", Goto("exit"),
         wf' = wf, Outside
  PROVE  IInv'
  <1>1. DOMAIN run' = DOMAIN run /\ Moves("exit")
    BY Zenon DEF IInv, Shape, Goto, Moves
  <1> USE <1>1 DEF IInv, Moves, Outside
  <1>2. Shape' /\ wf'.phase \in Working
    BY DEF Shape, Places, PhaseAt
  <1>3. Places'
    BY DEF Places, PhaseAt
  <1>4. PlanInv'
    BY <1>2, PlanKept
  <1>5. TurnInv'
    BY DEF Shape, TurnInv, Named, PhaseKnows, TurnsKept, Completed, IsPaused
  <1>6. ReviewInv'
    BY <1>2, WorkKept
  <1>7. Rotates'
    BY <1>2, ThreadKept DEF Rotates, SameThreads
  <1> QED  BY <1>2, <1>3, <1>4, <1>5, <1>6, <1>7

LEMMA RecoverTurnKeeps == ASSUME IInv, RecoverTurn PROVE IInv'
  <1>1. /\ run.pc = "recover" /\ wf.status = "running" /\ wf.phase \in Accepted
        /\ wf.result = 0 /\ children' = children /\ spaces' = spaces
    BY DEF IInv, RecoverTurn, Places, PhaseAt, TurnInv, PhaseKnows
  <1>2. CASE /\ turns[wf.turn].state = "completed"
             /\ wf' = StoreResult(wf.turn)
             /\ run' = [run EXCEPT !.pc = "result", !.got = wf.turn]
             /\ turns' = turns
    <2>1. /\ DOMAIN run' = DOMAIN run /\ run'.pc = "result"
          /\ run'.got = wf.turn /\ run'.deferred = run.deferred
      BY <1>2, Zenon DEF IInv, Shape
    <2> QED  BY <1>1, <1>2, <2>1, StoreKeeps DEF Outside
  <1>3. CASE Capture("blocked", wf.turn, "retired", TRUE)
    BY <1>1, <1>3, CaptureKeeps
  <1>4. CASE /\ wf' = Reopened(wf.exits)
             /\ turns' = Account(wf.turn, "retired")
             /\ Goto("ready")
    BY <1>1, <1>4, ReopenKeeps
  <1>5. CASE Goto("exit") /\ wf' = wf /\ turns' = turns
    BY <1>1, <1>5, RecoverAgain DEF Outside
  <1> QED  BY <1>2, <1>3, <1>4, <1>5 DEF RecoverTurn

LEMMA AskedAgainWrites ==
  ASSUME Shape, NEW what \in {"corrections", "inspections"},
         wf' = AskedAgain(what)
  PROVE  /\ DOMAIN wf' = Fields /\ Becomes(wf.status, "codex_ready")
         /\ wf'.turn = 0 /\ wf'.launch = wf.launch /\ wf'.result = 0
         /\ wf'.thread = wf.thread /\ wf'.checkpoint = wf.checkpoint
         /\ wf'.rotation = IF run.deferred # 0 THEN run.deferred ELSE wf.rotation
         /\ SamePlan /\ SameReview
  <1>1. CASE what = "corrections"
    <2>1. /\ DOMAIN wf' = Fields /\ Becomes(wf.status, "codex_ready")
          /\ wf'.turn = 0 /\ wf'.launch = wf.launch /\ wf'.result = 0
          /\ wf'.thread = wf.thread /\ wf'.checkpoint = wf.checkpoint
      BY <1>1, Zenon DEF Shape, Fields, AskedAgain, Becomes
    <2>2. /\ wf'.rotation = IF run.deferred # 0 THEN run.deferred ELSE wf.rotation
          /\ SamePlan /\ SameReview
      BY <1>1, Zenon DEF Shape, Fields, AskedAgain, SamePlan, SameReview
    <2> QED  BY <2>1, <2>2
  <1>2. CASE what = "inspections"
    <2>1. /\ DOMAIN wf' = Fields /\ Becomes(wf.status, "codex_ready")
          /\ wf'.turn = 0 /\ wf'.launch = wf.launch /\ wf'.result = 0
          /\ wf'.thread = wf.thread /\ wf'.checkpoint = wf.checkpoint
      BY <1>2, Zenon DEF Shape, Fields, AskedAgain, Becomes
    <2>2. /\ wf'.rotation = IF run.deferred # 0 THEN run.deferred ELSE wf.rotation
          /\ SamePlan /\ SameReview
      BY <1>2, Zenon DEF Shape, Fields, AskedAgain, SamePlan, SameReview
    <2> QED  BY <2>1, <2>2
  <1> QED  BY <1>1, <1>2

LEMMA TakeResultKeeps == ASSUME IInv, TakeResult PROVE IInv'
  <1> DEFINE looked == wf.inspected \/ turns[run.got].inspected
             wrong  == IF looked THEN "corrections" ELSE "inspections"
  <1>1. /\ run.pc = "result" /\ wf.status = "running"
        /\ children' = children /\ spaces' = spaces
    BY DEF TakeResult
  <1>2. /\ wf.phase \in Accepted /\ run.got = wf.turn /\ wf.turn # 0
        /\ turns[wf.turn].state = "completed" /\ wf.rotation = 0
        /\ wf.turn \in DOMAIN turns /\ turns[wf.turn].fate = "open"
    BY <1>1 DEF IInv, Places, PhaseAt, TurnInv, Named, Completed, Rotates
  <1>3. CASE Capture(turns[run.got].kind, run.got, "taken", FALSE)
    BY <1>1, <1>2, <1>3, CaptureKeeps
  <1>4. CASE Capture("blocked", run.got, "taken", TRUE)
    BY <1>1, <1>2, <1>4, CaptureKeeps
  <1>5. CASE /\ wf' = AskedAgain(wrong)
             /\ turns' = Account(run.got, "taken")
             /\ run' = [run EXCEPT !.pc = "ready", !.got = 0, !.deferred = 0]
    <2>1. wrong \in {"corrections", "inspections"}
      OBVIOUS
    <2> HIDE DEF wrong
    <2>2. /\ DOMAIN wf' = Fields /\ Becomes(wf.status, "codex_ready")
          /\ wf'.turn = 0 /\ wf'.launch = wf.launch /\ wf'.result = 0
          /\ wf'.thread = wf.thread /\ wf'.checkpoint = wf.checkpoint
          /\ wf'.rotation = IF run.deferred # 0 THEN run.deferred ELSE wf.rotation
          /\ SamePlan /\ SameReview
      BY <1>5, <2>1, AskedAgainWrites DEF IInv
    <2>3. /\ DOMAIN run' = DOMAIN run /\ run'.pc = "ready" /\ run'.got = 0
          /\ run'.deferred = 0
      BY <1>5, Zenon DEF IInv, Shape
    <2>4. Accounts(wf.turn, "taken")
      BY <1>2, <1>5, AccountWrites DEF IInv, Shape
    <2>5. Formed /\ Becomes("running", "codex_ready")
      BY <1>1, <2>2, <2>3 DEF Formed, IInv, Shape
    <2>6. /\ wf'.rotation \in Nat
          /\ wf'.rotation # 0 \/ (wf.rotation = 0 /\ run.pc \notin {"start", "down"})
      BY <1>1, <1>2, <2>2 DEF IInv, Shape
    <2> QED  BY <1>1, <1>2, <2>2, <2>3, <2>4, <2>5, <2>6, AnewKeeps
  <1> QED  BY <1>3, <1>4, <1>5 DEF TakeResult

(* The request reaches the App Server: the turn it asks for is the last.   *)
LEMMA GivenKeeps ==
  ASSUME IInv, run.pc = "dispatch", wf.status = "running", wf' = wf,
         turns' = Given, NEW p \in {"acked", "lost"}, Goto(p),
         children' = children, spaces' = spaces
  PROVE  IInv'
  <1> DEFINE new == [thread |-> wf.thread, mark |-> wf.launch,
                     state |-> "running", kind |-> "candidate",
                     inspected |-> FALSE, fate |-> "open"]
  <1>1. DOMAIN run' = DOMAIN run /\ Moves(p)
    BY Zenon DEF IInv, Shape, Goto, Moves
  <1>2. /\ wf.phase = "codex_launching" /\ wf.launch = Len(turns) + 1
        /\ wf.turn = 0 /\ run.got = 0 /\ wf.result = 0
    BY DEF IInv, Places, PhaseAt, TurnInv, Named, PhaseKnows
  <1>3. new \in Turn /\ turns' = Append(turns, new) /\ turns \in Seq(Turn)
    <2>1. wf.thread \in Nat /\ wf.launch \in Nat /\ turns \in Seq(Turn)
      BY DEF IInv, Shape
    <2>2. new \in Turn
      BY <2>1 DEF Turn
    <2>3. turns' = Append(turns, new)
      BY DEF Given
    <2> QED  BY <2>1, <2>2, <2>3
  <1>4. /\ new.mark = Len(turns) + 1 /\ new.fate = "open"
        /\ new.thread = wf.thread
    BY <1>2
  <1> HIDE DEF new
  <1>5. /\ turns' \in Seq(Turn) /\ Len(turns') = Len(turns) + 1
        /\ Len(turns) \in Nat
        /\ DOMAIN turns = 1..Len(turns) /\ DOMAIN turns' = 1..(Len(turns) + 1)
        /\ turns'[Len(turns) + 1] = new
        /\ \A u \in DOMAIN turns : turns'[u] = turns[u]
    BY <1>3
  <1> USE <1>1 DEF IInv, Moves
  <1>6. Shape' /\ wf'.phase \in Working
    BY <1>2, <1>5 DEF Shape
  <1>7. Places'
    BY <1>2 DEF Places, PhaseAt
  <1>8. PlanInv'
    BY <1>2, PlanKept
  <1>9. Named'
    BY <1>2, <1>4, <1>5 DEF Named
  <1>10. PhaseKnows' /\ Completed'
    BY <1>2 DEF TurnInv, PhaseKnows, Completed, IsPaused
  <1>11. TurnsKept'
    <2> SUFFICES ASSUME NEW u \in DOMAIN turns'
                 PROVE  /\ turns'[u].mark = u
                        /\ turns'[u].fate # "twice"
                        /\ turns'[u].fate = "open" => u = wf.launch
      BY DEF TurnsKept
    <2>1. CASE u = Len(turns) + 1
      BY <1>2, <1>4, <1>5, <2>1
    <2>2. CASE u \in DOMAIN turns
      <3>1. 0 \notin DOMAIN turns /\ wf.launch \notin DOMAIN turns
        BY <1>2, <1>5
      <3> QED  BY <1>2, <1>5, <2>2, <3>1 DEF TurnInv, TurnsKept
    <2> QED  BY <1>5, <2>1, <2>2
  <1>12. ReviewInv'
    BY <1>6, WorkKept
  <1>13. Rotates'
    BY <1>2, <1>6, ThreadKept DEF Rotates, SameThreads
  <1> QED  BY <1>6, <1>7, <1>8, <1>9, <1>10, <1>11, <1>12, <1>13 DEF TurnInv

LEMMA LostKeeps ==
  ASSUME IInv, run.pc = "dispatch", wf.status = "running", wf' = wf,
         Goto("lost"), Outside
  PROVE  IInv'
  <1>1. DOMAIN run' = DOMAIN run /\ Moves("lost")
    BY Zenon DEF IInv, Shape, Goto, Moves
  <1> USE <1>1 DEF IInv, Moves, Outside
  <1>2. Shape' /\ wf'.phase \in Working
    BY DEF Shape, Places, PhaseAt
  <1>3. Places'
    BY DEF Places, PhaseAt
  <1>4. PlanInv'
    BY <1>2, PlanKept
  <1>5. TurnInv'
    BY DEF Shape, TurnInv, Named, PhaseKnows, TurnsKept, Completed, IsPaused
  <1>6. ReviewInv'
    BY <1>2, WorkKept
  <1>7. Rotates'
    BY <1>2, ThreadKept DEF Rotates, SameThreads
  <1> QED  BY <1>2, <1>3, <1>4, <1>5, <1>6, <1>7

LEMMA DispatchKeeps == ASSUME IInv, Dispatch PROVE IInv'
  <1>1. /\ run.pc = "dispatch" /\ wf.status = "running" /\ wf' = wf
        /\ children' = children /\ spaces' = spaces
    BY DEF Dispatch
  <1>2. CASE turns' = Given /\ Goto("acked")
    BY <1>1, <1>2, GivenKeeps
  <1>3. CASE turns' = Given /\ Goto("lost")
    BY <1>1, <1>3, GivenKeeps
  <1>4. CASE turns' = turns /\ Goto("lost")
    BY <1>1, <1>4, LostKeeps DEF Outside
  <1> QED  BY <1>2, <1>3, <1>4 DEF Dispatch

(* The turn that bears the marker is the last one, and it is open.         *)
LEMMA LaunchFoundKeeps == ASSUME IInv, LaunchFound PROVE IInv'
  <1> DEFINE found == CHOOSE t \in Launched : TRUE
             place == IF run.pc = "relaunch" THEN "setup" ELSE "exit"
  <1>1. /\ run.pc \in {"relaunch", "lost"} /\ wf.launch # 0 /\ Outside
        /\ Cardinality(Launched) = 1 /\ Goto(place)
        /\ wf' = [wf EXCEPT !.launch = 0, !.turn = found, !.phase = "codex_running"]
    BY DEF LaunchFound, external, Outside
  <1>2. found = wf.launch /\ found \in DOMAIN turns
    <2>1. Launched # {}
      BY <1>1, FS_EmptySet
    <2>2. found \in Launched
      BY <2>1
    <2> HIDE DEF found
    <2> QED  BY <2>2 DEF Launched, IInv, TurnInv, TurnsKept
  <1> HIDE DEF found
  <1>3. /\ DOMAIN wf' = Fields /\ wf'.launch = 0 /\ wf'.turn = found
        /\ wf'.phase = "codex_running" /\ wf'.status = wf.status
        /\ wf'.result = wf.result /\ wf'.thread = wf.thread
    BY <1>1, Zenon DEF IInv, Shape, Fields
  <1>4. SamePlan /\ SameReview /\ SameThreads
    BY <1>1, Zenon DEF IInv, Shape, Fields, SamePlan, SameReview, SameThreads
  <1>5. DOMAIN run' = DOMAIN run /\ Moves(place)
    BY <1>1, Zenon DEF IInv, Shape, Goto, Moves
  <1>6. place \in {"setup", "exit"}
    OBVIOUS
  <1> HIDE DEF place
  <1>7. /\ wf.status = "running" /\ wf.phase = "codex_launching" /\ wf.turn = 0
        /\ wf.rotation = 0 /\ run.got = 0 /\ wf.result = 0
    BY <1>1 DEF IInv, Places, PhaseAt, TurnInv, Named, PhaseKnows
  <1>8. /\ turns[found].fate = "open" /\ turns[found].thread = wf.thread
        /\ found # 0 /\ found \in Nat
    BY <1>2 DEF IInv, Shape, TurnInv, Named
  <1> USE <1>3, <1>4, <1>5, <1>6, <1>7
      DEF IInv, Moves, SamePlan, SameReview
  <1>9. Shape'
    BY <1>1, <1>8 DEF Shape, SameThreads, Outside
  <1>10. Places'
    BY DEF Places, PhaseAt
  <1>11. PlanInv'
    BY <1>1, PlanKept DEF Outside
  <1>12. TurnInv'
    <2>1. Named' /\ Completed'
      BY <1>1, <1>2, <1>8 DEF Shape, Outside, Named, Completed
    <2>2. PhaseKnows'
      BY <1>8 DEF PhaseKnows, IsPaused, SameThreads
    <2>3. TurnsKept'
      BY <1>1, <1>2 DEF Outside, TurnInv, TurnsKept, Shape
    <2> QED  BY <2>1, <2>2, <2>3 DEF TurnInv
  <1>13. ReviewInv'
    BY WorkKept
  <1>14. Rotates'
    BY <1>1, ThreadKept
  <1> QED  BY <1>9, <1>10, <1>11, <1>12, <1>13, <1>14

-----------------------------------------------------------------------------
(* A runner starts.                                                        *)
LEMMA BeginKeeps == ASSUME IInv, Begin PROVE IInv'
  <1> DEFINE place == IF wf.launch # 0 THEN "relaunch" ELSE Entry
  <1>1. /\ run.pc = "start" /\ wf.status = "running" /\ wf.phase \notin Successor
        /\ ~Unrotated /\ ~Broken /\ wf' = wf /\ Outside /\ Goto(place)
    BY DEF Begin, Starting, external, Outside
  <1>2. DOMAIN run' = DOMAIN run /\ Moves(place)
    BY <1>1, Zenon DEF IInv, Shape, Goto, Moves
  <1>3. /\ place \in {"relaunch", "loop", "setup"}
        /\ place = "relaunch" => wf.phase = "codex_launching"
        /\ place = "loop" => wf.phase \in Started \cup Reviewing
        /\ place = "setup" => wf.phase \in Started \cup Accepted
    BY <1>1 DEF Entry, Broken, IInv, Places, TurnInv, PhaseKnows
  <1> HIDE DEF place
  <1>4. run.got = 0 /\ ~Unrepaired
    BY <1>1 DEF IInv, TurnInv, Named, Unrotated, Unrepaired
  <1> USE <1>2, <1>3, <1>4 DEF IInv, Moves
  <1>5. Shape'
    BY <1>1 DEF Shape, Outside
  <1>6. Places'
    BY <1>1 DEF Places, PhaseAt
  <1>7. PlanInv'
    BY <1>1, PlanKept DEF Outside, PlanInv, Planned, Handing
  <1>8. TurnInv'
    BY <1>1 DEF TurnInv, Named, PhaseKnows, TurnsKept, Completed, IsPaused,
                Outside, Shape
  <1>9. ReviewInv'
    BY <1>1 DEF ReviewInv, Recorded, UnderReview, IsPaused, Asked, Settled,
                SettledOnEvidence, Outside
  <1>10. Rotates'
    BY <1>1 DEF Rotates, Unrepaired, UnderReview, IsPaused, GivenUp, Unsound,
                Settles, Outside
  <1> QED  BY <1>5, <1>6, <1>7, <1>8, <1>9, <1>10

(* A checkpoint without its rotation, repaired while a review is pending.  *)
LEMMA RepairedWrites ==
  ASSUME Shape, wf' = Repaired, wf.phase \in Reviewing
  PROVE  /\ DOMAIN wf' = Fields /\ Becomes(wf.status, wf.phase)
         /\ SameTurn /\ SamePlan
         /\ wf'.child = wf.child /\ wf'.cycle = wf.cycle
         /\ wf'.checkpoint = wf.checkpoint /\ wf'.rotation = wf.checkpoint.cycle
         /\ IF wf.phase = "review_captured" /\ wf.cycle > wf.checkpoint.cycle
            THEN wf'.record = [wf.record EXCEPT !.review = "continue"]
            ELSE wf'.record = wf.record
  <1> DEFINE kept == [wf EXCEPT !.rotation = wf.checkpoint.cycle]
             late == wf.phase = "review_captured" /\ wf.cycle > wf.checkpoint.cycle
  <1>1. wf' = IF late THEN [kept EXCEPT !.record.review = "continue"] ELSE kept
    BY Zenon DEF Repaired
  <1>2. /\ DOMAIN kept = Fields /\ kept.record = wf.record
        /\ kept.status = wf.status /\ kept.phase = wf.phase
        /\ kept.turn = wf.turn /\ kept.launch = wf.launch
        /\ kept.result = wf.result /\ kept.thread = wf.thread
    BY Zenon DEF Shape, Fields
  <1>3. /\ kept.attempt = wf.attempt /\ kept.blank = wf.blank
        /\ kept.chat = wf.chat /\ kept.paused = wf.paused
        /\ kept.child = wf.child /\ kept.cycle = wf.cycle
        /\ kept.checkpoint = wf.checkpoint /\ kept.rotation = wf.checkpoint.cycle
    BY Zenon DEF Shape, Fields
  <1> HIDE DEF kept
  <1>4. CASE late
    <2>1. wf' = [kept EXCEPT !.record.review = "continue"]
      BY <1>1, <1>4
    <2>2. wf'.record = [wf.record EXCEPT !.review = "continue"]
      <3>1. DOMAIN kept = Fields /\ kept.record = wf.record
        BY <1>2
      <3>2. "record" \in Fields
        BY DEF Fields
      <3>3. wf'.record = [kept.record EXCEPT !.review = "continue"]
        BY <2>1, <3>1, <3>2, Zenon
      <3> QED  BY <3>1, <3>3, Zenon
    <2>3. DOMAIN kept = Fields
      BY <1>2
    <2>4. /\ DOMAIN wf' = Fields /\ wf'.status = kept.status
          /\ wf'.phase = kept.phase /\ wf'.turn = kept.turn
          /\ wf'.launch = kept.launch /\ wf'.result = kept.result
          /\ wf'.thread = kept.thread
      BY <2>1, <2>3, Zenon DEF Fields
    <2>5. /\ wf'.attempt = kept.attempt /\ wf'.blank = kept.blank
          /\ wf'.chat = kept.chat /\ wf'.paused = kept.paused
          /\ wf'.child = kept.child /\ wf'.cycle = kept.cycle
      BY <2>1, <2>3, Zenon DEF Fields
    <2>6. wf'.checkpoint = kept.checkpoint /\ wf'.rotation = kept.rotation
      BY <2>1, <2>3, Zenon DEF Fields
    <2> QED  BY <1>2, <1>3, <1>4, <2>2, <2>4, <2>5, <2>6 DEF Becomes, SameTurn,
                SamePlan
  <1>5. CASE ~late
    <2>1. wf' = kept
      BY <1>1, <1>5
    <2> QED  BY <1>2, <1>3, <1>5, <2>1 DEF Becomes, SameTurn, SamePlan
  <1> QED  BY <1>4, <1>5

LEMMA RepairRecordKeeps ==
  ASSUME IInv, RepairRotation, wf.phase \in Reviewing
  PROVE  IInv'
  <1>1. /\ run.pc = "start" /\ wf.status = "running" /\ wf.rotation = 0
        /\ wf' = Repaired /\ Outside /\ run' = run /\ wf.turn = 0
        /\ wf.checkpoint.cycle > 0
        /\ wf.cycle \in {wf.checkpoint.cycle, wf.checkpoint.cycle + 1}
    BY DEF RepairRotation, Repairable, Starting, Unrotated, Outside
  <1> DEFINE late == wf.phase = "review_captured" /\ wf.cycle > wf.checkpoint.cycle
             told == [wf.record EXCEPT !.review = "continue"]
  <1>2. /\ told.review = "continue" /\ told.cycle = wf.record.cycle
        /\ told.kind = wf.record.kind /\ told.turn = wf.record.turn
        /\ DOMAIN told = DOMAIN wf.record
    BY Zenon DEF IInv, Shape
  <1> USE <1>1, RepairedWrites DEF IInv, Becomes, SameTurn, SamePlan, Outside
  <1>3. wf'.record = IF late THEN told ELSE wf.record
    OBVIOUS
  <1> HIDE DEF told
  <1>4. Shape'
    BY <1>2, <1>3 DEF Shape
  <1>5. Places'
    BY DEF Places, PhaseAt
  <1>6. PlanInv'
    BY PlanKept
  <1>7. TurnInv'
    BY DEF Shape, TurnInv, Named, PhaseKnows, TurnsKept, Completed, IsPaused
  <1>8. ReviewInv'
    <2>1. Recorded'
      BY <1>2, <1>3 DEF ReviewInv, Recorded, UnderReview, IsPaused, Settles
    <2>2. Asked' /\ Settled'
      BY DEF ReviewInv, Asked, Settled, SettledOnEvidence
    <2> QED  BY <2>1, <2>2 DEF ReviewInv
  <1>9. Rotates'
    <2>1. wf'.record.turn = wf.record.turn /\ wf'.record.kind = wf.record.kind
      BY <1>2, <1>3
    <2>2. GivenUp(wf.record.turn)' => wf.cycle > wf.checkpoint.cycle
      BY DEF GivenUp, Shape
    <2>3. wf.checkpoint.cycle \in Nat /\ wf.checkpoint.cycle # 0
      BY DEF Shape
    <2> QED  BY <1>2, <1>3, <2>1, <2>2, <2>3 DEF Rotates, Unsound, Settles
  <1> QED  BY <1>4, <1>5, <1>6, <1>7, <1>8, <1>9

(* And while Codex works: the turn is given up.                            *)
LEMMA RepairTurnKeeps ==
  ASSUME IInv, RepairRotation, wf.phase \notin Reviewing
  PROVE  IInv'
  <1> DEFINE kept == [wf EXCEPT !.rotation = wf.checkpoint.cycle]
  <1>1. /\ run.pc = "start" /\ wf.status = "running" /\ wf.rotation = 0
        /\ wf' = Repaired /\ turns' = Account(wf.turn, "retired")
        /\ children' = children /\ spaces' = spaces /\ run' = run
        /\ wf.checkpoint.cycle > 0 /\ wf.phase \in Accepted \cup {"codex_ready"}
    BY DEF RepairRotation, Repairable, Starting, Unrotated
  <1>2. wf' = [kept EXCEPT !.phase = "codex_ready", !.turn = 0, !.result = 0,
                           !.inspections = 0, !.inspected = FALSE, !.exits = 0]
    BY <1>1, Zenon DEF Repaired
  <1>3. /\ DOMAIN wf' = Fields /\ Becomes("running", "codex_ready")
        /\ wf'.turn = 0 /\ wf'.launch = wf.launch /\ wf'.result = 0
        /\ wf'.thread = wf.thread
    <2>1. DOMAIN wf = Fields
      BY DEF IInv, Shape
    <2>2. DOMAIN wf' = Fields /\ wf'.status = "running" /\ wf'.phase = "codex_ready"
      BY <1>1, <1>2, <2>1, Zenon DEF Fields
    <2>3. /\ wf'.turn = 0 /\ wf'.launch = wf.launch /\ wf'.result = 0
          /\ wf'.thread = wf.thread
      BY <1>2, <2>1, Zenon DEF Fields
    <2> QED  BY <2>2, <2>3 DEF Becomes
  <1>4. /\ SamePlan /\ SameReview /\ wf'.checkpoint = wf.checkpoint
        /\ wf'.rotation = wf.checkpoint.cycle
    <2>1. DOMAIN wf = Fields
      BY DEF IInv, Shape
    <2>2. SamePlan /\ SameReview
      BY <1>2, <2>1, Zenon DEF Fields, SamePlan, SameReview
    <2>3. wf'.checkpoint = wf.checkpoint /\ wf'.rotation = wf.checkpoint.cycle
      BY <1>2, <2>1, Zenon DEF Fields
    <2> QED  BY <2>2, <2>3
  <1>5. run.got = 0
    BY <1>1 DEF IInv, TurnInv, Named
  <1>6. \/ wf.turn = 0 /\ turns' = turns
        \/ wf.turn # 0 /\ \E how \in {"taken", "retired"} : Accounts(wf.turn, how)
    <2>1. CASE wf.turn = 0
      BY <1>1, <2>1 DEF Account
    <2>2. CASE wf.turn # 0
      <3>1. wf.turn \in DOMAIN turns /\ turns[wf.turn].fate = "open"
        BY <2>2 DEF IInv, TurnInv, Named
      <3> QED  BY <1>1, <2>2, <3>1, AccountWrites DEF IInv, Shape
    <2> QED  BY <2>1, <2>2
  <1>7. wf'.rotation \in Nat /\ wf'.rotation # 0 /\ run'.deferred \in Nat
    BY <1>1, <1>4 DEF IInv, Shape
  <1>8. Formed
    BY <1>1, <1>3 DEF Formed, IInv, Shape
  <1>9. wf.phase \in Started \cup Accepted /\ run'.pc = "start" /\ run'.got = 0
    BY <1>1, <1>5
  <1> HIDE DEF kept
  <1>10. wf'.rotation # 0 \/ (wf.rotation = 0 /\ run.pc \notin {"start", "down"})
    BY <1>7
  <1>11. CASE wf.turn = 0 /\ turns' = turns
    BY <1>1, <1>3, <1>4, <1>7, <1>8, <1>9, <1>10, <1>11, AnewKeeps
  <1>12. CASE wf.turn # 0 /\ \E how \in {"taken", "retired"} : Accounts(wf.turn, how)
    BY <1>1, <1>3, <1>4, <1>7, <1>8, <1>9, <1>10, <1>12, AnewKeeps
  <1> QED  BY <1>6, <1>11, <1>12

LEMMA RepairRotationKeeps == ASSUME IInv, RepairRotation PROVE IInv'
  BY RepairRecordKeeps, RepairTurnKeeps

-----------------------------------------------------------------------------
(* The runner throws: what it leaves may be resumed, or asks for a person. *)
LEMMA StopWrites ==
  ASSUME Shape, NEW why, Stop(why)
  PROVE  /\ Formed /\ Moves("off") /\ wf'.status = "human_required"
         /\ wf'.phase = "continuation_paused" => wf.phase \in Successor \/ Resumable
         /\ wf.phase \in Successor => wf'.phase = "continuation_paused"
         /\ wf'.paused = IF Resumable THEN wf.child ELSE wf.paused
         /\ wf'.attempt = wf.attempt /\ wf'.blank = wf.blank /\ wf'.chat = wf.chat
         /\ SameTurn /\ SameReview /\ SameThreads
  <1>1. wf' = Stopped(why) /\ Goto("off")
    BY DEF Stop
  <1>2. wf'.phase = IF wf.phase \in Successor \/ Resumable THEN "continuation_paused"
                    ELSE IF wf.launch # 0 THEN "codex_launching" ELSE "stopped"
    BY <1>1, Zenon DEF Shape, Fields, Stopped
  <1>3. /\ wf'.status = "human_required"
        /\ wf'.paused = IF Resumable THEN wf.child ELSE wf.paused
        /\ wf'.attempt = wf.attempt /\ wf'.blank = wf.blank /\ wf'.chat = wf.chat
        /\ DOMAIN wf' = Fields
    BY <1>1, Zenon DEF Shape, Fields, Stopped
  <1>4. SameTurn /\ SameReview /\ SameThreads
    BY <1>1, Zenon DEF Shape, Fields, Stopped, SameTurn, SameReview, SameThreads
  <1>5. Moves("off") /\ DOMAIN run' = DOMAIN run
    BY <1>1, Zenon DEF Shape, Goto, Moves
  <1>6. /\ wf'.phase = "continuation_paused" => wf.phase \in Successor \/ Resumable
        /\ wf.phase \in Successor => wf'.phase = "continuation_paused"
    BY <1>2
  <1> QED  BY <1>3, <1>4, <1>5, <1>6 DEF Formed, Shape

LEMMA StopBlanks ==
  ASSUME IInv, NEW why, Stop(why), wf.status = "running", spaces' = spaces,
         children' = children
  PROVE  Blanks'
  BY StopWrites DEF IInv, PlanInv, Blanks, Planned, Resumable, Exhausted, Handing,
                    IsPaused, NextChat, Moves

LEMMA StopKeeps ==
  ASSUME IInv, NEW why, Stop(why), wf.status = "running",
         turns' = turns, children' = children, spaces' \in [1..MaxChats -> Nat],
         Blanks'
  PROVE  IInv'
  <1> USE StopWrites
      DEF IInv, Formed, Moves, SameTurn, SameReview, SameThreads
  <1>1. Shape'
    BY DEF Shape
  <1>2. Places'
    BY DEF Places
  <1>3. Planned'
    BY DEF PlanInv, Planned, Handing, IsPaused
  <1>4. Attempts'
    BY DEF PlanInv, Attempts, Unsent, NextChat
  <1>5. IsPaused' => /\ wf.phase \in Successor \cup {"chatgpt_running"}
                     /\ wf.turn = 0 /\ wf.launch = 0 /\ wf.result = 0
                     /\ run.got = 0
    BY DEF IsPaused, Resumable, TurnInv, Named, PhaseKnows
  <1>6. Named'
    BY DEF TurnInv, Named
  <1>7. PhaseKnows' /\ Completed'
    BY <1>5 DEF PhaseKnows, Completed
  <1>8. TurnsKept'
    BY DEF TurnInv, TurnsKept
  <1>9. ReviewInv'
    BY <1>5 DEF ReviewInv, Recorded, UnderReview, IsPaused, Asked, Settled,
                SettledOnEvidence
  <1>10. Rotates'
    BY <1>5 DEF Rotates, Unrepaired, UnderReview, IsPaused, GivenUp, Unsound,
                Settles
  <1> QED  BY <1>1, <1>2, <1>3, <1>4, <1>6, <1>7, <1>8, <1>9, <1>10
           DEF PlanInv, TurnInv

LEMMA StopsHere ==
  ASSUME IInv, NEW why, Stop(why), wf.status = "running", Outside
  PROVE  IInv'
  BY StopBlanks, StopKeeps DEF Outside, IInv, Shape

LEMMA RefuseStateKeeps == ASSUME IInv, RefuseState PROVE IInv'
  BY StopsHere DEF RefuseState, Starting, external, Outside

LEMMA LaunchAmbiguousKeeps == ASSUME IInv, LaunchAmbiguous PROVE IInv'
  <1>1. wf.status = "running"
    BY DEF LaunchAmbiguous, IInv, Places
  <1> QED  BY <1>1, StopsHere DEF LaunchAmbiguous, external, Outside

(* A review settles the convergence, or another cycle follows.             *)
LEMMA SettleKeeps ==
  ASSUME IInv, Settle, wf.status = "running", wf.phase = "review_captured",
         run.pc \notin {"start", "down"}, Settles(wf.record), Outside
  PROVE  IInv'
  <1>1. /\ DOMAIN wf' = Fields /\ Becomes("succeeded", "settled")
        /\ SameTurn /\ SamePlan /\ SameReview
    BY Zenon DEF IInv, Shape, Fields, Settle, Settlement, Becomes, SameTurn,
                 SamePlan, SameReview
  <1>2. wf'.checkpoint = wf.checkpoint /\ wf'.rotation = 0
    BY Zenon DEF IInv, Shape, Fields, Settle, Settlement
  <1>3. Moves("off") /\ DOMAIN run' = DOMAIN run
    BY Zenon DEF IInv, Shape, Settle, Goto, Moves
  <1> USE <1>1, <1>2, <1>3
      DEF IInv, Becomes, SameTurn, SamePlan, SameReview, Moves, Outside
  <1>4. wf.attempt = 0 /\ wf.blank = "none"
    BY DEF PlanInv, Planned, Handing, IsPaused
  <1>5. Shape'
    BY DEF Shape
  <1>6. Places'
    BY DEF Places
  <1>7. PlanInv'
    BY <1>4 DEF PlanInv, Planned, Blanks, Attempts, Unsent, Handing
  <1>8. TurnInv'
    BY DEF TurnInv, Named, PhaseKnows, TurnsKept, Completed, IsPaused
  <1>9. /\ wf.record.cycle = wf.cycle /\ wf.record.kind = "candidate"
        /\ wf.record.turn \in DOMAIN turns
        /\ turns[wf.record.turn].kind = "candidate"
        /\ turns[wf.record.turn].state = "completed"
        /\ turns[wf.record.turn].fate = "taken"
        /\ wf.child.cycle = wf.cycle /\ wf.child.chat = wf.chat
        /\ wf.child \in DOMAIN children
        /\ children[wf.child].status = "succeeded"
        /\ children[wf.child].verdict \in {"settled", "weak"}
    BY DEF ReviewInv, Recorded, UnderReview, Settles
  <1>10. ~GivenUp(wf.record.turn)
    BY <1>9 DEF Rotates, Unrepaired, UnderReview
  <1>11. wf.record.turn # 0
    BY <1>9 DEF Shape
  <1>12. Settled'
    BY <1>9, <1>10, <1>11 DEF Settled, SettledOnEvidence, GivenUp
  <1>13. Recorded' /\ Asked' /\ Rotates'
    BY DEF Recorded, Asked, Rotates, UnderReview, IsPaused
  <1> QED  BY <1>5, <1>6, <1>7, <1>8, <1>12, <1>13 DEF ReviewInv

(* A review goes on: the runner moves, and the record stays.               *)
LEMMA ReviewMoves ==
  ASSUME IInv, wf.status = "running", run.pc \notin {"start", "down"},
         wf' = wf, Outside, NEW p, Goto(p),
         \/ p = "next" /\ wf.phase = "review_captured"
         \/ p = "review" /\ wf.phase \in {"codex_captured", "chatgpt_running"}
         \/ p = "watching" /\ Linked
  PROVE  IInv'
  <1>1. Moves(p) /\ DOMAIN run' = DOMAIN run
    BY Zenon DEF IInv, Shape, Goto, Moves
  <1> USE <1>1 DEF IInv, Moves, Outside, Linked
  <1>2. wf.phase \in Reviewing /\ p \notin {"blank", "commit"}
    OBVIOUS
  <1>3. Shape'
    BY DEF Shape
  <1>4. Places'
    BY DEF Places, PhaseAt
  <1>5. PlanInv'
    BY <1>2, PlanKept
  <1>6. TurnInv'
    BY <1>2 DEF TurnInv, Named, PhaseKnows, TurnsKept, Completed, IsPaused
  <1>7. ReviewInv'
    BY DEF ReviewInv, Recorded, UnderReview, IsPaused, Asked, Settled,
           SettledOnEvidence
  <1>8. Rotates'
    BY DEF Rotates, Unrepaired, UnderReview, IsPaused, GivenUp, Unsound, Settles
  <1> QED  BY <1>3, <1>4, <1>5, <1>6, <1>7, <1>8

LEMMA DecideKeeps ==
  ASSUME IInv, NEW settles \in BOOLEAN, Decide(settles),
         wf.status = "running", wf.phase = "review_captured",
         run.pc \notin {"start", "down"}, settles => Settles(wf.record), Outside
  PROVE  IInv'
  <1>1. CASE Settle /\ settles
    BY <1>1, SettleKeeps
  <1>2. CASE Stop("convergence_cycle_limit_reached")
    BY <1>2, StopsHere
  <1>3. CASE Goto("next") /\ wf' = wf
    BY <1>3, ReviewMoves
  <1> QED  BY <1>1, <1>2, <1>3 DEF Decide

LEMMA JudgeKeeps == ASSUME IInv, Judge PROVE IInv'
  <1>1. /\ run.pc = "judge" /\ wf.status = "running" /\ Outside
        /\ wf.phase = "review_captured"
    BY DEF Judge, external, Outside, IInv, Places, PhaseAt
  <1>2. CASE Stop("answering_model_downgraded")
    BY <1>1, <1>2, StopsHere
  <1>3. CASE Decide(Settles(wf.record))
    <2>1. Settles(wf.record) \in BOOLEAN
      BY DEF Settles
    <2> QED  BY <1>1, <1>3, <2>1, DecideKeeps
  <1> QED  BY <1>2, <1>3 DEF Judge

(* The head of the loop, with an answer to look at, or with none.          *)
LEMMA LoopResultKeeps ==
  ASSUME IInv, run.pc = "loop", wf.status = "running", run.got # 0,
         wf.phase \notin Reviewing, Goto("result"), wf' = wf, Outside
  PROVE  IInv'
  <1>1. Moves("result") /\ DOMAIN run' = DOMAIN run
    BY Zenon DEF IInv, Shape, Goto, Moves
  <1> USE <1>1 DEF IInv, Moves, Outside
  <1>2. wf.phase \in Accepted /\ run.got = wf.turn
    BY DEF Places, PhaseAt, TurnInv, Named, PhaseKnows
  <1>3. Shape'
    BY DEF Shape
  <1>4. Places'
    BY <1>2 DEF Places, PhaseAt
  <1>5. PlanInv'
    BY <1>2, PlanKept
  <1>6. TurnInv'
    BY <1>2 DEF TurnInv, Named, PhaseKnows, TurnsKept, Completed, IsPaused
  <1>7. ReviewInv'
    BY <1>2, WorkKept
  <1>8. Rotates'
    BY <1>2, ThreadKept DEF Rotates, SameThreads
  <1> QED  BY <1>3, <1>4, <1>5, <1>6, <1>7, <1>8

LEMMA LoopReadyKeeps ==
  ASSUME IInv, run.pc = "loop", wf.status = "running", run.got = 0,
         wf.phase \notin Reviewing, Goto("ready"), Outside,
         wf' = [wf EXCEPT !.cycle = IF @ = 0 THEN 1 ELSE @, !.turn = 0,
                          !.phase = "codex_ready"]
  PROVE  IInv'
  <1>1. Moves("ready") /\ DOMAIN run' = DOMAIN run
    BY Zenon DEF IInv, Shape, Goto, Moves
  <1>2. /\ DOMAIN wf' = Fields /\ Becomes("running", "codex_ready")
        /\ wf'.turn = 0 /\ wf'.launch = wf.launch /\ wf'.result = wf.result
        /\ wf'.thread = wf.thread /\ SamePlan /\ SameThreads
    BY Zenon DEF IInv, Shape, Fields, Becomes, SamePlan, SameThreads
  <1>3. /\ wf'.record = wf.record /\ wf'.child = wf.child
        /\ wf'.cycle = IF wf.cycle = 0 THEN 1 ELSE wf.cycle
    BY Zenon DEF IInv, Shape, Fields
  <1> USE <1>1, <1>2, <1>3 DEF IInv, Moves, Becomes, SamePlan, Outside
  <1>4. wf.phase \in Started /\ wf.turn = 0 /\ wf.launch = 0
    BY DEF Places, PhaseAt, TurnInv, Named, PhaseKnows
  <1>5. wf'.cycle \in Nat
    BY DEF Shape
  <1>6. Shape'
    BY <1>5 DEF Shape, SameThreads
  <1>7. Places'
    BY DEF Places, PhaseAt
  <1>8. PlanInv'
    BY <1>4, PlanKept
  <1>9. TurnInv'
    BY <1>4 DEF TurnInv, Named, PhaseKnows, TurnsKept, Completed, IsPaused,
                SameThreads
  <1>10. ReviewInv'
    BY WorkKept
  <1>11. Rotates'
    BY <1>4, ThreadKept
  <1> QED  BY <1>6, <1>7, <1>8, <1>9, <1>10, <1>11

LEMMA LoopKeeps == ASSUME IInv, Loop PROVE IInv'
  <1>1. /\ run.pc = "loop" /\ wf.status = "running" /\ Outside
        /\ wf.phase \in Reviewing => run.got = 0
    BY DEF Loop, external, Outside, IInv, TurnInv, Named, PhaseKnows
  <1>2. CASE wf.phase = "review_captured"
    <2>1. Decide(Settles(wf.record) /\ ~Unsound)
      BY <1>1, <1>2, Zenon DEF Loop
    <2>2. /\ (Settles(wf.record) /\ ~Unsound) \in BOOLEAN
          /\ (Settles(wf.record) /\ ~Unsound) => Settles(wf.record)
      OBVIOUS
    <2> QED  BY <1>1, <1>2, <2>1, <2>2, DecideKeeps
  <1>3. CASE wf.phase \in {"codex_captured", "chatgpt_running"}
    <2>1. wf.phase # "review_captured"
      BY <1>3
    <2>2. Goto("review") /\ wf' = wf
      BY <1>1, <1>3, <2>1, Zenon DEF Loop
    <2> QED  BY <1>1, <1>3, <2>2, ReviewMoves
  <1>4. CASE wf.phase \notin Reviewing /\ run.got # 0
    <2>1. /\ wf.phase # "review_captured"
          /\ wf.phase \notin {"codex_captured", "chatgpt_running"}
      BY <1>4
    <2>2. Goto("result") /\ wf' = wf
      BY <1>4, <2>1, Zenon DEF Loop
    <2> QED  BY <1>1, <1>4, <2>2, LoopResultKeeps
  <1>5. CASE wf.phase \notin Reviewing /\ run.got = 0
    <2>1. /\ wf.phase # "review_captured"
          /\ wf.phase \notin {"codex_captured", "chatgpt_running"}
      BY <1>5
    <2>2. /\ wf' = [wf EXCEPT !.cycle = IF @ = 0 THEN 1 ELSE @, !.turn = 0,
                              !.phase = "codex_ready"]
          /\ Goto("ready")
      BY <1>5, <2>1, Zenon DEF Loop
    <2> QED  BY <1>1, <1>5, <2>2, LoopReadyKeeps
  <1> QED  BY <1>2, <1>3, <1>4, <1>5

-----------------------------------------------------------------------------
(* Reviews come to be, and one that is there is never replaced.            *)
LEMMA AttachWrites ==
  ASSUME Shape, NEW key \in Key, NEW auto, Attach(key, auto)
  PROVE  /\ DOMAIN children' = DOMAIN children \cup {key}
         /\ \A k \in DOMAIN children : children'[k] = children[k]
         /\ key \notin DOMAIN children => children'[key] = Born(auto)
         /\ DOMAIN children' \subseteq Key
         /\ \A k \in DOMAIN children' :
              DOMAIN children'[k] = {"status", "verdict", "sent", "auto"}
  <1>1. /\ DOMAIN children' = DOMAIN children \cup {key}
        /\ \A k \in DOMAIN children : children'[k] = children[k]
        /\ key \notin DOMAIN children => children'[key] = Born(auto)
    <2>1. CASE key \in DOMAIN children
      BY <2>1 DEF Attach
    <2>2. CASE key \notin DOMAIN children
      BY <2>2 DEF Attach
    <2> QED  BY <2>1, <2>2
  <1>2. DOMAIN Born(auto) = {"status", "verdict", "sent", "auto"}
    BY DEF Born
  <1> QED  BY <1>1, <1>2 DEF Shape

LEMMA AttachAttempts ==
  ASSUME Shape, Attempts, NEW key \in Key, NEW auto, Attach(key, auto),
         key.attempt = 2 => Unsent(key.cycle, key.chat), wf' = wf
  PROVE  Attempts'
  <1> USE AttachWrites
  <1>1. Born(auto).status = "running"
    BY DEF Born
  <1>2. ASSUME NEW cycle, NEW chat, Unsent(cycle, chat)
        PROVE  Unsent(cycle, chat)'
    BY <1>2 DEF Unsent
  <1>3. ASSUME NEW k \in DOMAIN children'
        PROVE  /\ children'[k].status = "presend" => ~children'[k].sent
               /\ children'[k].status = "succeeded" =>
                    children'[k].verdict \in {"settled", "continue", "weak", "weak_continue"}
               /\ k.attempt = 2 => Unsent(k.cycle, k.chat)'
    <2>1. CASE k \in DOMAIN children
      BY <1>2, <1>3, <2>1 DEF Attempts
    <2>2. CASE k \notin DOMAIN children
      <3>1. k = key
        BY <1>3, <2>2
      <3>2. children'[k].status = "running"
        BY <1>1, <2>2, <3>1
      <3> QED  BY <1>2, <3>1, <3>2
    <2> QED  BY <2>1, <2>2
  <1>4. wf'.attempt = 2 => Unsent(wf.cycle, NextChat)'
    BY <1>2 DEF Attempts, NextChat
  <1> QED  BY <1>3, <1>4 DEF Attempts

LEMMA AskReviewKeeps == ASSUME IInv, AskReview PROVE IInv'
  <1>1. /\ run.pc = "review" /\ wf.status = "running" /\ wf' = wf
        /\ spaces' = spaces /\ turns' = turns
        /\ wf.phase \in {"codex_captured", "chatgpt_running"}
    BY DEF AskReview, IInv, Places, PhaseAt
  <1>2. CASE Linked /\ Goto("watching") /\ children' = children
    BY <1>1, <1>2, ReviewMoves DEF Outside
  <1>3. CASE Attach(Review(wf.cycle, wf.chat, 1), FALSE) /\ Goto("link")
    <2> DEFINE key == Review(wf.cycle, wf.chat, 1)
    <2>1. key \in Key /\ key.attempt = 1
      BY DEF Key, Review, IInv, Shape
    <2> HIDE DEF key
    <2>2. /\ DOMAIN children' = DOMAIN children \cup {key}
          /\ \A k \in DOMAIN children : children'[k] = children[k]
          /\ key \notin DOMAIN children => children'[key] = Born(FALSE)
          /\ DOMAIN children' \subseteq Key
          /\ \A k \in DOMAIN children' :
               DOMAIN children'[k] = {"status", "verdict", "sent", "auto"}
      BY <1>3, <2>1, AttachWrites DEF IInv, key
    <2>3. Moves("link") /\ DOMAIN run' = DOMAIN run
      BY <1>3, Zenon DEF IInv, Shape, Goto, Moves
    <2>4. Born(FALSE).status = "running"
      BY DEF Born
    <2> USE <1>1, <2>3 DEF IInv, Moves
    <2>5. Shape'
      BY <2>2 DEF Shape
    <2>6. Places'
      BY DEF Places, PhaseAt
    <2>7. wf.attempt = 0 /\ wf.blank = "none"
      BY DEF PlanInv, Planned, Handing, IsPaused
    <2>8. PlanInv'
      <3>1. Planned' /\ Blanks'
        BY <2>7 DEF PlanInv, Planned, Handing, Blanks, IsPaused
      <3>2. Attempts'
        <4>1. Attach(key, FALSE)
          BY <1>3 DEF key
        <4>2. Shape /\ Attempts /\ (key.attempt = 2 => Unsent(key.cycle, key.chat))
          BY <2>1 DEF PlanInv
        <4> HIDE DEF IInv
        <4> QED  BY <1>1, <2>1, <4>1, <4>2, AttachAttempts
      <3> QED  BY <3>1, <3>2 DEF PlanInv
    <2>9. TurnInv'
      BY DEF TurnInv, Named, PhaseKnows, TurnsKept, Completed, IsPaused
    <2>10. ReviewInv'
      BY <2>2 DEF ReviewInv, Recorded, UnderReview, IsPaused, Asked, Settled,
                  SettledOnEvidence, key
    <2>11. Rotates'
      BY DEF Rotates, Unrepaired, UnderReview, IsPaused, GivenUp, Unsound, Settles
    <2> QED  BY <2>5, <2>6, <2>8, <2>9, <2>10, <2>11
  <1> QED  BY <1>2, <1>3 DEF AskReview

LEMMA LinkKeeps == ASSUME IInv, Link PROVE IInv'
  <1>1. /\ run.pc = "link" /\ wf.status = "running" /\ Outside
        /\ wf.phase \in {"codex_captured", "chatgpt_running"}
        /\ Review(wf.cycle, wf.chat, 1) \in DOMAIN children
    BY DEF Link, external, Outside, IInv, Places, PhaseAt, ReviewInv, Asked
  <1>2. /\ DOMAIN wf' = Fields /\ Becomes("running", "chatgpt_running")
        /\ SameTurn /\ SamePlan /\ SameThreads
        /\ wf'.record = wf.record /\ wf'.cycle = wf.cycle
        /\ wf'.child = Review(wf.cycle, wf.chat, 1)
    BY Zenon DEF IInv, Shape, Fields, Link, Becomes, SameTurn, SamePlan, SameThreads
  <1>3. Moves("watching") /\ DOMAIN run' = DOMAIN run
    BY Zenon DEF IInv, Shape, Link, Goto, Moves
  <1>4. wf'.child.cycle = wf.cycle /\ wf'.child.chat = wf.chat
    BY <1>2 DEF Review
  <1> USE <1>1, <1>2, <1>3
      DEF IInv, Moves, Becomes, SameTurn, SamePlan, Outside
  <1>5. Shape'
    BY DEF Shape, SameThreads
  <1>6. Places'
    BY DEF Places, PhaseAt
  <1>7. PlanInv'
    BY PlanKept
  <1>8. TurnInv'
    BY DEF TurnInv, Named, PhaseKnows, TurnsKept, Completed, IsPaused, SameThreads
  <1>9. ReviewInv'
    BY <1>4 DEF ReviewInv, Recorded, UnderReview, IsPaused, Asked, Settled,
                SettledOnEvidence
  <1>10. Rotates'
    BY DEF Rotates, Unrepaired, UnderReview, IsPaused, GivenUp, Unsound, SameThreads
  <1> QED  BY <1>5, <1>6, <1>7, <1>8, <1>9, <1>10

(* What is made of the answer keeps Settles honest.                        *)
LEMMA CaptureReviewKeeps == ASSUME IInv, CaptureReview PROVE IInv'
  <1> DEFINE told == [wf.record EXCEPT !.review = Evaluated]
  <1>1. /\ run.pc = "watching" /\ wf.status = "running" /\ Outside
        /\ wf.phase = "chatgpt_running" /\ children[wf.child].status = "succeeded"
        /\ wf.child \in DOMAIN children
    BY DEF CaptureReview, external, Outside, IInv, Places, PhaseAt, ReviewInv, Asked
  <1>2. /\ DOMAIN wf' = Fields /\ Becomes("running", "review_captured")
        /\ SameTurn /\ SamePlan /\ SameThreads
        /\ wf'.child = wf.child /\ wf'.cycle = wf.cycle /\ wf'.record = told
    BY <1>1, Zenon DEF IInv, Shape, Fields, CaptureReview, Becomes, SameTurn,
                       SamePlan, SameThreads
  <1>3. Moves("judge") /\ DOMAIN run' = DOMAIN run
    BY Zenon DEF IInv, Shape, CaptureReview, Goto, Moves
  <1>4. /\ told.cycle = wf.record.cycle /\ told.kind = wf.record.kind
        /\ told.turn = wf.record.turn /\ told.review = Evaluated
        /\ DOMAIN told = DOMAIN wf.record
    BY Zenon DEF IInv, Shape
  <1> HIDE DEF told
  <1>5. Settles(wf'.record) =>
          /\ wf.record.kind = "candidate" /\ ~Unsound
          /\ children[wf.child].verdict \in {"settled", "weak"}
    <2> DEFINE said    == children[wf.child].verdict
               settles == /\ wf.record.kind # "blocked" /\ ~Unsound
                          /\ said \in {"settled", "weak"}
               weaker  == wf.cycle # 1 /\ said \in {"weak", "weak_continue"}
    <2>1. CASE settles
      BY <1>2, <1>4, <2>1 DEF Settles
    <2>2. CASE ~settles
      <3>1. Evaluated = IF weaker THEN "weak_continue" ELSE "continue"
        BY <2>2, Zenon DEF Evaluated
      <3>2. wf'.record.review \in {"weak_continue", "continue"}
        BY <1>2, <1>4, <3>1, Zenon
      <3> QED  BY <3>2 DEF Settles
    <2> QED  BY <2>1, <2>2
  <1> USE <1>1, <1>2, <1>3, <1>4
      DEF IInv, Moves, Becomes, SameTurn, SamePlan, Outside
  <1>6. Shape'
    BY DEF Shape, SameThreads
  <1>7. Places'
    BY DEF Places, PhaseAt
  <1>8. PlanInv'
    BY PlanKept
  <1>9. TurnInv'
    BY DEF TurnInv, Named, PhaseKnows, TurnsKept, Completed, IsPaused, SameThreads
  <1>10. ReviewInv'
    <2>1. Recorded'
      BY <1>5 DEF ReviewInv, Recorded, UnderReview, IsPaused
    <2> QED  BY <2>1 DEF ReviewInv, Asked, Settled, SettledOnEvidence
  <1>11. Rotates'
    BY <1>5 DEF Rotates, Unrepaired, UnderReview, IsPaused, GivenUp, SameThreads
  <1> QED  BY <1>6, <1>7, <1>8, <1>9, <1>10, <1>11

-----------------------------------------------------------------------------
(* The chat is exhausted, or its review fails.                             *)
LEMMA PendSuccessorKeeps == ASSUME IInv, PendSuccessor PROVE IInv'
  <1>1. /\ run.pc = "watching" /\ wf.status = "running" /\ Outside
        /\ wf.phase = "chatgpt_running" /\ Exhausted(wf.child)
    BY DEF PendSuccessor, external, Outside, IInv, Places, PhaseAt
  <1>2. /\ DOMAIN wf' = Fields /\ Becomes("running", "successor_preparing")
        /\ SameTurn /\ SameReview /\ SameThreads
        /\ wf'.attempt = wf.attempt /\ wf'.blank = wf.blank /\ wf'.chat = wf.chat
    BY <1>1, Zenon DEF IInv, Shape, Fields, PendSuccessor, Becomes, SameTurn,
                       SameReview, SameThreads
  <1>3. Moves("start") /\ DOMAIN run' = DOMAIN run
    BY Zenon DEF IInv, Shape, PendSuccessor, Goto, Moves
  <1> USE <1>1, <1>2, <1>3
      DEF IInv, Moves, Becomes, SameTurn, SameReview, Outside
  <1>4. wf.attempt = 0 /\ wf.blank = "none"
    BY DEF PlanInv, Planned, Handing, IsPaused
  <1>5. Shape'
    BY DEF Shape, SameThreads
  <1>6. Places'
    BY DEF Places, PhaseAt
  <1>7. PlanInv'
    BY <1>4 DEF PlanInv, Planned, Blanks, Attempts, Unsent, Handing
  <1>8. TurnInv'
    BY DEF TurnInv, Named, PhaseKnows, TurnsKept, Completed, IsPaused, SameThreads
  <1>9. ReviewInv'
    BY DEF ReviewInv, Recorded, UnderReview, IsPaused, Asked, Settled,
           SettledOnEvidence
  <1>10. Rotates'
    BY DEF Rotates, Unrepaired, UnderReview, IsPaused, GivenUp, Unsound, SameThreads
  <1> QED  BY <1>5, <1>6, <1>7, <1>8, <1>9, <1>10

LEMMA ReviewFailsKeeps == ASSUME IInv, ReviewFails PROVE IInv'
  BY StopsHere DEF ReviewFails, external, Outside

-----------------------------------------------------------------------------
(* The successor: the record stays under review, and its turns are done.   *)
LEMMA HandoffKept ==
  ASSUME IInv, SameTurn, SameReview, SameThreads, turns' = turns,
         children' = children, wf'.chat = wf.chat,
         (wf.status = "running" /\ wf.phase \in Successor) \/ IsPaused,
         \/ wf'.status = "running" /\ wf'.phase \in Successor
         \/ wf'.status = "human_required" /\ wf'.phase = "continuation_paused",
         run.pc \notin {"link", "watching"}, run'.got \in {0, run.got},
         run'.pc \in {"off", "start", "blank", "commit", "promise", "handoff"}
  PROVE  TurnInv' /\ ReviewInv' /\ Rotates'
  <1> USE DEF IInv, SameTurn, SameReview, SameThreads
  <1>1. wf.turn = 0 /\ wf.launch = 0 /\ run.got = 0 /\ wf.result = 0
    BY DEF TurnInv, Named, PhaseKnows, IsPaused
  <1>2. TurnInv'
    BY <1>1 DEF TurnInv, Named, PhaseKnows, TurnsKept, Completed, IsPaused
  <1>3. /\ UnderReview /\ UnderReview' /\ ~Unrepaired
        /\ wf.phase \notin Reviewing /\ wf'.phase \notin Reviewing
    BY DEF UnderReview, Unrepaired, IsPaused
  <1>4. Recorded'
    <2>1. Recorded
      BY DEF ReviewInv
    <2>2. /\ wf'.record = wf.record /\ wf'.child = wf.child
          /\ wf'.cycle = wf.cycle /\ wf'.chat = wf.chat
      OBVIOUS
    <2> HIDE DEF IInv, SameTurn, SameThreads, SameReview
    <2> QED  BY <1>3, <2>1, <2>2 DEF Recorded
  <1>5. Asked' /\ Settled'
    BY DEF ReviewInv, Asked, Settled, SettledOnEvidence
  <1>6. /\ wf.status = "running" \/ IsPaused
        /\ wf'.rotation = wf.rotation /\ wf'.checkpoint = wf.checkpoint
        /\ wf'.thread = wf.thread /\ wf'.turn = wf.turn
        /\ wf'.record = wf.record /\ Unsound' = Unsound
    BY DEF Unsound
  <1>7. GivenUp(wf.record.turn)' = GivenUp(wf.record.turn)
    BY DEF GivenUp
  <1>8. Rotates'
    <2> HIDE DEF SameTurn, SameReview, SameThreads
    <2> QED  BY <1>1, <1>3, <1>6, <1>7 DEF Rotates
  <1> QED  BY <1>2, <1>4, <1>5, <1>8 DEF ReviewInv

LEMMA ReserveWrites ==
  ASSUME Shape, wf' = Reserving,
         run' = [run EXCEPT !.pc = "blank", !.create = wf.blank = "none"]
  PROVE  /\ Formed /\ Becomes(wf.status, wf.phase) /\ wf'.blank = "dispatched"
         /\ wf'.attempt = wf.attempt /\ wf'.chat = wf.chat /\ wf'.paused = wf.paused
         /\ SameTurn /\ SameReview /\ SameThreads
         /\ run'.pc = "blank" /\ run'.got = run.got
         /\ run'.deferred = run.deferred /\ (run'.create => wf.blank = "none")
  BY Zenon DEF Shape, Fields, Reserving, Formed, Becomes, SameTurn, SameReview,
               SameThreads

LEMMA ReserveKeeps ==
  ASSUME IInv, wf' = Reserving, MayPrepare, Outside,
         run' = [run EXCEPT !.pc = "blank", !.create = wf.blank = "none"],
         \/ Handing /\ wf.phase = "successor_preparing" /\ run.pc = "start"
         \/ IsPaused /\ run.pc = "off"
  PROVE  IInv'
  <1> USE ReserveWrites DEF IInv, Formed, Becomes, Outside
  <1>1. (wf.status = "running" /\ wf.phase \in Successor) \/ IsPaused
    BY DEF Handing
  <1>2. Shape'
    BY DEF Shape, SameTurn, SameReview, SameThreads
  <1>3. Places'
    BY DEF Places, PhaseAt, Handing, IsPaused
  <1>4. wf.chat < MaxChats /\ wf.attempt = 0 /\ Exhausted(wf.paused)
    BY DEF MayPrepare
  <1>5. Planned'
    BY <1>4 DEF PlanInv, Planned, Handing, IsPaused
  <1>6. Blanks'
    <2>1. NextChat \in 1..MaxChats /\ NextChat > wf.chat
      <3>1. wf.chat \in Nat /\ MaxChats \in Nat /\ wf.chat < MaxChats
        BY <1>4, ConvergenceAssumption DEF Shape
      <3> HIDE DEF IInv
      <3> QED  BY <3>1 DEF NextChat
    <2>2. NextChat' = NextChat
      BY DEF NextChat
    <2> QED  BY <1>4, <2>1, <2>2 DEF PlanInv, Blanks, Exhausted
  <1>7. Attempts'
    BY <1>4 DEF PlanInv, Attempts, Unsent
  <1>8. TurnInv' /\ ReviewInv' /\ Rotates'
    BY <1>1, HandoffKept DEF IsPaused
  <1> QED  BY <1>2, <1>3, <1>5, <1>6, <1>7, <1>8 DEF PlanInv

(* The conversation was prepared before, by a person or a broker that died. *)
LEMMA ReservedMoves ==
  ASSUME IInv, run.pc = "start", Handing, wf.phase = "successor_preparing",
         wf' = wf, Goto("promise"), Outside
  PROVE  IInv'
  <1>1. Moves("promise") /\ DOMAIN run' = DOMAIN run
    BY Zenon DEF IInv, Shape, Goto, Moves
  <1> USE <1>1 DEF IInv, Handing, Moves, Outside
  <1>2. Shape'
    BY DEF Shape
  <1>3. Places'
    BY DEF Places, PhaseAt
  <1>4. PlanInv'
    BY DEF PlanInv, Planned, Blanks, Attempts, Unsent, Exhausted, NextChat
  <1>5. TurnInv' /\ ReviewInv' /\ Rotates'
    BY HandoffKept DEF SameTurn, SameReview, SameThreads
  <1> QED  BY <1>2, <1>3, <1>4, <1>5

(* One conversation is made, or the one made before is found.              *)
LEMMA MadeBlanks ==
  ASSUME IInv, run.pc = "blank", children' = children, wf'.blank = wf.blank,
         wf'.chat = wf.chat, wf'.paused = wf.paused, run'.pc # "blank",
         \/ spaces' = spaces
         \/ run.create /\ spaces' = [spaces EXCEPT ![NextChat] = @ + 1]
  PROVE  spaces' \in [1..MaxChats -> Nat] /\ Blanks'
  <1> USE DEF IInv
  <1>1. NextChat \in 1..MaxChats /\ NextChat = wf.chat + 1 /\ wf.chat \in Nat
    BY ConvergenceAssumption DEF PlanInv, Planned, NextChat, Shape
  <1>2. wf.blank # "none" /\ Exhausted(wf.paused)
    BY DEF PlanInv, Planned, Blanks
  <1>3. spaces \in [1..MaxChats -> Nat] /\ MaxChats \in Nat
    BY ConvergenceAssumption DEF Shape
  <1>4. /\ \A g \in 1..MaxChats : spaces[g] <= 1
        /\ \A g \in 1..MaxChats : g > wf.chat + 1 => spaces[g] = 0
        /\ run.create => spaces[NextChat] = 0
    BY DEF PlanInv, Blanks
  <1>5. Exhausted(wf.paused)'
    BY <1>2 DEF Exhausted
  <1> HIDE DEF IInv
  <1>6. CASE spaces' = spaces
    BY <1>1, <1>2, <1>3, <1>4, <1>5, <1>6 DEF Blanks
  <1>7. CASE run.create /\ spaces' = [spaces EXCEPT ![NextChat] = @ + 1]
    <2>1. /\ spaces' \in [1..MaxChats -> Nat]
          /\ \A g \in 1..MaxChats :
               spaces'[g] = IF g = NextChat THEN 1 ELSE spaces[g]
      BY <1>1, <1>3, <1>4, <1>7
    <2> QED  BY <1>1, <1>2, <1>4, <1>5, <2>1 DEF Blanks
  <1> QED  BY <1>6, <1>7

LEMMA BlankMoves ==
  ASSUME IInv, run.pc \in {"blank", "commit"}, turns' = turns,
         children' = children, spaces' \in [1..MaxChats -> Nat], Blanks',
         DOMAIN wf' = Fields, wf'.status = wf.status, wf'.phase = wf.phase,
         wf'.attempt = wf.attempt, wf'.chat = wf.chat, wf'.blank # "none",
         SameTurn, SameReview, SameThreads, NEW p, Goto(p),
         \/ p = "commit"
         \/ p = "promise" /\ Handing
         \/ p = "off" /\ ~Handing
  PROVE  IInv'
  <1>1. Moves(p) /\ DOMAIN run' = DOMAIN run
    BY Zenon DEF IInv, Shape, Goto, Moves
  <1> USE <1>1 DEF IInv, Moves
  <1>2. \/ wf.status = "running" /\ wf.phase = "successor_preparing"
        \/ wf.status = "human_required" /\ wf.phase = "continuation_paused"
    BY DEF Places, PhaseAt, IsPaused
  <1>3. Shape'
    BY DEF Shape, SameTurn, SameReview, SameThreads
  <1>4. Places'
    BY <1>2 DEF Places, PhaseAt, IsPaused, Handing
  <1>5. Planned'
    BY <1>2 DEF PlanInv, Planned, Handing, IsPaused
  <1>6. Attempts'
    BY DEF PlanInv, Attempts, Unsent, NextChat, SameReview
  <1>7. TurnInv' /\ ReviewInv' /\ Rotates'
    BY <1>2, HandoffKept DEF IsPaused
  <1> QED  BY <1>3, <1>4, <1>5, <1>6, <1>7 DEF PlanInv

LEMMA RefusedKeeps ==
  ASSUME IInv, run.pc = "blank", Refused, children' = children, turns' = turns,
         \/ spaces' = spaces
         \/ run.create /\ spaces' = [spaces EXCEPT ![NextChat] = @ + 1]
  PROVE  IInv'
  <1>1. CASE Handing /\ Stop("successor_preparation_failed")
    <2>1. wf.status = "running" /\ wf.phase \in Successor
      BY <1>1 DEF Handing
    <2>2. /\ wf'.blank = wf.blank /\ wf'.chat = wf.chat
          /\ wf'.paused = wf.paused /\ run'.pc # "blank"
      BY <1>1, <2>1, StopWrites DEF IInv, Resumable, Moves
    <2>3. spaces' \in [1..MaxChats -> Nat] /\ Blanks'
      BY <2>2, MadeBlanks
    <2> QED  BY <1>1, <2>1, <2>3, StopKeeps
  <1>2. CASE ~Handing /\ Goto("off") /\ wf' = wf
    <2>1. run'.pc # "blank" /\ wf.blank # "none" /\ DOMAIN wf = Fields
      BY <1>2, Zenon DEF IInv, Shape, Goto, PlanInv, Planned
    <2>2. spaces' \in [1..MaxChats -> Nat] /\ Blanks'
      BY <1>2, <2>1, MadeBlanks
    <2> QED  BY <1>2, <2>1, <2>2, BlankMoves DEF SameTurn, SameReview, SameThreads
  <1> QED  BY <1>1, <1>2 DEF Refused

LEMMA MakeBlankKeeps == ASSUME IInv, MakeBlank PROVE IInv'
  <1>1. /\ run.pc = "blank" /\ children' = children /\ turns' = turns
        /\ \/ spaces' = spaces
           \/ run.create /\ spaces' = [spaces EXCEPT ![NextChat] = @ + 1]
    BY DEF MakeBlank
  <1>2. CASE Refused
    BY <1>1, <1>2, RefusedKeeps
  <1>3. CASE Goto("commit") /\ wf' = wf
    <2>1. run'.pc # "blank" /\ wf.blank # "none" /\ DOMAIN wf = Fields
      BY <1>1, <1>3, Zenon DEF IInv, Shape, Goto, PlanInv, Planned
    <2>2. spaces' \in [1..MaxChats -> Nat] /\ Blanks'
      BY <1>1, <1>3, <2>1, MadeBlanks
    <2> QED
      BY <1>1, <1>3, <2>1, <2>2, BlankMoves DEF SameTurn, SameReview, SameThreads
  <1> QED  BY <1>2, <1>3 DEF MakeBlank

LEMMA CommitBlankKeeps == ASSUME IInv, CommitBlank PROVE IInv'
  <1> DEFINE place == IF Handing THEN "promise" ELSE "off"
  <1>1. /\ run.pc = "commit" /\ wf' = [wf EXCEPT !.blank = "prepared"]
        /\ Goto(place) /\ Outside
    BY DEF CommitBlank, external, Outside
  <1>2. /\ DOMAIN wf' = Fields /\ wf'.status = wf.status /\ wf'.phase = wf.phase
        /\ wf'.attempt = wf.attempt /\ wf'.chat = wf.chat
        /\ wf'.blank = "prepared" /\ wf'.paused = wf.paused
    BY <1>1, Zenon DEF IInv, Shape, Fields
  <1>3. SameTurn /\ SameReview /\ SameThreads
    BY <1>1, Zenon DEF IInv, Shape, Fields, SameTurn, SameReview, SameThreads
  <1>4. run'.pc = place
    BY <1>1, Zenon DEF IInv, Shape, Goto
  <1>5. (place = "promise" /\ Handing) \/ (place = "off" /\ ~Handing)
    OBVIOUS
  <1> HIDE DEF place
  <1>6. spaces' \in [1..MaxChats -> Nat] /\ Blanks'
    BY <1>1, <1>2, <1>4, <1>5 DEF IInv, Shape, PlanInv, Planned, Blanks, Exhausted,
                                  NextChat, Outside
  <1> QED  BY <1>1, <1>2, <1>3, <1>5, <1>6, BlankMoves DEF Outside

(* The successor's review is reserved, asked for, and taken over.          *)
LEMMA ReserveReviewKeeps == ASSUME IInv, ReserveReview PROVE IInv'
  <1>1. run.pc = "promise" /\ Handing /\ Outside
    BY DEF ReserveReview, external, Outside
  <1>2. /\ DOMAIN wf' = Fields /\ Becomes(wf.status, "successor_reviewing")
        /\ wf'.attempt = 1 /\ wf'.chat = wf.chat
        /\ wf'.blank = wf.blank /\ wf'.paused = wf.paused
    BY Zenon DEF IInv, Shape, Fields, ReserveReview, Becomes
  <1>3. SameTurn /\ SameReview /\ SameThreads
    BY Zenon DEF IInv, Shape, Fields, ReserveReview, SameTurn, SameReview,
                 SameThreads
  <1>4. Moves("handoff") /\ DOMAIN run' = DOMAIN run
    BY Zenon DEF IInv, Shape, ReserveReview, Goto, Moves
  <1> USE <1>1, <1>2, <1>3, <1>4 DEF IInv, Handing, Becomes, Moves, Outside
  <1>5. Shape'
    BY DEF Shape, SameTurn, SameReview, SameThreads
  <1>6. Places'
    BY DEF Places, PhaseAt
  <1>7. PlanInv'
    BY DEF PlanInv, Planned, Blanks, Attempts, Unsent, Exhausted
  <1>8. TurnInv' /\ ReviewInv' /\ Rotates'
    BY HandoffKept
  <1> QED  BY <1>5, <1>6, <1>7, <1>8

LEMMA TakeUpKeeps == ASSUME IInv, TakeUp PROVE IInv'
  <1>1. /\ run.pc = "start" /\ Handing /\ Outside /\ wf' = wf
        /\ wf.phase = "successor_reviewing"
    BY DEF TakeUp, external, Outside
  <1>2. Moves("handoff") /\ DOMAIN run' = DOMAIN run
    BY Zenon DEF IInv, Shape, TakeUp, Goto, Moves
  <1> USE <1>1, <1>2 DEF IInv, Handing, Moves, Outside
  <1>3. Shape'
    BY DEF Shape
  <1>4. Places'
    BY DEF Places, PhaseAt
  <1>5. PlanInv'
    BY DEF PlanInv, Planned, Blanks, Attempts, Unsent, Exhausted, NextChat
  <1>6. TurnInv' /\ ReviewInv' /\ Rotates'
    BY HandoffKept DEF SameTurn, SameReview, SameThreads
  <1> QED  BY <1>3, <1>4, <1>5, <1>6

LEMMA AskSuccessorKeeps == ASSUME IInv, AskSuccessor PROVE IInv'
  <1>1. /\ run.pc = "handoff" /\ wf' = wf /\ turns' = turns /\ spaces' = spaces
    BY DEF AskSuccessor
  <1>2. CASE Authorized /\ Attach(Intent, TRUE) /\ Goto("handed")
    <2>1. Moves("handed") /\ DOMAIN run' = DOMAIN run
      BY <1>2, Zenon DEF IInv, Shape, Goto, Moves
    <2>2. /\ wf.status = "running" /\ wf.phase = "successor_reviewing"
          /\ wf.attempt \in {1, 2}
      BY <1>2 DEF Authorized, Handing, IInv, PlanInv, Planned, Shape
    <2>3. /\ Intent \in Key /\ Intent' = Intent
          /\ Intent.attempt = 2 => Unsent(Intent.cycle, Intent.chat)
      BY <1>1, <2>2 DEF Intent, Key, Review, NextChat, IInv, Shape, PlanInv, Attempts
    <2>4. /\ DOMAIN children' = DOMAIN children \cup {Intent}
          /\ \A k \in DOMAIN children : children'[k] = children[k]
          /\ DOMAIN children' \subseteq Key
          /\ \A k \in DOMAIN children' :
               DOMAIN children'[k] = {"status", "verdict", "sent", "auto"}
      BY <1>2, <2>3, AttachWrites DEF IInv
    <2>5. Attempts'
      BY <1>1, <1>2, <2>3, AttachAttempts DEF IInv, PlanInv
    <2> USE <1>1, <2>1, <2>2, <2>4 DEF IInv, Moves
    <2>6. Shape'
      BY DEF Shape
    <2>7. Places'
      BY DEF Places, PhaseAt
    <2>8. Planned'
      BY DEF PlanInv, Planned, Handing, IsPaused
    <2>9. Blanks'
      BY DEF PlanInv, Blanks, Exhausted
    <2>10. TurnInv'
      BY DEF TurnInv, Named, PhaseKnows, TurnsKept, Completed, IsPaused
    <2>11. ReviewInv'
      BY <2>3 DEF ReviewInv, Recorded, UnderReview, IsPaused, Asked, Settled,
                  SettledOnEvidence
    <2>12. Rotates'
      BY DEF Rotates, Unrepaired, UnderReview, IsPaused, GivenUp, Unsound
    <2> QED  BY <2>5, <2>6, <2>7, <2>8, <2>9, <2>10, <2>11, <2>12 DEF PlanInv
  <1>3. CASE ~Authorized /\ Goto("off") /\ children' = children
    <2>1. Moves("off") /\ DOMAIN run' = DOMAIN run
      BY <1>3, Zenon DEF IInv, Shape, Goto, Moves
    <2>2. wf.status = "cancelled"
      BY <1>1, <1>3 DEF Authorized, Handing, IInv, Places, PhaseAt
    <2> USE <1>1, <1>3, <2>1, <2>2 DEF IInv, Moves
    <2>3. Shape'
      BY DEF Shape
    <2>4. Places'
      BY DEF Places
    <2>5. PlanInv'
      BY DEF PlanInv, Planned, Handing, Blanks, Attempts, Unsent, NextChat, Exhausted
    <2>6. TurnInv'
      BY DEF TurnInv, Named, PhaseKnows, TurnsKept, Completed, IsPaused
    <2>7. ReviewInv' /\ Rotates'
      BY DEF ReviewInv, Recorded, UnderReview, IsPaused, Asked, Settled,
             SettledOnEvidence, Rotates
    <2> QED  BY <2>3, <2>4, <2>5, <2>6, <2>7
  <1> QED  BY <1>2, <1>3 DEF AskSuccessor

(* The plan becomes the conversation in force.                             *)
LEMMA PromotedWrites ==
  ASSUME Shape, wf' = Promoted, Goto("start")
  PROVE  /\ Formed /\ Becomes("running", "chatgpt_running") /\ Moves("start")
         /\ wf'.attempt = 0 /\ wf'.blank = "none" /\ wf'.chat = NextChat
         /\ wf'.child = Intent /\ wf'.record = wf.record /\ wf'.cycle = wf.cycle
         /\ SameTurn /\ SameThreads
  <1>1. /\ Formed /\ Becomes("running", "chatgpt_running") /\ Moves("start")
        /\ wf'.attempt = 0 /\ wf'.blank = "none" /\ wf'.chat = NextChat
    BY Zenon DEF Shape, Fields, Promoted, Resumed, Goto, Formed, Becomes, Moves
  <1>2. /\ wf'.child = Intent /\ wf'.record = wf.record /\ wf'.cycle = wf.cycle
        /\ SameTurn /\ SameThreads
    BY Zenon DEF Shape, Fields, Promoted, Resumed, SameTurn, SameThreads
  <1> QED  BY <1>1, <1>2

(* A review or a plan is taken on in the same chat or in the next.         *)
LEMMA ResumedKeeps ==
  ASSUME IInv, Formed, Outside, wf'.status = "running", Moves("start"),
         wf'.phase \in {"chatgpt_running", "codex_captured"},
         wf'.attempt = 0, wf'.blank = "none",
         \/ wf'.chat = NextChat
         \/ wf'.chat = wf.chat /\ wf.blank = "none",
         wf'.phase = "chatgpt_running" =>
           wf'.child.cycle = wf.cycle /\ wf'.child.chat = wf'.chat,
         wf'.record = wf.record, wf'.cycle = wf.cycle, SameTurn, SameThreads,
         (wf.status = "running" /\ wf.phase \in Successor) \/ IsPaused
  PROVE  IInv'
  <1> USE DEF IInv, Formed, Moves, Outside, SameTurn
  <1>1. /\ wf.turn = 0 /\ wf.launch = 0 /\ run.got = 0 /\ wf.result = 0
        /\ UnderReview /\ wf.phase \notin Reviewing
    BY DEF TurnInv, Named, PhaseKnows, IsPaused, UnderReview
  <1>2. wf'.chat \in Nat /\ wf.chat \in Nat /\ MaxChats \in Nat
    <2>1. wf.chat \in Nat /\ MaxChats \in Nat
      BY ConvergenceAssumption DEF Shape
    <2> QED  BY <2>1 DEF NextChat
  <1>3. Shape'
    BY <1>2 DEF Shape, SameThreads
  <1>4. Places'
    BY DEF Places, PhaseAt
  <1>5. Planned'
    BY DEF Planned, Handing
  <1>6. Blanks'
    <2>1. /\ \A g \in 1..MaxChats : spaces[g] <= 1
          /\ \A g \in 1..MaxChats : g > wf.chat + 1 => spaces[g] = 0
          /\ \A g \in 1..MaxChats : g > wf.chat /\ wf.blank = "none" => spaces[g] = 0
      BY DEF PlanInv, Blanks
    <2>2. \A g \in 1..MaxChats : g > wf'.chat => spaces[g] = 0
      BY <1>2, <2>1 DEF NextChat
    <2>3. \A g \in 1..MaxChats : g > wf'.chat + 1 => g > wf'.chat
      BY <1>2
    <2> QED  BY <2>1, <2>2, <2>3 DEF Blanks
  <1>7. Attempts'
    BY DEF PlanInv, Attempts, Unsent
  <1>8. TurnInv'
    BY <1>1 DEF TurnInv, Named, PhaseKnows, TurnsKept, Completed, IsPaused,
                SameThreads
  <1>9. Recorded'
    BY <1>1 DEF ReviewInv, Recorded
  <1>10. Asked' /\ Settled'
    BY DEF Asked, Settled, SettledOnEvidence
  <1>11. Rotates'
    <2>1. /\ wf'.rotation = wf.rotation /\ wf'.checkpoint = wf.checkpoint
          /\ Unsound' = Unsound /\ ~Unrepaired
          /\ GivenUp(wf.record.turn)' = GivenUp(wf.record.turn)
      BY <1>1 DEF SameThreads, Unsound, GivenUp, Unrepaired, IsPaused
    <2> QED  BY <1>1, <2>1 DEF Rotates, IsPaused
  <1> QED  BY <1>3, <1>4, <1>5, <1>6, <1>7, <1>8, <1>9, <1>10, <1>11
           DEF PlanInv, ReviewInv

LEMMA PromotedKeeps ==
  ASSUME IInv, wf' = Promoted, Goto("start"), Outside,
         (wf.status = "running" /\ wf.phase \in Successor) \/ IsPaused
  PROVE  IInv'
  <1>1. Intent.cycle = wf.cycle /\ Intent.chat = NextChat
    BY DEF Intent, Review
  <1> QED  BY <1>1, PromotedWrites, ResumedKeeps DEF IInv, Becomes

LEMMA SuccessorEndsKeeps == ASSUME IInv, SuccessorEnds PROVE IInv'
  <1>1. /\ run.pc = "handed" /\ Handing /\ Outside
        /\ wf.phase = "successor_reviewing" /\ wf.status = "running"
        /\ Intent \in DOMAIN children
    BY DEF SuccessorEnds, external, Outside, IInv, Places, PhaseAt, ReviewInv, Asked,
           Handing
  <1>2. CASE wf' = Promoted /\ Goto("start")
    BY <1>1, <1>2, PromotedKeeps
  <1>3. CASE Retryable /\ wf' = [wf EXCEPT !.attempt = 2] /\ Goto("handoff")
    <2>1. /\ DOMAIN wf' = Fields /\ Becomes(wf.status, wf.phase)
          /\ wf'.attempt = 2 /\ wf'.chat = wf.chat
          /\ wf'.blank = wf.blank /\ wf'.paused = wf.paused
      BY <1>3, Zenon DEF IInv, Shape, Fields, Becomes
    <2>2. SameTurn /\ SameReview /\ SameThreads
      BY <1>3, Zenon DEF IInv, Shape, Fields, SameTurn, SameReview, SameThreads
    <2>3. Moves("handoff") /\ DOMAIN run' = DOMAIN run
      BY <1>3, Zenon DEF IInv, Shape, Goto, Moves
    <2>4. Unsent(wf.cycle, NextChat)
      BY <1>1, <1>3 DEF Retryable, Unsent, Intent
    <2>5. Unsent(wf.cycle, NextChat)'
      BY <1>1, <2>1, <2>2, <2>4 DEF Unsent, NextChat, SameReview, Outside
    <2>6. Attempts'
      BY <1>1, <2>1, <2>5 DEF IInv, PlanInv, Attempts, Unsent, Outside
    <2> USE <1>1, <2>1, <2>2, <2>3 DEF IInv, Becomes, Moves, Outside
    <2>7. Shape'
      BY DEF Shape, SameTurn, SameReview, SameThreads
    <2>8. Places'
      BY DEF Places, PhaseAt
    <2>9. Planned' /\ Blanks'
      BY DEF PlanInv, Planned, Handing, Blanks, Exhausted
    <2>10. TurnInv' /\ ReviewInv' /\ Rotates'
      BY HandoffKept
    <2> QED  BY <2>6, <2>7, <2>8, <2>9, <2>10 DEF PlanInv
  <1>4. CASE Stop("successor_review_incomplete")
    BY <1>1, <1>4, StopsHere
  <1> QED  BY <1>2, <1>3, <1>4 DEF SuccessorEnds

-----------------------------------------------------------------------------
(* A person takes up what was paused.                                      *)
LEMMA ResumeSameKeeps == ASSUME IInv, ResumeSame PROVE IInv'
  <1>1. /\ run.pc = "off" /\ IsPaused /\ Outside /\ wf.attempt = 0
        /\ children[wf.paused].status = "succeeded"
        /\ wf' = Resumed("chatgpt_running") /\ Goto("start")
    BY DEF ResumeSame, Idle, external, Outside
  <1>2. /\ Formed /\ wf'.status = "running" /\ wf'.phase = "chatgpt_running"
        /\ Moves("start") /\ wf'.attempt = wf.attempt /\ wf'.blank = "none"
        /\ wf'.chat = wf.chat
    BY <1>1, Zenon DEF IInv, Shape, Fields, Resumed, Goto, Formed, Moves
  <1>3. /\ wf'.child = wf.child /\ wf'.record = wf.record /\ wf'.cycle = wf.cycle
        /\ SameTurn /\ SameThreads
    BY <1>1, Zenon DEF IInv, Shape, Fields, Resumed, SameTurn, SameThreads
  <1>4. wf.blank = "none"
    BY <1>1 DEF IInv, PlanInv, Blanks, Exhausted
  <1>5. wf.child.cycle = wf.cycle /\ wf.child.chat = wf.chat
    BY <1>1 DEF IInv, ReviewInv, Recorded, UnderReview, IsPaused
  <1> QED  BY <1>1, <1>2, <1>3, <1>4, <1>5, ResumedKeeps

LEMMA ResumePreparedKeeps == ASSUME IInv, ResumePrepared PROVE IInv'
  <1>1. /\ run.pc = "off" /\ IsPaused /\ MayPrepare /\ Outside
        /\ wf.blank = "prepared" /\ wf.attempt = 0
    BY DEF ResumePrepared, Idle, MayPrepare, external, Outside
  <1>2. /\ DOMAIN wf' = Fields /\ Becomes("running", "successor_preparing")
        /\ wf'.attempt = wf.attempt /\ wf'.chat = wf.chat
        /\ wf'.blank = wf.blank /\ wf'.paused = wf.paused
    BY Zenon DEF IInv, Shape, Fields, ResumePrepared, Becomes
  <1>3. SameTurn /\ SameReview /\ SameThreads
    BY Zenon DEF IInv, Shape, Fields, ResumePrepared, SameTurn, SameReview,
                 SameThreads
  <1>4. Moves("start") /\ DOMAIN run' = DOMAIN run
    BY Zenon DEF IInv, Shape, ResumePrepared, Goto, Moves
  <1> USE <1>1, <1>2, <1>3, <1>4 DEF IInv, Becomes, Moves, Outside
  <1>5. Shape'
    BY DEF Shape, SameTurn, SameReview, SameThreads
  <1>6. Places'
    BY DEF Places, PhaseAt
  <1>7. PlanInv'
    BY DEF PlanInv, Planned, Handing, Blanks, Attempts, Unsent, Exhausted
  <1>8. TurnInv' /\ ReviewInv' /\ Rotates'
    BY HandoffKept
  <1> QED  BY <1>5, <1>6, <1>7, <1>8

LEMMA ResumePromotedKeeps == ASSUME IInv, ResumePromoted PROVE IInv'
  BY PromotedKeeps DEF ResumePromoted, external, Outside

LEMMA ResumeVerifiedKeeps == ASSUME IInv, ResumeVerified PROVE IInv'
  <1>1. /\ IsPaused /\ Outside /\ wf.attempt = 0 /\ Goto("start")
        /\ wf' = [Resumed("codex_captured") EXCEPT !.chat = NextChat,
                                                   !.child = NoReview]
    BY DEF ResumeVerified, MayPrepare, external, Outside
  <1>2. /\ Formed /\ wf'.status = "running" /\ wf'.phase = "codex_captured"
        /\ Moves("start") /\ wf'.attempt = wf.attempt /\ wf'.blank = "none"
        /\ wf'.chat = NextChat
    BY <1>1, Zenon DEF IInv, Shape, Fields, Resumed, Goto, Formed, Moves
  <1>3. wf'.record = wf.record /\ wf'.cycle = wf.cycle /\ SameTurn /\ SameThreads
    BY <1>1, Zenon DEF IInv, Shape, Fields, Resumed, SameTurn, SameThreads
  <1> QED  BY <1>1, <1>2, <1>3, ResumedKeeps

LEMMA PrepareByHandKeeps == ASSUME IInv, PrepareByHand PROVE IInv'
  BY ReserveKeeps DEF PrepareByHand, Idle, external, Outside

-----------------------------------------------------------------------------
(* A person ends it: what the record says is kept, and is of no more use.  *)
LEMMA EndedKeeps ==
  ASSUME IInv, Formed, turns' = turns, spaces' = spaces, Shape', Attempts',
         \A k : Exhausted(k) => Exhausted(k)',
         \/ wf'.status = "cancelled"
         \/ /\ wf'.status = "human_required" /\ wf'.phase # "continuation_paused"
            /\ wf.attempt = 0 /\ wf.blank = "none",
         \/ run'.pc \in {"off", "down"}
         \/ run'.pc = "handoff" /\ wf'.status = "cancelled",
         wf'.attempt = wf.attempt, wf'.blank = wf.blank, wf'.chat = wf.chat,
         wf'.paused = wf.paused, SameTurn, SameReview, SameThreads
  PROVE  IInv'
  <1> USE DEF IInv, SameTurn, SameReview, SameThreads
  <1>1. Places'
    BY DEF Places
  <1>2. Planned' /\ Blanks'
    BY DEF PlanInv, Planned, Handing, Blanks
  <1>3. TurnInv'
    BY DEF TurnInv, Named, PhaseKnows, TurnsKept, Completed, IsPaused
  <1>4. ReviewInv' /\ Rotates'
    BY DEF ReviewInv, Recorded, UnderReview, IsPaused, Asked, Settled,
           SettledOnEvidence, Rotates
  <1> QED  BY <1>1, <1>2, <1>3, <1>4 DEF PlanInv

LEMMA CancelContinuationKeeps == ASSUME IInv, CancelContinuation PROVE IInv'
  <1> DEFINE place == IF run.pc = "handoff" THEN "handoff" ELSE "off"
  <1>1. Outside /\ Goto(place)
    BY DEF CancelContinuation, external, Outside
  <1>2. /\ DOMAIN wf' = Fields /\ wf'.status = "cancelled"
        /\ wf'.attempt = wf.attempt /\ wf'.chat = wf.chat
        /\ wf'.blank = wf.blank /\ wf'.paused = wf.paused
    BY Zenon DEF IInv, Shape, Fields, CancelContinuation
  <1>3. SameTurn /\ SameReview /\ SameThreads
    BY Zenon DEF IInv, Shape, Fields, CancelContinuation, SameTurn, SameReview,
                 SameThreads
  <1>4. Moves(place) /\ DOMAIN run' = DOMAIN run
    BY <1>1, Zenon DEF IInv, Shape, Goto, Moves
  <1>5. place \in {"off", "handoff"}
    OBVIOUS
  <1> HIDE DEF place
  <1>6. Formed
    BY <1>2, <1>4 DEF Formed, IInv, Shape
  <1>7. Shape'
    BY <1>1, <1>2, <1>3, <1>4 DEF IInv, Shape, Moves, Outside, SameTurn,
                                  SameReview, SameThreads
  <1>8. Attempts' /\ \A k : Exhausted(k) => Exhausted(k)'
    BY <1>1, <1>2, <1>3 DEF IInv, PlanInv, Attempts, Unsent, NextChat, Exhausted,
                            Outside, SameReview
  <1> QED
    BY <1>1, <1>2, <1>3, <1>4, <1>5, <1>6, <1>7, <1>8, EndedKeeps DEF Outside, Moves

LEMMA AbandonKeeps == ASSUME IInv, Abandon PROVE IInv'
  <1>1. Outside /\ Goto("off")
    BY DEF Abandon, external, Outside
  <1>2. /\ DOMAIN wf' = Fields /\ wf'.status = "cancelled"
        /\ wf'.attempt = wf.attempt /\ wf'.chat = wf.chat
        /\ wf'.blank = wf.blank /\ wf'.paused = wf.paused
    BY Zenon DEF IInv, Shape, Fields, Abandon
  <1>3. SameTurn /\ SameReview /\ SameThreads
    BY Zenon DEF IInv, Shape, Fields, Abandon, SameTurn, SameReview, SameThreads
  <1>4. Moves("off") /\ DOMAIN run' = DOMAIN run
    BY <1>1, Zenon DEF IInv, Shape, Goto, Moves
  <1>5. Formed
    BY <1>2, <1>4 DEF Formed, IInv, Shape
  <1>6. Shape'
    BY <1>1, <1>2, <1>3, <1>4 DEF IInv, Shape, Moves, Outside, SameTurn,
                                  SameReview, SameThreads
  <1>7. Attempts' /\ \A k : Exhausted(k) => Exhausted(k)'
    BY <1>1, <1>2, <1>3 DEF IInv, PlanInv, Attempts, Unsent, NextChat, Exhausted,
                            Outside, SameReview
  <1> QED  BY <1>1, <1>2, <1>3, <1>4, <1>5, <1>6, <1>7, EndedKeeps DEF Outside, Moves

-----------------------------------------------------------------------------
(* Reviews come to an end of their own; one that has ended stays, unless   *)
(* its loss is reconciled.                                                 *)
Ages ==
  /\ DOMAIN children' = DOMAIN children
  /\ \A k \in DOMAIN children :
       /\ DOMAIN children'[k] = {"status", "verdict", "sent", "auto"}
       /\ children[k].status \in {"succeeded", "exhausted", "presend"} =>
            children'[k] = children[k]
       /\ children'[k].status = "presend" => ~children'[k].sent
       /\ children'[k].status = "succeeded" =>
            children'[k].verdict \in {"settled", "continue", "weak", "weak_continue"}

LEMMA AgesKeep ==
  ASSUME IInv, Ages
  PROVE  /\ \A k : Exhausted(k) => Exhausted(k)'
         /\ DOMAIN children' \subseteq Key
         /\ \A k \in DOMAIN children' :
              DOMAIN children'[k] = {"status", "verdict", "sent", "auto"}
         /\ (wf'.cycle = wf.cycle /\ wf'.chat = wf.chat /\ wf'.attempt = wf.attempt)
              => Attempts'
  <1>1. \A cycle, chat : Unsent(cycle, chat) => Unsent(cycle, chat)'
    BY DEF Ages, Unsent
  <1>2. DOMAIN children' = DOMAIN children
    BY DEF Ages
  <1>3. ASSUME wf'.cycle = wf.cycle, wf'.chat = wf.chat, wf'.attempt = wf.attempt
        PROVE  Attempts'
    <2>1. wf'.attempt = 2 => Unsent(wf.cycle, NextChat)'
      BY <1>1, <1>3 DEF IInv, PlanInv, Attempts, NextChat
    <2>2. ASSUME NEW k \in DOMAIN children'
          PROVE  /\ children'[k].status = "presend" => ~children'[k].sent
                 /\ children'[k].status = "succeeded" =>
                      children'[k].verdict \in {"settled", "continue", "weak", "weak_continue"}
                 /\ k.attempt = 2 => Unsent(k.cycle, k.chat)'
      BY <1>1, <1>2, <2>2 DEF IInv, PlanInv, Attempts, Ages
    <2> QED  BY <2>1, <2>2 DEF Attempts
  <1>4. \A k : Exhausted(k) => Exhausted(k)'
    BY DEF Ages, Exhausted
  <1> QED  BY <1>2, <1>3, <1>4 DEF IInv, Shape, Ages

(* While reviews age, the runner stays where it is or dies.                *)
LEMMA AgesKeeps ==
  ASSUME IInv, Ages, wf' = wf, turns' = turns, spaces' = spaces,
         \/ run' = run
         \/ run' = [pc |-> "down", got |-> 0, deferred |-> 0, create |-> FALSE]
  PROVE  IInv'
  <1>1. /\ DOMAIN run' = {"pc", "got", "deferred", "create"}
        /\ run'.deferred \in Nat
        /\ run' = run \/ (run'.pc = "down" /\ run'.got = 0)
    BY DEF IInv, Shape
  <1>2. DOMAIN children' = DOMAIN children
    BY DEF Ages
  <1> USE AgesKeep, <1>1 DEF IInv
  <1>3. Shape'
    BY DEF Shape
  <1>4. Places'
    BY DEF Places, PhaseAt, IsPaused
  <1>5. Planned'
    BY DEF PlanInv, Planned, Handing, IsPaused
  <1>6. Blanks'
    BY DEF PlanInv, Blanks, NextChat
  <1>7. TurnInv'
    BY DEF TurnInv, Named, PhaseKnows, TurnsKept, Completed, IsPaused
  <1>8. Recorded' /\ Asked'
    <2>1. Recorded'
      BY <1>2 DEF ReviewInv, Recorded, UnderReview, IsPaused, Settles, Ages
    <2>2. Asked'
      BY <1>2 DEF ReviewInv, Asked, Intent, NextChat, Review
    <2> QED  BY <2>1, <2>2
  <1>9. Settled'
    BY <1>2 DEF ReviewInv, Settled, SettledOnEvidence, Ages
  <1>10. Rotates'
    BY DEF Rotates, Unrepaired, UnderReview, IsPaused, GivenUp, Unsound, Settles
  <1> QED  BY <1>3, <1>4, <1>5, <1>6, <1>7, <1>8, <1>9, <1>10 DEF PlanInv, ReviewInv

LEMMA EndsWrites ==
  ASSUME Shape, NEW k \in DOMAIN children, NEW how, NEW verdict,
         Ends(k, how, verdict)
  PROVE  /\ DOMAIN children' = DOMAIN children
         /\ \A l \in DOMAIN children : l # k => children'[l] = children[l]
         /\ DOMAIN children'[k] = {"status", "verdict", "sent", "auto"}
         /\ children'[k].status = how /\ children'[k].verdict = verdict
         /\ children'[k].sent = children[k].sent
         /\ children'[k].auto = children[k].auto
  <1> DEFINE ended == [children[k] EXCEPT !.status = how]
             said  == [ended EXCEPT !.verdict = verdict]
             once  == [children EXCEPT ![k] = ended]
  <1>1. DOMAIN children[k] = {"status", "verdict", "sent", "auto"}
    BY DEF Shape
  <1>2. children' = [once EXCEPT ![k] = [once[k] EXCEPT !.verdict = verdict]]
    BY Zenon DEF Ends
  <1>3. once[k] = ended /\ DOMAIN once = DOMAIN children
    OBVIOUS
  <1>4. /\ DOMAIN children' = DOMAIN children /\ children'[k] = said
        /\ \A l \in DOMAIN children : l # k => children'[l] = children[l]
    BY <1>2, <1>3
  <1>5. /\ DOMAIN said = {"status", "verdict", "sent", "auto"}
        /\ said.status = how /\ said.verdict = verdict
        /\ said.sent = children[k].sent /\ said.auto = children[k].auto
    BY <1>1, Zenon
  <1> QED  BY <1>4, <1>5

LEMMA EndsAges ==
  ASSUME IInv, NEW k \in DOMAIN children, NEW how, NEW verdict,
         Ends(k, how, verdict), children[k].status \in {"running", "ambiguous"},
         \/ how \in {"exhausted", "ambiguous"}
         \/ how = "presend" /\ ~children[k].sent
         \/ how = "succeeded" /\ verdict \in Verdicts
  PROVE  Ages
  <1>1. Verdicts \subseteq {"settled", "continue", "weak", "weak_continue"}
    BY ConvergenceAssumption
  <1>2. ASSUME NEW l \in DOMAIN children
        PROVE  /\ DOMAIN children'[l] = {"status", "verdict", "sent", "auto"}
               /\ children[l].status \in {"succeeded", "exhausted", "presend"} =>
                    children'[l] = children[l]
               /\ children'[l].status = "presend" => ~children'[l].sent
               /\ children'[l].status = "succeeded" =>
                    children'[l].verdict \in {"settled", "continue", "weak", "weak_continue"}
    <2>1. CASE l = k
      <3>1. /\ DOMAIN children'[l] = {"status", "verdict", "sent", "auto"}
            /\ children'[l].status = how /\ children'[l].verdict = verdict
            /\ children'[l].sent = children[l].sent
        BY <2>1, EndsWrites DEF IInv
      <3>2. children[l].status \in {"running", "ambiguous"}
        BY <2>1
      <3>3. /\ how = "presend" => ~children[l].sent
            /\ how = "succeeded" => verdict \in {"settled", "continue", "weak", "weak_continue"}
        BY <1>1, <2>1
      <3> QED  BY <3>1, <3>2, <3>3
    <2>2. CASE l # k
      <3>1. children'[l] = children[l]
        BY <2>2, EndsWrites DEF IInv
      <3>2. DOMAIN children[l] = {"status", "verdict", "sent", "auto"}
        BY DEF IInv, Shape
      <3> QED  BY <3>1, <3>2 DEF IInv, PlanInv, Attempts
    <2> QED  BY <2>1, <2>2
  <1> QED  BY <1>2, EndsWrites DEF IInv, Ages

LEMMA InterruptedAges ==
  ASSUME IInv, NEW k, children' = Interrupted(k) \/ children' = children
  PROVE  Ages
  <1>1. CASE children' = children
    BY <1>1 DEF Ages, IInv, Shape, PlanInv, Attempts
  <1>2. CASE /\ k \in DOMAIN children /\ children[k].status = "running"
             /\ children' = [children EXCEPT ![k].status = "ambiguous"]
    <2> DEFINE ended == [children[k] EXCEPT !.status = "ambiguous"]
    <2>1. /\ DOMAIN ended = {"status", "verdict", "sent", "auto"}
          /\ ended.status = "ambiguous"
      BY <1>2, Zenon DEF IInv, Shape
    <2>2. children' = [children EXCEPT ![k] = ended]
      BY <1>2, Zenon
    <2> HIDE DEF ended
    <2> QED  BY <1>2, <2>1, <2>2 DEF Ages, IInv, Shape, PlanInv, Attempts
  <1> QED  BY <1>1, <1>2 DEF Interrupted

LEMMA SendAges ==
  ASSUME IInv, NEW k \in DOMAIN children, children[k].status = "running",
         children' = [children EXCEPT ![k].sent = TRUE]
  PROVE  /\ Ages
         /\ \A l \in DOMAIN children : l # k => children'[l] = children[l]
  <1> DEFINE gone == [children[k] EXCEPT !.sent = TRUE]
  <1>1. /\ DOMAIN gone = {"status", "verdict", "sent", "auto"}
        /\ gone.status = "running"
    BY Zenon DEF IInv, Shape
  <1>2. children' = [children EXCEPT ![k] = gone]
    BY Zenon
  <1> HIDE DEF gone
  <1> QED  BY <1>1, <1>2 DEF Ages, IInv, Shape, PlanInv, Attempts

LEMMA SendKeeps ==
  ASSUME IInv, NEW k \in DOMAIN children, Send(k) PROVE IInv'
  <1>1. CASE children' = [children EXCEPT ![k].sent = TRUE]
    BY <1>1, SendAges, AgesKeeps DEF Send
  <1>2. CASE Ends(k, "ambiguous", "none")
    BY <1>2, EndsAges, AgesKeeps DEF Send
  <1> QED  BY <1>1, <1>2 DEF Send

LEMMA ReviewEndsKeeps ==
  ASSUME IInv, NEW k \in DOMAIN children, ReviewEnds(k) PROVE IInv'
  <1>1. CASE \E v \in Verdicts : Ends(k, "succeeded", v)
    BY <1>1, EndsAges, AgesKeeps DEF ReviewEnds
  <1>2. CASE \E how \in {"exhausted", "ambiguous"} : Ends(k, how, "none")
    BY <1>2, EndsAges, AgesKeeps DEF ReviewEnds
  <1>3. CASE ~children[k].sent /\ Ends(k, "presend", "none")
    BY <1>3, EndsAges, AgesKeeps DEF ReviewEnds
  <1> QED  BY <1>1, <1>2, <1>3 DEF ReviewEnds

LEMMA ReconcileKeeps ==
  ASSUME IInv, NEW k \in DOMAIN children, Reconcile(k) PROVE IInv'
  BY EndsAges, AgesKeeps DEF Reconcile

LEMMA CancelSuccessorKeeps == ASSUME IInv, CancelSuccessor PROVE IInv'
  BY InterruptedAges, AgesKeeps DEF CancelSuccessor

LEMMA CancelKeeps == ASSUME IInv, Cancel PROVE IInv'
  <1>1. /\ wf.status = "running" /\ wf.phase \notin Successor
        /\ turns' = turns /\ spaces' = spaces /\ Goto("off")
    BY DEF Cancel
  <1>2. Ages
    BY InterruptedAges DEF Cancel
  <1>3. /\ DOMAIN wf' = Fields /\ wf'.status = "human_required"
        /\ wf'.phase = wf.phase
        /\ wf'.attempt = wf.attempt /\ wf'.chat = wf.chat
        /\ wf'.blank = wf.blank /\ wf'.paused = wf.paused
    BY Zenon DEF IInv, Shape, Fields, Cancel
  <1>4. SameTurn /\ SameReview /\ SameThreads
    BY Zenon DEF IInv, Shape, Fields, Cancel, SameTurn, SameReview, SameThreads
  <1>5. Moves("off") /\ DOMAIN run' = DOMAIN run
    BY <1>1, Zenon DEF IInv, Shape, Goto, Moves
  <1>6. Formed
    BY <1>3, <1>5 DEF Formed, IInv, Shape
  <1>7. wf.phase # "continuation_paused" /\ wf.attempt = 0 /\ wf.blank = "none"
    BY <1>1 DEF IInv, Places, PlanInv, Planned, Handing, IsPaused
  <1>8. Shape'
    BY <1>1, <1>2, <1>3, <1>4, <1>5, AgesKeep
    DEF IInv, Shape, Moves, SameTurn, SameReview, SameThreads
  <1>9. Attempts' /\ \A k : Exhausted(k) => Exhausted(k)'
    BY <1>2, <1>3, <1>4, AgesKeep DEF SameReview
  <1> QED
    BY <1>1, <1>3, <1>4, <1>5, <1>6, <1>7, <1>8, <1>9, EndedKeeps DEF Moves

-----------------------------------------------------------------------------
(* The broker dies, and another one starts.                                *)
LEMMA CrashKeeps == ASSUME IInv, Crash PROVE IInv'
  <1>1. PICK lost \in SUBSET {k \in DOMAIN children :
                          children[k].status = "running" /\ ~children[k].sent} :
          children' = [k \in DOMAIN children |->
                         IF k \in lost
                         THEN [children[k] EXCEPT !.status = "ambiguous"]
                         ELSE children[k]]
    BY Zenon DEF Crash
  <1>2. ASSUME NEW k \in DOMAIN children
        PROVE  /\ DOMAIN children'[k] = {"status", "verdict", "sent", "auto"}
               /\ children[k].status \in {"succeeded", "exhausted", "presend"} =>
                    children'[k] = children[k]
               /\ children'[k].status = "presend" => ~children'[k].sent
               /\ children'[k].status = "succeeded" =>
                    children'[k].verdict \in {"settled", "continue", "weak", "weak_continue"}
    <2> DEFINE gone == [children[k] EXCEPT !.status = "ambiguous"]
    <2>1. /\ DOMAIN gone = {"status", "verdict", "sent", "auto"}
          /\ gone.status = "ambiguous"
      <3>1. DOMAIN children[k] = {"status", "verdict", "sent", "auto"}
        BY DEF IInv, Shape
      <3> QED  BY <3>1, Zenon
    <2>2. children'[k] = IF k \in lost THEN gone ELSE children[k]
      BY <1>1, Zenon
    <2> HIDE DEF gone
    <2>3. CASE k \in lost
      BY <2>1, <2>2, <2>3
    <2>4. CASE k \notin lost
      BY <2>2, <2>4 DEF IInv, Shape, PlanInv, Attempts
    <2> QED  BY <2>3, <2>4
  <1>3. DOMAIN children' = DOMAIN children
    BY <1>1
  <1>4. Ages
    BY <1>2, <1>3 DEF Ages
  <1> QED  BY <1>4, AgesKeeps DEF Crash

LEMMA RestartKeeps == ASSUME IInv, Restart PROVE IInv'
  <1>1. run.pc = "down" /\ Outside
    BY DEF Restart, external, Outside
  <1>2. CASE /\ wf' = wf
             /\ \/ wf.status # "running" /\ Goto("off")
                \/ wf.status = "running" /\ Goto("start")
    <2>1. PICK p \in {"off", "start"} :
            Goto(p) /\ (p = "start" <=> wf.status = "running")
      BY <1>2
    <2>2. Moves(p) /\ DOMAIN run' = DOMAIN run
      BY <2>1, Zenon DEF IInv, Shape, Goto, Moves
    <2> USE <1>1, <1>2, <2>1, <2>2 DEF IInv, Moves, Outside
    <2>3. Shape'
      BY DEF Shape
    <2>4. Places'
      BY DEF Places, PhaseAt
    <2>5. PlanInv'
      BY DEF PlanInv, Planned, Handing, IsPaused, Blanks, Exhausted, Attempts, Unsent,
             NextChat
    <2>6. TurnInv'
      BY DEF TurnInv, Named, PhaseKnows, TurnsKept, Completed, IsPaused
    <2>7. ReviewInv'
      BY DEF ReviewInv, Recorded, UnderReview, IsPaused, Asked, Settled,
             SettledOnEvidence
    <2>8. Rotates'
      BY DEF Rotates, Unrepaired, UnderReview, IsPaused, GivenUp, Unsound, Settles
    <2> QED  BY <2>3, <2>4, <2>5, <2>6, <2>7, <2>8
  <1>3. CASE /\ wf.status = "running" /\ ~CanResume /\ Goto("off")
             /\ wf' = [wf EXCEPT !.status = "human_required",
                         !.reason = "broker_restarted_during_convergence"]
    <2>1. /\ DOMAIN wf' = Fields /\ wf'.status = "human_required"
          /\ wf'.phase = wf.phase
          /\ wf'.attempt = wf.attempt /\ wf'.chat = wf.chat
          /\ wf'.blank = wf.blank /\ wf'.paused = wf.paused
      BY <1>3, Zenon DEF IInv, Shape, Fields
    <2>2. SameTurn /\ SameReview /\ SameThreads
      BY <1>3, Zenon DEF IInv, Shape, Fields, SameTurn, SameReview, SameThreads
    <2>3. Moves("off") /\ DOMAIN run' = DOMAIN run
      BY <1>3, Zenon DEF IInv, Shape, Goto, Moves
    <2>4. Formed
      BY <2>1, <2>3 DEF Formed, IInv, Shape
    <2>5. wf.phase \notin Successor
      <3>1. wf.phase # "successor_preparing"
        BY <1>3, Zenon DEF CanResume
      <3>2. wf.phase # "successor_reviewing"
        BY <1>3, Zenon DEF CanResume
      <3> QED  BY <3>1, <3>2
    <2>6. wf.phase # "continuation_paused" /\ wf.attempt = 0 /\ wf.blank = "none"
      BY <1>3, <2>5 DEF IInv, Places, PlanInv, Planned, Handing, IsPaused
    <2>7. Shape'
      BY <1>1, <2>1, <2>2, <2>3 DEF IInv, Shape, Moves, Outside, SameTurn,
                                    SameReview, SameThreads
    <2>8. Attempts' /\ \A k : Exhausted(k) => Exhausted(k)'
      BY <1>1, <2>1, <2>2 DEF IInv, PlanInv, Attempts, Unsent, NextChat, Exhausted,
                              Outside, SameReview
    <2> QED  BY <1>1, <2>1, <2>2, <2>3, <2>4, <2>6, <2>7, <2>8, EndedKeeps
             DEF Outside, Moves
  <1> QED  BY <1>2, <1>3 DEF Restart

-----------------------------------------------------------------------------
(* A turn comes to an end: only its state and what it came to are told.    *)
LEMMA TurnEndsWrites ==
  ASSUME Shape, NEW t \in DOMAIN turns, TurnEnds(t)
  PROVE  /\ turns' \in Seq(Turn) /\ Len(turns') = Len(turns)
         /\ \A u \in DOMAIN turns : u # t => turns'[u] = turns[u]
         /\ turns[t].state = "running"
         /\ turns'[t].mark = turns[t].mark /\ turns'[t].fate = turns[t].fate
         /\ turns'[t].thread = turns[t].thread
  <1>1. turns[t] \in Turn /\ turns[t].state = "running" /\ turns \in Seq(Turn)
    <2>1. turns[t].state = "running"
      BY Zenon DEF TurnEnds
    <2> QED  BY <2>1 DEF Shape
  <1>2. ASSUME NEW o \in Outcomes,
               turns' = [turns EXCEPT ![t].state = "completed", ![t].kind = o.kind,
                                      ![t].inspected = o.inspected]
        PROVE  /\ turns' \in Seq(Turn) /\ Len(turns') = Len(turns)
               /\ \A u \in DOMAIN turns : u # t => turns'[u] = turns[u]
               /\ turns'[t].mark = turns[t].mark /\ turns'[t].fate = turns[t].fate
               /\ turns'[t].thread = turns[t].thread
    <2> DEFINE done == [turns[t] EXCEPT !.state = "completed"]
               told == [done EXCEPT !.kind = o.kind]
               seen == [told EXCEPT !.inspected = o.inspected]
               once  == [turns EXCEPT ![t] = done]
               twice == [once EXCEPT ![t] = [once[t] EXCEPT !.kind = o.kind]]
    <2>1. turns' = [twice EXCEPT ![t] = [twice[t] EXCEPT !.inspected = o.inspected]]
      BY <1>2, Zenon
    <2>2. o.kind \in {"candidate", "blocked", "inconsistent"} /\ o.inspected \in BOOLEAN
      BY ConvergenceAssumption
    <2>3. seen \in Turn
      BY <1>1, <2>2 DEF Turn
    <2>4. /\ seen.mark = turns[t].mark /\ seen.fate = turns[t].fate
          /\ seen.thread = turns[t].thread
      BY <1>1, <2>2 DEF Turn
    <2>5. once[t] = done /\ DOMAIN once = DOMAIN turns
      OBVIOUS
    <2>6. twice[t] = told /\ DOMAIN twice = DOMAIN turns
      BY <2>5
    <2>7. turns' = [turns EXCEPT ![t] = seen]
      BY <2>1, <2>5, <2>6
    <2> HIDE DEF seen
    <2>8. turns'[t] = seen /\ \A u \in DOMAIN turns : u # t => turns'[u] = turns[u]
      BY <2>7
    <2>9. turns' \in Seq(Turn) /\ Len(turns') = Len(turns)
      BY <1>1, <2>3, <2>7
    <2> QED  BY <2>4, <2>8, <2>9
  <1>3. CASE turns' = [turns EXCEPT ![t].state = "interrupted"]
    <2> DEFINE done == [turns[t] EXCEPT !.state = "interrupted"]
    <2>1. turns' = [turns EXCEPT ![t] = done]
      BY <1>3, Zenon
    <2>2. /\ done \in Turn /\ done.mark = turns[t].mark
          /\ done.fate = turns[t].fate /\ done.thread = turns[t].thread
      BY <1>1 DEF Turn
    <2> HIDE DEF done
    <2>3. turns'[t] = done /\ \A u \in DOMAIN turns : u # t => turns'[u] = turns[u]
      BY <2>1
    <2>4. turns' \in Seq(Turn) /\ Len(turns') = Len(turns)
      BY <1>1, <2>1, <2>2
    <2> QED  BY <1>1, <2>2, <2>3, <2>4
  <1> QED  BY <1>1, <1>2, <1>3, Zenon DEF TurnEnds

LEMMA TurnEndsKeeps ==
  ASSUME IInv, NEW t \in DOMAIN turns, TurnEnds(t) PROVE IInv'
  <1>1. /\ wf' = wf /\ children' = children /\ spaces' = spaces /\ run' = run
    BY DEF TurnEnds
  <1>2. /\ turns' \in Seq(Turn) /\ Len(turns') = Len(turns)
        /\ DOMAIN turns = 1..Len(turns) /\ DOMAIN turns' = DOMAIN turns
        /\ \A u \in DOMAIN turns : u # t => turns'[u] = turns[u]
        /\ turns[t].state = "running"
        /\ turns'[t].mark = turns[t].mark /\ turns'[t].fate = turns[t].fate
        /\ turns'[t].thread = turns[t].thread
    BY TurnEndsWrites DEF IInv, Shape
  <1>3. \A u \in DOMAIN turns :
          /\ turns'[u].mark = turns[u].mark /\ turns'[u].fate = turns[u].fate
          /\ turns'[u].thread = turns[u].thread
          /\ turns[u].state = "completed" => turns'[u] = turns[u]
    BY <1>2
  <1> USE <1>1 DEF IInv
  <1>4. Shape'
    BY <1>2 DEF Shape
  <1>5. Places'
    BY DEF Places, PhaseAt, IsPaused
  <1>6. PlanInv'
    BY DEF PlanInv, Planned, Handing, IsPaused, Blanks, Exhausted, Attempts, Unsent,
           NextChat
  <1>7. Named'
    BY <1>2, <1>3 DEF TurnInv, Named
  <1>8. PhaseKnows' /\ TurnsKept'
    BY <1>2, <1>3 DEF TurnInv, PhaseKnows, TurnsKept, IsPaused
  <1>9. Completed'
    BY <1>2, <1>3 DEF TurnInv, Completed, Named, PhaseKnows
  <1>10. Recorded' /\ Asked'
    BY <1>2, <1>3 DEF ReviewInv, Recorded, Asked, UnderReview, IsPaused, Settles,
                      Intent, NextChat, Review
  <1>11. Settled'
    BY <1>2, <1>3 DEF ReviewInv, Settled, SettledOnEvidence
  <1>12. Rotates'
    BY <1>2, <1>3 DEF Rotates, ReviewInv, Recorded, Unrepaired, UnderReview, IsPaused,
                      GivenUp, Unsound, Settles
  <1> QED  BY <1>4, <1>5, <1>6, <1>7, <1>8, <1>9, <1>10, <1>11, <1>12
           DEF TurnInv, ReviewInv

-----------------------------------------------------------------------------
(* Where a convergence starts, new or left by an earlier broker.           *)
LEMMA LeftShape ==
  ASSUME NEW start \in {"new", "retried", "spent", "manual", "doubted",
                        "captured", "carried", "reviewed", "reused", "lost"}
  PROVE  /\ DOMAIN Left(start) = Fields
         /\ Left(start).status = "running" /\ Left(start).launch = 0
         /\ Left(start).result = 0 /\ Left(start).rotation = 0
         /\ Left(start).attempt = 0 /\ Left(start).blank = "none"
         /\ Left(start).chat = 0 /\ Left(start).paused = NoReview
  <1>1. CASE start \in {"new", "retried"}
    BY <1>1, Zenon DEF Left, Fresh, Retried, Fields
  <1>2. CASE start \in {"spent", "manual", "doubted"}
    BY <1>2, Zenon DEF Left, Fresh, Spent, Fields
  <1>3. CASE start \in {"captured", "lost"}
    BY <1>3, Zenon DEF Left, Fresh, Kept, Fields
  <1>4. CASE start = "carried"
    BY <1>4, Zenon DEF Left, Fresh, Kept, Carried, Fields
  <1>5. CASE start = "reviewed"
    BY <1>5, Zenon DEF Left, Fresh, Kept, Carried, Fields
  <1>6. CASE start = "reused"
    BY <1>6, Zenon DEF Left, Fresh, Kept, Fields
  <1> QED  BY <1>1, <1>2, <1>3, <1>4, <1>5, <1>6, Zenon

LEMMA LeftPlaces ==
  ASSUME NEW start \in {"new", "retried", "spent", "manual", "doubted",
                        "captured", "carried", "reviewed", "reused", "lost"}
  PROVE  /\ start \in {"new", "retried"} =>
              Left(start).phase \in Started /\ Left(start).turn = 0
         /\ start \in {"spent", "manual", "doubted"} =>
              /\ Left(start).phase = "chatgpt_running" /\ Left(start).turn = 0
              /\ Left(start).cycle = 2 /\ Left(start).child = Review(2, 0, 1)
         /\ start \in {"captured", "lost"} =>
              /\ Left(start).phase = "codex_captured" /\ Left(start).turn = 0
              /\ Left(start).cycle = 1
         /\ start = "carried" =>
              /\ Left(start).phase = "codex_captured" /\ Left(start).turn = 0
              /\ Left(start).cycle = 2
         /\ start = "reviewed" =>
              /\ Left(start).phase = "review_captured" /\ Left(start).turn = 0
              /\ Left(start).cycle = 2 /\ Left(start).child = Review(2, 0, 1)
         /\ start = "reused" =>
              Left(start).phase = "codex_running" /\ Left(start).turn = 1
  <1>1. CASE start \in {"new", "retried"}
    BY <1>1, Zenon DEF Left, Fresh, Retried, Started
  <1>2. CASE start \in {"spent", "manual", "doubted"}
    BY <1>2, Zenon DEF Left, Fresh, Spent
  <1>3. CASE start \in {"captured", "lost"}
    BY <1>3, Zenon DEF Left, Fresh, Kept
  <1>4. CASE start = "carried"
    BY <1>4, Zenon DEF Left, Fresh, Kept, Carried
  <1>5. CASE start = "reviewed"
    BY <1>5, Zenon DEF Left, Fresh, Kept, Carried
  <1>6. CASE start = "reused"
    BY <1>6, Zenon DEF Left, Fresh, Kept
  <1> QED  BY <1>1, <1>2, <1>3, <1>4, <1>5, <1>6, Zenon

LEMMA LeftRecord ==
  ASSUME NEW start \in {"new", "retried", "spent", "manual", "doubted",
                        "captured", "carried", "reviewed", "reused", "lost"}
  PROVE  /\ DOMAIN Left(start).record = {"cycle", "kind", "turn", "review"}
         /\ start \in {"spent", "manual", "doubted", "carried", "reviewed"} =>
              /\ Left(start).record.cycle = 2 /\ Left(start).record.turn = 1
         /\ start \in {"captured", "lost"} =>
              /\ Left(start).record.cycle = 1
              /\ Left(start).record.kind = "blocked"
  <1>1. CASE start \in {"new", "retried"}
    BY <1>1, Zenon DEF Left, Fresh, Retried, NoRecord
  <1>2. CASE start \in {"spent", "manual", "doubted"}
    BY <1>2, Zenon DEF Left, Fresh, Spent
  <1>3. CASE start \in {"captured", "lost"}
    BY <1>3, Zenon DEF Left, Fresh, Kept, NoRecord
  <1>4. CASE start = "carried"
    BY <1>4, Zenon DEF Left, Fresh, Kept, Carried, Spent
  <1>5. CASE start = "reviewed"
    <2>1. Left(start).record = [Carried.record EXCEPT !.review = "settled"]
      BY <1>5, Zenon DEF Left, Fresh, Kept, Carried
    <2>2. Carried.record = Spent.record
      BY Zenon DEF Fresh, Kept, Carried
    <2>3. Spent.record = [cycle |-> 2, kind |-> "candidate", turn |-> 1,
                          review |-> "none"]
      BY Zenon DEF Fresh, Spent
    <2>4. /\ DOMAIN Spent.record = {"cycle", "kind", "turn", "review"}
          /\ Spent.record.cycle = 2 /\ Spent.record.turn = 1
      BY <2>3
    <2>5. /\ DOMAIN Left(start).record = {"cycle", "kind", "turn", "review"}
          /\ Left(start).record.cycle = 2 /\ Left(start).record.turn = 1
      BY <2>1, <2>2, <2>4, Zenon
    <2> QED  BY <1>5, <2>5
  <1>6. CASE start = "reused"
    <2>1. Left(start).record = [Kept.record EXCEPT !.review = "continue"]
      BY <1>6, Zenon DEF Left, Fresh, Kept
    <2>2. Kept.record = [NoRecord EXCEPT !.cycle = 1, !.kind = "blocked"]
      BY Zenon DEF Fresh, Kept
    <2> QED  BY <1>6, <2>1, <2>2, Zenon DEF NoRecord
  <1> QED  BY <1>1, <1>2, <1>3, <1>4, <1>5, <1>6, Zenon

LEMMA LeftThreads ==
  ASSUME NEW start \in {"new", "retried", "spent", "manual", "doubted",
                        "captured", "carried", "reviewed", "reused", "lost"}
  PROVE  /\ Left(start).thread \in {0, 1} /\ Left(start).cycle \in {0, 1, 2}
         /\ \/ Left(start).checkpoint = [cycle |-> 0, thread |-> 0]
            \/ /\ Left(start).checkpoint = [cycle |-> 1, thread |-> 1]
               /\ Left(start).thread = 1 /\ Left(start).rotations = 0
               /\ Left(start).checkpoints \in {1, 2}
               /\ start \notin {"new", "retried", "spent", "manual", "doubted"}
         /\ start = "reused" => Left(start).thread = 1
  <1>1. CASE start \in {"new", "retried"}
    BY <1>1, Zenon DEF Left, Fresh, Retried
  <1>2. CASE start \in {"spent", "manual", "doubted"}
    BY <1>2, Zenon DEF Left, Fresh, Spent
  <1>3. CASE start \in {"captured", "lost"}
    BY <1>3, Zenon DEF Left, Fresh, Kept
  <1>4. CASE start = "carried"
    BY <1>4, Zenon DEF Left, Fresh, Kept, Carried
  <1>5. CASE start = "reviewed"
    BY <1>5, Zenon DEF Left, Fresh, Kept, Carried
  <1>6. CASE start = "reused"
    BY <1>6, Zenon DEF Left, Fresh, Kept
  <1> QED  BY <1>1, <1>2, <1>3, <1>4, <1>5, <1>6, Zenon

Ended(how, said) == [Born(FALSE) EXCEPT !.sent = TRUE, !.status = how,
                                        !.verdict = said]

LEMMA EndedFields ==
  ASSUME NEW how, NEW said
  PROVE  /\ DOMAIN Ended(how, said) = {"status", "verdict", "sent", "auto"}
         /\ Ended(how, said).status = how /\ Ended(how, said).verdict = said
  BY Zenon DEF Ended, Born

LEMMA LeftReviewsOK ==
  ASSUME NEW start \in {"new", "retried", "spent", "manual", "doubted",
                        "captured", "carried", "reviewed", "reused", "lost"}
  PROVE  /\ DOMAIN LeftReviews(start) \subseteq {Review(1, 0, 1), Review(2, 0, 1)}
         /\ start = "reviewed" => Review(2, 0, 1) \in DOMAIN LeftReviews(start)
         /\ \A k \in DOMAIN LeftReviews(start) :
              /\ DOMAIN LeftReviews(start)[k] = {"status", "verdict", "sent", "auto"}
              /\ LeftReviews(start)[k].status # "presend"
              /\ LeftReviews(start)[k].status = "succeeded" =>
                   LeftReviews(start)[k].verdict \in {"settled", "continue"}
              /\ start = "reviewed" /\ k.cycle = 2 =>
                   LeftReviews(start)[k] = Ended("succeeded", "settled")
  <1>1. ASSUME NEW k \in DOMAIN LeftReviews(start)
        PROVE  /\ \/ LeftReviews(start)[k] = Ended("succeeded", "continue")
                  \/ LeftReviews(start)[k] = Ended("exhausted", "none")
                  \/ LeftReviews(start)[k] = Ended("ambiguous", "none")
                  \/ LeftReviews(start)[k] = Ended("succeeded", "settled")
               /\ start = "reviewed" /\ k.cycle = 2 =>
                   LeftReviews(start)[k] = Ended("succeeded", "settled")
    <2> DEFINE moved   == start \in {"spent", "manual"}
               doubted == start = "doubted"
    <2>1. CASE k.cycle = 1
      <3>1. k.cycle # 2
        BY <2>1
      <3>2. LeftReviews(start)[k] = Ended("succeeded", "continue")
        BY <2>1, <3>1, Zenon DEF LeftReviews, Ended
      <3> QED  BY <3>1, <3>2
    <2>2. CASE k.cycle = 2
      <3>1. k.cycle # 1
        BY <2>2
      <3>2. LeftReviews(start)[k] = IF moved THEN Ended("exhausted", "none")
                                    ELSE IF doubted THEN Ended("ambiguous", "none")
                                    ELSE Ended("succeeded", "settled")
        BY <2>2, <3>1, Zenon DEF LeftReviews, Ended
      <3> QED  BY <3>1, <3>2
    <2>3. CASE k.cycle \notin {1, 2}
      <3>1. k.cycle # 1 /\ k.cycle # 2
        BY <2>3
      <3>2. LeftReviews(start)[k] = Ended("succeeded", "settled")
        BY <3>1, Zenon DEF LeftReviews, Ended
      <3> QED  BY <3>1, <3>2
    <2> QED  BY <2>1, <2>2, <2>3
  <1>2. /\ DOMAIN LeftReviews(start) \subseteq {Review(1, 0, 1), Review(2, 0, 1)}
        /\ start = "reviewed" => Review(2, 0, 1) \in DOMAIN LeftReviews(start)
    <2>1. DOMAIN LeftReviews(start) =
            (IF start \in {"new", "retried", "captured", "lost"} THEN {}
             ELSE {Review(1, 0, 1)})
            \cup (IF start \in {"reviewed", "spent", "manual", "doubted"}
                  THEN {Review(2, 0, 1)} ELSE {})
      BY Zenon DEF LeftReviews
    <2> QED  BY <2>1
  <1> QED  BY <1>1, <1>2, EndedFields

LEMMA LeftTurnsOK ==
  ASSUME NEW start \in {"new", "retried", "spent", "manual", "doubted",
                        "captured", "carried", "reviewed", "reused", "lost"}
  PROVE  \/ /\ LeftTurns(start) = <<>>
            /\ start \notin {"reused", "spent", "manual", "doubted", "carried",
                             "reviewed"}
         \/ \E state \in {"running", "completed"}, fate \in {"open", "taken"} :
              /\ LeftTurns(start) =
                   <<[thread |-> 1, mark |-> 1, state |-> state,
                      kind |-> "candidate", inspected |-> TRUE, fate |-> fate]>>
              /\ fate = "open" <=> start = "reused"
              /\ fate = "taken" => state = "completed"
  <1>1. CASE start = "reused"
    <2>1. LeftTurns(start) =
            <<[thread |-> 1, mark |-> 1, state |-> "running",
               kind |-> "candidate", inspected |-> TRUE, fate |-> "open"]>>
      BY <1>1, Zenon DEF LeftTurns
    <2> QED  BY <1>1, <2>1
  <1>2. CASE start \in {"spent", "manual", "doubted", "carried", "reviewed"}
    <2>1. LeftTurns(start) =
            <<[thread |-> 1, mark |-> 1, state |-> "completed",
               kind |-> "candidate", inspected |-> TRUE, fate |-> "taken"]>>
      BY <1>2, Zenon DEF LeftTurns
    <2> QED  BY <1>2, <2>1
  <1>3. CASE start \notin {"reused", "spent", "manual", "doubted", "carried",
                           "reviewed"}
    <2>1. LeftTurns(start) = <<>>
      BY <1>3, Zenon DEF LeftTurns
    <2> QED  BY <1>3, <2>1
  <1> QED  BY <1>1, <1>2, <1>3

LEMMA InitInv == Init => IInv
  <1> SUFFICES ASSUME Init PROVE IInv
    OBVIOUS
  <1> DEFINE start == left.start
  <1>1. start \in {"new", "retried", "spent", "manual", "doubted", "captured",
                   "carried", "reviewed", "reused", "lost"}
    BY ConvergenceAssumption DEF Init
  <1>2. /\ wf = Left(start) /\ children = LeftReviews(start)
        /\ turns = LeftTurns(start) /\ spaces = [g \in 1..MaxChats |-> 0]
        /\ run = [pc |-> "start", got |-> 0, deferred |-> 0, create |-> FALSE]
    BY DEF Init
  <1> HIDE DEF start
  <1>3. /\ DOMAIN wf = Fields /\ wf.status = "running" /\ wf.launch = 0
        /\ wf.result = 0 /\ wf.rotation = 0 /\ wf.attempt = 0
        /\ wf.blank = "none" /\ wf.chat = 0
    BY <1>1, <1>2, LeftShape
  <1>4. /\ start \in {"new", "retried"} => wf.phase \in Started /\ wf.turn = 0
        /\ start \in {"spent", "manual", "doubted"} =>
             /\ wf.phase = "chatgpt_running" /\ wf.turn = 0
             /\ wf.cycle = 2 /\ wf.child = Review(2, 0, 1)
        /\ start \in {"captured", "lost"} =>
             wf.phase = "codex_captured" /\ wf.turn = 0 /\ wf.cycle = 1
        /\ start = "carried" =>
             wf.phase = "codex_captured" /\ wf.turn = 0 /\ wf.cycle = 2
        /\ start = "reviewed" =>
             /\ wf.phase = "review_captured" /\ wf.turn = 0
             /\ wf.cycle = 2 /\ wf.child = Review(2, 0, 1)
        /\ start = "reused" => wf.phase = "codex_running" /\ wf.turn = 1
    BY <1>1, <1>2, LeftPlaces
  <1>5. /\ DOMAIN wf.record = {"cycle", "kind", "turn", "review"}
        /\ start \in {"spent", "manual", "doubted", "carried", "reviewed"} =>
             wf.record.cycle = 2 /\ wf.record.turn = 1
        /\ start \in {"captured", "lost"} =>
             wf.record.cycle = 1 /\ wf.record.kind = "blocked"
    BY <1>1, <1>2, LeftRecord
  <1>6. /\ wf.thread \in {0, 1} /\ wf.cycle \in {0, 1, 2}
        /\ \/ wf.checkpoint.cycle = 0 /\ wf.checkpoint.thread = 0
           \/ /\ wf.checkpoint.cycle = 1 /\ wf.checkpoint.thread = 1
              /\ wf.thread = 1 /\ wf.rotations = 0 /\ wf.checkpoints \in {1, 2}
              /\ start \notin {"new", "retried", "spent", "manual", "doubted"}
        /\ start = "reused" => wf.thread = 1
    BY <1>1, <1>2, LeftThreads
  <1>7. /\ DOMAIN children \subseteq {Review(1, 0, 1), Review(2, 0, 1)}
        /\ start = "reviewed" => Review(2, 0, 1) \in DOMAIN children
        /\ \A k \in DOMAIN children :
             /\ DOMAIN children[k] = {"status", "verdict", "sent", "auto"}
             /\ children[k].status # "presend"
             /\ children[k].status = "succeeded" =>
                  children[k].verdict \in {"settled", "continue"}
             /\ start = "reviewed" /\ k.cycle = 2 =>
                  children[k] = Ended("succeeded", "settled")
    BY <1>1, <1>2, LeftReviewsOK
  <1>8. /\ Review(1, 0, 1) \in Key /\ Review(1, 0, 1).attempt = 1
        /\ Review(2, 0, 1) \in Key /\ Review(2, 0, 1).attempt = 1
        /\ Review(2, 0, 1).cycle = 2 /\ Review(2, 0, 1).chat = 0
    BY DEF Review, Key
  <1>9. /\ turns \in Seq(Turn) /\ DOMAIN turns = 1..Len(turns)
        /\ Len(turns) \in {0, 1}
        /\ Len(turns) = 0 =>
             start \notin {"reused", "spent", "manual", "doubted", "carried",
                           "reviewed"}
        /\ Len(turns) = 1 =>
             /\ turns[1].mark = 1 /\ turns[1].thread = 1
             /\ turns[1].kind = "candidate"
             /\ turns[1].fate \in {"open", "taken"}
             /\ turns[1].fate = "open" <=> start = "reused"
             /\ turns[1].fate = "taken" => turns[1].state = "completed"
    <2>1. CASE /\ turns = <<>>
               /\ start \notin {"reused", "spent", "manual", "doubted", "carried",
                                "reviewed"}
      BY <2>1
    <2>2. ASSUME NEW state \in {"running", "completed"}, NEW fate \in {"open", "taken"},
                 turns = <<[thread |-> 1, mark |-> 1, state |-> state,
                            kind |-> "candidate", inspected |-> TRUE,
                            fate |-> fate]>>,
                 fate = "open" <=> start = "reused",
                 fate = "taken" => state = "completed"
          PROVE  <1>9!1
      BY <2>2 DEF Turn
    <2> QED  BY <1>1, <1>2, <2>1, <2>2, LeftTurnsOK
  <1>10. /\ run.pc = "start" /\ run.got = 0 /\ run.deferred = 0
         /\ DOMAIN run = {"pc", "got", "deferred", "create"}
    BY <1>2
  <1>11. Shape
    <2>1. wf.turn \in {0, 1}
      BY <1>1, <1>4
    <2>2. spaces \in [1..MaxChats -> Nat] /\ DOMAIN children \subseteq Key
      BY <1>2, <1>7, <1>8
    <2>3. /\ wf.cycle \in Nat /\ wf.thread \in Nat
          /\ wf.checkpoint.cycle \in Nat /\ wf.checkpoint.thread \in Nat
      BY <1>6
    <2> QED  BY <1>3, <1>5, <1>7, <1>9, <1>10, <2>1, <2>2, <2>3 DEF Shape
  <1>12. Places
    BY <1>1, <1>3, <1>4, <1>10 DEF Places, PhaseAt
  <1>13. PlanInv
    <2>1. \A k \in DOMAIN children : k.attempt = 1
      BY <1>7, <1>8
    <2>2. \A g \in 1..MaxChats : spaces[g] = 0
      BY <1>2
    <2>3. Planned
      BY <1>3, <1>4, <1>10, <1>1 DEF Planned, Handing
    <2>4. Blanks
      BY <1>3, <1>10, <2>2 DEF Blanks
    <2>5. Attempts
      BY <1>3, <1>7, <2>1 DEF Attempts
    <2> QED  BY <2>3, <2>4, <2>5 DEF PlanInv
  <1>14. TurnInv
    BY <1>1, <1>3, <1>4, <1>6, <1>9, <1>10
    DEF TurnInv, Named, PhaseKnows, TurnsKept, Completed, IsPaused
  <1>15. ReviewInv
    BY <1>1, <1>3, <1>4, <1>5, <1>7, <1>8, <1>9, <1>10, EndedFields
    DEF ReviewInv, Recorded, UnderReview, IsPaused, Asked, Settled, SettledOnEvidence
  <1>16. Rotates
    BY <1>1, <1>3, <1>4, <1>6, <1>9, <1>10
    DEF Rotates, Unrepaired, UnderReview, IsPaused, GivenUp
  <1> QED  BY <1>11, <1>12, <1>13, <1>14, <1>15, <1>16 DEF IInv

-----------------------------------------------------------------------------
LEMMA Unmoved ==
  ASSUME IInv, wf' = wf, run' = run, turns' = turns, children' = children,
         spaces' = spaces
  PROVE  IInv'
  <1>1. Ages
    BY DEF Ages, IInv, Shape, PlanInv, Attempts
  <1> QED  BY <1>1, AgesKeeps

LEMMA StepKeeps == IInv /\ [Next]_vars => IInv'
  <1> SUFFICES ASSUME IInv, [Next]_vars PROVE IInv'
    OBVIOUS
  <1>1. CASE Runner
    BY <1>1, RepairRotationKeeps, RefuseStateKeeps, BeginKeeps, LaunchFoundKeeps,
       LaunchAmbiguousKeeps, TakeStoredResultKeeps, ExceededKeeps, AskFailsKeeps,
       AskTurnKeeps, OpenThreadKeeps, LoopKeeps, NextCycleKeeps, RotateKeeps,
       IntendKeeps, DispatchKeeps, IdentifyKeeps, TurnWaitsKeeps, CountExitKeeps,
       RecoverTurnKeeps, TakeResultKeeps, AskReviewKeeps, LinkKeeps,
       CaptureReviewKeeps, JudgeKeeps, PendSuccessorKeeps, ReviewFailsKeeps
    DEF Runner
  <1>2. CASE Handoff
    <2>1. ASSUME Reserve PROVE IInv'
      <3>1. /\ run.pc = "start" /\ Handing /\ wf.phase = "successor_preparing"
            /\ MayPrepare /\ Outside
        BY <2>1 DEF Reserve, external, Outside
      <3>2. CASE wf' = Reserving /\ wf.blank # "prepared"
        <4>1. run' = [run EXCEPT !.pc = "blank", !.create = wf.blank = "none"]
          BY <2>1, <3>2, Zenon DEF Reserve
        <4> QED  BY <3>1, <3>2, <4>1, ReserveKeeps
      <3>3. CASE wf.blank = "prepared" /\ Goto("promise") /\ wf' = wf
        BY <3>1, <3>3, ReservedMoves
      <3> QED  BY <2>1, <3>2, <3>3, Zenon DEF Reserve
    <2> QED
      BY <1>2, <2>1, MakeBlankKeeps, CommitBlankKeeps, ReserveReviewKeeps,
         TakeUpKeeps, AskSuccessorKeeps, SuccessorEndsKeeps, CancelSuccessorKeeps
      DEF Handoff
  <1>3. CASE Person
    BY <1>3, ResumeSameKeeps, ResumePreparedKeeps, ResumePromotedKeeps,
       ResumeVerifiedKeeps, PrepareByHandKeeps, CancelContinuationKeeps,
       CancelKeeps, AbandonKeeps
    DEF Person
  <1>4. CASE World
    BY <1>4, TurnEndsKeeps, SendKeeps, ReviewEndsKeeps, ReconcileKeeps DEF World
  <1>5. CASE Crash \/ Restart
    BY <1>5, CrashKeeps, RestartKeeps
  <1>6. CASE UNCHANGED vars
    BY <1>6, Unmoved DEF vars
  <1> QED  BY <1>1, <1>2, <1>3, <1>4, <1>5, <1>6 DEF Next

(* The invariant holds in every state of every behaviour.                  *)
LEMMA Invariance == Spec => []IInv
  BY InitInv, StepKeeps, PTL DEF Spec

-----------------------------------------------------------------------------
(* WorkedOnce: whatever answers, exits and restarts come between, a turn   *)
(* that Codex was given is taken or given up once, and until then the      *)
(* record names it or the launch it came from.                             *)
THEOREM WorkedOnceHolds == Spec => []WorkedOnce
  <1>1. IInv => WorkedOnce
    <2> SUFFICES ASSUME IInv, NEW t \in DOMAIN turns
                 PROVE  /\ turns[t].fate # "twice"
                        /\ turns[t].fate = "open" =>
                             \/ t = wf.turn
                             \/ /\ turns[t].mark = wf.launch
                                /\ turns[t].thread = wf.thread
      BY DEF WorkedOnce
    <2> QED  BY DEF IInv, TurnInv, TurnsKept, Named
  <1> QED  BY <1>1, Invariance, PTL

(* ReviewedOnce: a candidate is sent at most once to each chat, and one    *)
(* conversation is made for each generation, over any crash and resume.    *)
THEOREM ReviewedOnceHolds == Spec => []ReviewedOnce
  <1>1. IInv => ReviewedOnce
    <2> SUFFICES ASSUME IInv PROVE ReviewedOnce
      OBVIOUS
    <2>1. ASSUME NEW k \in DOMAIN children, NEW l \in DOMAIN children,
                 children[k].sent, children[l].sent,
                 k.cycle = l.cycle, k.chat = l.chat
          PROVE  k = l
      <3>1. /\ k \in Key /\ l \in Key
            /\ k.attempt \in {1, 2} /\ l.attempt \in {1, 2}
        BY DEF IInv, Shape, Key
      <3>2. ASSUME NEW a \in DOMAIN children, NEW b \in DOMAIN children,
                   children[a].sent, a \in Key, a.cycle = b.cycle,
                   a.chat = b.chat, a.attempt = 1, b.attempt = 2
            PROVE  FALSE
        <4>1. Unsent(b.cycle, b.chat)
          BY <3>2 DEF IInv, PlanInv, Attempts
        <4>2. a = Review(b.cycle, b.chat, 1)
          BY <3>2 DEF Review, Key
        <4> QED  BY <3>2, <4>1, <4>2 DEF Unsent, IInv, PlanInv, Attempts
      <3>3. k.attempt = l.attempt
        BY <2>1, <3>1, <3>2
      <3> QED  BY <2>1, <3>1, <3>3 DEF Key
    <2>2. \A k \in DOMAIN children :
            k.attempt = 2 => Review(k.cycle, k.chat, 1) \in DOMAIN children
      BY DEF IInv, PlanInv, Attempts, Unsent
    <2>3. \A g \in DOMAIN spaces : spaces[g] <= 1
      BY DEF IInv, Shape, PlanInv, Blanks
    <2> QED  BY <2>1, <2>2, <2>3 DEF ReviewedOnce
  <1> QED  BY <1>1, Invariance, PTL

(* SettledOnEvidence: a convergence succeeds only on a candidate of this   *)
(* cycle and of a thread not given up, with a review of it that settled.   *)
THEOREM SettledOnEvidenceHolds == Spec => []SettledOnEvidence
  <1>1. IInv => SettledOnEvidence
    BY DEF IInv, ReviewInv, Settled
  <1> QED  BY <1>1, Invariance, PTL

-----------------------------------------------------------------------------
(* CancelRevokes, action by action: once it is cancelled nothing asks for  *)
(* a successor, though the runner was on its way.                          *)
Revoked ==
  /\ wf' = wf
  /\ \A k \in DOMAIN children' : children'[k].auto =>
       /\ k \in DOMAIN children
       /\ children'[k].sent => children[k].sent

LEMMA AgesRevoked ==
  ASSUME wf' = wf, DOMAIN children' = DOMAIN children,
         \A k \in DOMAIN children :
           children'[k].auto /\ children'[k].sent => children[k].sent
  PROVE  Revoked
  BY DEF Revoked

LEMMA CancelledRuns ==
  ASSUME IInv, wf.status = "cancelled"
  PROVE  run.pc \in {"off", "down", "handoff"}
  BY DEF IInv, Places, IsPaused

LEMMA RevokedByEnds ==
  ASSUME IInv, NEW k \in DOMAIN children, NEW how, NEW verdict,
         Ends(k, how, verdict), wf' = wf
  PROVE  Revoked
  BY EndsWrites, AgesRevoked DEF IInv

LEMMA RevokedBySend ==
  ASSUME IInv, wf.status = "cancelled", NEW k \in DOMAIN children, Send(k)
  PROVE  Revoked
  <1>1. wf' = wf /\ children[k].status = "running"
    BY DEF Send
  <1>2. CASE MaySend(k) /\ children' = [children EXCEPT ![k].sent = TRUE]
    <2> DEFINE gone == [children[k] EXCEPT !.sent = TRUE]
    <2>1. ~children[k].auto
      BY <1>2 DEF MaySend
    <2>2. gone.auto = children[k].auto
      BY Zenon DEF IInv, Shape
    <2>3. children' = [children EXCEPT ![k] = gone]
      BY <1>2, Zenon
    <2> HIDE DEF gone
    <2> QED  BY <1>1, <2>1, <2>2, <2>3, AgesRevoked
  <1>3. CASE Ends(k, "ambiguous", "none")
    BY <1>1, <1>3, RevokedByEnds
  <1> QED  BY <1>2, <1>3 DEF Send

LEMMA RevokedByInterrupt ==
  ASSUME IInv, NEW k, children' = Interrupted(k), wf' = wf PROVE Revoked
  <1>1. CASE children' = children
    BY <1>1, AgesRevoked
  <1>2. CASE /\ k \in DOMAIN children
             /\ children' = [children EXCEPT ![k].status = "ambiguous"]
    <2> DEFINE ended == [children[k] EXCEPT !.status = "ambiguous"]
    <2>1. DOMAIN children[k] = {"status", "verdict", "sent", "auto"}
      BY <1>2 DEF IInv, Shape
    <2>2. ended.sent = children[k].sent
      BY <2>1, Zenon
    <2>3. children' = [children EXCEPT ![k] = ended]
      BY <1>2, Zenon
    <2> HIDE DEF ended
    <2> QED  BY <1>2, <2>2, <2>3, AgesRevoked
  <1> QED  BY <1>1, <1>2 DEF Interrupted

LEMMA RevokedByCrash == ASSUME IInv, Crash PROVE Revoked
  <1>1. PICK lost \in SUBSET {k \in DOMAIN children :
                          children[k].status = "running" /\ ~children[k].sent} :
          children' = [k \in DOMAIN children |->
                         IF k \in lost
                         THEN [children[k] EXCEPT !.status = "ambiguous"]
                         ELSE children[k]]
    BY Zenon DEF Crash
  <1>2. ASSUME NEW k \in DOMAIN children
        PROVE  children'[k].sent = children[k].sent
    <2> DEFINE gone == [children[k] EXCEPT !.status = "ambiguous"]
    <2>1. DOMAIN children[k] = {"status", "verdict", "sent", "auto"}
      BY DEF IInv, Shape
    <2>2. gone.sent = children[k].sent
      BY <2>1, Zenon
    <2>3. children'[k] = IF k \in lost THEN gone ELSE children[k]
      BY <1>1, Zenon
    <2> HIDE DEF gone
    <2> QED  BY <2>2, <2>3
  <1>3. DOMAIN children' = DOMAIN children /\ wf' = wf
    BY <1>1 DEF Crash
  <1> QED  BY <1>2, <1>3, AgesRevoked

LEMMA RevokedStep ==
  ASSUME IInv, [Next]_vars, wf.status = "cancelled"
  PROVE  Revoked
  <1> USE CancelledRuns
  <1>1. CASE Runner
    <2>1. wf.status = "running"
      BY <1>1 DEF Runner, RepairRotation, RefuseState, Begin, Starting, LaunchFound,
                  LaunchAmbiguous, TakeStoredResult, Exceeded, AskFails, AskTurn,
                  Asking, OpenThread, Setup, Loop, NextCycle, Rotate, Intend, Dispatch,
                  Identify, TurnWaits, CountExit, RecoverTurn, TakeResult, AskReview,
                  Link, CaptureReview, Judge, PendSuccessor, ReviewFails
    <2> QED  BY <2>1
  <1>2. CASE Handoff
    <2>1. CASE AskSuccessor
      <3>1. ~Authorized
        BY DEF Authorized, Handing
      <3> QED  BY <2>1, <3>1, AgesRevoked DEF AskSuccessor
    <2>2. CASE CancelSuccessor
      BY <2>2, RevokedByInterrupt DEF CancelSuccessor
    <2>3. ~Reserve /\ ~ReserveReview /\ ~TakeUp /\ ~SuccessorEnds
      BY Zenon DEF Reserve, ReserveReview, TakeUp, SuccessorEnds, Handing
    <2>4. ~MakeBlank /\ ~CommitBlank
      BY DEF MakeBlank, CommitBlank
    <2> QED  BY <1>2, <2>1, <2>2, <2>3, <2>4 DEF Handoff
  <1>3. CASE Person
    <2>1. wf.status \in {"human_required", "running"}
      BY <1>3, Zenon
      DEF Person, ResumeSame, ResumePrepared, ResumePromoted, ResumeVerified,
          PrepareByHand, CancelContinuation, Cancel, Abandon, IsPaused, Handing
    <2> QED  BY <2>1
  <1>4. CASE World
    <2>1. ASSUME NEW t \in DOMAIN turns, TurnEnds(t) PROVE Revoked
      BY <2>1, AgesRevoked DEF TurnEnds
    <2>2. ASSUME NEW k \in DOMAIN children, ReviewEnds(k) \/ Reconcile(k)
          PROVE  Revoked
      <3>1. wf' = wf /\ \E how, v : Ends(k, how, v)
        BY <2>2 DEF ReviewEnds, Reconcile
      <3>2. PICK how, v : Ends(k, how, v)
        BY <3>1
      <3> QED  BY <3>1, <3>2, RevokedByEnds
    <2>3. ASSUME NEW k \in DOMAIN children, Send(k) PROVE Revoked
      BY <2>3, RevokedBySend
    <2> QED  BY <1>4, <2>1, <2>2, <2>3 DEF World
  <1>5. CASE Crash
    BY <1>5, RevokedByCrash
  <1>6. CASE Restart
    BY <1>6, AgesRevoked DEF Restart, external
  <1>7. CASE UNCHANGED vars
    BY <1>7, AgesRevoked DEF vars
  <1> QED  BY <1>1, <1>2, <1>3, <1>4, <1>5, <1>6, <1>7 DEF Next

(* CancelRevokes: once a person cancels or abandons a convergence, its     *)
(* record stays as it is, and no successor's review is created or sent.    *)
THEOREM CancelRevokesHolds == Spec => CancelRevokes
  <1>1. IInv /\ [Next]_vars =>
          [wf.status = "cancelled" =>
             /\ wf' = wf
             /\ \A k \in DOMAIN children' : children'[k].auto =>
                  /\ k \in DOMAIN children
                  /\ children'[k].sent => children[k].sent]_vars
    BY RevokedStep DEF Revoked
  <1> QED  BY <1>1, Invariance, PTL DEF Spec, CancelRevokes

-----------------------------------------------------------------------------
(* The bounds of the record.  Exits are counted up to the number allowed   *)
(* only while a turn is in force, a chat is left only when another is      *)
(* allowed, and a thread is counted once for each rotation.                *)
Live == wf.status = "running" \/ IsPaused

Counters ==
  /\ wf.rotations \in Nat
  /\ wf.thread = wf.rotations + 1 \/ (wf.thread = 0 /\ wf.rotations = 0)
  /\ wf.exits \in 0..Recoveries
  /\ wf.inspections \in 0..(Retries - 1) /\ wf.corrections \in 0..(Retries - 1)
  /\ wf.cycle <= MaxCycles /\ wf.chat <= MaxChats

Room ==
  /\ Live /\ wf.phase \notin Accepted => wf.exits < Recoveries
  /\ run.pc \in {"waiting", "exit"} => wf.exits < Recoveries
  /\ run.pc = "next" => wf.cycle < MaxCycles
  /\ run.pc = "promise" \/ (Live /\ wf.attempt # 0) => wf.chat < MaxChats

Threaded ==
  Live /\ wf.thread = 0 =>
    wf.phase = "created" /\ wf.rotation = 0 /\ run.pc # "loop"

Bounds == Counters /\ Room /\ Threaded

SameCounts == /\ wf'.exits = wf.exits /\ wf'.rotations = wf.rotations
              /\ wf'.inspections = wf.inspections
              /\ wf'.corrections = wf.corrections
SamePlace == wf'.cycle = wf.cycle /\ wf'.chat = wf.chat /\ wf'.thread = wf.thread

(* A step that moves the runner and leaves the record as it is.            *)
LEMMA MovedBounds ==
  ASSUME Bounds, wf' = wf,
         run'.pc \in {"waiting", "exit"} => wf.exits < Recoveries,
         run'.pc = "next" => wf.cycle < MaxCycles,
         run'.pc = "promise" => wf.chat < MaxChats,
         run'.pc = "loop" => wf.thread # 0
  PROVE  Bounds'
  <1>1. Live' = Live
    BY DEF Live, IsPaused
  <1> QED  BY <1>1 DEF Bounds, Counters, Room, Threaded

(* A step that leaves the counters, and stays where exits are left.        *)
LEMMA SteadyBounds ==
  ASSUME Bounds, SameCounts, SamePlace, wf'.attempt = wf.attempt,
         run'.pc \notin {"waiting", "exit", "next", "promise", "loop"},
         Live' => /\ Live
                  /\ wf'.phase \in Accepted \/ wf.phase \notin Accepted
                  /\ wf.thread # 0
  PROVE  Bounds'
  BY DEF Bounds, Counters, Room, Threaded, SameCounts, SamePlace

LEMMA StopBounds ==
  ASSUME IInv, Bounds, NEW why, Stop(why), wf.status = "running"
  PROVE  Bounds'
  <1>1. /\ Moves("off") /\ wf'.status = "human_required"
        /\ wf'.phase = "continuation_paused" => wf.phase \in Successor \/ Resumable
    BY StopWrites DEF IInv
  <1>2. SameCounts /\ SamePlace /\ wf'.attempt = wf.attempt
    BY Zenon DEF IInv, Shape, Fields, Stop, Stopped, SameCounts, SamePlace
  <1>3. Live' => wf.phase \in Successor \cup {"chatgpt_running"}
    BY <1>1 DEF Live, IsPaused, Resumable
  <1>4. Live /\ run'.pc = "off"
    BY <1>1 DEF Live, Moves
  <1>5. Live' => wf.thread # 0
    BY <1>3, <1>4 DEF Bounds, Threaded
  <1> QED  BY <1>2, <1>3, <1>4, <1>5, SteadyBounds

LEMMA CaptureBounds ==
  ASSUME IInv, Bounds, NEW kind, NEW t, NEW how, NEW liveness \in BOOLEAN,
         wf.status = "running", wf.phase \in Accepted,
         Capture(kind, t, how, liveness)
  PROVE  Bounds'
  <1>1. /\ Becomes("running", "codex_captured") /\ run'.pc = "review"
        /\ wf'.thread = wf.thread /\ SamePlan /\ wf'.cycle = wf.cycle
    BY CaptureWrites DEF IInv
  <1>2. /\ wf'.exits = 0 /\ wf'.inspections = 0 /\ wf'.corrections = 0
        /\ wf'.rotations = wf.rotations
    BY Zenon DEF IInv, Shape, Fields, Capture, Captured
  <1>3. wf.thread # 0 /\ wf.attempt = 0
    BY DEF Bounds, Threaded, Live, IInv, PlanInv, Planned, Handing, IsPaused
  <1> QED  BY <1>1, <1>2, <1>3, ConvergenceAssumption
           DEF Bounds, Counters, Room, Threaded, Live, IsPaused, Becomes, SamePlan

-----------------------------------------------------------------------------
(* Codex takes a turn.                                                     *)
LEMMA WorkingPlan ==
  ASSUME IInv, wf.status = "running", wf.phase \notin Successor
  PROVE  wf.attempt = 0
  BY DEF IInv, PlanInv, Planned, Handing, IsPaused

LEMMA IntendBounds == ASSUME IInv, Bounds, Intend PROVE Bounds'
  <1>1. SameCounts /\ SamePlace /\ wf'.attempt = wf.attempt
    BY Zenon DEF IInv, Shape, Fields, Intend, SameCounts, SamePlace
  <1>2. /\ run.pc = "ready" /\ run'.pc = "dispatch" /\ Live
        /\ wf.phase = "codex_ready"
    BY IntendWrites DEF IInv, Places, PhaseAt, IsPaused, Live, Moves
  <1>3. wf.thread # 0
    BY <1>2 DEF Bounds, Threaded
  <1> QED  BY <1>1, <1>2, <1>3, SteadyBounds

LEMMA IdentifyBounds == ASSUME IInv, Bounds, Identify PROVE Bounds'
  <1>1. SameCounts /\ SamePlace /\ wf'.attempt = wf.attempt
    BY Zenon DEF IInv, Shape, Fields, Identify, SameCounts, SamePlace
  <1>2. /\ run.pc = "acked" /\ wf.status = "running" /\ run'.pc = "waiting"
        /\ wf'.phase = "codex_running" /\ wf.phase = "codex_launching"
    BY IdentifyWrites DEF IInv, Places, PhaseAt, IsPaused, Moves, Becomes
  <1>3. wf.thread # 0 /\ wf.exits < Recoveries /\ wf.attempt = 0
    BY <1>2, WorkingPlan DEF Bounds, Threaded, Room, Live
  <1> QED  BY <1>1, <1>2, <1>3 DEF Bounds, Counters, Room, Threaded, SameCounts,
           SamePlace

LEMMA CountExitBounds == ASSUME IInv, Bounds, CountExit PROVE Bounds'
  <1>1. /\ wf'.exits = wf.exits + 1 /\ wf'.rotations = wf.rotations
        /\ wf'.inspections = wf.inspections /\ wf'.corrections = wf.corrections
        /\ SamePlace
    BY Zenon DEF IInv, Shape, Fields, CountExit, SamePlace
  <1>2. /\ run.pc = "exit" /\ wf.status = "running" /\ run'.pc = "recover"
        /\ wf'.phase = "codex_recovering" /\ wf.phase \in Accepted
        /\ wf'.attempt = wf.attempt
    BY CountExitWrites DEF IInv, Places, PhaseAt, IsPaused, Moves, Becomes, SamePlan
  <1>3. wf.thread # 0 /\ wf.exits < Recoveries /\ wf.attempt = 0
    BY <1>2, WorkingPlan DEF Bounds, Threaded, Room, Live
  <1> QED  BY <1>1, <1>2, <1>3, ConvergenceAssumption
           DEF Bounds, Counters, Room, Threaded, SamePlace

LEMMA NextCycleBounds == ASSUME IInv, Bounds, NextCycle PROVE Bounds'
  <1>1. /\ wf'.exits = wf.exits /\ wf'.rotations = wf.rotations
        /\ wf'.inspections = 0 /\ wf'.corrections = wf.corrections
    BY Zenon DEF IInv, Shape, Fields, NextCycle
  <1>2. /\ run.pc = "next" /\ wf.status = "running" /\ run'.pc = "ready"
        /\ wf.phase = "review_captured" /\ wf'.cycle = wf.cycle + 1
        /\ wf'.thread = wf.thread /\ wf'.chat = wf.chat /\ wf'.attempt = wf.attempt
    BY NextCycleWrites DEF IInv, Places, PhaseAt, IsPaused, Moves, SamePlan
  <1>3. /\ wf.thread # 0 /\ wf.exits < Recoveries /\ wf.attempt = 0
        /\ wf.cycle < MaxCycles
    BY <1>2, WorkingPlan DEF Bounds, Threaded, Room, Live
  <1>4. wf.cycle + 1 <= MaxCycles /\ 0 \in 0..(Retries - 1)
    <2>1. MaxCycles \in Nat /\ Retries \in Nat \ {0} /\ wf.cycle \in Nat
      BY ConvergenceAssumption DEF IInv, Shape
    <2> QED  BY <1>3, <2>1
  <1> QED  BY <1>1, <1>2, <1>3, <1>4 DEF Bounds, Counters, Room, Threaded

LEMMA RotateBounds == ASSUME IInv, Bounds, Rotate PROVE Bounds'
  <1>1. /\ wf'.exits = wf.exits /\ wf'.rotations = wf.rotations + 1
        /\ wf'.inspections = wf.inspections /\ wf'.corrections = wf.corrections
    BY Zenon DEF IInv, Shape, Fields, Rotate
  <1>2. /\ run.pc \in {"next", "ready"} /\ wf.status = "running"
        /\ run'.pc = run.pc /\ wf.rotation # 0 /\ wf'.phase = wf.phase
        /\ wf'.thread = wf.thread + 1 /\ wf'.cycle = wf.cycle
        /\ wf'.chat = wf.chat /\ wf'.attempt = wf.attempt /\ wf'.status = "running"
    BY RotateWrites DEF IInv, SamePlan, SameReview, Becomes
  <1>3. /\ wf.phase \in {"review_captured", "codex_ready"}
    BY <1>2 DEF IInv, Places, PhaseAt, IsPaused
  <1>4. /\ wf.thread # 0 /\ wf.exits < Recoveries /\ wf.attempt = 0
    BY <1>2, <1>3, WorkingPlan DEF Bounds, Threaded, Room, Live
  <1> QED  BY <1>1, <1>2, <1>3, <1>4
           DEF Bounds, Counters, Room, Threaded, IInv, Shape, Live

LEMMA OpenThreadBounds == ASSUME IInv, Bounds, OpenThread PROVE Bounds'
  <1>1. SameCounts
    BY Zenon DEF IInv, Shape, Fields, OpenThread, SameCounts
  <1>2. /\ wf.status = "running" /\ wf.phase \in Started /\ run'.pc = "loop"
        /\ wf'.thread = IF wf.thread = 0 THEN 1 ELSE wf.thread
        /\ wf'.cycle = wf.cycle /\ wf'.chat = wf.chat /\ wf'.attempt = wf.attempt
    BY OpenThreadWrites DEF IInv, SamePlan, SameReview, Moves
  <1>3. wf.exits < Recoveries /\ wf.attempt = 0
    BY <1>2, WorkingPlan DEF Bounds, Room, Live
  <1>4. wf.thread = 0 => wf.rotations = 0
    BY DEF Bounds, Counters
  <1> QED  BY <1>1, <1>2, <1>3, <1>4
           DEF Bounds, Counters, Room, Threaded, SameCounts

LEMMA TakeStoredResultBounds == ASSUME IInv, Bounds, TakeStoredResult PROVE Bounds'
  <1>1. /\ wf' = wf /\ run'.pc = "loop" /\ wf.status = "running" /\ wf.result # 0
    BY TakeStoredResultWrites DEF IInv
  <1>2. wf.phase \in Accepted
    BY <1>1 DEF IInv, TurnInv, PhaseKnows
  <1>3. wf.thread # 0
    BY <1>1, <1>2 DEF Bounds, Threaded, Live
  <1> QED  BY <1>1, <1>3, MovedBounds

LEMMA TurnWaitsBounds == ASSUME IInv, Bounds, TurnWaits PROVE Bounds'
  <1>1. run.pc = "waiting" /\ wf' = wf /\ run'.pc \in {"result", "exit"}
    BY TurnWaitsWrites DEF IInv
  <1>2. wf.exits < Recoveries
    BY <1>1 DEF Bounds, Room
  <1> QED  BY <1>1, <1>2, MovedBounds

LEMMA StoreBounds ==
  ASSUME IInv, Bounds, wf' = StoreResult(wf.turn), wf.status = "running",
         wf.phase \in Accepted, DOMAIN run' = DOMAIN run,
         run'.pc \in {"loop", "result"}
  PROVE  Bounds'
  <1>1. /\ wf'.exits = 0 /\ wf'.rotations = wf.rotations
        /\ wf'.inspections = wf.inspections /\ wf'.corrections = wf.corrections
    BY Zenon DEF IInv, Shape, Fields, StoreResult
  <1>2. /\ wf'.phase = "codex_running" /\ wf'.thread = wf.thread
        /\ wf'.chat = wf.chat /\ wf'.cycle = wf.cycle /\ wf'.attempt = wf.attempt
    BY StoreWrites DEF IInv, Becomes, SamePlan, SameReview
  <1>3. wf.thread # 0 /\ wf.attempt = 0
    BY WorkingPlan DEF Bounds, Threaded, Live
  <1>4. Recoveries \in Nat
    BY ConvergenceAssumption
  <1> QED  BY <1>1, <1>2, <1>3, <1>4 DEF Bounds, Counters, Room, Threaded

LEMMA ReopenBounds ==
  ASSUME IInv, Bounds, NEW exits \in 0..Recoveries, exits < Recoveries,
         wf' = Reopened(exits), wf.status = "running", wf.phase \in Accepted,
         NEW p \in {"loop", "ready"}, Goto(p)
  PROVE  Bounds'
  <1>1. /\ wf'.exits = exits /\ wf'.rotations = wf.rotations
        /\ wf'.inspections = wf.inspections /\ wf'.corrections = wf.corrections
        /\ wf'.phase = "codex_ready" /\ wf'.attempt = wf.attempt /\ SamePlace
        /\ wf'.status = "running"
    BY Zenon DEF IInv, Shape, Fields, Reopened, SamePlace
  <1>2. run'.pc = p
    BY Zenon DEF IInv, Shape, Goto
  <1>3. wf.thread # 0 /\ wf.attempt = 0
    BY WorkingPlan DEF Bounds, Threaded, Live
  <1> QED  BY <1>1, <1>2, <1>3 DEF Bounds, Counters, Room, Threaded, SamePlace

LEMMA AskFailsBounds == ASSUME IInv, Bounds, AskFails PROVE Bounds'
  <1>1. /\ run.pc = "setup" /\ wf.status = "running" /\ wf.phase \in Accepted
        /\ wf.exits < Recoveries
    BY DEF AskFails, Asking, Setup
  <1>2. CASE Capture("blocked", wf.turn, "retired", TRUE)
    BY <1>1, <1>2, CaptureBounds
  <1>3. CASE /\ wf' = [wf EXCEPT !.exits = @ + 1, !.phase = "codex_recovering"]
             /\ run' = run /\ wf.exits + 1 < Recoveries
    <2>1. /\ wf'.exits = wf.exits + 1 /\ wf'.rotations = wf.rotations
          /\ wf'.inspections = wf.inspections /\ wf'.corrections = wf.corrections
          /\ wf'.phase = "codex_recovering" /\ wf'.attempt = wf.attempt /\ SamePlace
      BY <1>3, Zenon DEF IInv, Shape, Fields, SamePlace
    <2>2. wf.thread # 0 /\ wf.attempt = 0
      BY <1>1, WorkingPlan DEF Bounds, Threaded, Live
    <2>3. Recoveries \in Nat
      BY ConvergenceAssumption
    <2> QED  BY <1>1, <1>3, <2>1, <2>2, <2>3
             DEF Bounds, Counters, Room, Threaded, SamePlace
  <1> QED  BY <1>2, <1>3 DEF AskFails

LEMMA AskTurnBounds == ASSUME IInv, Bounds, AskTurn PROVE Bounds'
  <1>1. wf.status = "running" /\ wf.phase \in Accepted
    BY DEF AskTurn, Asking, Setup
  <1>2. CASE /\ wf' = StoreResult(wf.turn)
             /\ run' = [run EXCEPT !.pc = "loop", !.got = wf.turn]
    <2>1. DOMAIN run' = DOMAIN run /\ run'.pc = "loop"
      BY <1>2, Zenon DEF IInv, Shape
    <2> QED  BY <1>1, <1>2, <2>1, StoreBounds
  <1>3. CASE Capture("blocked", wf.turn, "retired", TRUE)
    BY <1>1, <1>3, CaptureBounds
  <1>4. CASE wf' = Reopened(wf.exits + 1) /\ wf.exits + 1 < Recoveries /\ Goto("loop")
    <2>1. wf.exits + 1 \in 0..Recoveries
      BY <1>4, ConvergenceAssumption DEF Bounds, Counters
    <2> QED  BY <1>1, <1>4, <2>1, ReopenBounds
  <1> QED  BY <1>2, <1>3, <1>4, Zenon DEF AskTurn

LEMMA RecoverTurnBounds == ASSUME IInv, Bounds, RecoverTurn PROVE Bounds'
  <1>1. run.pc = "recover" /\ wf.status = "running" /\ wf.phase \in Accepted
    BY DEF RecoverTurn, IInv, Places, PhaseAt, IsPaused
  <1>2. CASE /\ wf' = StoreResult(wf.turn)
             /\ run' = [run EXCEPT !.pc = "result", !.got = wf.turn]
    <2>1. DOMAIN run' = DOMAIN run /\ run'.pc = "result"
      BY <1>2, Zenon DEF IInv, Shape
    <2> QED  BY <1>1, <1>2, <2>1, StoreBounds
  <1>3. CASE Capture("blocked", wf.turn, "retired", TRUE)
    BY <1>1, <1>3, CaptureBounds
  <1>4. CASE wf' = Reopened(wf.exits) /\ wf.exits < Recoveries /\ Goto("ready")
    <2>1. wf.exits \in 0..Recoveries
      BY DEF Bounds, Counters
    <2> QED  BY <1>1, <1>4, <2>1, ReopenBounds
  <1>5. CASE Goto("exit") /\ wf' = wf /\ wf.exits < Recoveries
    <2>1. run'.pc = "exit"
      BY <1>5, Zenon DEF IInv, Shape, Goto
    <2> QED  BY <1>5, <2>1, MovedBounds
  <1> QED  BY <1>2, <1>3, <1>4, <1>5, Zenon DEF RecoverTurn

LEMMA TakeResultBounds == ASSUME IInv, Bounds, TakeResult PROVE Bounds'
  <1> DEFINE looked == wf.inspected \/ turns[run.got].inspected
             wrong  == IF looked THEN "corrections" ELSE "inspections"
  <1>1. run.pc = "result" /\ wf.status = "running" /\ wf.phase \in Accepted
    BY DEF TakeResult, IInv, Places, PhaseAt, IsPaused
  <1>2. CASE Capture(turns[run.got].kind, run.got, "taken", FALSE)
    BY <1>1, <1>2, CaptureBounds
  <1>3. CASE Capture("blocked", run.got, "taken", TRUE)
    BY <1>1, <1>3, CaptureBounds
  <1>4. CASE /\ wf[wrong] + 1 < Retries /\ wf' = AskedAgain(wrong)
             /\ run' = [run EXCEPT !.pc = "ready", !.got = 0, !.deferred = 0]
    <2>1. wrong \in {"corrections", "inspections"}
      OBVIOUS
    <2> HIDE DEF wrong, looked
    <2>2. /\ wf'.exits = 0 /\ wf'.rotations = wf.rotations
          /\ wf'.inspections = IF wrong = "inspections" THEN wf.inspections + 1
                               ELSE wf.inspections
          /\ wf'.corrections = IF wrong = "corrections" THEN wf.corrections + 1
                               ELSE wf.corrections
      <3>1. CASE wrong = "corrections"
        BY <1>4, <3>1, Zenon DEF IInv, Shape, Fields, AskedAgain
      <3>2. CASE wrong = "inspections"
        BY <1>4, <3>2, Zenon DEF IInv, Shape, Fields, AskedAgain
      <3> QED  BY <2>1, <3>1, <3>2
    <2>3. /\ wf'.status = "running" /\ wf'.phase = "codex_ready"
          /\ wf'.thread = wf.thread /\ wf'.chat = wf.chat /\ wf'.cycle = wf.cycle
          /\ wf'.attempt = wf.attempt
      BY <1>1, <1>4, <2>1, AskedAgainWrites DEF IInv, Becomes, SamePlan, SameReview
    <2>4. run'.pc = "ready"
      BY <1>4, Zenon DEF IInv, Shape
    <2>5. wf.thread # 0 /\ wf.attempt = 0
      BY <1>1, WorkingPlan DEF Bounds, Threaded, Live
    <2>6. Recoveries \in Nat \ {0} /\ Retries \in Nat
      BY ConvergenceAssumption
    <2>7. /\ wf'.inspections \in 0..(Retries - 1)
          /\ wf'.corrections \in 0..(Retries - 1)
      BY <1>4, <2>1, <2>2, <2>6 DEF Bounds, Counters
    <2> QED  BY <2>2, <2>3, <2>4, <2>5, <2>6, <2>7
             DEF Bounds, Counters, Room, Threaded
  <1> QED  BY <1>2, <1>3, <1>4, Zenon DEF TakeResult

LEMMA DispatchBounds == ASSUME IInv, Bounds, Dispatch PROVE Bounds'
  <1>1. wf' = wf /\ (Goto("acked") \/ Goto("lost"))
    BY DEF Dispatch
  <1>2. run'.pc \in {"acked", "lost"}
    BY <1>1, Zenon DEF IInv, Shape, Goto
  <1> QED  BY <1>1, <1>2, MovedBounds

LEMMA LaunchFoundBounds == ASSUME IInv, Bounds, LaunchFound PROVE Bounds'
  <1> DEFINE found == CHOOSE t \in Launched : TRUE
  <1>1. /\ run.pc \in {"relaunch", "lost"} /\ wf.phase = "codex_launching"
        /\ wf.status = "running"
    BY DEF LaunchFound, IInv, Places, PhaseAt, IsPaused
  <1>2. wf' = [wf EXCEPT !.launch = 0, !.turn = found, !.phase = "codex_running"]
    BY Zenon DEF LaunchFound
  <1> HIDE DEF found
  <1>3. /\ SameCounts /\ SamePlace /\ wf'.attempt = wf.attempt
        /\ wf'.phase = "codex_running"
    BY <1>2, Zenon DEF IInv, Shape, Fields, SameCounts, SamePlace
  <1>4. run'.pc \in {"setup", "exit"}
    BY Zenon DEF IInv, Shape, LaunchFound, Goto
  <1>5. wf.thread # 0 /\ wf.exits < Recoveries /\ wf.attempt = 0
    BY <1>1, WorkingPlan DEF Bounds, Threaded, Room, Live
  <1> QED  BY <1>3, <1>4, <1>5
           DEF Bounds, Counters, Room, Threaded, SameCounts, SamePlace

LEMMA BeginBounds == ASSUME IInv, Bounds, Begin PROVE Bounds'
  <1>1. /\ wf.status = "running" /\ wf' = wf
        /\ Goto(IF wf.launch # 0 THEN "relaunch" ELSE Entry)
    BY Zenon DEF Begin, Starting
  <1>2. run'.pc = IF wf.launch # 0 THEN "relaunch" ELSE Entry
    BY <1>1, Zenon DEF IInv, Shape, Goto
  <1>3. Entry = "loop" => wf.thread # 0
    BY <1>1 DEF Entry, Bounds, Threaded, Live
  <1>4. run'.pc \in {"relaunch", "setup"} \/ (run'.pc = "loop" /\ wf.thread # 0)
    BY <1>2, <1>3 DEF Entry
  <1> QED  BY <1>1, <1>4, MovedBounds

LEMMA RepairRotationBounds == ASSUME IInv, Bounds, RepairRotation PROVE Bounds'
  <1>1. /\ wf.status = "running" /\ wf' = Repaired /\ run.pc = "start" /\ run' = run
        /\ Repairable
    BY DEF RepairRotation, Starting
  <1>2. /\ wf.thread # 0
        /\ wf.phase \in Reviewing \cup Accepted \cup {"codex_ready"}
        /\ wf.attempt = 0
    BY <1>1, WorkingPlan DEF Repairable, IInv, Shape
  <1> DEFINE kept == [wf EXCEPT !.rotation = wf.checkpoint.cycle]
  <1>3. /\ kept.status = "running" /\ kept.phase = wf.phase
        /\ kept.exits = wf.exits /\ kept.rotations = wf.rotations
        /\ kept.inspections = wf.inspections /\ kept.corrections = wf.corrections
        /\ kept.cycle = wf.cycle /\ kept.chat = wf.chat /\ kept.thread = wf.thread
        /\ kept.attempt = wf.attempt /\ DOMAIN kept = Fields
    BY <1>1, Zenon DEF IInv, Shape, Fields
  <1>4. CASE wf.phase \in Reviewing
    <2>1. \/ wf' = kept
          \/ wf' = [kept EXCEPT !.record = [kept.record EXCEPT !.review = "continue"]]
      BY <1>1, <1>4, Zenon DEF Repaired
    <2>2. /\ SameCounts /\ SamePlace /\ wf'.attempt = wf.attempt
          /\ wf'.phase = wf.phase /\ wf'.status = "running"
      <3> HIDE DEF kept
      <3>1. CASE wf' = kept
        BY <1>3, <3>1 DEF SameCounts, SamePlace
      <3>2. CASE wf' = [kept EXCEPT !.record = [kept.record EXCEPT !.review =
                                                  "continue"]]
        BY <1>3, <3>2, Zenon DEF Fields, SameCounts, SamePlace
      <3> QED  BY <2>1, <3>1, <3>2, Zenon
    <2> QED  BY <1>1, <1>2, <2>2, SteadyBounds DEF Live
  <1>5. CASE wf.phase \notin Reviewing
    <2>1. wf' = [kept EXCEPT !.phase = "codex_ready", !.turn = 0, !.result = 0,
                             !.inspections = 0, !.inspected = FALSE, !.exits = 0]
      BY <1>1, <1>5, Zenon DEF Repaired
    <2> HIDE DEF kept
    <2>2. /\ wf'.exits = 0 /\ wf'.rotations = wf.rotations /\ wf'.inspections = 0
          /\ wf'.corrections = wf.corrections /\ SamePlace
          /\ wf'.attempt = wf.attempt /\ wf'.phase = "codex_ready"
          /\ wf'.status = "running"
      BY <1>3, <2>1, Zenon DEF Fields, SamePlace
    <2>3. Recoveries \in Nat \ {0} /\ Retries \in Nat \ {0}
      BY ConvergenceAssumption
    <2>4. 0 \in 0..(Retries - 1) /\ 0 < Recoveries /\ 0 \in 0..Recoveries
      BY <2>3
    <2> QED  BY <1>1, <1>2, <2>2, <2>4 DEF Bounds, Counters, Room, Threaded, SamePlace
  <1> QED  BY <1>4, <1>5

LEMMA RefuseStateBounds == ASSUME IInv, Bounds, RefuseState PROVE Bounds'
  BY StopBounds DEF RefuseState, Starting

LEMMA LaunchAmbiguousBounds == ASSUME IInv, Bounds, LaunchAmbiguous PROVE Bounds'
  <1>1. wf.status = "running"
    BY DEF LaunchAmbiguous, IInv, Places, PhaseAt, IsPaused
  <1> QED  BY <1>1, StopBounds DEF LaunchAmbiguous

LEMMA ExceededBounds == ASSUME IInv, Bounds, Exceeded PROVE Bounds'
  BY CaptureBounds DEF Exceeded, Asking, Setup

-----------------------------------------------------------------------------
(* The review, and what follows it.                                        *)
LEMMA DecideBounds ==
  ASSUME IInv, Bounds, NEW settles \in BOOLEAN, Decide(settles),
         wf.status = "running"
  PROVE  Bounds'
  <1>1. CASE Settle
    <2>1. /\ SameCounts /\ SamePlace /\ wf'.attempt = wf.attempt
          /\ wf'.status = "succeeded"
      BY <1>1, Zenon DEF IInv, Shape, Fields, Settle, Settlement, SameCounts, SamePlace
    <2>2. run'.pc = "off"
      BY <1>1, Zenon DEF IInv, Shape, Settle, Goto
    <2> QED  BY <2>1, <2>2, SteadyBounds DEF Live, IsPaused
  <1>2. CASE Stop("convergence_cycle_limit_reached")
    BY <1>2, StopBounds
  <1>3. CASE Goto("next") /\ wf' = wf /\ ~(wf.cycle >= MaxCycles)
    <2>1. run'.pc = "next"
      BY <1>3, Zenon DEF IInv, Shape, Goto
    <2>2. wf.cycle < MaxCycles
      BY <1>3, ConvergenceAssumption DEF IInv, Shape
    <2> QED  BY <1>3, <2>1, <2>2, MovedBounds
  <1> QED  BY <1>1, <1>2, <1>3, Zenon DEF Decide

LEMMA JudgeBounds == ASSUME IInv, Bounds, Judge PROVE Bounds'
  <1>1. wf.status = "running" /\ Settles(wf.record) \in BOOLEAN
    BY DEF Judge, Settles
  <1> QED  BY <1>1, StopBounds, DecideBounds, Zenon DEF Judge

LEMMA LoopBounds == ASSUME IInv, Bounds, Loop PROVE Bounds'
  <1>1. run.pc = "loop" /\ wf.status = "running"
    BY Zenon DEF Loop
  <1>2. CASE Decide(Settles(wf.record) /\ ~Unsound)
    <2>1. (Settles(wf.record) /\ ~Unsound) \in BOOLEAN
      BY DEF Settles
    <2> QED  BY <1>1, <1>2, <2>1, DecideBounds
  <1>3. CASE (Goto("review") \/ Goto("result")) /\ wf' = wf
    <2>1. run'.pc \in {"review", "result"}
      BY <1>3, Zenon DEF IInv, Shape, Goto
    <2> QED  BY <1>3, <2>1, MovedBounds
  <1>4. CASE /\ wf' = [wf EXCEPT !.cycle = IF @ = 0 THEN 1 ELSE @, !.turn = 0,
                                 !.phase = "codex_ready"]
             /\ Goto("ready")
             /\ wf.phase \notin Reviewing /\ run.got = 0
    <2>1. /\ SameCounts /\ wf'.cycle = (IF wf.cycle = 0 THEN 1 ELSE wf.cycle)
          /\ wf'.chat = wf.chat /\ wf'.thread = wf.thread
          /\ wf'.attempt = wf.attempt /\ wf'.status = "running"
          /\ wf'.phase = "codex_ready"
      BY <1>1, <1>4, Zenon DEF IInv, Shape, Fields, SameCounts
    <2>2. run'.pc = "ready"
      BY <1>4, Zenon DEF IInv, Shape, Goto
    <2>3. wf.phase \in Started
      BY <1>1, <1>4 DEF IInv, Places, PhaseAt, IsPaused, TurnInv, Named
    <2>4. wf.thread # 0 /\ wf.exits < Recoveries /\ wf.attempt = 0
      BY <1>1, <2>3, WorkingPlan DEF Bounds, Threaded, Room, Live
    <2>5. wf'.cycle <= MaxCycles
      <3>1. MaxCycles \in Nat \ {0}
        BY ConvergenceAssumption
      <3> QED  BY <2>1, <3>1 DEF Bounds, Counters
    <2> QED  BY <2>1, <2>2, <2>4, <2>5 DEF Bounds, Counters, Room, Threaded, SameCounts
  <1>5. CASE wf.phase = "review_captured"
    BY <1>2, <1>5, Zenon DEF Loop
  <1>6. CASE wf.phase \in {"codex_captured", "chatgpt_running"}
    BY <1>3, <1>6, Zenon DEF Loop
  <1>7. CASE wf.phase \notin Reviewing /\ run.got # 0
    <2>1. /\ wf.phase # "review_captured"
          /\ wf.phase \notin {"codex_captured", "chatgpt_running"}
      BY <1>7
    <2> QED  BY <1>3, <1>7, <2>1, Zenon DEF Loop
  <1>8. CASE wf.phase \notin Reviewing /\ run.got = 0
    <2>1. /\ wf.phase # "review_captured" /\ ~(run.got # 0)
          /\ wf.phase \notin {"codex_captured", "chatgpt_running"}
      BY <1>8
    <2> QED  BY <1>4, <1>8, <2>1, Zenon DEF Loop
  <1> QED  BY <1>5, <1>6, <1>7, <1>8

LEMMA AskReviewBounds == ASSUME IInv, Bounds, AskReview PROVE Bounds'
  <1>1. wf' = wf /\ (Goto("watching") \/ Goto("link"))
    BY Zenon DEF AskReview
  <1>2. run'.pc \in {"watching", "link"}
    BY <1>1, Zenon DEF IInv, Shape, Goto
  <1> QED  BY <1>1, <1>2, MovedBounds

LEMMA LinkBounds == ASSUME IInv, Bounds, Link PROVE Bounds'
  <1>1. SameCounts /\ SamePlace /\ wf'.attempt = wf.attempt
    BY Zenon DEF IInv, Shape, Fields, Link, SameCounts, SamePlace
  <1>2. run'.pc = "watching"
    BY Zenon DEF IInv, Shape, Link, Goto
  <1>3. wf.status = "running" /\ wf.phase \in {"codex_captured", "chatgpt_running"}
    BY DEF Link, IInv, Places, PhaseAt, IsPaused
  <1>4. wf.thread # 0
    BY <1>3 DEF Bounds, Threaded, Live
  <1> QED  BY <1>1, <1>2, <1>3, <1>4, SteadyBounds DEF Live

LEMMA CaptureReviewBounds == ASSUME IInv, Bounds, CaptureReview PROVE Bounds'
  <1>1. PICK r : wf' = [wf EXCEPT !.phase = "review_captured", !.record = r]
    BY Zenon DEF CaptureReview
  <1>2. SameCounts /\ SamePlace /\ wf'.attempt = wf.attempt
    BY <1>1, Zenon DEF IInv, Shape, Fields, SameCounts, SamePlace
  <1>3. run'.pc = "judge"
    BY Zenon DEF IInv, Shape, CaptureReview, Goto
  <1>4. wf.status = "running" /\ wf.phase = "chatgpt_running"
    BY DEF CaptureReview, IInv, Places, PhaseAt, IsPaused
  <1>5. wf.thread # 0
    BY <1>4 DEF Bounds, Threaded, Live
  <1> QED  BY <1>2, <1>3, <1>4, <1>5, SteadyBounds DEF Live

LEMMA PendSuccessorBounds == ASSUME IInv, Bounds, PendSuccessor PROVE Bounds'
  <1>1. SameCounts /\ SamePlace /\ wf'.attempt = wf.attempt
    BY Zenon DEF IInv, Shape, Fields, PendSuccessor, SameCounts, SamePlace
  <1>2. run'.pc = "start"
    BY Zenon DEF IInv, Shape, PendSuccessor, Goto
  <1>3. wf.status = "running" /\ wf.phase = "chatgpt_running"
    BY DEF PendSuccessor, IInv, Places, PhaseAt, IsPaused
  <1>4. wf.thread # 0
    BY <1>3 DEF Bounds, Threaded, Live
  <1> QED  BY <1>1, <1>2, <1>3, <1>4, SteadyBounds DEF Live

LEMMA ReviewFailsBounds == ASSUME IInv, Bounds, ReviewFails PROVE Bounds'
  BY StopBounds DEF ReviewFails

-----------------------------------------------------------------------------
(* The move to another chat, and what a person does.                       *)
LEMMA ReservingBounds ==
  ASSUME IInv, Bounds, wf' = Reserving, run'.pc = "blank", Handing \/ IsPaused
  PROVE  Bounds'
  <1>1. /\ SameCounts /\ SamePlace /\ wf'.attempt = wf.attempt
        /\ wf'.phase = wf.phase
    BY Zenon DEF IInv, Shape, Fields, Reserving, SameCounts, SamePlace
  <1>2. Live /\ wf.phase \notin Accepted \cup {"created"}
    BY DEF Live, IsPaused, Handing
  <1>3. wf.thread # 0
    BY <1>2 DEF Bounds, Threaded
  <1> QED  BY <1>1, <1>2, <1>3, SteadyBounds

LEMMA ReserveBounds == ASSUME IInv, Bounds, Reserve PROVE Bounds'
  <1>1. Handing /\ MayPrepare
    BY DEF Reserve
  <1>2. CASE wf' = wf /\ Goto("promise")
    <2>1. run'.pc = "promise"
      BY <1>2, Zenon DEF IInv, Shape, Goto
    <2> QED  BY <1>1, <1>2, <2>1, MovedBounds DEF MayPrepare
  <1>3. CASE /\ wf' = Reserving
             /\ run' = [run EXCEPT !.pc = "blank", !.create = wf.blank = "none"]
    <2>1. run'.pc = "blank"
      BY <1>3, Zenon DEF IInv, Shape
    <2> QED  BY <1>1, <1>3, <2>1, ReservingBounds
  <1> QED  BY <1>2, <1>3, Zenon DEF Reserve

LEMMA RefusedBounds == ASSUME IInv, Bounds, Refused PROVE Bounds'
  <1>1. CASE Handing /\ Stop("successor_preparation_failed")
    BY <1>1, StopBounds DEF Handing
  <1>2. CASE Goto("off") /\ wf' = wf
    <2>1. run'.pc = "off"
      BY <1>2, Zenon DEF IInv, Shape, Goto
    <2> QED  BY <1>2, <2>1, MovedBounds
  <1> QED  BY <1>1, <1>2, Zenon DEF Refused

LEMMA MakeBlankBounds == ASSUME IInv, Bounds, MakeBlank PROVE Bounds'
  <1>1. CASE Goto("commit") /\ wf' = wf
    <2>1. run'.pc = "commit"
      BY <1>1, Zenon DEF IInv, Shape, Goto
    <2> QED  BY <1>1, <2>1, MovedBounds
  <1> QED  BY <1>1, RefusedBounds, Zenon DEF MakeBlank

LEMMA CommitBlankBounds == ASSUME IInv, Bounds, CommitBlank PROVE Bounds'
  <1>1. /\ SameCounts /\ SamePlace /\ wf'.attempt = wf.attempt
        /\ wf'.phase = wf.phase /\ wf'.status = wf.status
    BY Zenon DEF IInv, Shape, Fields, CommitBlank, SameCounts, SamePlace
  <1>2. run.pc = "commit" /\ run'.pc \in {"promise", "off"}
    BY Zenon DEF IInv, Shape, CommitBlank, Goto
  <1>3. /\ Live /\ wf.phase \notin Accepted \cup {"created"}
        /\ wf.chat < MaxChats
    BY <1>2 DEF Live, IsPaused, IInv, Places, PhaseAt, PlanInv, Planned
  <1>4. wf.thread # 0
    BY <1>3 DEF Bounds, Threaded
  <1> QED  BY <1>1, <1>2, <1>3, <1>4
           DEF Bounds, Counters, Room, Threaded, SameCounts, SamePlace, Live, IsPaused

LEMMA ReserveReviewBounds == ASSUME IInv, Bounds, ReserveReview PROVE Bounds'
  <1>1. /\ SameCounts /\ SamePlace /\ wf'.phase = "successor_reviewing"
        /\ wf'.status = wf.status
    BY Zenon DEF IInv, Shape, Fields, ReserveReview, SameCounts, SamePlace
  <1>2. run.pc = "promise" /\ run'.pc = "handoff" /\ wf.status = "running"
    BY Zenon DEF IInv, Shape, ReserveReview, Goto, Handing
  <1>3. wf.phase = "successor_preparing"
    BY <1>2 DEF IInv, Places, PhaseAt, IsPaused
  <1>4. wf.thread # 0 /\ wf.exits < Recoveries /\ wf.chat < MaxChats
    BY <1>2, <1>3 DEF Bounds, Threaded, Room, Live
  <1> QED  BY <1>1, <1>2, <1>4
           DEF Bounds, Counters, Room, Threaded, SameCounts, SamePlace, Live

LEMMA TakeUpBounds == ASSUME IInv, Bounds, TakeUp PROVE Bounds'
  <1>1. wf' = wf /\ run'.pc = "handoff"
    BY Zenon DEF IInv, Shape, TakeUp, Goto
  <1> QED  BY <1>1, MovedBounds

LEMMA AskSuccessorBounds == ASSUME IInv, Bounds, AskSuccessor PROVE Bounds'
  <1>1. wf' = wf /\ (Goto("handed") \/ Goto("off"))
    BY Zenon DEF AskSuccessor
  <1>2. run'.pc \in {"handed", "off"}
    BY <1>1, Zenon DEF IInv, Shape, Goto
  <1> QED  BY <1>1, <1>2, MovedBounds

(* A resume, and a promotion: the record of a pause or a handoff is taken  *)
(* up with no attempt left.                                                *)
LEMMA ResumedBounds ==
  ASSUME IInv, Bounds, Live, wf.phase \in Successor \cup {"continuation_paused"},
         SameCounts, wf'.cycle = wf.cycle, wf'.thread = wf.thread,
         wf'.chat <= MaxChats, wf'.attempt = 0,
         wf'.phase \notin Accepted, run'.pc = "start"
  PROVE  Bounds'
  <1>1. wf.thread # 0 /\ wf.exits < Recoveries
    BY DEF Bounds, Threaded, Room
  <1> QED  BY <1>1 DEF Bounds, Counters, Room, Threaded, SameCounts

LEMMA PromotedBounds ==
  ASSUME IInv, Bounds, wf' = Promoted, Goto("start"), wf.attempt # 0,
         Handing \/ IsPaused
  PROVE  Bounds'
  <1>1. /\ SameCounts /\ wf'.cycle = wf.cycle /\ wf'.thread = wf.thread
    BY Zenon DEF IInv, Shape, Fields, Promoted, Resumed, SameCounts
  <1>2. wf'.attempt = 0 /\ wf'.chat = wf.chat + 1 /\ wf'.phase = "chatgpt_running"
    BY PromotedWrites DEF IInv, NextChat, Becomes
  <1>3. run'.pc = "start"
    BY Zenon DEF IInv, Shape, Goto
  <1>4. Live /\ wf.phase \in Successor \cup {"continuation_paused"}
    BY DEF Live, Handing, IsPaused
  <1>5. wf'.chat <= MaxChats
    <2>1. wf.chat < MaxChats
      BY <1>4 DEF Bounds, Room
    <2> QED  BY <1>2, <2>1, ConvergenceAssumption DEF IInv, Shape
  <1> QED  BY <1>1, <1>2, <1>3, <1>4, <1>5, ResumedBounds

LEMMA SuccessorEndsBounds == ASSUME IInv, Bounds, SuccessorEnds PROVE Bounds'
  <1>1. run.pc = "handed" /\ Handing
    BY DEF SuccessorEnds
  <1>2. wf.phase = "successor_reviewing" /\ wf.attempt # 0
    BY <1>1 DEF Handing, IInv, Places, PhaseAt, IsPaused, PlanInv, Planned
  <1>3. CASE wf' = Promoted /\ Goto("start")
    BY <1>1, <1>2, <1>3, PromotedBounds
  <1>4. CASE wf' = [wf EXCEPT !.attempt = 2] /\ Goto("handoff")
    <2>1. /\ SameCounts /\ SamePlace /\ wf'.attempt = 2
          /\ wf'.phase = wf.phase /\ wf'.status = wf.status
      BY <1>4, Zenon DEF IInv, Shape, Fields, SameCounts, SamePlace
    <2>2. run'.pc = "handoff"
      BY <1>4, Zenon DEF IInv, Shape, Goto
    <2>3. /\ Live /\ wf.thread # 0 /\ wf.exits < Recoveries /\ wf.chat < MaxChats
      BY <1>1, <1>2 DEF Bounds, Threaded, Room, Live, Handing
    <2> QED  BY <1>2, <2>1, <2>2, <2>3
             DEF Bounds, Counters, Room, Threaded, SameCounts, SamePlace
  <1>5. CASE Stop("successor_review_incomplete")
    BY <1>1, <1>5, StopBounds DEF Handing
  <1> QED  BY <1>3, <1>4, <1>5, Zenon DEF SuccessorEnds

LEMMA ResumeSameBounds == ASSUME IInv, Bounds, ResumeSame PROVE Bounds'
  <1>1. /\ SameCounts /\ SamePlace /\ wf'.attempt = wf.attempt
        /\ wf'.phase = "chatgpt_running"
    BY Zenon DEF IInv, Shape, Fields, ResumeSame, Resumed, SameCounts, SamePlace
  <1>2. run'.pc = "start" /\ IsPaused /\ wf.attempt = 0
    BY Zenon DEF IInv, Shape, ResumeSame, Goto
  <1>3. wf'.chat <= MaxChats
    BY <1>1 DEF Bounds, Counters, SamePlace
  <1> QED  BY <1>1, <1>2, <1>3, ResumedBounds DEF SamePlace, Live, IsPaused

LEMMA ResumePreparedBounds == ASSUME IInv, Bounds, ResumePrepared PROVE Bounds'
  <1>1. /\ SameCounts /\ SamePlace /\ wf'.attempt = wf.attempt
        /\ wf'.phase = "successor_preparing"
    BY Zenon DEF IInv, Shape, Fields, ResumePrepared, SameCounts, SamePlace
  <1>2. run'.pc = "start" /\ IsPaused /\ MayPrepare
    BY Zenon DEF IInv, Shape, ResumePrepared, Goto
  <1>3. wf'.chat <= MaxChats
    BY <1>1 DEF Bounds, Counters, SamePlace
  <1> QED  BY <1>1, <1>2, <1>3, ResumedBounds DEF SamePlace, Live, IsPaused,
           MayPrepare

LEMMA ResumePromotedBounds == ASSUME IInv, Bounds, ResumePromoted PROVE Bounds'
  BY PromotedBounds DEF ResumePromoted

LEMMA ResumeVerifiedBounds == ASSUME IInv, Bounds, ResumeVerified PROVE Bounds'
  <1>1. /\ SameCounts /\ wf'.cycle = wf.cycle /\ wf'.thread = wf.thread
        /\ wf'.attempt = wf.attempt /\ wf'.chat = NextChat
        /\ wf'.phase = "codex_captured"
    BY Zenon DEF IInv, Shape, Fields, ResumeVerified, Resumed, SameCounts
  <1>2. run'.pc = "start" /\ IsPaused /\ MayPrepare
    BY Zenon DEF IInv, Shape, ResumeVerified, Goto
  <1>3. wf'.chat <= MaxChats
    BY <1>1, <1>2, ConvergenceAssumption DEF MayPrepare, NextChat, IInv, Shape
  <1> QED  BY <1>1, <1>2, <1>3, ResumedBounds DEF Live, IsPaused, MayPrepare

LEMMA PrepareByHandBounds == ASSUME IInv, Bounds, PrepareByHand PROVE Bounds'
  <1>1. run'.pc = "blank" /\ IsPaused /\ wf' = Reserving
    BY Zenon DEF IInv, Shape, PrepareByHand
  <1> QED  BY <1>1, ReservingBounds

LEMMA CancelContinuationBounds ==
  ASSUME IInv, Bounds, CancelContinuation PROVE Bounds'
  <1>1. /\ SameCounts /\ SamePlace /\ wf'.attempt = wf.attempt
        /\ wf'.status = "cancelled"
    BY Zenon DEF IInv, Shape, Fields, CancelContinuation, SameCounts, SamePlace
  <1>2. run'.pc = IF run.pc = "handoff" THEN "handoff" ELSE "off"
    BY Zenon DEF IInv, Shape, CancelContinuation, Goto
  <1> QED  BY <1>1, <1>2, SteadyBounds DEF Live, IsPaused

LEMMA CancelBounds == ASSUME IInv, Bounds, Cancel PROVE Bounds'
  <1>1. /\ SameCounts /\ SamePlace /\ wf'.attempt = wf.attempt
        /\ wf'.status = "human_required" /\ wf'.phase = wf.phase
    BY Zenon DEF IInv, Shape, Fields, Cancel, SameCounts, SamePlace
  <1>2. run'.pc = "off" /\ wf.status = "running"
    BY Zenon DEF IInv, Shape, Cancel, Goto
  <1>3. wf.phase # "continuation_paused"
    BY <1>2 DEF IInv, Places
  <1> QED  BY <1>1, <1>2, <1>3, SteadyBounds DEF Live, IsPaused

LEMMA AbandonBounds == ASSUME IInv, Bounds, Abandon PROVE Bounds'
  <1>1. /\ SameCounts /\ SamePlace /\ wf'.attempt = wf.attempt
        /\ wf'.status = "cancelled"
    BY Zenon DEF IInv, Shape, Fields, Abandon, SameCounts, SamePlace
  <1>2. run'.pc = "off"
    BY Zenon DEF IInv, Shape, Abandon, Goto
  <1> QED  BY <1>1, <1>2, SteadyBounds DEF Live, IsPaused

-----------------------------------------------------------------------------
(* The death of the broker, and what others do.                            *)
LEMMA WorldBounds ==
  ASSUME Bounds, World \/ Crash \/ CancelSuccessor \/ UNCHANGED vars
  PROVE  Bounds'
  <1>1. wf' = wf /\ (run' = run \/ run'.pc = "down")
    <2>1. CASE World
      BY <2>1, Zenon DEF World, TurnEnds, Send, ReviewEnds, Reconcile
    <2>2. CASE Crash
      BY <2>2, Zenon DEF Crash
    <2>3. CASE CancelSuccessor \/ UNCHANGED vars
      BY <2>3 DEF CancelSuccessor, vars
    <2> QED  BY <2>1, <2>2, <2>3
  <1>2. Live' = Live
    BY <1>1 DEF Live, IsPaused
  <1> QED  BY <1>1, <1>2 DEF Bounds, Counters, Room, Threaded

LEMMA RestartBounds == ASSUME IInv, Bounds, Restart PROVE Bounds'
  <1>1. CASE wf' = wf /\ (Goto("off") \/ Goto("start"))
    <2>1. run'.pc \in {"off", "start"}
      BY <1>1, Zenon DEF IInv, Shape, Goto
    <2> QED  BY <1>1, <2>1, MovedBounds
  <1>2. CASE /\ wf' = [wf EXCEPT !.status = "human_required",
                         !.reason = "broker_restarted_during_convergence"]
             /\ Goto("off") /\ wf.status = "running"
    <2>1. /\ SameCounts /\ SamePlace /\ wf'.attempt = wf.attempt
          /\ wf'.status = "human_required" /\ wf'.phase = wf.phase
      BY <1>2, Zenon DEF IInv, Shape, Fields, SameCounts, SamePlace
    <2>2. run'.pc = "off"
      BY <1>2, Zenon DEF IInv, Shape, Goto
    <2>3. wf.phase # "continuation_paused"
      BY <1>2 DEF IInv, Places
    <2> QED  BY <2>1, <2>2, <2>3, SteadyBounds DEF Live, IsPaused
  <1> QED  BY <1>1, <1>2, Zenon DEF Restart

LEMMA LeftCounts ==
  ASSUME NEW start \in {"new", "retried", "spent", "manual", "doubted",
                        "captured", "carried", "reviewed", "reused", "lost"}
  PROVE  /\ Left(start).rotations = 0 /\ Left(start).inspections = 0
         /\ Left(start).corrections = 0
         /\ Left(start).exits = IF start = "retried" THEN Recoveries - 1 ELSE 0
         /\ \/ Left(start).thread = 1
            \/ Left(start).thread = 0 /\ Left(start).phase = "created"
         /\ start \in {"new", "retried", "captured", "lost"} =>
              Left(start).cycle \in {0, 1}
  <1>1. CASE start = "new"
    BY <1>1, Zenon DEF Left, Fresh
  <1>2. CASE start = "retried"
    BY <1>2, Zenon DEF Left, Fresh, Retried
  <1>3. CASE start \in {"spent", "manual", "doubted"}
    BY <1>3, Zenon DEF Left, Fresh, Spent
  <1>4. CASE start \in {"captured", "lost"}
    BY <1>4, Zenon DEF Left, Fresh, Kept
  <1>5. CASE start \in {"carried", "reviewed"}
    BY <1>5, Zenon DEF Left, Fresh, Kept, Carried
  <1>6. CASE start = "reused"
    BY <1>6, Zenon DEF Left, Fresh, Kept
  <1> QED  BY <1>1, <1>2, <1>3, <1>4, <1>5, <1>6, Zenon

LEMMA InitBounds == Init => Bounds
  <1> SUFFICES ASSUME Init PROVE Bounds
    OBVIOUS
  <1> DEFINE start == left.start
  <1>1. /\ left \in Worlds
        /\ start \in {"new", "retried", "spent", "manual", "doubted", "captured",
                      "carried", "reviewed", "reused", "lost"}
    BY ConvergenceAssumption DEF Init
  <1>2. MaxCycles = 1 => start \in {"new", "retried", "captured", "lost"}
    BY <1>1, ConvergenceAssumption
  <1>3. wf = Left(start) /\ run.pc = "start"
    BY DEF Init
  <1> HIDE DEF start
  <1>4. /\ wf.rotations = 0 /\ wf.inspections = 0 /\ wf.corrections = 0
        /\ wf.exits = IF start = "retried" THEN Recoveries - 1 ELSE 0
        /\ wf.thread = 1 \/ (wf.thread = 0 /\ wf.phase = "created")
        /\ start \in {"new", "retried", "captured", "lost"} => wf.cycle \in {0, 1}
    BY <1>1, <1>3, LeftCounts
  <1>5. wf.cycle \in {0, 1, 2}
    BY <1>1, <1>3, LeftThreads
  <1>6. /\ wf.rotation = 0 /\ wf.attempt = 0 /\ wf.chat = 0
    BY <1>1, <1>3, LeftShape
  <1>7. /\ MaxCycles \in Nat \ {0} /\ Recoveries \in Nat \ {0}
        /\ Retries \in Nat \ {0} /\ MaxChats \in Nat
    BY ConvergenceAssumption
  <1>8. wf.cycle <= MaxCycles
    BY <1>2, <1>4, <1>5, <1>7
  <1>9. wf.exits \in 0..Recoveries /\ wf.exits < Recoveries
    BY <1>4, <1>7
  <1>10. 0 \in 0..(Retries - 1) /\ 0 <= MaxChats
    BY <1>7
  <1> QED  BY <1>3, <1>4, <1>6, <1>8, <1>9, <1>10 DEF Bounds, Counters, Room, Threaded

LEMMA StepBounds == IInv /\ Bounds /\ [Next]_vars => Bounds'
  <1> SUFFICES ASSUME IInv, Bounds, [Next]_vars PROVE Bounds'
    OBVIOUS
  <1>1. CASE Runner
    BY <1>1, RepairRotationBounds, RefuseStateBounds, BeginBounds,
       LaunchFoundBounds, LaunchAmbiguousBounds, TakeStoredResultBounds,
       ExceededBounds, AskFailsBounds, AskTurnBounds, OpenThreadBounds,
       LoopBounds, NextCycleBounds, RotateBounds, IntendBounds, DispatchBounds,
       IdentifyBounds, TurnWaitsBounds, CountExitBounds, RecoverTurnBounds,
       TakeResultBounds, AskReviewBounds, LinkBounds, CaptureReviewBounds,
       JudgeBounds, PendSuccessorBounds, ReviewFailsBounds
    DEF Runner
  <1>2. CASE Handoff
    BY <1>2, ReserveBounds, MakeBlankBounds, CommitBlankBounds,
       ReserveReviewBounds, TakeUpBounds, AskSuccessorBounds,
       SuccessorEndsBounds, WorldBounds
    DEF Handoff
  <1>3. CASE Person
    BY <1>3, ResumeSameBounds, ResumePreparedBounds, ResumePromotedBounds,
       ResumeVerifiedBounds, PrepareByHandBounds, CancelContinuationBounds,
       CancelBounds, AbandonBounds
    DEF Person
  <1>4. CASE World \/ Crash \/ UNCHANGED vars
    BY <1>4, WorldBounds
  <1>5. CASE Restart
    BY <1>5, RestartBounds
  <1> QED  BY <1>1, <1>2, <1>3, <1>4, <1>5 DEF Next

LEMMA RecordStaysOK == IInv /\ Bounds => RecordOK
  <1> SUFFICES ASSUME IInv, Bounds PROVE RecordOK
    OBVIOUS
  <1>1. /\ MaxCycles \in Nat /\ Recoveries \in Nat /\ Retries \in Nat
        /\ MaxChats \in Nat
    BY ConvergenceAssumption
  <1>2. wf.inspections < Retries /\ wf.corrections < Retries
    BY <1>1 DEF Bounds, Counters
  <1>3. wf.cycle \in 0..MaxCycles /\ wf.chat \in 0..MaxChats
    <2>1. wf.cycle \in Nat /\ wf.chat \in Nat
      BY DEF IInv, Shape
    <2>2. wf.cycle <= MaxCycles /\ wf.chat <= MaxChats
      BY DEF Bounds, Counters
    <2> QED  BY <1>1, <2>1, <2>2
  <1>4. wf.status \in {"running", "human_required", "succeeded", "cancelled"}
    BY DEF IInv, Shape
  <1>5. wf.attempt \in 0..2
    BY DEF IInv, Shape
  <1> QED  BY <1>2, <1>3, <1>4, <1>5 DEF Bounds, Counters, RecordOK

(* StateValid: over any exits, corrections, rotations, resumes and         *)
(* restarts the record keeps its bounds, and what its parts say of the     *)
(* turn, the launch, the stored result, the rotation and the successor     *)
(* agrees (broker.mjs, #runConvergence).                                   *)
THEOREM StateValidHolds == Spec => []StateValid
  <1>1. IInv /\ Bounds => StateValid
    <2> SUFFICES ASSUME IInv, Bounds PROVE StateValid
      OBVIOUS
    <2>1. ASSUME wf.status = "running"
          PROVE  /\ wf.launch # 0 => wf.phase = "codex_launching" /\ wf.turn = 0
                 /\ wf.phase \in Accepted =>
                      wf.turn # 0 /\ turns[wf.turn].thread = wf.thread
                 /\ wf.result # 0 => wf.result = wf.turn /\ wf.phase \in Accepted
      BY <2>1 DEF IInv, TurnInv, Named, PhaseKnows, Completed
    <2>2. ASSUME wf.status = "running"
          PROVE  /\ wf.rotation # 0 => wf.turn = 0
                 /\ wf.phase \in Reviewing => wf.record.cycle = wf.cycle
      BY <2>2 DEF IInv, Rotates, ReviewInv, Recorded, UnderReview
    <2>3. ASSUME wf.status = "running"
          PROVE  /\ wf.blank # "none" => wf.phase \in Successor
                 /\ wf.attempt # 0 <=> wf.phase = "successor_reviewing"
      BY <2>3 DEF IInv, PlanInv, Planned, Handing, IsPaused
    <2> QED  BY <2>1, <2>2, <2>3, RecordStaysOK DEF StateValid
  <1>2. Init => IInv /\ Bounds
    BY InitInv, InitBounds
  <1>3. (IInv /\ Bounds) /\ [Next]_vars => (IInv /\ Bounds)'
    BY StepKeeps, StepBounds
  <1> QED  BY <1>1, <1>2, <1>3, PTL DEF Spec
=============================================================================
