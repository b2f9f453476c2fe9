---------------------------- MODULE EagleMonitor ----------------------------
(***************************************************************************)
(* The Eagle Monitor daemon (eagle-monitor-engine.mjs and the files it     *)
(* calls): it polls one workflow of the broker, starts a broker that is    *)
(* proved dead, asks for a read-only reconciliation, and alerts a person.  *)
(* launchd restarts it whenever it ends.                                   *)
(*                                                                         *)
(* Instants are kept as distances from now, in units longer than a tick:   *)
(* ages that stop at the bound they are compared with, and countdowns that *)
(* stop at zero.  A tick reads at its start the clock it uses throughout.  *)
(***************************************************************************)
EXTENDS Integers, Sequences, FiniteSets, SequencesExt

CONSTANTS
  Worlds,        \* what the broker, the workflow and its progress may look like
  StartLimit,    \* crashLoop.limit
  StartWindow,   \* crashLoop.windowMs
  DeadConfirm,   \* deadConfirmationMs
  AlertAfter,    \* brokerUnavailableAlertMs
  Retry,         \* notificationRetryMs
  Repeat,        \* notificationRepeatMs
  RepeatMax,     \* notificationRepeatMaxMs
  BacklogLimit,  \* notificationBacklogLimit
  Bounds         \* bounds: starts of a session by the command line, changes
                 \* of the world, and faults, which are deaths of the daemon,
                 \* refused alerts and failed starts

ASSUME BoundsAssumption ==
  /\ {StartLimit, StartWindow, DeadConfirm, AlertAfter, Retry, Repeat,
      RepeatMax, BacklogLimit} \subseteq Nat
  /\ Bounds \subseteq [sessions : Nat, changes : Nat, faults : Nat]
  /\ StartLimit > 0 /\ Repeat > 0 /\ Repeat <= RepeatMax

VARIABLES
  world,    \* [broker, wf, stale]: what there is to observe
  epoch,    \* the broker's generation
  session,  \* durable: [active, mode, id], and the count of starts
  st,       \* durable: the monitor's state
  lock,     \* durable: monitor.lock
  pc,       \* where the daemon is
  fresh,    \* the process has not completed a tick
  polled,   \* it waits for its next observation
  tick,     \* what the running tick has decided
  mem,      \* the state it is building
  spawned,  \* history: ages of the brokers it started
  turns, faults,
  bound     \* the bounds of this behaviour

vars == <<world, epoch, session, st, lock, pc, fresh, polled, tick, mem,
          spawned, turns, faults, bound>>
env  == <<world, epoch, turns, bound>>
life == <<session, lock, fresh, polled>>

None == -1
Lesser(a, b) == IF a <= b THEN a ELSE b

(* The elements of s that are in S, in their order (SelectSeq takes a        *)
(* predicate, which the proofs cannot expand).                               *)
Only(s, S) ==
  LET f[i \in 0..Len(s)] ==
        IF i = 0 THEN <<>> ELSE IF s[i] \in S THEN Append(f[i - 1], s[i]) ELSE f[i - 1]
  IN  f[Len(s)]

-----------------------------------------------------------------------------
(* Classification and the action it allows. *)

Class(s, r, h) == [state |-> s, reason |-> r, human |-> h]

(* What a reachable broker says of the workflow. *)
Situation ==
  [ progressing |-> Class("healthy", "workflow_progressing", FALSE),
    capturing   |-> Class("send_confirmed_capture", "read_only_capture", FALSE),
    overdue     |-> Class("send_confirmed_capture", "capture_stalled", TRUE),
    stuck       |-> Class("stalled_before_send", "pre_send_stalled", FALSE),
    escalated   |-> Class("stalled_before_send", "pre_send_escalated", TRUE),
    unconfirmed |-> Class("ambiguous", "delivery_reconciling", FALSE),
    ambiguous   |-> Class("ambiguous", "send_confirmation_ambiguous", TRUE),
    stopped     |-> Class("human_required_other", "workflow_failed", TRUE),
    challenged  |-> Class("auth_challenge", "authentication_required", TRUE),
    settled     |-> Class("settled", "workflow_settled", FALSE) ]

ASSUME WorldsAssumption ==
  Worlds \subseteq [broker : {"up", "dead", "unclear"}, wf : DOMAIN Situation,
                    stale : BOOLEAN]

Terminal   == {"ambiguous", "stopped", "challenged", "settled"}
Unresolved == Class("human_required_other", "reconciliation_unresolved", TRUE)
Failed     == [start |-> "start_failed", attach |-> "attach_failed",
               reconcile |-> "reconcile_failed"]
Failure(a) == Class("human_required_other", Failed[a], TRUE)

Classify(wake, looping, expired) ==
  CASE wake                    -> Class("power_sleep", "revalidation", FALSE)
    [] ~wake /\ looping        -> Class("crash_loop", "broker_crash_loop", TRUE)
    [] ~wake /\ ~looping /\ world.broker = "dead" ->
         Class("startup", "broker_dead", FALSE)
    [] ~wake /\ ~looping /\ world.broker = "unclear" ->
         IF expired THEN Class("human_required_other", "ipc_unavailable", TRUE)
                    ELSE Class("startup", "liveness_ambiguous", FALSE)
    [] OTHER                   -> Situation[world.wf]

(* A terminal exchange is reconciled, a running convergence reattached. *)
Choose(c, confirmed) ==
  CASE c.state = "startup" ->
         IF world.broker = "dead" /\ confirmed THEN "start" ELSE "observe"
    [] c.state = "ambiguous" ->
         IF world.wf = "ambiguous" THEN "reconcile" ELSE "attach"
    [] c.state \notin {"startup", "ambiguous"} /\ c.human -> "notify"
    [] c.state \in {"healthy", "stalled_before_send", "send_confirmed_capture"}
         /\ ~c.human -> "attach"
    [] OTHER -> "observe"

AttachAndNotify == {"observe", "attach", "notify"}
Watch           == {"observe", "notify"}

Allowed ==
  [ ambiguous              |-> AttachAndNotify \cup {"reconcile"},
    send_confirmed_capture |-> AttachAndNotify \cup {"reconcile"},
    healthy                |-> AttachAndNotify,
    stalled_before_send    |-> AttachAndNotify,
    crash_loop             |-> Watch,
    auth_challenge         |-> Watch,
    human_required_other   |-> Watch,
    startup                |-> {"observe", "start"},
    power_sleep            |-> {"observe"},
    settled                |-> {"observe"} ]

-----------------------------------------------------------------------------
(* The reports. *)

Key(c, e, snap, sem) == [reason |-> c.reason, state |-> c.state,
                         epoch |-> e, snap |-> snap, sem |-> sem]
Report(k) == [key |-> k, outcome |-> "pending", tried |-> FALSE,
              retryIn |-> None, repeatIn |-> None, count |-> 0]
NoNote   == Report(Key(Class("healthy", "none", FALSE), None, <<>>, <<>>))
Overflow == Report(Key(Class("human_required_other", "backlog_overflow", TRUE),
                       None, <<>>, <<>>))

Open(n)  == n # NoNote /\ n.outcome # "accepted"
Keys(s)  == {n.key : n \in {s.note} \cup ToSet(s.backlog)}
Opened(s) == {n \in {s.note} \cup ToSet(s.backlog) : Open(n)}

(* Mutant: an open report is replaced without being retained. *)
RetainedNot(s) == s.backlog

(* A report still open when another takes its place. *)
Retained(s) ==
  LET n == s.note  b == s.backlog
  IN  IF ~Open(n) \/ \E i \in DOMAIN b : b[i].key = n.key THEN b
      ELSE IF Len(b) < BacklogLimit THEN Append(b, n)
      ELSE IF \E i \in DOMAIN b : b[i].key = Overflow.key THEN b
      ELSE Append(b, Overflow)

(* Mutant: the returning incident is left in the backlog as well. *)
PlacedTwice(s, k) ==
  IF s.note.key = k THEN s
  ELSE LET b    == Retained(s)
           back == {n \in ToSet(b) : n.key = k}
       IN  [s EXCEPT !.note = IF back = {} THEN Report(k) ELSE CHOOSE n \in back : TRUE,
                     !.backlog = b]

(* The incident k becomes the current report; one that returns keeps its receipt. *)
Placed(s, k) ==
  IF s.note.key = k THEN s
  ELSE LET b    == Retained(s)
           back == {n \in ToSet(b) : n.key = k}
       IN  [s EXCEPT !.note = IF back = {} THEN Report(k) ELSE CHOOSE n \in back : TRUE,
                     !.backlog = Only(b, {n \in ToSet(b) : n.key # k})]

(* Already reported and not due again, or refused lately. *)
Skipped(n) == IF n.outcome = "accepted" THEN n.repeatIn # 0 ELSE n.retryIn > 0

RepeatDelay(c) == Lesser(Repeat * 2 ^ c, RepeatMax)
CountCap == CHOOSE c \in 0..RepeatMax : RepeatDelay(c) = RepeatMax

Dispatched(n) ==
  [n EXCEPT !.outcome = "dispatching", !.tried = TRUE, !.retryIn = Retry,
            !.repeatIn = None,
            !.count = IF n.outcome = "accepted" THEN Lesser(@ + 1, CountCap) ELSE @]
Accepted(n) == [n EXCEPT !.outcome = "accepted", !.retryIn = None,
                         !.repeatIn = RepeatDelay(n.count)]
Refused(n)  == [n EXCEPT !.outcome = "failed"]

(* The report a submission is about: the current one, or the rotated one. *)
At(s, w) == IF w = "note" THEN s.note ELSE Last(s.backlog)
Put(s, w, n) == IF w = "note" THEN [s EXCEPT !.note = n]
                ELSE [s EXCEPT !.backlog[Len(s.backlog)] = n]

-----------------------------------------------------------------------------
(* The durable state. *)

NoOutage == [epoch |-> None, for |-> None]
Blank(id) == [sid |-> id, starts |-> <<>>, deadFor |-> None, outage |-> NoOutage,
              note |-> NoNote, backlog |-> <<>>, told |-> {}, recon |-> <<>>,
              ticked |-> FALSE]

(* Another session starts from nothing but the broker starts and the incidents. *)
Resumed == IF st.sid = session.id THEN st
           ELSE [Blank(session.id) EXCEPT !.starts = st.starts, !.told = st.told]

Recent(starts) == Only(starts, 0..StartWindow)
DeadFor(s) == IF world.broker # "dead" THEN None
              ELSE IF s.deadFor = None THEN 0 ELSE s.deadFor

(* Mutant: an unknown owner counts as another owner. *)
OutageForgets(s, e) ==
  IF world.broker # "unclear" THEN NoOutage
  ELSE [epoch |-> e, for |-> IF s.outage.for # None /\ s.outage.epoch = e
                             THEN s.outage.for ELSE 0]

(* A lease that cannot be read for a while (e = None) keeps the known owner. *)
Outage(s, e) ==
  IF world.broker # "unclear" THEN NoOutage
  ELSE LET owner == IF e = None THEN s.outage.epoch ELSE e
           same  == s.outage.for # None /\ s.outage.epoch \in {None, owner}
       IN  [epoch |-> owner, for |-> IF same THEN s.outage.for ELSE 0]

Snapshot == IF world.broker = "up" /\ world.wf \in Terminal
            THEN <<epoch, world.wf>> ELSE <<>>

Aged(s) ==
  LET older(n) == [n EXCEPT !.retryIn  = IF @ > 0 THEN @ - 1 ELSE @,
                            !.repeatIn = IF @ > 0 THEN @ - 1 ELSE @]
      up(a, m) == IF a = None THEN a ELSE Lesser(a + 1, m)
  IN  [s EXCEPT !.starts = [i \in DOMAIN @ |-> up(@[i], StartWindow + 1)],
                !.deadFor = up(@, DeadConfirm),
                !.outage.for = up(@, AlertAfter),
                !.note = older(@),
                !.backlog = [i \in DOMAIN @ |-> older(@[i])]]

NoTick == [cls |-> Class("startup", "none", FALSE), act |-> "observe", must |-> FALSE,
           snap |-> <<>>, epoch |-> None, stale |-> FALSE, starts |-> <<>>,
           deadFor |-> None, where |-> "note", next |-> "finish"]

-----------------------------------------------------------------------------
Init ==
  /\ world \in Worlds /\ epoch = 1
  /\ \E m \in {"shadow", "safe"} : session = [active |-> TRUE, mode |-> m, id |-> 1, start |-> 1]
  /\ st = Blank(1) /\ lock = "none" /\ pc = "down"
  /\ fresh = TRUE /\ polled = FALSE /\ tick = NoTick /\ mem = Blank(0)
  /\ spawned = <<>> /\ turns = 0 /\ faults = 0 /\ bound \in Bounds

(* The world changes: another broker generation only after a death. *)
Change ==
  /\ turns < bound.changes /\ turns' = turns + 1
  /\ \E w \in Worlds \ {world} :
       /\ world' = w
       /\ epoch' = IF world.broker = "dead" /\ w.broker # "dead" THEN epoch + 1 ELSE epoch
  /\ UNCHANGED <<session, st, lock, pc, fresh, polled, tick, mem, spawned, faults,
                 bound>>

Pass ==
  /\ pc = "down" \/ (pc = "idle" /\ polled)
  /\ polled' = FALSE
  /\ st' = Aged(st)
  /\ spawned' = Recent([i \in DOMAIN spawned |-> spawned[i] + 1])
  /\ UNCHANGED <<env, session, lock, pc, fresh, tick, mem, faults>>

-----------------------------------------------------------------------------
(* The command line and the life of the daemon. *)

Gone == /\ pc' = "down" /\ mem' = Blank(0) /\ tick' = NoTick /\ polled' = FALSE

(* The configuration that was stopped, or another. *)
Configured(m) ==
  {[active |-> TRUE, mode |-> m, id |-> i, start |-> session.start + 1] :
     i \in {session.id + 1} \cup (IF m = session.mode THEN {session.id} ELSE {})}
Stopped == [session EXCEPT !.active = FALSE]

(* `start` reads the lease, and refuses to go on over one it cannot read. *)
CliStart(mode) ==
  /\ ~session.active /\ session.start < bound.sessions /\ lock # "empty"
  /\ session' \in Configured(mode)
  /\ UNCHANGED <<env, st, lock, pc, fresh, polled, tick, mem, spawned, faults>>

(* `stop`: a daemon past the claim of its lease leaves at the signal and releases it. *)
CliStop ==
  /\ session.active
  /\ session' = Stopped
  /\ lock' = IF pc \in {"down", "opened"} THEN lock ELSE "none"
  /\ Gone
  /\ UNCHANGED <<env, st, fresh, spawned, faults>>

(* The lock is opened exclusively, before its first bytes are written; one a  *)
(* dead process left is retired first, one that cannot be parsed is respected. *)
OpenLock ==
  /\ pc = "down" /\ session.active /\ lock # "empty"
  /\ lock' = "empty" /\ pc' = "opened" /\ fresh' = TRUE
  /\ UNCHANGED <<env, session, st, polled, tick, mem, spawned, faults>>

Claim ==
  /\ pc = "opened"
  /\ lock' = "active" /\ pc' = "idle"
  /\ UNCHANGED <<env, session, st, fresh, polled, tick, mem, spawned, faults>>

(* Killed with the lock held, or ended by an error of its tick. *)
Die ==
  /\ pc # "down" /\ faults < bound.faults /\ faults' = faults + 1
  /\ lock' \in IF pc = "opened" THEN {lock} ELSE {lock, "none"}
  /\ Gone
  /\ UNCHANGED <<env, session, st, fresh, spawned>>

-----------------------------------------------------------------------------
(* One tick. *)

Observe ==
  /\ pc = "idle" /\ ~polled /\ session.active
  /\ \E e \in IF world.broker = "unclear" THEN {None, epoch} ELSE {epoch} :
       LET s      == Resumed
           starts == Recent(s.starts)
           out    == Outage(s, e)
           recon  == IF s.recon = Snapshot THEN s.recon ELSE <<>>
           cls    == IF recon # <<>> THEN Unresolved
                     ELSE Classify(fresh /\ s.ticked, Len(starts) >= StartLimit,
                                   out.for >= AlertAfter)
           act    == Choose(cls, DeadFor(s) >= DeadConfirm)
       IN  /\ mem' = [s EXCEPT !.outage = out, !.recon = recon]
           /\ tick' = [NoTick EXCEPT
                !.cls = cls, !.act = act, !.must = act = "notify", !.snap = Snapshot,
                !.epoch = IF out.epoch # None THEN out.epoch ELSE e,
                !.stale = world.stale, !.starts = starts, !.deadFor = DeadFor(s)]
  /\ pc' = IF session.mode = "safe" THEN "observed" ELSE "finish"
  /\ UNCHANGED <<env, life, st, spawned, faults>>

Fail == tick' = [tick EXCEPT !.cls = Failure(tick.act), !.must = TRUE]

(* Mutant: the start is only kept in memory until the tick ends. *)
RecordStartLater ==
  /\ pc = "observed" /\ tick.act = "start"
  /\ tick' = [tick EXCEPT !.starts = Append(@, 0)]
  /\ mem' = [mem EXCEPT !.starts = tick'.starts]
  /\ pc' = "starting"
  /\ UNCHANGED <<env, life, st, spawned, faults>>

(* The start is written down before it is made. *)
RecordStart ==
  /\ pc = "observed" /\ tick.act = "start"
  /\ tick' = [tick EXCEPT !.starts = Append(@, 0)]
  /\ mem' = [mem EXCEPT !.starts = tick'.starts]
  /\ st' = mem' /\ pc' = "starting"
  /\ UNCHANGED <<env, life, spawned, faults>>

(* The lease is read again right before the broker is spawned. *)
StartAllowed == world.broker = "dead"

StartBroker ==
  /\ pc = "starting" /\ pc' = "report"
  /\ \/ /\ StartAllowed
        /\ spawned' = Append(spawned, 0)
        /\ \/ /\ world' = [world EXCEPT !.broker = "up"]
              /\ epoch' = epoch + 1
              /\ UNCHANGED <<tick, faults>>
           \/ /\ faults < bound.faults /\ faults' = faults + 1
              /\ Fail
              /\ UNCHANGED <<world, epoch>>
     \/ /\ ~StartAllowed
        /\ Fail
        /\ UNCHANGED <<world, epoch, spawned, faults>>
  /\ UNCHANGED <<turns, bound, life, st, mem>>

Attach ==
  /\ pc = "observed" /\ tick.act = "attach" /\ pc' = "report"
  /\ IF world.broker = "up" THEN UNCHANGED tick ELSE Fail
  /\ UNCHANGED <<env, life, st, mem, spawned, faults>>

RecordReconcile ==
  /\ pc = "observed" /\ tick.act = "reconcile"
  /\ st' = mem /\ pc' = "reconciling"
  /\ UNCHANGED <<env, life, tick, mem, spawned, faults>>

Reconcile ==
  /\ pc = "reconciling" /\ pc' = "report"
  /\ IF world.broker = "up" /\ world.wf \in Terminal
     THEN /\ mem' = [mem EXCEPT !.recon = tick.snap]
          /\ tick' = [tick EXCEPT !.cls = Unresolved, !.must = TRUE]
     ELSE Fail /\ UNCHANGED mem
  /\ UNCHANGED <<env, life, st, spawned, faults>>

Watches ==
  /\ pc = "observed" /\ tick.act \in {"observe", "notify"} /\ pc' = "report"
  /\ UNCHANGED <<env, life, st, tick, mem, spawned, faults>>

(* A report of s is submitted unless it may wait; its intent is written first. *)
Submit(s, w, next) ==
  IF Skipped(At(s, w))
  THEN mem' = s /\ pc' = next /\ UNCHANGED <<st, tick>>
  ELSE /\ mem' = Put(s, w, Dispatched(At(s, w)))
       /\ st' = mem' /\ pc' = "calling"
       /\ tick' = [tick EXCEPT !.where = w, !.next = next]

Quiet == {"healthy", "settled"}

ReportIncident ==
  /\ pc = "report"
  /\ \/ /\ tick.must /\ tick.cls.human
        /\ Submit(Placed(mem, Key(tick.cls, tick.epoch, tick.snap, <<>>)), "note", "semantic")
     \/ /\ ~(tick.must /\ tick.cls.human) /\ Open(mem.note)
        /\ Submit(mem, "note", "semantic")
     \/ /\ ~(tick.must /\ tick.cls.human) /\ ~Open(mem.note)
        /\ mem' = IF tick.cls.state \in Quiet THEN [mem EXCEPT !.note = NoNote] ELSE mem
        /\ pc' = "semantic" /\ UNCHANGED <<st, tick>>
  /\ UNCHANGED <<env, life, spawned, faults>>

(* Stagnation of a workflow that looks well, once for each incident key. *)
Stagnant == tick.stale /\ tick.cls.state \in {"healthy", "send_confirmed_capture"}

ReportStagnation ==
  /\ pc = "semantic"
  /\ IF Stagnant /\ tick.epoch \notin mem.told
     THEN Submit(Placed(mem, Key(Class(tick.cls.state, "semantic_stagnant", TRUE),
                                 tick.epoch, tick.snap, <<tick.epoch>>)),
                 "note", "backlog")
     ELSE pc' = "backlog" /\ UNCHANGED <<st, tick, mem>>
  /\ UNCHANGED <<env, life, spawned, faults>>

(* At most one retained report each tick, moved behind the others first. *)
ReportBacklog ==
  LET due == {i \in DOMAIN mem.backlog : Open(mem.backlog[i]) /\ mem.backlog[i].retryIn <= 0}
  IN  /\ pc = "backlog"
      /\ IF due = {} THEN pc' = "finish" /\ UNCHANGED <<st, tick, mem>>
         ELSE LET i == CHOOSE j \in due : \A k \in due : j <= k
              IN  Submit([mem EXCEPT !.backlog = Append(RemoveAt(@, i), @[i])],
                         "backlog", "finish")
      /\ UNCHANGED <<env, life, spawned, faults>>

Answer ==
  /\ pc = "calling" /\ pc' = "answered"
  /\ \/ /\ mem' = Put(mem, tick.where, Accepted(At(mem, tick.where)))
        /\ UNCHANGED faults
     \/ /\ faults < bound.faults /\ faults' = faults + 1
        /\ mem' = Put(mem, tick.where, Refused(At(mem, tick.where)))
  /\ UNCHANGED <<env, life, st, tick, spawned>>

StoreAnswer ==
  /\ pc = "answered" /\ st' = mem /\ pc' = tick.next
  /\ UNCHANGED <<env, life, tick, mem, spawned, faults>>

Finish ==
  /\ pc = "finish" /\ pc' = "idle" /\ polled' = TRUE /\ fresh' = FALSE
  /\ st' = [mem EXCEPT
              !.backlog = IF session.mode = "safe" THEN Only(@, Opened(mem)) ELSE @,
              !.told = IF Stagnant THEN @ \cup {tick.epoch} ELSE @,
              !.starts = tick.starts, !.deadFor = tick.deadFor, !.ticked = TRUE]
  /\ mem' = Blank(0) /\ tick' = NoTick
  /\ UNCHANGED <<env, session, lock, spawned, faults>>

Daemon ==
  \/ OpenLock \/ Claim \/ Observe \/ RecordStart \/ StartBroker \/ Attach
  \/ RecordReconcile \/ Reconcile \/ Watches \/ ReportIncident
  \/ ReportStagnation \/ ReportBacklog \/ Answer \/ StoreAnswer \/ Finish

Next ==
  \/ Daemon \/ Pass \/ Change \/ Die \/ CliStop
  \/ \E m \in {"shadow", "safe"} : CliStart(m)

(* launchd restarts the daemon, the daemon goes on and time passes; nothing    *)
(* is assumed of the world, of the faults or of the user.                      *)
Spec == Init /\ [][Next]_vars /\ WF_vars(Daemon) /\ WF_vars(Pass)

-----------------------------------------------------------------------------
(* Properties. *)

ReportValid(n) ==
  /\ "notify" \in Allowed[n.key.state]
  /\ CASE n.outcome = "pending"  -> ~n.tried /\ n.retryIn = None
       [] n.outcome = "accepted" -> n.tried /\ n.retryIn = None
       [] OTHER                  -> n.tried /\ n.retryIn # None

(* What assertState demands of the file the next tick has to read back. *)
Valid(s) ==
  /\ ReportValid(s.note)
  /\ \A i \in DOMAIN s.backlog :
       /\ ReportValid(s.backlog[i]) /\ s.backlog[i].key # s.note.key
       /\ \A j \in DOMAIN s.backlog : s.backlog[i].key = s.backlog[j].key => i = j
  /\ Len(s.backlog) <= BacklogLimit + 1
  /\ Len(s.backlog) > BacklogLimit => Overflow.key \in Keys(s)
  /\ Len(s.starts) <= StartLimit

(* After every sequence of polls, deaths, refusals and sessions, the stored    *)
(* state is one the next tick accepts, and no tick picks an action or an alert *)
(* its own policy forbids: either would end this tick and every later one.     *)
StateValid ==
  /\ Valid(st)
  /\ pc = "observed" => tick.act \in Allowed[tick.cls.state]
  /\ pc \in {"calling", "answered"} =>
       "notify" \in Allowed[At(mem, tick.where).key.state]

(* Never more than the limit of broker starts in a window, whatever deaths of  *)
(* the monitor come between recording, starting and reporting, and whatever    *)
(* sessions are stopped and configured meanwhile.                              *)
StartsBounded == Len(Recent(spawned)) <= StartLimit

(* A summary that was accepted and still stands in the backlog of the file, as *)
(* a death before the end of the tick leaves it.                               *)
Spent(s) == \E n \in ToSet(s.backlog) : n.key = Overflow.key /\ ~Open(n)

(* A report once written down stays until it is accepted; one that finds the   *)
(* backlog full is covered by the summary.  Only another session forgets it,   *)
(* and an accepted summary that a death left in the file: the report that      *)
(* is displaced next is taken as covered by it.                                *)
NothingDropped ==
  [][\A n \in Opened(st) : \/ {n.key, Overflow.key} \cap Keys(st') # {}
                           \/ st'.sid # st.sid
                           \/ Spent(st)]_vars

Alerted(reasons) == st.note.outcome = "accepted" /\ st.note.key.reason \in reasons
Watched == session.active /\ session.mode = "safe" /\ lock # "empty"

(* While a safe session watches: what needs a person is told to a person, a    *)
(* broker that stays out of reach is too, and a dead one is started again or   *)
(* its failure told.                                                           *)
AlertsReach ==
  /\ \A s \in {w.wf : w \in Worlds} : Situation[s].human =>
       (Watched /\ world.broker = "up" /\ world.wf = s)
         ~> (\/ ~(Watched /\ world.broker = "up" /\ world.wf = s)
             \/ Alerted({Situation[s].reason, Unresolved.reason, "broker_crash_loop"}))
  /\ (Watched /\ world.broker = "unclear")
       ~> (~(Watched /\ world.broker = "unclear")
           \/ Alerted({"ipc_unavailable", "broker_crash_loop"}))
  /\ (Watched /\ world.broker = "dead")
       ~> (~(Watched /\ world.broker = "dead")
           \/ Alerted({"start_failed", "broker_crash_loop"}))
=============================================================================
