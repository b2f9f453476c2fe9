---------------------------- MODULE EagleSemantic ---------------------------
(* Eagle Monitor's semantic liveness, src/eagle-monitor-semantic.mjs: each  *)
(* tick folds one checkpoint of the watched workflow into a durable state    *)
(* that says whether the workflow makes useful progress, waits within its    *)
(* bounds, or stands still.                                                  *)
(*                                                                           *)
(* A checkpoint is [step, evidence, wait]: "step" stands for everything the  *)
(* loop fingerprint covers besides the evidence (phase, action, tools,       *)
(* arguments, results), evidence for the identities projected from criteria, *)
(* blockers and reviews.  Digests are the values they digest.                *)
EXTENDS Integers, Sequences, FiniteSets, SequencesExt

CONSTANTS
  Checkpoints,   \* what the workflow may show: [step, evidence, wait]
  Evidence, Wait,
  Void,          \* the code's null
  History,       \* MAX_FINGERPRINT_HISTORY
  EvidenceLimit, \* MAX_EVIDENCE_IDENTITIES
  WaitLimit,     \* MAX_EXPECTED_WAIT_HISTORY
  Useful,        \* usefulProgressLeaseMs
  Duration,      \* how long a named wait may last
  Extension,     \* expectedWaitExtensionMs
  Gaps,          \* bound: the time between two observations
  Epochs,        \* bound: broker generations
  Horizon        \* bound: the time of the last observation

ASSUME SemanticAssumption ==
  /\ Checkpoints \subseteq
       [step : STRING, evidence : SUBSET Evidence, wait : Wait \cup {Void}]
  /\ IsFiniteSet(Evidence)
  /\ History \in Nat /\ History >= 6 /\ EvidenceLimit \in Nat /\ WaitLimit \in Nat
  /\ Useful \in Nat /\ Duration \in Nat /\ Extension \in Nat
  /\ Gaps \subseteq Nat /\ Epochs \in Nat /\ Horizon \in Nat

VARIABLE sem     \* state.semantic, or Void before the first observation

Classes == {"settled", "human_required", "progressing", "looping",
            "expected_wait", "suspect", "stagnant"}
Loops == {"repeated", "alternating", "short_cycle", "none"}
Fingerprint(c) == <<c.step, c.evidence>>
Entry == [start : Nat, deadline : Nat, effective : Nat, extended : BOOLEAN]
Lease == [evidence : SUBSET Evidence, renewed : Nat, expires : Nat]
Source == [id : Wait, start : Nat, deadline : Nat]
Steps == {Fingerprint(c) : c \in Checkpoints}
Waits == UNION {[named -> Entry] : named \in SUBSET Wait}
IncidentKey == [epoch : 1..Epochs, class : Classes, window : SUBSET Evidence,
                loop : Loops, step : Steps]
State(waits) ==
  [epoch : 1..Epochs, at : Nat, checkpoint : Checkpoints, source : Source \cup {Void},
   class : Classes, human : BOOLEAN, settled : BOOLEAN, waits : waits,
   lease : Wait \cup {Void}, history : Seq(Steps), loop : Loops,
   incident : IncidentKey \cup {Void}, seen : SUBSET Evidence, unseen : Nat,
   useful : Lease \cup {Void}, suspects : 0..2, count : 1..History]

ASSUME SemanticVoidAssumption ==
  Void \notin Wait \cup Source \cup Lease \cup IncidentKey \cup State(Waits)

TypeOK ==
  sem # Void =>
    /\ sem \in State({sem.waits})
    /\ DOMAIN sem.waits \subseteq Wait
    /\ \A w \in DOMAIN sem.waits : sem.waits[w] \in Entry

-----------------------------------------------------------------------------
(* The patterns of the fingerprint window. *)

Tail6(h) == SubSeq(h, Len(h) - 5, Len(h))
Cycle(h, n) == \A i \in 1..6 : Tail6(h)[i] = Tail6(h)[((i - 1) % n) + 1]

LoopPattern(h) ==
  IF Len(h) >= 3 /\ Cardinality({h[i] : i \in Len(h) - 2 .. Len(h)}) = 1
    THEN "repeated"
  ELSE IF Len(h) < 6 THEN "none"
  ELSE IF Tail6(h)[1] # Tail6(h)[2] /\ Cycle(h, 2) THEN "alternating"
  ELSE IF Cardinality({Tail6(h)[i] : i \in 1..3}) > 1 /\ Cycle(h, 3)
    THEN "short_cycle"
  ELSE "none"

(* Expected waits. *)

\* Mutant of Pinned: a wait that is named again starts again.
PinnedAnew(waits, source) ==
  [start |-> source.start, deadline |-> source.deadline,
   effective |-> source.deadline, extended |-> FALSE]

\* The first observation of an identity pins its start and its deadline.
Pinned(waits, source) ==
  IF source.id \in DOMAIN waits THEN waits[source.id]
  ELSE [start |-> source.start, deadline |-> source.deadline,
        effective |-> source.deadline, extended |-> FALSE]

\* Mutant of Extended: an extension may be taken once more.
ExtendedAgain(entry, t) ==
  IF t > entry.effective /\ t <= entry.effective + Extension
    THEN [entry EXCEPT !.effective = entry.effective + Extension, !.extended = TRUE]
    ELSE entry

\* One extension, if the observation comes while it would still last.
Extended(entry, t) ==
  IF t > entry.effective /\ ~entry.extended
     /\ Extension > 0 /\ t <= entry.deadline + Extension
    THEN [entry EXCEPT !.effective = entry.deadline + Extension, !.extended = TRUE]
    ELSE entry

\* The retained waits after a source, which a full table does not take in.
NextWaits(waits, source, t) ==
  IF \/ source = Void
     \/ source.id \notin DOMAIN waits /\ Cardinality(DOMAIN waits) >= WaitLimit
    THEN waits
    ELSE [w \in DOMAIN waits \cup {source.id} |->
            IF w = source.id THEN Extended(Pinned(waits, source), t) ELSE waits[w]]

\* The wait a source names, if it is retained.
LeaseOf(waits, source) ==
  IF source # Void /\ source.id \in DOMAIN waits THEN source.id ELSE Void

Covers(waits, w, t) ==
  w # Void /\ waits[w].start <= t /\ t <= waits[w].effective

-----------------------------------------------------------------------------
\* Mutant of Fenced: hysteresis survives a change of the broker's epoch.
FencedByWorkflow(epoch) == sem # Void

\* The previous state is of the same broker generation.
Fenced(epoch) == sem # Void /\ sem.epoch = epoch

Prior(field, default) == IF sem = Void THEN default ELSE sem[field]

Capped(n, cap) == IF n > cap THEN cap ELSE n

\* Not the observation of the same instant once more.
Fresh(c, source, epoch, t) ==
  \/ ~Fenced(epoch)
  \/ <<c, source>> # <<sem.checkpoint, sem.source>>
  \/ t > sem.at

\* Evidence not seen before, as far as the table of identities has room.
Admitted(evidence) ==
  LET unseen == evidence \ Prior("seen", {})
      room == EvidenceLimit - Cardinality(Prior("seen", {}))
  IN  {S \in SUBSET unseen : Cardinality(S) = Capped(Cardinality(unseen), room)}

\* Mutant of ClassOf: a loop is a verdict on its first doubt.
ClassOfAtOnce(settled, human, new, waiting, loop, covered, suspects) ==
  IF settled THEN "settled"
  ELSE IF human THEN "human_required"
  ELSE IF new THEN "progressing"
  ELSE IF loop # "none" /\ ~covered THEN "looping"
  ELSE IF waiting THEN "expected_wait"
  ELSE IF covered THEN "progressing"
  ELSE IF suspects < 2 THEN "suspect" ELSE "stagnant"

\* The class of an observation, and its count of unconfirmed ones.
ClassOf(settled, human, new, waiting, loop, covered, suspects) ==
  IF settled THEN "settled"
  ELSE IF human THEN "human_required"
  ELSE IF new THEN "progressing"
  ELSE IF waiting THEN (IF loop # "none" THEN "looping" ELSE "expected_wait")
  ELSE IF covered THEN "progressing"
  ELSE IF suspects < 2 THEN "suspect"
  ELSE IF loop # "none" THEN "looping" ELSE "stagnant"

\* The window with one more fingerprint.
Shifted(window, step) ==
  LET all == Append(window, step)
  IN  SubSeq(all, IF Len(all) > History THEN 2 ELSE 1, Len(all))

IncidentClasses == {"human_required", "looping", "stagnant", "suspect"}

\* classifyEagleSemanticLiveness: the state after checkpoint c at time t.
Classified(c, source, epoch, t, human, settled, admitted) ==
  LET fresh == Fresh(c, source, epoch, t)
      new == admitted # {}
      useful == IF new THEN [evidence |-> admitted, renewed |-> t,
                             expires |-> t + Useful]
                ELSE Prior("useful", Void)
      waits == NextWaits(Prior("waits", <<>>), source, t)
      lease == LeaseOf(waits, source)
      old == Prior("lease", Void)
      restored == lease # Void /\ lease \in DOMAIN Prior("waits", <<>>) /\ old # lease
      waiting == Covers(waits, lease, t)
      moved == waiting /\ old # Void /\ old # lease
      kept == IF Fenced(epoch) /\ ~new THEN sem.history ELSE <<>>
      meaningful == moved \/ restored \/ kept = <<>>
                    \/ Last(kept) # Fingerprint(c)
      history == IF fresh /\ (~waiting \/ meaningful)
                 THEN Shifted(kept, Fingerprint(c)) ELSE kept
      found == IF new THEN "none" ELSE LoopPattern(history)
      loop == IF waiting /\ ~moved /\ ~restored THEN "none" ELSE found
      covered == useful # Void /\ t <= useful.expires
      unconfirmed == Capped((IF Fenced(epoch) THEN sem.suspects ELSE 0)
                            + (IF fresh THEN 1 ELSE 0), 2)
      class == ClassOf(settled, human, new, waiting, loop, covered, unconfirmed)
      doubtful == ~settled /\ ~human /\ ~new /\ ~waiting /\ ~covered
  IN  [epoch |-> epoch, at |-> t, checkpoint |-> c, source |-> source,
       class |-> class, human |-> human, settled |-> settled,
       waits |-> waits, lease |-> lease, history |-> history, loop |-> loop,
       incident |->
         IF class \notin IncidentClasses THEN Void
         ELSE [epoch |-> epoch, class |-> class,
               window |-> IF useful = Void THEN {} ELSE useful.evidence,
               loop |-> IF class = "looping" THEN loop ELSE "none",
               step |-> Fingerprint(c)],
       seen |-> Prior("seen", {}) \cup admitted,
       unseen |-> Cardinality(admitted), useful |-> useful,
       suspects |-> IF doubtful THEN unconfirmed ELSE 0,
       count |-> Capped((IF Fenced(epoch) THEN sem.count ELSE 0)
                        + (IF fresh THEN 1 ELSE 0), History)]

-----------------------------------------------------------------------------
SemanticInit == sem = Void

\* What expectedWait projects: an identity that outlives updates of the
\* workflow, started at the last of them.
Sources(c, t) ==
  IF c.wait = Void THEN {Void}
  ELSE {[id |-> c.wait, start |-> s, deadline |-> s + Duration] :
          s \in {t - 1, t} \cap Nat}

\* One tick.  A clock that goes back is refused, and the broker's epoch never
\* does; two observations of one millisecond see the same workflow.
ObserveTick ==
  \E gap \in Gaps, c \in Checkpoints, epoch \in Prior("epoch", 1)..Epochs,
     human, settled \in BOOLEAN :
    LET t == Prior("at", 0) + gap IN
    /\ t <= Horizon
    /\ ~(human /\ settled)
    /\ \E source \in Sources(c, t), admitted \in Admitted(c.evidence) :
         /\ sem # Void /\ gap = 0 =>
              /\ c = sem.checkpoint /\ source = sem.source
              /\ human = sem.human /\ settled = sem.settled
         /\ sem' = Classified(c, source, epoch, t, human, settled, admitted)

SemanticNext == ObserveTick
SemanticSpec == SemanticInit /\ [][SemanticNext]_sem

-----------------------------------------------------------------------------
(* What validateEagleSemanticState and assertState demand of a state before *)
(* it is written and after it is read: "classification, reason, dimensions,  *)
(* leases, loop metrics, hysteresis count, and incident identity must        *)
(* describe one state the classifier can actually produce".  A state that    *)
(* fails them ends the tick and, with it, every later one.                   *)
WaitValid(e) ==
  /\ e.start <= e.deadline /\ e.deadline <= e.effective
  /\ e.effective = e.deadline + (IF e.extended THEN Extension ELSE 0)

LeasesValid(s) ==
  /\ s.lease \in DOMAIN s.waits \cup {Void}
  /\ Cardinality(s.seen) <= EvidenceLimit
  /\ Cardinality(DOMAIN s.waits) <= WaitLimit
  /\ \A w \in DOMAIN s.waits : WaitValid(s.waits[w])
  /\ s.useful # Void =>
       /\ s.useful.evidence # {} /\ s.useful.evidence \subseteq s.seen
       /\ s.useful.expires = s.useful.renewed + Useful
       /\ s.useful.renewed <= s.at

WindowValid(s) ==
  /\ Len(s.history) \in 1..History
  /\ Len(s.history) <= s.count /\ s.suspects <= s.count
  /\ s.incident # Void =>
       s.incident = [epoch |-> s.epoch, class |-> s.class,
                       window |-> IF s.useful = Void THEN {} ELSE s.useful.evidence,
                       loop |-> IF s.class = "looping" THEN s.loop ELSE "none",
                       step |-> Last(s.history)]

RelationsValid(s) ==
  LET waiting == Covers(s.waits, s.lease, s.at)
      covered == s.useful # Void /\ s.at <= s.useful.expires
      loop == LoopPattern(s.history)
  IN
  /\ (s.class = "settled") = s.settled
  /\ s.class = "human_required" => s.human
  /\ s.class \notin {"human_required", "settled"} => ~s.human
  /\ (s.incident # Void) = (s.class \in IncidentClasses)
  /\ s.class = "expected_wait" => waiting /\ s.loop = "none"
  /\ s.class = "progressing" => covered
  /\ s.class \in {"stagnant", "suspect"} => ~waiting /\ ~covered
  /\ s.class \in {"expected_wait", "human_required", "progressing", "settled"}
       => s.suspects = 0
  /\ s.class = "suspect" => s.suspects = 1 /\ s.loop = loop
  /\ s.class = "stagnant" =>
       s.suspects >= 2 /\ s.loop = "none" /\ loop = "none"
  /\ s.class = "looping" =>
       /\ s.loop # "none" /\ s.loop = loop /\ s.suspects # 1
       /\ s.suspects = 0 => waiting
       /\ s.suspects >= 2 => ~waiting /\ ~covered
  /\ s.class = "progressing" /\ s.unseen = 0 => s.loop = loop
  /\ s.class = "progressing" /\ s.unseen > 0 =>
       /\ Len(s.history) = 1 /\ s.loop = "none"
       /\ s.useful.renewed = s.at
       /\ Cardinality(s.useful.evidence) = s.unseen

SemanticValid ==
  TypeOK /\ (sem # Void => LeasesValid(sem) /\ WindowValid(sem) /\ RelationsValid(sem))

(* "Every final stall/loop classification has at least two observations      *)
(* under the same workflow digest and broker epoch", and it is not the first *)
(* doubt: the one before it was a doubt of that generation already, or a     *)
(* wait whose identity keeps changing.                                       *)
VerdictNeedsTwo ==
  [][sem' # Void /\ sem'.class \in {"stagnant", "looping"} =>
       /\ sem # Void /\ sem.epoch = sem'.epoch
       /\ sem'.class = "stagnant" => sem.class \in {"suspect", "stagnant", "looping"}]_sem

(* A workflow that keeps touching its record, alternates between the same    *)
(* waits or outlives a broker cannot look alive for ever: once all its       *)
(* evidence is old and every wait it ever named is past its one extension,   *)
(* two observations of one generation find it stagnant or looping.           *)
Silent(s) ==
  /\ ~s.human /\ ~s.settled /\ s.unseen = 0
  /\ s.useful = Void \/ s.at > s.useful.expires
  /\ s.lease # Void => s.at > s.waits[s.lease].deadline + Extension

StallIsNoticed ==
  [][sem # Void /\ sem' # Void /\ sem'.epoch = sem.epoch /\ sem'.at > sem.at
       /\ Silent(sem) /\ Silent(sem') => sem'.class \in {"stagnant", "looping"}]_sem

(* A named wait covers at most its first deadline and one extension, however *)
(* often it disappears, returns, or restarts with the broker.                *)
CoverIsBounded ==
  [][sem # Void =>
       \A w \in DOMAIN sem.waits :
         /\ w \in DOMAIN sem'.waits
         /\ sem'.waits[w].start = sem.waits[w].start
         /\ sem'.waits[w].effective <= sem.waits[w].deadline + Extension]_sem
=============================================================================
