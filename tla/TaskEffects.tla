---------------------------- MODULE TaskEffects ----------------------------
(***************************************************************************)
(* The external effects of the durable task spine: the effect commands of  *)
(* src/src/task-domain.mjs and the order in which runEffect of             *)
(* src/src/task-spine.mjs issues them around the calls of an adapter.      *)
(*                                                                         *)
(* A transaction of the store is one atomic step; between two of them, and *)
(* around each call of the adapter, another runEffect of the same broker   *)
(* may run, an adapter call may fail, and the broker may crash.  A command *)
(* that the reducer refuses ends its caller with effect_state_conflict.    *)
(*                                                                         *)
(* The remote system is external: it looks effects up by identity and      *)
(* creates each at most once, as FakeEffectAdapter does and as             *)
(* docs/durable-task-runner-spine.md demands of a real one.  A request     *)
(* that was sent may take effect late, even after the caller's crash.      *)
(***************************************************************************)
EXTENDS Naturals, FiniteSets

CONSTANTS
  Effect,        \* effect identities
  Identity,      \* adapter, task, kind and input digest, as one value
  Caller,        \* invocations of runEffect, retries included
  Concurrent,    \* bound: how many of them run at the same time
  Crashes,       \* bound: how often the broker crashes
  Void           \* the code's null

ASSUME EffectBoundsAssumption == Concurrent \in Nat /\ Crashes \in Nat

VARIABLES
  ledger,        \* the durable effects
  remote,        \* the identity each external object was created from
  requests,      \* apply requests the remote system has been sent
  applies,       \* how often each effect's apply was called
  pc, call,      \* where a caller is, and the effect it runs
  seen,          \* the result the adapter gave it
  crashes

effectVars == <<ledger, remote, requests, applies, pc, call, seen, crashes>>

EffectStatus == {"reserved", "dispatching", "applied", "succeeded"}
EffectRecord ==
  [identity : Identity, status : EffectStatus, attempts : Nat,
   reconciliations : Nat, result : Identity \cup {Void}]
Call == [effect : Effect, identity : Identity]
ASSUME EffectNoneAssumption == Void \notin Identity \cup EffectRecord \cup Call
Working == {"dispatch", "reconcile", "note", "apply", "answer", "record",
            "complete"}
Interrupted == {"failed", "crashed"}
Ended == {"idle", "done", "conflict", "refused"} \cup Interrupted

Reserved(e) == ledger[e] # Void
On(c) == call[c].effect

EffectInit ==
  /\ ledger = [e \in Effect |-> Void]
  /\ remote = [e \in Effect |-> Void]
  /\ requests = {}
  /\ applies = [e \in Effect |-> 0]
  /\ pc = [c \in Caller |-> "idle"]
  /\ call = [c \in Caller |-> Void]
  /\ seen = [c \in Caller |-> Void]
  /\ crashes = 0

Goto(c, label) == pc' = [pc EXCEPT ![c] = label]

(* A mutant: a restart applies a dispatched effect without a lookup.       *)
ResumeBlindly(status) ==
  CASE status = "reserved" -> "dispatch"
    [] status = "dispatching" -> "apply"
    [] status = "applied" -> "complete"
    [] status = "succeeded" -> "done"

(* Where runEffect resumes an effect of that status.                       *)
Resume(status) ==
  CASE status = "reserved" -> "dispatch"
    [] status = "dispatching" -> "reconcile"
    [] status = "applied" -> "complete"
    [] status = "succeeded" -> "done"

(* What the commands make of an effect's record.                           *)
Dispatched(record) ==
  [record EXCEPT !.status = "dispatching", !.attempts = @ + 1]
Absent(record) == [record EXCEPT !.reconciliations = @ + 1]
Applied(record, result) ==
  [record EXCEPT !.status = "applied", !.reconciliations = @ + 1,
                 !.result = result]
Completed(record) == [record EXCEPT !.status = "succeeded"]

(* The ledger moves from status from to to, or refuses the command.        *)
Command(c, from, to, label) ==
  LET e == On(c) IN
  \/ /\ ledger[e].status = from
     /\ ledger' = [ledger EXCEPT ![e] = to]
     /\ Goto(c, label)
  \/ /\ ledger[e].status # from
     /\ Goto(c, "refused")
     /\ UNCHANGED ledger

-----------------------------------------------------------------------------
ReserveNew(c, e, i) ==
  /\ ~Reserved(e)
  /\ ledger' = [ledger EXCEPT ![e] =
       [identity |-> i, status |-> "reserved", attempts |-> 0,
        reconciliations |-> 0, result |-> Void]]
  /\ Goto(c, Resume("reserved"))

ReserveAgain(c, e, i) ==
  /\ Reserved(e)
  /\ Goto(c, IF ledger[e].identity = i THEN Resume(ledger[e].status)
                                       ELSE "conflict")
  /\ UNCHANGED ledger

(* runEffect begins: it reserves the effect, or finds it reserved.         *)
Reserve(c, e, i) ==
  /\ pc[c] = "idle"
  /\ Cardinality({d \in Caller : pc[d] \in Working}) < Concurrent
  /\ call' = [call EXCEPT ![c] = [effect |-> e, identity |-> i]]
  /\ ReserveNew(c, e, i) \/ ReserveAgain(c, e, i)
  /\ UNCHANGED <<remote, requests, applies, seen, crashes>>

DispatchEffect(c) ==
  /\ pc[c] = "dispatch"
  /\ Command(c, "reserved", Dispatched(ledger[On(c)]), "reconcile")
  /\ UNCHANGED <<remote, requests, applies, call, seen, crashes>>

(* The adapter looks the effect up.  The answer is used two steps later.   *)
Reconcile(c) ==
  /\ pc[c] = "reconcile"
  /\ seen' = [seen EXCEPT ![c] = remote[On(c)]]
  /\ Goto(c, IF remote[On(c)] = Void THEN "note" ELSE "record")
  /\ UNCHANGED <<ledger, remote, requests, applies, call, crashes>>

(* An ambiguous lookup, or an adapter call that throws; a request it had   *)
(* sent stays on its way.                                                  *)
AdapterFails(c) ==
  /\ pc[c] \in {"reconcile", "answer"}
  /\ Goto(c, "failed")
  /\ UNCHANGED <<ledger, remote, requests, applies, call, seen, crashes>>

NoteEffectAbsent(c) ==
  /\ pc[c] = "note"
  /\ Command(c, "dispatching", Absent(ledger[On(c)]), "apply")
  /\ UNCHANGED <<remote, requests, applies, call, seen, crashes>>

Apply(c) ==
  /\ pc[c] = "apply"
  /\ requests' = requests \cup {call[c]}
  /\ applies' = [applies EXCEPT ![On(c)] = @ + 1]
  /\ Goto(c, "answer")
  /\ UNCHANGED <<ledger, remote, call, seen, crashes>>

(* The remote system handles a request, creating the object if there is    *)
(* none yet.                                                               *)
Perform(request) ==
  /\ requests' = requests \ {request}
  /\ remote' = [remote EXCEPT ![request.effect] =
                  IF @ = Void THEN request.identity ELSE @]
  /\ UNCHANGED <<ledger, applies, pc, call, seen, crashes>>

Answer(c) ==
  /\ pc[c] = "answer"
  /\ call[c] \notin requests
  /\ seen' = [seen EXCEPT ![c] = remote[On(c)]]
  /\ Goto(c, "record")
  /\ UNCHANGED <<ledger, remote, requests, applies, call, crashes>>

(* A mutant: the call returns once the outcome is durable.                 *)
RecordOnly(c) ==
  /\ pc[c] = "record"
  /\ Command(c, "dispatching", Applied(ledger[On(c)], seen[c]), "done")
  /\ UNCHANGED <<remote, requests, applies, call, seen, crashes>>

RecordEffectApplied(c) ==
  /\ pc[c] = "record"
  /\ Command(c, "dispatching", Applied(ledger[On(c)], seen[c]), "complete")
  /\ UNCHANGED <<remote, requests, applies, call, seen, crashes>>

CompleteEffect(c) ==
  /\ pc[c] = "complete"
  /\ Command(c, "applied", Completed(ledger[On(c)]), "done")
  /\ UNCHANGED <<remote, requests, applies, call, seen, crashes>>

(* The broker crashes: every invocation is gone, the ledger is not.        *)
Crash ==
  /\ crashes < Crashes
  /\ \E c \in Caller : pc[c] \in Working
  /\ crashes' = crashes + 1
  /\ pc' = [c \in Caller |-> IF pc[c] \in Working THEN "crashed" ELSE pc[c]]
  /\ UNCHANGED <<ledger, remote, requests, applies, call, seen>>

Advance(c) ==
  \/ DispatchEffect(c) \/ Reconcile(c) \/ NoteEffectAbsent(c) \/ Apply(c)
  \/ Answer(c) \/ RecordEffectApplied(c) \/ CompleteEffect(c)

EffectNext ==
  \/ \E c \in Caller, e \in Effect, i \in Identity : Reserve(c, e, i)
  \/ \E c \in Caller : Advance(c) \/ AdapterFails(c)
  \/ \E request \in requests : Perform(request)
  \/ Crash

(* Each await of runEffect is a transaction or an adapter call that        *)
(* returns, and the remote system handles what it was sent.                *)
Fairness ==
  /\ \A c \in Caller : WF_effectVars(Advance(c))
  /\ WF_effectVars(\E request \in requests : Perform(request))

EffectSpec == EffectInit /\ [][EffectNext]_effectVars /\ Fairness

-----------------------------------------------------------------------------
EffectTypeOK ==
  /\ ledger \in [Effect -> EffectRecord \cup {Void}]
  /\ remote \in [Effect -> Identity \cup {Void}]
  /\ requests \subseteq Call
  /\ applies \in [Effect -> Nat]
  /\ pc \in [Caller -> Working \cup Ended]
  /\ call \in [Caller -> Call \cup {Void}]
  /\ seen \in [Caller -> Identity \cup {Void}]
  /\ crashes \in Nat

(* The ledger never claims more than happened: an effect recorded as       *)
(* applied has its external object, created from the reserved identity,    *)
(* and a caller about to record a result holds the real one.               *)
ResultIsExternal ==
  /\ \A e \in Effect :
       Reserved(e) =>
         IF ledger[e].status \in {"applied", "succeeded"}
           THEN /\ ledger[e].result = ledger[e].identity
                /\ remote[e] = ledger[e].identity
           ELSE ledger[e].result = Void
  /\ \A e \in Effect :
       remote[e] # Void => Reserved(e) /\ remote[e] = ledger[e].identity

(* Nothing is applied on a guess: every apply call was preceded by an      *)
(* absence of its own that the ledger durably recorded.                    *)
ApplyAfterAbsence ==
  \A e \in Effect :
    IF Reserved(e)
      THEN applies[e]
             + Cardinality({c \in Caller : pc[c] = "apply" /\ On(c) = e})
             + (IF ledger[e].result # Void THEN 1 ELSE 0)
             <= ledger[e].reconciliations
      ELSE applies[e] = 0

(* Dispatch begins once, and nothing leaves the broker before the ledger   *)
(* says so: a request on its way, or an object that exists, is of an       *)
(* effect whose dispatch is recorded.                                      *)
DispatchBeforeApply ==
  \A e \in Effect :
    (\E i \in Identity : [effect |-> e, identity |-> i] \in requests)
      \/ remote[e] # Void
    => Reserved(e) /\ ledger[e].attempts = 1

(* The ledger is well formed and tells the truth about what went out, what *)
(* was looked for and what came back, whoever reads it after a crash.      *)
LedgerTruthful ==
  EffectTypeOK /\ ResultIsExternal /\ ApplyAfterAbsence /\ DispatchBeforeApply

(* A caller that starts settles the effect unless an interruption meets it *)
(* or another caller's: losing a race never strands the effect.            *)
Settles ==
  \A c \in Caller, e \in Effect :
    (pc[c] \in Working /\ On(c) = e) ~>
      \/ Reserved(e) /\ ledger[e].status = "succeeded"
      \/ \E d \in Caller : pc[d] \in Interrupted
=============================================================================
