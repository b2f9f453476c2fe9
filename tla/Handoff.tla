------------------------------ MODULE Handoff -------------------------------
(***************************************************************************)
(* Replacing a stale broker: the admission gate of upgrade-dispatch.mjs,   *)
(* the shutdown of ego-chatd.mjs with the sockets of ipc-server.mjs, and   *)
(* the handoff that setup runs (runtime-handoff.mjs), beside clients that  *)
(* start a broker where they find none (ipc-client.mjs).                   *)
(*                                                                         *)
(* A current broker drains itself.  A legacy one cannot: setup renames its *)
(* socket out of the way of its clients, proves it idle twice through the  *)
(* renamed socket, and only then signals it.                               *)
(*                                                                         *)
(* The lease is the file of BrokerLease, acquired here in one step.  The   *)
(* aliases of a socket move with it and are one name.  The names of        *)
(* workflows are the clients that asked for them.                          *)
(***************************************************************************)
EXTENDS Naturals, FiniteSets

CONSTANTS
  Client,        \* callers that mutate, of the stale runtime or of the new one
  Modern,        \* those of the new runtime
  Setup,         \* runs of the handoff
  Generations,   \* bound: broker generations
  Crashes        \* bound: crashes of brokers and of setups

ASSUME HandoffAssumption ==
  /\ Modern \subseteq Client
  /\ Generations \in Nat \ {0} /\ Crashes \in Nat

VARIABLES
  legacy,   \* the stale runtime knows no broker.prepare_upgrade
  lock,     \* the generation broker.lock names
  life,     \* where each generation is between its start and its exit
  runtime,  \* the runtime of each generation
  name,     \* the generation whose socket is at the published path
  fence,    \* the generation whose socket a setup has renamed
  gate,     \* draining: the generation refuses new mutations
  prep,     \* the prepare_upgrade request a generation is working on
  told,     \* the generation has been told to stop: accepted, or signalled
  child,    \* browser children recorded in the lease of a generation
  work,     \* running workflows, durable
  call,     \* what each client's request is doing, and where
  step, target, \* where each setup is, and the broker it set out to stop
  seen,     \* the socket a setup that installs its fence looked at first
  flying,   \* history: requests under way when a setup last found idleness
  lost,     \* sockets renamed away, or over, that nobody will put back
  crashes

vars == <<legacy, lock, life, runtime, name, fence, gate, prep, told, child,
          work, call, step, target, seen, flying, lost, crashes>>
broker  == <<lock, life, runtime, told>>
request == <<gate, prep, child, work, call>>
setup   == <<fence, step, target, seen, flying>>
other   == <<legacy, lost, crashes>>

Gen  == 1..Generations
None == 0

Alive(g)   == life[g] \in {"starting", "serving", "closed", "quiet", "released"}
Answers(g) == g # None /\ life[g] = "serving"

NoPrep == [at |-> "none", for |-> None, expects |-> None]
NoCall == [at |-> "idle", gen |-> None]
InFlight(g) == {c \in Client : call[c].gen = g}
Admitted(g) == {c \in InFlight(g) : call[c].at \in {"admitted", "detached"}}

(* The status shows workflows and bindings, not handlers yet to write.     *)
Idle(g) == work = {}
Runtime(c) == IF c \in Modern THEN "new" ELSE "stale"

Init ==
  /\ legacy \in BOOLEAN
  /\ lock = 1 /\ name = 1
  /\ life = [g \in Gen |-> IF g = 1 THEN "serving" ELSE "unborn"]
  /\ runtime = [g \in Gen |-> "stale"]
  /\ fence = [s \in Setup |-> None]
  /\ gate = [g \in Gen |-> FALSE] /\ prep = [g \in Gen |-> NoPrep]
  /\ told = [g \in Gen |-> "no"] /\ child = [g \in Gen |-> FALSE]
  /\ work = {} /\ call = [c \in Client |-> NoCall]
  /\ step = [s \in Setup |-> "start"] /\ target = [s \in Setup |-> None]
  /\ seen = [s \in Setup |-> None] /\ flying = [s \in Setup |-> {}]
  /\ lost = {} /\ crashes = 0

-----------------------------------------------------------------------------
(* Clients. *)

Connect(c) ==
  /\ call[c].at = "idle" /\ Answers(name)
  /\ call' = [call EXCEPT ![c] = [at |-> "connected", gen |-> name]]
  /\ UNCHANGED <<broker, name, gate, prep, child, work, setup, other>>

(* The caller's deadline ends the connection; an admitted handler goes on. *)
HangUp(c) ==
  /\ \/ call[c].at = "connected" /\ call' = [call EXCEPT ![c] = NoCall]
     \/ /\ call[c].at = "admitted"
        /\ call' = [call EXCEPT ![c] = [at |-> "detached", gen |-> @.gen]]
  /\ UNCHANGED <<broker, name, gate, prep, child, work, setup, other>>

Admits(c) == runtime[call[c].gen] = Runtime(c) /\ ~gate[call[c].gen]

(* The request arrives, also at a broker that is closing its connections.  *)
Arrive(c) ==
  /\ call[c].at = "connected"
  /\ call' = [call EXCEPT ![c] = IF Admits(c)
                                 THEN [at |-> "admitted", gen |-> @.gen]
                                 ELSE NoCall]
  /\ UNCHANGED <<broker, name, gate, prep, child, work, setup, other>>

(* The handler returns: it has started a workflow, or not.                 *)
Handled(c) ==
  /\ call[c].at \in {"admitted", "detached"}
  /\ call' = [call EXCEPT ![c] = NoCall]
  /\ work' \in {work, work \cup {c}}
  /\ UNCHANGED <<broker, name, gate, prep, child, setup, other>>

WorkEnds(g, c) ==
  /\ life[g] = "serving" /\ c \in work
  /\ work' = work \ {c}
  /\ UNCHANGED <<broker, name, gate, prep, child, call, setup, other>>

(* A workflow or a handler runs a browser child, which may outlast it.     *)
SpawnChild(g) ==
  /\ life[g] = "serving" /\ ~child[g] /\ (work # {} \/ Admitted(g) # {})
  /\ child' = [child EXCEPT ![g] = TRUE]
  /\ UNCHANGED <<broker, name, gate, prep, work, call, setup, other>>

ChildEnds(g) ==
  /\ child[g]
  /\ child' = [child EXCEPT ![g] = FALSE]
  /\ UNCHANGED <<broker, name, gate, prep, work, call, setup, other>>

-----------------------------------------------------------------------------
(* The life of a generation. *)

Free == \/ lock = None
        \/ lock # None /\ ~Alive(lock) /\ ~child[lock]

(* A client that reaches nobody starts a broker of its own runtime, which   *)
(* the lease refuses while another generation holds it.                    *)
Autostart(c, g) ==
  /\ call[c].at = "idle" /\ ~Answers(name) /\ Free
  /\ life[g] = "unborn" /\ \A h \in Gen : h < g => life[h] # "unborn"
  /\ life' = [life EXCEPT ![g] = "starting"]
  /\ runtime' = [runtime EXCEPT ![g] = Runtime(c)]
  /\ lock' = g
  /\ UNCHANGED <<told, name, request, setup, other>>

(* A socket file nobody answers on is removed before the path is bound.    *)
Bind(g) ==
  /\ life[g] = "starting" /\ ~Answers(name)
  /\ name' = g /\ life' = [life EXCEPT ![g] = "serving"]
  /\ UNCHANGED <<lock, runtime, told, request, setup, other>>

(* broker.close aborts the runners, and the listening socket is closed,    *)
(* which unlinks the published path whatever is there.                     *)
Close(g) ==
  /\ life[g] = "serving" /\ told[g] # "no"
  /\ life' = [life EXCEPT ![g] = "closed"] /\ name' = None
  /\ UNCHANGED <<lock, runtime, told, request, setup, other>>

(* Every connection has ended, which a handler may outlive; the path is    *)
(* unlinked once more, and the adapter stops the browser children.         *)
Quiesce(g) ==
  /\ life[g] = "closed" /\ \A c \in InFlight(g) : call[c].at = "detached"
  /\ life' = [life EXCEPT ![g] = "quiet"] /\ name' = None
  /\ child' = [child EXCEPT ![g] = FALSE]
  /\ UNCHANGED <<lock, runtime, told, gate, prep, work, call, setup, other>>

\* Mutant: The lease is released before the sockets are closed.
ReleaseFirst(g) ==
  /\ life[g] \in {"closed", "quiet"} /\ lock = g
  /\ lock' = None
  /\ life' = [life EXCEPT ![g] = IF @ = "quiet" THEN "released" ELSE "closed"]
  /\ UNCHANGED <<runtime, told, name, request, setup, other>>

Release(g) ==
  /\ life[g] = "quiet" /\ lock = g
  /\ lock' = None /\ life' = [life EXCEPT ![g] = "released"]
  /\ UNCHANGED <<runtime, told, name, request, setup, other>>

Dropped(g) == [c \in Client |-> IF c \in InFlight(g) THEN NoCall ELSE call[c]]

Exit(g) ==
  /\ life[g] = "released"
  /\ life' = [life EXCEPT ![g] = "stopped"] /\ call' = Dropped(g)
  /\ UNCHANGED <<lock, runtime, told, name, gate, prep, child, work, setup, other>>

(* A crash leaves the lock, the socket file and a browser child behind.    *)
Crash(g) ==
  /\ Alive(g) /\ crashes < Crashes /\ crashes' = crashes + 1
  /\ life' = [life EXCEPT ![g] = "dead"]
  /\ prep' = [prep EXCEPT ![g] = NoPrep]
  /\ call' = Dropped(g)
  /\ step' = [s \in Setup |-> IF step[s] = "asked" /\ prep[g].for = s
                              THEN "failed" ELSE step[s]]
  /\ UNCHANGED <<lock, runtime, told, name, fence, gate, child, work, target,
                 seen, flying, legacy, lost>>

-----------------------------------------------------------------------------
(* prepare_upgrade in the broker.  The gate is closed before the handler   *)
(* waits for the mutations admitted so far, and opens again if it refuses. *)

\* Mutant: The status is read without waiting for the admitted handlers.
DrainedAtOnce(g) == TRUE

Drained(g) == Admitted(g) = {}

AwaitAdmitted(g) ==
  /\ prep[g].at = "drain" /\ Drained(g)
  /\ prep' = [prep EXCEPT ![g] =
                [at |-> "status", for |-> @.for, expects |-> @.expects]]
  /\ UNCHANGED <<broker, name, gate, child, work, call, setup, other>>

Reply(g, result) ==
  LET s == prep[g].for
  IN  step' = [step EXCEPT ![s] = IF @ = "asked" THEN result ELSE @]

\* Mutant: The gate stays closed after a refusal.
RefuseClosed(g) ==
  /\ prep' = [prep EXCEPT ![g] = NoPrep] /\ Reply(g, "refused")
  /\ UNCHANGED <<gate, told>>

Refuse(g) ==
  /\ gate' = [gate EXCEPT ![g] = FALSE]
  /\ prep' = [prep EXCEPT ![g] = NoPrep] /\ Reply(g, "refused")
  /\ UNCHANGED told

CheckStatus(g) ==
  /\ prep[g].at = "status"
  /\ IF prep[g].expects = g /\ Idle(g)
     THEN /\ prep' = [prep EXCEPT ![g] =
                       [at |-> "lease", for |-> @.for, expects |-> @.expects]]
          /\ UNCHANGED <<gate, told, step>>
     ELSE Refuse(g)
  /\ UNCHANGED <<lock, life, runtime, name, child, work, call, fence, target,
                 seen, flying, other>>

(* The lease must record no browser child; the shutdown is then scheduled. *)
CheckLease(g) ==
  /\ prep[g].at = "lease"
  /\ IF ~child[g]
     THEN /\ prep' = [prep EXCEPT ![g] = NoPrep] /\ Reply(g, "stopping")
          /\ told' = [told EXCEPT ![g] = "accepted"]
          /\ UNCHANGED gate
     ELSE Refuse(g)
  /\ UNCHANGED <<lock, life, runtime, name, child, work, call, fence, target,
                 seen, flying, other>>

-----------------------------------------------------------------------------
(* One run of the handoff by setup. *)

Goto(s, label) == step' = [step EXCEPT ![s] = label]
Leased(g) == lock = g /\ ~child[g]

Look(s) ==
  /\ step[s] = "start"
  /\ \/ ~Answers(name) /\ Goto(s, "not_running") /\ UNCHANGED target
     \/ /\ Answers(name) /\ runtime[name] = "new"
        /\ Goto(s, "current") /\ UNCHANGED target
     \/ /\ Answers(name) /\ runtime[name] = "stale"
        /\ Goto(s, IF Idle(name) THEN "read_lease" ELSE "refused")
        /\ target' = [target EXCEPT ![s] = name]
  /\ UNCHANGED <<broker, name, request, fence, seen, flying, other>>

ReadLease(s) ==
  /\ step[s] = "read_lease"
  /\ Goto(s, IF Leased(target[s]) /\ Alive(target[s]) THEN "ask" ELSE "refused")
  /\ UNCHANGED <<broker, name, request, fence, target, seen, flying, other>>

(* The request goes to whoever answers by now, and names the broker meant. *)
Ask(s) ==
  /\ step[s] = "ask"
  /\ \/ /\ ~Answers(name) /\ Goto(s, "failed") /\ UNCHANGED <<gate, prep>>
     \/ /\ Answers(name) /\ runtime[name] = "new"
        /\ Goto(s, "refused") /\ UNCHANGED <<gate, prep>>
     \/ /\ Answers(name) /\ runtime[name] = "stale" /\ legacy
        /\ Goto(s, "fence") /\ UNCHANGED <<gate, prep>>
     \/ /\ Answers(name) /\ runtime[name] = "stale" /\ ~legacy /\ gate[name]
        /\ Goto(s, "refused") /\ UNCHANGED <<gate, prep>>
     \/ /\ Answers(name) /\ runtime[name] = "stale" /\ ~legacy /\ ~gate[name]
        /\ Goto(s, "asked")
        /\ gate' = [gate EXCEPT ![name] = TRUE]
        /\ prep' = [prep EXCEPT ![name] =
             [at |-> "drain", for |-> s, expects |-> target[s]]]
  /\ UNCHANGED <<broker, name, child, work, call, fence, target,
                 seen, flying, other>>

(* Five seconds for the answer, ten for the exit; the broker knows of      *)
(* neither and goes on.                                                    *)
GiveUp(s) ==
  /\ step[s] \in {"asked", "stopping"}
  /\ Goto(s, "failed")
  /\ UNCHANGED <<broker, name, request, fence, target, seen, flying, other>>

(* The exit is seen when the process is gone and the lock file as well.    *)
Stopped(s) ==
  /\ step[s] = "stopping" /\ ~Alive(target[s]) /\ lock = None
  /\ Goto(s, "stopped") /\ fence' = [fence EXCEPT ![s] = None]
  /\ UNCHANGED <<broker, name, request, target, seen, flying, other>>

-----------------------------------------------------------------------------
(* The fence around a legacy broker. *)

(* The file at the path is looked at, its broker is asked for a status,    *)
(* and the file is looked at again.                                        *)
LookAtSocket(s) ==
  /\ step[s] = "fence"
  /\ seen' = [seen EXCEPT ![s] = name]
  /\ Goto(s, IF name # None THEN "recognise" ELSE "refused")
  /\ UNCHANGED <<broker, name, request, fence, target, flying, other>>

Recognise(s) ==
  /\ step[s] = "recognise"
  /\ Goto(s, IF Answers(name) /\ name = target[s] THEN "compare" ELSE "refused")
  /\ UNCHANGED <<broker, name, request, fence, target, seen, flying, other>>

Compare(s) ==
  /\ step[s] = "compare"
  /\ Goto(s, IF name = seen[s] THEN "rename" ELSE "refused")
  /\ UNCHANGED <<broker, name, request, fence, target, seen, flying, other>>

(* The rename takes whatever is at the path by now.  The look that follows *)
(* at the private name tells the wrong socket from the right one, and      *)
(* leaves the wrong one there.                                             *)
Rename(s) ==
  /\ step[s] = "rename"
  /\ name' = None
  /\ IF name = seen[s]
     THEN fence' = [fence EXCEPT ![s] = name] /\ Goto(s, "proof") /\ UNCHANGED lost
     ELSE lost' = lost \cup ({name} \ {None}) /\ Goto(s, "refused") /\ UNCHANGED fence
  /\ UNCHANGED <<broker, request, target, seen, flying, legacy, crashes>>

(* Handlers of a broker that has released its lease and has yet to exit.   *)
Lingering == {c \in Client : \E g \in Gen : call[c].gen = g /\ life[g] = "released"}

(* Each of the two proofs reads the status, of the broker it set out to    *)
(* stop, and then the lease.                                               *)
Proof(s, from, to) ==
  /\ step[s] = from
  /\ IF Answers(fence[s]) /\ Idle(fence[s]) /\ fence[s] = target[s]
     THEN /\ Goto(s, to)
          /\ flying' = [flying EXCEPT ![s] = InFlight(target[s]) \cup Lingering]
     ELSE Goto(s, "restore") /\ UNCHANGED flying
  /\ UNCHANGED <<broker, name, request, fence, target, seen, other>>

FirstLease(s) ==
  /\ step[s] = "proof_lease"
  /\ Goto(s, IF Leased(target[s]) THEN "last_proof" ELSE "restore")
  /\ UNCHANGED <<broker, name, request, fence, target, seen, flying, other>>

(* The last lease, the liveness of the process and the signal.             *)
Signal(s) ==
  /\ step[s] = "last_lease"
  /\ IF Leased(target[s]) /\ Alive(target[s])
     THEN Goto(s, "stopping") /\ told' = [told EXCEPT ![target[s]] = "signalled"]
     ELSE Goto(s, "restore") /\ UNCHANGED told
  /\ UNCHANGED <<lock, life, runtime, name, request, fence, target, seen, flying,
                 other>>

(* The path must be free for the socket to be put back; the look and the   *)
(* rename are two steps.                                                   *)
Restore(s) ==
  /\ step[s] = "restore"
  /\ Goto(s, IF name = None THEN "rename_back" ELSE "unrestored")
  /\ UNCHANGED <<broker, name, request, fence, target, seen, flying, other>>

RenameBack(s) ==
  /\ step[s] = "rename_back"
  /\ name' = fence[s] /\ fence' = [fence EXCEPT ![s] = None]
  /\ Goto(s, "refused")
  /\ lost' = lost \cup ({name} \ {None})
  /\ UNCHANGED <<broker, request, target, seen, flying, legacy, crashes>>

Over == {"not_running", "current", "refused", "failed", "stopped",
         "unrestored", "killed"}

SetupDies(s) ==
  /\ step[s] \notin Over \cup {"start"}
  /\ crashes < Crashes /\ crashes' = crashes + 1
  /\ Goto(s, "killed")
  /\ UNCHANGED <<broker, name, request, fence, target, seen, flying,
                 legacy, lost>>

-----------------------------------------------------------------------------
Serve(g) ==
  \/ AwaitAdmitted(g) \/ CheckStatus(g) \/ CheckLease(g)
  \/ Bind(g) \/ Close(g) \/ Quiesce(g) \/ Release(g) \/ Exit(g)

Run(s) ==
  \/ Look(s) \/ ReadLease(s) \/ Ask(s) \/ Stopped(s)
  \/ LookAtSocket(s) \/ Recognise(s) \/ Compare(s) \/ Rename(s)
  \/ Proof(s, "proof", "proof_lease") \/ FirstLease(s)
  \/ Proof(s, "last_proof", "last_lease") \/ Signal(s)
  \/ Restore(s) \/ RenameBack(s)

Answered(c) == HangUp(c) \/ Arrive(c) \/ Handled(c)

Next ==
  \/ \E c \in Client : Connect(c) \/ Answered(c)
  \/ \E c \in Client, g \in Gen : WorkEnds(g, c) \/ Autostart(c, g)
  \/ \E g \in Gen : Serve(g) \/ SpawnChild(g) \/ ChildEnds(g) \/ Crash(g)
  \/ \E s \in Setup : Run(s) \/ GiveUp(s) \/ SetupDies(s)

(* The broker's own steps follow one another; a request arrives or its     *)
(* caller's deadline ends it, and handlers return.                         *)
Fairness ==
  /\ \A g \in Gen : WF_vars(Serve(g))
  /\ \A c \in Client : WF_vars(Answered(c))

Spec == Init /\ [][Next]_vars /\ Fairness

-----------------------------------------------------------------------------
TypeOK ==
  /\ legacy \in BOOLEAN /\ lock \in Gen \cup {None} /\ name \in Gen \cup {None}
  /\ life \in [Gen -> {"unborn", "starting", "serving", "closed", "quiet",
                       "released", "stopped", "dead"}]
  /\ runtime \in [Gen -> {"stale", "new"}]
  /\ fence \in [Setup -> Gen \cup {None}]
  /\ gate \in [Gen -> BOOLEAN] /\ child \in [Gen -> BOOLEAN]
  /\ told \in [Gen -> {"no", "accepted", "signalled"}]
  /\ seen \in [Setup -> Gen \cup {None}] /\ lost \subseteq Gen
  /\ work \subseteq Client /\ crashes \in 0..Crashes

Stopping(g) == told[g] # "no" /\ life[g] \in {"serving", "closed", "quiet", "released"}

(* A broker that accepted the drain stops with nothing running and nothing *)
(* admitted, however its clients interleave; one that was signalled can    *)
(* only have work of requests that were on their way at the last proof, to *)
(* it or in a predecessor that had yet to exit.                            *)
StopsIdle ==
  /\ TypeOK
  /\ \A g \in Gen : Stopping(g) =>
       /\ told[g] = "accepted" =>
            Admitted(g) = {} /\ (lock = g => work = {} /\ ~child[g])
       /\ told[g] = "signalled" => \E s \in Setup :
            /\ target[s] = g /\ Admitted(g) \subseteq flying[s]
            /\ lock = g => work \subseteq flying[s]

(* A broker that serves is found at the published path, unless a setup has *)
(* its socket behind a fence: neither the shutdown of an older generation, *)
(* which unlinks by path, nor another setup removes it, and a setup that   *)
(* ends without having told it to stop has put its socket back.  The       *)
(* exceptions are a setup that died or found the path taken, and the       *)
(* sockets that are lost between a setup's look at the path and its rename.*)
Reachable ==
  \A g \in Gen : life[g] = "serving" =>
    \/ name = g
    \/ \E s \in Setup :
         fence[s] = g /\ (step[s] \in {"refused", "failed"} => told[g] # "no")
    \/ g \in lost

(* README.md:171, of the legacy handoff: it "restores those sockets on any *)
(* active or ambiguous evidence".  Does not hold: the socket that took the *)
(* path between the last look and the rename is not put back.              *)
RefusalRestores ==
  (\A s \in Setup : step[s] \in {"start", "refused"}) =>
    \A g \in Gen : life[g] = "serving" => name = g

(* The gate is never left closed on a broker that goes on: a drain ends in *)
(* a refusal that opens it again, or in the end of the generation with the *)
(* lease released.                                                         *)
DrainSettles ==
  \A g \in Gen : gate[g] ~> (~gate[g] \/ life[g] \in {"stopped", "dead"})
=============================================================================
