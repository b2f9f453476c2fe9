---------------------------- MODULE BrokerLease ----------------------------
(***************************************************************************)
(* The broker lease, src/src/broker-lease.mjs: processes that compete for  *)
(* one file, broker.lock, in the data directory, and the browser child of  *)
(* the process that owns it.                                               *)
(*                                                                         *)
(* Every file-system call is a step of its own: reading the lock, judging  *)
(* from what was read whether its owner is dead, renaming a stale lock     *)
(* away, linking a claim in its place, the read and the write of the epoch *)
(* file, and the write that turns the claim into an active lease.  A       *)
(* process may crash between any two of them; its browser child runs in a  *)
(* process group of its own and survives it.                               *)
(*                                                                         *)
(* A process acquires at most once.  Its brokerId and its pid are its      *)
(* name, and pids are not reused.  The adapter runs one child at a time.   *)
(***************************************************************************)
EXTENDS Integers, FiniteSets

CONSTANTS
  Proc,            \* processes that start a broker
  Attempts,        \* acquireBrokerLease gives up after so many (4)
  Bounds,          \* bounds: processes acquiring at the same time, and
                   \* crashes, shutdowns and failed claims
  None

ASSUME AttemptsAssumption == Attempts \in Nat \ {0}
ASSUME BoundsAssumption == Bounds \subseteq [contenders : Nat, departures : Nat]
ASSUME LockNoneAssumption ==
  None \notin [owner : Proc, epoch : Nat, child : BOOLEAN,
               state : {"claiming", "active"}]

VARIABLES
  lock,            \* broker.lock: its owner record, or None
  epochFile,       \* broker-epoch.json
  pc,              \* where a process is in the life of its lease
  alive,           \* the operating system's view of a process
  seen,            \* the owner record a contender read
  seenEpoch,       \* the epoch it read
  epoch,           \* the epoch it took, 0 before
  attempt,         \* iterations of the acquisition loop it has used
  child,           \* the process's browser child
  departures,      \* how many departures there were
  bound            \* the bounds of this behaviour

vars == <<lock, epochFile, pc, alive, seen, seenEpoch, epoch, attempt,
          child, departures, bound>>

Lock == [owner : Proc, epoch : Nat, child : BOOLEAN,
         state : {"claiming", "active"}]
Acquiring == {"inspect", "judge", "retire", "link",
              "read_epoch", "write_epoch", "activate"}
Owning == {"active", "release", "unlink"}
Ended == {"refused", "contended", "failed", "released", "crashed"}
PC == {"idle", "unclaim_read", "unclaim"} \cup Acquiring \cup Owning \cup Ended
(* spawned: not yet registered, so it has no driver to run; ready: it has  *)
(* been registered and may click; the -ing states hold a checked lock.     *)
Child == {"none", "spawned", "registering", "ready", "exited", "unregistering"}
ChildAlive(p) == child[p] \in {"spawned", "registering", "ready"}

Init ==
  /\ lock = None /\ epochFile = 0 /\ departures = 0 /\ bound \in Bounds
  /\ pc = [p \in Proc |-> "idle"]
  /\ alive = [p \in Proc |-> FALSE]
  /\ seen = [p \in Proc |-> None]
  /\ seenEpoch = [p \in Proc |-> 0]
  /\ epoch = [p \in Proc |-> 0]
  /\ attempt = [p \in Proc |-> 0]
  /\ child = [p \in Proc |-> "none"]

Goto(p, label) == pc' = [pc EXCEPT ![p] = label]
(* An error leaves acquireBrokerLease and ends the process.                *)
End(p, label) == Goto(p, label) /\ alive' = [alive EXCEPT ![p] = FALSE]
Owns(p) == lock # None /\ lock.owner = p /\ lock.epoch = epoch[p]

-----------------------------------------------------------------------------
(* Acquisition.                                                            *)
Start(p) ==
  /\ pc[p] = "idle"
  /\ Cardinality({q \in Proc : pc[q] \in Acquiring}) < bound.contenders
  /\ Goto(p, "inspect")
  /\ alive' = [alive EXCEPT ![p] = TRUE]
  /\ UNCHANGED <<lock, epochFile, seen, seenEpoch, epoch, attempt, child,
                 departures>>

Inspect(p) ==
  /\ pc[p] = "inspect"
  /\ seen' = [seen EXCEPT ![p] = lock]
  /\ Goto(p, IF lock = None THEN "link" ELSE "judge")
  /\ UNCHANGED <<lock, epochFile, alive, seenEpoch, epoch, attempt, child,
                 departures>>

(* Mutants: only the child is looked at; a claim never looks alive; a      *)
(* registered child always does.                                           *)
LooksAliveByChild(record) == record.child /\ ChildAlive(record.owner)
LooksAliveOnceActive(record) ==
  record.state = "active" /\ (alive[record.owner] \/ record.child)
LooksAliveUnprobed(record) == alive[record.owner] \/ record.child

(* liveOwnerProcesses: the owner's pid, and the children it had registered *)
(* when the record was read.                                               *)
LooksAlive(record) ==
  alive[record.owner] \/ (record.child /\ ChildAlive(record.owner))

(* A mutant: it waits for a live owner to leave.                           *)
JudgeWaits(p) ==
  /\ pc[p] = "judge"
  /\ Goto(p, IF LooksAlive(seen[p]) THEN "inspect" ELSE "retire")
  /\ UNCHANGED <<lock, epochFile, alive, seen, seenEpoch, epoch, attempt,
                 child, departures>>

Judge(p) ==
  /\ pc[p] = "judge"
  /\ IF LooksAlive(seen[p]) THEN End(p, "refused")
     ELSE Goto(p, "retire") /\ UNCHANGED alive
  /\ UNCHANGED <<lock, epochFile, seen, seenEpoch, epoch, attempt, child,
                 departures>>

(* The next iteration of the loop, or broker_lease_contended.              *)
Retry(p) ==
  /\ attempt' = [attempt EXCEPT ![p] = @ + 1]
  /\ IF attempt[p] + 1 < Attempts THEN Goto(p, "inspect") /\ UNCHANGED alive
     ELSE End(p, "contended")

(* retireStaleClaim renames whatever is at the path by now.                *)
Retire(p) ==
  /\ pc[p] = "retire"
  /\ \/ /\ lock # None
        /\ lock' = None
        /\ Goto(p, "link")
        /\ UNCHANGED <<alive, attempt>>
     \/ lock = None /\ Retry(p) /\ UNCHANGED lock
  /\ UNCHANGED <<epochFile, seen, seenEpoch, epoch, child, departures>>

(* fs.link creates the lock exclusively.                                   *)
Link(p) ==
  /\ pc[p] = "link"
  /\ \/ /\ lock = None
        /\ lock' = [owner |-> p, epoch |-> 0, child |-> FALSE,
                    state |-> "claiming"]
        /\ Goto(p, "read_epoch")
        /\ UNCHANGED <<alive, attempt>>
     \/ lock # None /\ Retry(p) /\ UNCHANGED lock
  /\ UNCHANGED <<epochFile, seen, seenEpoch, epoch, child, departures>>

ReadEpoch(p) ==
  /\ pc[p] = "read_epoch"
  /\ seenEpoch' = [seenEpoch EXCEPT ![p] = epochFile]
  /\ Goto(p, "write_epoch")
  /\ UNCHANGED <<lock, epochFile, alive, seen, epoch, attempt, child,
                 departures>>

WriteEpoch(p) ==
  /\ pc[p] = "write_epoch"
  /\ epochFile' = seenEpoch[p] + 1
  /\ epoch' = [epoch EXCEPT ![p] = seenEpoch[p] + 1]
  /\ Goto(p, "activate")
  /\ UNCHANGED <<lock, alive, seen, seenEpoch, attempt, child, departures>>

(* writeAtomic renames the active record over whatever lock is there.      *)
Activate(p) ==
  /\ pc[p] = "activate"
  /\ lock' = [owner |-> p, epoch |-> epoch[p], child |-> FALSE,
              state |-> "active"]
  /\ Goto(p, "active")
  /\ UNCHANGED <<epochFile, alive, seen, seenEpoch, epoch, attempt, child,
                 departures>>

(* An error after the claim was linked: the claim is read back and, if it  *)
(* still is this process's, unlinked.                                      *)
ClaimFails(p) ==
  /\ pc[p] \in {"read_epoch", "write_epoch", "activate"}
  /\ departures < bound.departures
  /\ departures' = departures + 1
  /\ Goto(p, "unclaim_read")
  /\ UNCHANGED <<lock, epochFile, alive, seen, seenEpoch, epoch, attempt,
                 child>>

UnclaimRead(p) ==
  /\ pc[p] = "unclaim_read"
  /\ IF lock # None /\ lock.owner = p
       THEN Goto(p, "unclaim") /\ UNCHANGED alive ELSE End(p, "failed")
  /\ UNCHANGED <<lock, epochFile, seen, seenEpoch, epoch, attempt, child,
                 departures>>

Unclaim(p) ==
  /\ pc[p] = "unclaim"
  /\ lock' = None
  /\ End(p, "failed")
  /\ UNCHANGED <<epochFile, seen, seenEpoch, epoch, attempt, child,
                 departures>>

-----------------------------------------------------------------------------
(* The browser child of an active broker.                                  *)
Spawn(p) ==
  /\ pc[p] = "active" /\ child[p] = "none"
  /\ child' = [child EXCEPT ![p] = "spawned"]
  /\ UNCHANGED <<lock, epochFile, pc, alive, seen, seenEpoch, epoch, attempt,
                 departures>>

(* registerChild reads the lock, and refuses when the lease is lost: the   *)
(* child is then killed without ever having run a driver.                  *)
RegisterCheck(p) ==
  /\ pc[p] = "active" /\ child[p] = "spawned"
  /\ child' = [child EXCEPT ![p] = IF Owns(p) THEN "registering" ELSE "none"]
  /\ UNCHANGED <<lock, epochFile, pc, alive, seen, seenEpoch, epoch, attempt,
                 departures>>

WriteLease(p, registered) ==
  lock' = [owner |-> p, epoch |-> epoch[p], child |-> registered,
           state |-> "active"]

Register(p) ==
  /\ pc[p] = "active" /\ child[p] = "registering"
  /\ WriteLease(p, TRUE)
  /\ child' = [child EXCEPT ![p] = "ready"]
  /\ UNCHANGED <<epochFile, pc, alive, seen, seenEpoch, epoch, attempt,
                 departures>>

(* A child ends by itself, at its deadline, or when its stdin closes.      *)
ChildExits(p) ==
  /\ child[p] = "ready" \/ (ChildAlive(p) /\ ~alive[p])
  /\ child' = [child EXCEPT ![p] = "exited"]
  /\ UNCHANGED <<lock, epochFile, pc, alive, seen, seenEpoch, epoch, attempt,
                 departures>>

UnregisterCheck(p) ==
  /\ pc[p] = "active" /\ child[p] = "exited"
  /\ child' = [child EXCEPT ![p] = IF Owns(p) THEN "unregistering" ELSE "none"]
  /\ UNCHANGED <<lock, epochFile, pc, alive, seen, seenEpoch, epoch, attempt,
                 departures>>

Unregister(p) ==
  /\ pc[p] = "active" /\ child[p] = "unregistering"
  /\ WriteLease(p, FALSE)
  /\ child' = [child EXCEPT ![p] = "none"]
  /\ UNCHANGED <<epochFile, pc, alive, seen, seenEpoch, epoch, attempt,
                 departures>>

-----------------------------------------------------------------------------
(* Leaving.  Shutdown drains the adapter before it releases the lease.     *)
Shutdown(p) ==
  /\ pc[p] = "active" /\ child[p] = "none"
  /\ departures < bound.departures
  /\ departures' = departures + 1
  /\ Goto(p, "release")
  /\ UNCHANGED <<lock, epochFile, alive, seen, seenEpoch, epoch, attempt,
                 child>>

ReleaseCheck(p) ==
  /\ pc[p] = "release"
  /\ IF Owns(p) THEN /\ ~(lock.child /\ ChildAlive(p))
                     /\ Goto(p, "unlink") /\ UNCHANGED alive
     ELSE End(p, "failed")
  /\ UNCHANGED <<lock, epochFile, seen, seenEpoch, epoch, attempt, child,
                 departures>>

ReleaseUnlink(p) ==
  /\ pc[p] = "unlink"
  /\ lock' = None
  /\ End(p, "released")
  /\ UNCHANGED <<epochFile, seen, seenEpoch, epoch, attempt, child,
                 departures>>

Crash(p) ==
  /\ alive[p]
  /\ departures < bound.departures
  /\ departures' = departures + 1
  /\ End(p, "crashed")
  /\ UNCHANGED <<lock, epochFile, seen, seenEpoch, epoch, attempt, child>>

Acquire(p) ==
  \/ Inspect(p) \/ Judge(p) \/ Retire(p) \/ Link(p)
  \/ ReadEpoch(p) \/ WriteEpoch(p) \/ Activate(p)
  \/ UnclaimRead(p) \/ Unclaim(p)

RunChild(p) ==
  \/ Spawn(p) \/ RegisterCheck(p) \/ Register(p) \/ ChildExits(p)
  \/ UnregisterCheck(p) \/ Unregister(p)

Leave(p) ==
  \/ ClaimFails(p) \/ Shutdown(p) \/ ReleaseCheck(p) \/ ReleaseUnlink(p)
  \/ Crash(p)

Next ==
  /\ \E p \in Proc : Start(p) \/ Acquire(p) \/ RunChild(p) \/ Leave(p)
  /\ UNCHANGED bound

(* A process that is acquiring keeps running: every wait in the loop is    *)
(* for a file-system call.                                                 *)
Fairness == \A p \in Proc : WF_vars(Acquire(p) /\ UNCHANGED bound)

Spec == Init /\ [][Next]_vars /\ Fairness

-----------------------------------------------------------------------------
TypeOK ==
  /\ lock \in Lock \cup {None} /\ epochFile \in Nat /\ departures \in Nat
  /\ pc \in [Proc -> PC] /\ alive \in [Proc -> BOOLEAN]
  /\ seen \in [Proc -> Lock \cup {None}]
  /\ seenEpoch \in [Proc -> Nat] /\ epoch \in [Proc -> Nat]
  /\ attempt \in [Proc -> 0..Attempts] /\ child \in [Proc -> Child]

(* One authoritative broker generation, "even if two start attempts race"  *)
(* (docs/eagle-monitor.md:141): no two live processes hold the lease that  *)
(* acquireBrokerLease returned.                                            *)
OneGeneration ==
  \A p, q \in Proc :
    pc[p] \in Owning /\ pc[q] \in Owning => p = q

(* The lease handle and the file agree: while a broker holds the lease,    *)
(* broker.lock is its record, so every authority check of it succeeds.     *)
HolderIsRecorded ==
  \A p \in Proc : pc[p] \in Owning => Owns(p)

(* "A live click-capable browser child prevents generation takeover": no   *)
(* process owns the lease while a child of another one may still click.    *)
ChildFence ==
  \A p, q \in Proc :
    pc[p] \in Owning /\ child[q] = "ready" => p = q

(* Until a broker has left, a race of any number of attempts has one       *)
(* winner, and no click-capable child but the winner's.                    *)
OneWinner == departures = 0 => OneGeneration /\ ChildFence

(* The epoch fences generations: no two of them take the same one, and the *)
(* generation that is active has the highest.                              *)
EpochFences ==
  \A p, q \in Proc :
    p # q /\ epoch[p] # 0 =>
      /\ epoch[q] # epoch[p]
      /\ pc[p] \in Owning => epoch[q] < epoch[p]

(* The lock is well formed, and starts that do not overlap keep one        *)
(* generation, recorded and fenced, through every crash and failure of the *)
(* ones before.                                                            *)
SerialGenerations ==
  /\ TypeOK
  /\ bound.contenders = 1 => OneGeneration /\ HolderIsRecorded /\ EpochFences

(* A stale lock does not lock everybody out: a contender that finds one    *)
(* becomes the broker, unless it fails itself.                             *)
StaleIsTakenOver ==
  \A p \in Proc :
    (/\ bound.contenders = 1 /\ pc[p] = "inspect"
     /\ lock # None /\ ~alive[lock.owner] /\ ~ChildAlive(lock.owner))
      ~> pc[p] \in {"active", "failed", "crashed"}

(* Every start attempt ends, however the others interfere.                 *)
AttemptEnds ==
  \A p \in Proc : pc[p] \in Acquiring ~> pc[p] \notin Acquiring
=============================================================================
