------------------------- MODULE BrokerLeaseProofs -------------------------
(* Proofs about BrokerLease, for any number of processes, attempts,        *)
(* crashes, shutdowns and failed claims.                                   *)
EXTENDS BrokerLease, TLAPS, FiniteSetTheorems

(* Past fs.link, up to the unlink that ends the lease or the claim.        *)
Claiming == {"read_epoch", "write_epoch", "activate"}
Withdrawing == {"unclaim_read", "unclaim"}
Holding == Claiming \cup Withdrawing \cup Owning
Trying == {"idle", "inspect", "judge", "retire", "link"}

(* Who is acquiring or holds something lives, and has iterations left.     *)
Running ==
  \A p \in Proc :
    /\ pc[p] \in Acquiring \cup Holding => alive[p]
    /\ pc[p] \in Trying => attempt[p] < Attempts

(* Starts that do not overlap.  One process acquires at a time, the lock   *)
(* is the record of whoever holds it, and a contender about to retire it   *)
(* judges the process whose record it still is.                            *)
OneAcquires ==
  \A p, q \in Proc : pc[p] \in Acquiring /\ pc[q] \in Acquiring => p = q
HoldersLock ==
  \A p \in Proc : pc[p] \in Holding =>
    /\ lock # None /\ lock.owner = p
    /\ pc[p] \in Owning => lock.epoch = epoch[p]
JudgesOwner ==
  \A p \in Proc : pc[p] \in {"judge", "retire"} =>
    /\ seen[p] # None
    /\ lock # None => lock.owner = seen[p].owner
    /\ pc[p] = "retire" => ~alive[seen[p].owner]
(* The epoch file holds the highest epoch, which is the holder's.          *)
EpochsRise ==
  /\ \A p \in Proc : epoch[p] <= epochFile
  /\ \A p \in Proc : pc[p] = "write_epoch" => seenEpoch[p] = epochFile
  /\ \A p \in Proc : pc[p] \in {"activate"} \cup Owning => epoch[p] = epochFile
  /\ \A p, q \in Proc : p # q /\ epoch[p] # 0 => epoch[q] # epoch[p]
NoOverlap == OneAcquires /\ HoldersLock /\ JudgesOwner /\ EpochsRise

(* Before anybody has left, the first to link the lock keeps it: every     *)
(* record anyone has read is of a process that is claiming or active.      *)
Winning == Claiming \cup {"active"}
First ==
  /\ lock # None => pc[lock.owner] \in Winning
  /\ \A p \in Proc :
       /\ pc[p] \notin Withdrawing \cup {"retire", "release", "unlink"}
       /\ pc[p] \in Winning => lock # None /\ lock.owner = p
       /\ pc[p] = "judge" => seen[p] # None /\ pc[seen[p].owner] \in Winning
       /\ child[p] # "none" => pc[p] = "active"

IInv ==
  /\ TypeOK /\ Running
  /\ bound.contenders = 1 => NoOverlap
  /\ departures = 0 => First

-----------------------------------------------------------------------------
(* An iteration that is left over is used, or the attempt ends.            *)
LEMMA RetryTypes ==
  ASSUME TypeOK, Running, NEW p \in Proc, pc[p] \in Trying, Retry(p)
  PROVE  /\ pc' \in [Proc -> PC] /\ alive' \in [Proc -> BOOLEAN]
         /\ attempt' \in [Proc -> 0..Attempts]
<1>1. attempt[p] \in 0..Attempts /\ attempt[p] < Attempts
  BY DEF TypeOK, Running
<1>2. attempt[p] + 1 \in 0..Attempts
  BY <1>1, AttemptsAssumption
<1> QED BY <1>2 DEF Retry, TypeOK, End, Goto, PC, Acquiring, Ended

(* Every step leaves well-formed records.                                  *)
LEMMA TypeStep ==
  ASSUME TypeOK, Running, [Next]_vars
  PROVE  TypeOK'
<1> USE AttemptsAssumption DEF TypeOK
<1>1. ASSUME NEW p \in Proc, Start(p) PROVE TypeOK'
  BY <1>1 DEF Start, Goto, Lock, PC, Acquiring, Owning, Ended, Child, Running,
     Trying
<1>2. ASSUME NEW p \in Proc, Inspect(p) PROVE TypeOK'
  BY <1>2 DEF Inspect, Goto, Lock, PC, Acquiring, Owning, Ended, Child,
     Running, Trying
<1>3. ASSUME NEW p \in Proc, Judge(p) PROVE TypeOK'
  BY <1>3 DEF Judge, Goto, End, LooksAlive, Lock, PC, Acquiring, Owning,
     Ended, Child, Running, Trying
<1>4. ASSUME NEW p \in Proc, Retire(p) PROVE TypeOK'
  <2>1. CASE pc' = [pc EXCEPT ![p] = "link"] /\ alive' = alive /\ attempt' = attempt
    BY <1>4, <2>1 DEF Retire, Lock, PC, Acquiring
  <2>2. CASE Retry(p) /\ UNCHANGED lock
    BY <1>4, <2>2, RetryTypes DEF Retire, Trying
  <2> QED BY <1>4, <2>1, <2>2 DEF Retire, Goto
<1>5. ASSUME NEW p \in Proc, Link(p) PROVE TypeOK'
  <2>1. CASE lock = None
    <3>1. [owner |-> p, epoch |-> 0, child |-> FALSE, state |-> "claiming"] \in Lock
      BY DEF Lock
    <3>2. lock' \in Lock
      BY <1>5, <2>1, <3>1 DEF Link
    <3> QED BY <1>5, <2>1, <3>2 DEF Link, Goto, PC, Acquiring
  <2>2. CASE lock # None
    BY <1>5, <2>2, RetryTypes DEF Link, Trying
  <2> QED BY <2>1, <2>2
<1>6. ASSUME NEW p \in Proc, ReadEpoch(p) PROVE TypeOK'
  BY <1>6 DEF ReadEpoch, Goto, Lock, PC, Acquiring, Owning, Ended, Child,
     Running, Trying
<1>7. ASSUME NEW p \in Proc, WriteEpoch(p) PROVE TypeOK'
  BY <1>7 DEF WriteEpoch, Goto, Lock, PC, Acquiring, Owning, Ended, Child,
     Running, Trying
<1>8. ASSUME NEW p \in Proc, Activate(p) PROVE TypeOK'
  BY <1>8 DEF Activate, Goto, Lock, PC, Acquiring, Owning, Ended, Child,
     Running, Trying
<1>9. ASSUME NEW p \in Proc, UnclaimRead(p) PROVE TypeOK'
  BY <1>9 DEF UnclaimRead, Goto, End, Lock, PC, Acquiring, Owning, Ended,
     Child, Running, Trying
<1>10. ASSUME NEW p \in Proc, Unclaim(p) PROVE TypeOK'
  BY <1>10 DEF Unclaim, Goto, End, Lock, PC, Acquiring, Owning, Ended, Child,
     Running, Trying
<1>11. ASSUME NEW p \in Proc, Spawn(p) PROVE TypeOK'
  BY <1>11 DEF Spawn, Lock, PC, Acquiring, Owning, Ended, Child, Running,
     Trying
<1>12. ASSUME NEW p \in Proc, RegisterCheck(p) PROVE TypeOK'
  BY <1>12 DEF RegisterCheck, Owns, Lock, PC, Acquiring, Owning, Ended, Child,
     Running, Trying
<1>13. ASSUME NEW p \in Proc, Register(p) PROVE TypeOK'
  BY <1>13 DEF Register, WriteLease, Lock, PC, Acquiring, Owning, Ended,
     Child, Running, Trying
<1>14. ASSUME NEW p \in Proc, ChildExits(p) PROVE TypeOK'
  BY <1>14 DEF ChildExits, ChildAlive, Lock, PC, Acquiring, Owning, Ended,
     Child, Running, Trying
<1>15. ASSUME NEW p \in Proc, UnregisterCheck(p) PROVE TypeOK'
  BY <1>15 DEF UnregisterCheck, Owns, Lock, PC, Acquiring, Owning, Ended,
     Child, Running, Trying
<1>16. ASSUME NEW p \in Proc, Unregister(p) PROVE TypeOK'
  BY <1>16 DEF Unregister, WriteLease, Lock, PC, Acquiring, Owning, Ended,
     Child, Running, Trying
<1>17. ASSUME NEW p \in Proc, ClaimFails(p) PROVE TypeOK'
  BY <1>17 DEF ClaimFails, Goto, Lock, PC, Acquiring, Owning, Ended, Child,
     Running, Trying
<1>18. ASSUME NEW p \in Proc, Shutdown(p) PROVE TypeOK'
  BY <1>18 DEF Shutdown, Goto, Lock, PC, Acquiring, Owning, Ended, Child,
     Running, Trying
<1>19. ASSUME NEW p \in Proc, ReleaseCheck(p) PROVE TypeOK'
  BY <1>19 DEF ReleaseCheck, Goto, End, Owns, Lock, PC, Acquiring, Owning,
     Ended, Child, Running, Trying
<1>20. ASSUME NEW p \in Proc, ReleaseUnlink(p) PROVE TypeOK'
  BY <1>20 DEF ReleaseUnlink, Goto, End, Lock, PC, Acquiring, Owning, Ended,
     Child, Running, Trying
<1>21. ASSUME NEW p \in Proc, Crash(p) PROVE TypeOK'
  BY <1>21 DEF Crash, Goto, End, Lock, PC, Acquiring, Owning, Ended, Child,
     Running, Trying
<1>22. CASE UNCHANGED vars
  BY <1>22 DEF vars, Lock, PC, Acquiring, Owning, Ended, Child, Running, Trying
<1> QED BY <1>1, <1>2, <1>3, <1>4, <1>5, <1>6, <1>7, <1>8, <1>9, <1>10, <1>11,
  <1>12, <1>13, <1>14, <1>15, <1>16, <1>17, <1>18, <1>19, <1>20, <1>21, <1>22
        DEF Next, Acquire, RunChild, Leave

(* Whoever runs is alive.                                                  *)
LEMMA RunningStep ==
  ASSUME TypeOK, Running, [Next]_vars
  PROVE  Running'
<1> USE AttemptsAssumption DEF TypeOK, Running
<1>1. ASSUME NEW p \in Proc, Start(p) PROVE Running'
  BY <1>1 DEF Start, Goto, Acquiring, Owning, Holding, Claiming, Withdrawing,
     Trying
<1>2. ASSUME NEW p \in Proc, Inspect(p) PROVE Running'
  BY <1>2 DEF Inspect, Goto, Acquiring, Owning, Holding, Claiming,
     Withdrawing, Trying
<1>3. ASSUME NEW p \in Proc, Judge(p) PROVE Running'
  BY <1>3 DEF Judge, Goto, End, LooksAlive, Acquiring, Owning, Holding,
     Claiming, Withdrawing, Trying
<1>4. ASSUME NEW p \in Proc, Retire(p) PROVE Running'
  BY <1>4 DEF Retire, Goto, End, Retry, Acquiring, Owning, Holding, Claiming,
     Withdrawing, Trying
<1>5. ASSUME NEW p \in Proc, Link(p) PROVE Running'
  BY <1>5 DEF Link, Goto, End, Retry, Acquiring, Owning, Holding, Claiming,
     Withdrawing, Trying
<1>6. ASSUME NEW p \in Proc, ReadEpoch(p) PROVE Running'
  BY <1>6 DEF ReadEpoch, Goto, Acquiring, Owning, Holding, Claiming,
     Withdrawing, Trying
<1>7. ASSUME NEW p \in Proc, WriteEpoch(p) PROVE Running'
  BY <1>7 DEF WriteEpoch, Goto, Acquiring, Owning, Holding, Claiming,
     Withdrawing, Trying
<1>8. ASSUME NEW p \in Proc, Activate(p) PROVE Running'
  BY <1>8 DEF Activate, Goto, Acquiring, Owning, Holding, Claiming,
     Withdrawing, Trying
<1>9. ASSUME NEW p \in Proc, UnclaimRead(p) PROVE Running'
  BY <1>9 DEF UnclaimRead, Goto, End, Acquiring, Owning, Holding, Claiming,
     Withdrawing, Trying
<1>10. ASSUME NEW p \in Proc, Unclaim(p) PROVE Running'
  BY <1>10 DEF Unclaim, Goto, End, Acquiring, Owning, Holding, Claiming,
     Withdrawing, Trying
<1>11. ASSUME NEW p \in Proc, Spawn(p) PROVE Running'
  BY <1>11 DEF Spawn, Acquiring, Owning, Holding, Claiming, Withdrawing, Trying
<1>12. ASSUME NEW p \in Proc, RegisterCheck(p) PROVE Running'
  BY <1>12 DEF RegisterCheck, Owns, Acquiring, Owning, Holding, Claiming,
     Withdrawing, Trying
<1>13. ASSUME NEW p \in Proc, Register(p) PROVE Running'
  BY <1>13 DEF Register, WriteLease, Acquiring, Owning, Holding, Claiming,
     Withdrawing, Trying
<1>14. ASSUME NEW p \in Proc, ChildExits(p) PROVE Running'
  BY <1>14 DEF ChildExits, ChildAlive, Acquiring, Owning, Holding, Claiming,
     Withdrawing, Trying
<1>15. ASSUME NEW p \in Proc, UnregisterCheck(p) PROVE Running'
  BY <1>15 DEF UnregisterCheck, Owns, Acquiring, Owning, Holding, Claiming,
     Withdrawing, Trying
<1>16. ASSUME NEW p \in Proc, Unregister(p) PROVE Running'
  BY <1>16 DEF Unregister, WriteLease, Acquiring, Owning, Holding, Claiming,
     Withdrawing, Trying
<1>17. ASSUME NEW p \in Proc, ClaimFails(p) PROVE Running'
  BY <1>17 DEF ClaimFails, Goto, Acquiring, Owning, Holding, Claiming,
     Withdrawing, Trying
<1>18. ASSUME NEW p \in Proc, Shutdown(p) PROVE Running'
  BY <1>18 DEF Shutdown, Goto, Acquiring, Owning, Holding, Claiming,
     Withdrawing, Trying
<1>19. ASSUME NEW p \in Proc, ReleaseCheck(p) PROVE Running'
  BY <1>19 DEF ReleaseCheck, Goto, End, Owns, Acquiring, Owning, Holding,
     Claiming, Withdrawing, Trying
<1>20. ASSUME NEW p \in Proc, ReleaseUnlink(p) PROVE Running'
  BY <1>20 DEF ReleaseUnlink, Goto, End, Acquiring, Owning, Holding, Claiming,
     Withdrawing, Trying
<1>21. ASSUME NEW p \in Proc, Crash(p) PROVE Running'
  BY <1>21 DEF Crash, Goto, End, Acquiring, Owning, Holding, Claiming,
     Withdrawing, Trying
<1>22. CASE UNCHANGED vars
  BY <1>22 DEF vars, Acquiring, Owning, Holding, Claiming, Withdrawing, Trying
<1> QED BY <1>1, <1>2, <1>3, <1>4, <1>5, <1>6, <1>7, <1>8, <1>9, <1>10, <1>11,
  <1>12, <1>13, <1>14, <1>15, <1>16, <1>17, <1>18, <1>19, <1>20, <1>21, <1>22
        DEF Next, Acquire, RunChild, Leave

-----------------------------------------------------------------------------
(* A lock record is no missing lock.                                       *)
LEMMA RecordIsLock ==
  ASSUME NEW p \in Proc, NEW n \in Nat, NEW registered \in BOOLEAN,
         NEW state \in {"claiming", "active"}
  PROVE  [owner |-> p, epoch |-> n, child |-> registered, state |-> state] # None
  BY LockNoneAssumption

(* While starts do not overlap, one that begins finds nobody acquiring.    *)
LEMMA NobodyAcquires ==
  ASSUME OneAcquires, bound.contenders = 1,
         Cardinality({q \in Proc : pc[q] \in Acquiring}) < bound.contenders
  PROVE  \A q \in Proc : pc[q] \notin Acquiring
<1> DEFINE S == {q \in Proc : pc[q] \in Acquiring}
<1> SUFFICES ASSUME NEW q \in Proc, pc[q] \in Acquiring PROVE FALSE
  OBVIOUS
<1>1. S = {q}
  BY DEF OneAcquires
<1>2. Cardinality(S) = 1
  BY <1>1, FS_Singleton
<1> QED BY <1>2

(* Holding is exclusive, for there is one lock.                            *)
LEMMA OneHolds ==
  ASSUME HoldersLock
  PROVE  \A p, q \in Proc : pc[p] \in Holding /\ pc[q] \in Holding => p = q
  BY DEF HoldersLock

(* One start at a time stays one.                                          *)
LEMMA OneAcquiresStep ==
  ASSUME TypeOK, OneAcquires, bound.contenders = 1, [Next]_vars
  PROVE  OneAcquires'
<1> USE DEF TypeOK, OneAcquires
<1>1. ASSUME NEW p \in Proc, Start(p) PROVE OneAcquires'
  BY <1>1, NobodyAcquires DEF Start, Goto, Acquiring
<1>2. ASSUME NEW p \in Proc, Inspect(p) PROVE OneAcquires'
  BY <1>2 DEF Inspect, Goto, Acquiring
<1>3. ASSUME NEW p \in Proc, Judge(p) PROVE OneAcquires'
  BY <1>3 DEF Judge, Goto, End, LooksAlive, Acquiring
<1>4. ASSUME NEW p \in Proc, Retire(p) PROVE OneAcquires'
  BY <1>4 DEF Retire, Goto, End, Retry, Acquiring
<1>5. ASSUME NEW p \in Proc, Link(p) PROVE OneAcquires'
  BY <1>5 DEF Link, Goto, End, Retry, Acquiring
<1>6. ASSUME NEW p \in Proc, ReadEpoch(p) PROVE OneAcquires'
  BY <1>6 DEF ReadEpoch, Goto, Acquiring
<1>7. ASSUME NEW p \in Proc, WriteEpoch(p) PROVE OneAcquires'
  BY <1>7 DEF WriteEpoch, Goto, Acquiring
<1>8. ASSUME NEW p \in Proc, Activate(p) PROVE OneAcquires'
  BY <1>8 DEF Activate, Goto, Acquiring
<1>9. ASSUME NEW p \in Proc, UnclaimRead(p) PROVE OneAcquires'
  BY <1>9 DEF UnclaimRead, Goto, End, Acquiring
<1>10. ASSUME NEW p \in Proc, Unclaim(p) PROVE OneAcquires'
  BY <1>10 DEF Unclaim, Goto, End, Acquiring
<1>11. ASSUME NEW p \in Proc, Spawn(p) PROVE OneAcquires'
  BY <1>11 DEF Spawn, Acquiring
<1>12. ASSUME NEW p \in Proc, RegisterCheck(p) PROVE OneAcquires'
  BY <1>12 DEF RegisterCheck, Owns, Acquiring
<1>13. ASSUME NEW p \in Proc, Register(p) PROVE OneAcquires'
  BY <1>13 DEF Register, WriteLease, Acquiring
<1>14. ASSUME NEW p \in Proc, ChildExits(p) PROVE OneAcquires'
  BY <1>14 DEF ChildExits, ChildAlive, Acquiring
<1>15. ASSUME NEW p \in Proc, UnregisterCheck(p) PROVE OneAcquires'
  BY <1>15 DEF UnregisterCheck, Owns, Acquiring
<1>16. ASSUME NEW p \in Proc, Unregister(p) PROVE OneAcquires'
  BY <1>16 DEF Unregister, WriteLease, Acquiring
<1>17. ASSUME NEW p \in Proc, ClaimFails(p) PROVE OneAcquires'
  BY <1>17 DEF ClaimFails, Goto, Acquiring
<1>18. ASSUME NEW p \in Proc, Shutdown(p) PROVE OneAcquires'
  BY <1>18 DEF Shutdown, Goto, Acquiring
<1>19. ASSUME NEW p \in Proc, ReleaseCheck(p) PROVE OneAcquires'
  BY <1>19 DEF ReleaseCheck, Goto, End, Owns, Acquiring
<1>20. ASSUME NEW p \in Proc, ReleaseUnlink(p) PROVE OneAcquires'
  BY <1>20 DEF ReleaseUnlink, Goto, End, Acquiring
<1>21. ASSUME NEW p \in Proc, Crash(p) PROVE OneAcquires'
  BY <1>21 DEF Crash, Goto, End, Acquiring
<1>22. CASE UNCHANGED vars
  BY <1>22 DEF vars, Acquiring
<1> QED BY <1>1, <1>2, <1>3, <1>4, <1>5, <1>6, <1>7, <1>8, <1>9, <1>10, <1>11,
  <1>12, <1>13, <1>14, <1>15, <1>16, <1>17, <1>18, <1>19, <1>20, <1>21, <1>22
        DEF Next, Acquire, RunChild, Leave

(* The lock stays the record of whoever holds it: it is renamed away only  *)
(* from somebody dead, and unlinked only by its holder.                    *)
LEMMA HoldersLockStep ==
  ASSUME TypeOK, Running, NoOverlap, [Next]_vars
  PROVE  HoldersLock'
<1> USE DEF TypeOK, NoOverlap, HoldersLock
<1>1. ASSUME NEW p \in Proc, Start(p) PROVE HoldersLock'
  BY <1>1 DEF Start, Goto, Acquiring, Owning, Holding, Claiming, Withdrawing
<1>2. ASSUME NEW p \in Proc, Inspect(p) PROVE HoldersLock'
  BY <1>2 DEF Inspect, Goto, Acquiring, Owning, Holding, Claiming, Withdrawing
<1>3. ASSUME NEW p \in Proc, Judge(p) PROVE HoldersLock'
  BY <1>3 DEF Judge, Goto, End, LooksAlive, Acquiring, Owning, Holding,
     Claiming, Withdrawing
<1>4. ASSUME NEW p \in Proc, Retire(p) PROVE HoldersLock'
  <2>1. ASSUME lock # None PROVE \A q \in Proc : pc[q] \notin Holding
    BY <1>4, <2>1 DEF Retire, JudgesOwner, Running
  <2> QED BY <1>4, <2>1 DEF Retire, Goto, End, Retry, Acquiring, Owning,
    Holding, Claiming, Withdrawing
<1>5. ASSUME NEW p \in Proc, Link(p) PROVE HoldersLock'
  <2>1. CASE lock = None
    <3>1. [owner |-> p, epoch |-> 0, child |-> FALSE, state |-> "claiming"] # None
      BY RecordIsLock
    <3>2. /\ lock' # None /\ lock'.owner = p
          /\ pc' = [pc EXCEPT ![p] = "read_epoch"]
          /\ alive' = alive /\ seen' = seen /\ epoch' = epoch /\ child' = child
      BY <1>5, <2>1, <3>1 DEF Link, Goto
    <3> QED BY <1>5, <2>1, <3>2 DEF Link, Acquiring, Owning, Holding,
      Claiming, Withdrawing
  <2>2. CASE lock # None
    <3>1. /\ pc[p] = "link"
          /\ lock' = lock /\ seen' = seen /\ epoch' = epoch /\ child' = child
          /\ \/ pc' = [pc EXCEPT ![p] = "inspect"]
             \/ pc' = [pc EXCEPT ![p] = "contended"]
      BY <1>5, <2>2 DEF Link, Goto, End, Retry
    <3> QED BY <2>2, <3>1 DEF Lock, Acquiring, Owning, Holding, Claiming,
      Withdrawing
  <2> QED BY <2>1, <2>2
<1>6. ASSUME NEW p \in Proc, ReadEpoch(p) PROVE HoldersLock'
  BY <1>6 DEF ReadEpoch, Goto, Acquiring, Owning, Holding, Claiming,
     Withdrawing
<1>7. ASSUME NEW p \in Proc, WriteEpoch(p) PROVE HoldersLock'
  BY <1>7 DEF WriteEpoch, Goto, Acquiring, Owning, Holding, Claiming,
     Withdrawing
<1>8. ASSUME NEW p \in Proc, Activate(p) PROVE HoldersLock'
  <2>1. [owner |-> p, epoch |-> epoch[p], child |-> FALSE, state |-> "active"] # None
    BY RecordIsLock
  <2>2. lock' # None /\ lock'.owner = p /\ lock'.epoch = epoch[p]
    BY <1>8, <2>1 DEF Activate
  <2> QED BY <1>8, <2>2 DEF Activate, Goto, Acquiring, Owning, Holding,
    Claiming, Withdrawing
<1>9. ASSUME NEW p \in Proc, UnclaimRead(p) PROVE HoldersLock'
  BY <1>9 DEF UnclaimRead, Goto, End, Acquiring, Owning, Holding, Claiming,
     Withdrawing
<1>10. ASSUME NEW p \in Proc, Unclaim(p) PROVE HoldersLock'
  BY <1>10 DEF Unclaim, Goto, End, Acquiring, Owning, Holding, Claiming,
     Withdrawing
<1>11. ASSUME NEW p \in Proc, Spawn(p) PROVE HoldersLock'
  BY <1>11 DEF Spawn, Acquiring, Owning, Holding, Claiming, Withdrawing
<1>12. ASSUME NEW p \in Proc, RegisterCheck(p) PROVE HoldersLock'
  BY <1>12 DEF RegisterCheck, Owns, Acquiring, Owning, Holding, Claiming,
     Withdrawing
<1>13. ASSUME NEW p \in Proc, Register(p) PROVE HoldersLock'
  <2>1. [owner |-> p, epoch |-> epoch[p], child |-> TRUE, state |-> "active"] # None
    BY RecordIsLock
  <2>2. lock' # None /\ lock'.owner = p /\ lock'.epoch = epoch[p]
    BY <1>13, <2>1 DEF Register, WriteLease
  <2> QED BY <1>13, <2>2 DEF Register, Acquiring, Owning, Holding, Claiming,
    Withdrawing
<1>14. ASSUME NEW p \in Proc, ChildExits(p) PROVE HoldersLock'
  BY <1>14 DEF ChildExits, ChildAlive, Acquiring, Owning, Holding, Claiming,
     Withdrawing
<1>15. ASSUME NEW p \in Proc, UnregisterCheck(p) PROVE HoldersLock'
  BY <1>15 DEF UnregisterCheck, Owns, Acquiring, Owning, Holding, Claiming,
     Withdrawing
<1>16. ASSUME NEW p \in Proc, Unregister(p) PROVE HoldersLock'
  <2>1. [owner |-> p, epoch |-> epoch[p], child |-> FALSE, state |-> "active"] # None
    BY RecordIsLock
  <2>2. lock' # None /\ lock'.owner = p /\ lock'.epoch = epoch[p]
    BY <1>16, <2>1 DEF Unregister, WriteLease
  <2> QED BY <1>16, <2>2 DEF Unregister, Acquiring, Owning, Holding, Claiming,
    Withdrawing
<1>17. ASSUME NEW p \in Proc, ClaimFails(p) PROVE HoldersLock'
  BY <1>17 DEF ClaimFails, Goto, Acquiring, Owning, Holding, Claiming,
     Withdrawing
<1>18. ASSUME NEW p \in Proc, Shutdown(p) PROVE HoldersLock'
  BY <1>18 DEF Shutdown, Goto, Acquiring, Owning, Holding, Claiming,
     Withdrawing
<1>19. ASSUME NEW p \in Proc, ReleaseCheck(p) PROVE HoldersLock'
  BY <1>19 DEF ReleaseCheck, Goto, End, Owns, Acquiring, Owning, Holding,
     Claiming, Withdrawing
<1>20. ASSUME NEW p \in Proc, ReleaseUnlink(p) PROVE HoldersLock'
  BY <1>20 DEF ReleaseUnlink, Goto, End, Acquiring, Owning, Holding, Claiming,
     Withdrawing
<1>21. ASSUME NEW p \in Proc, Crash(p) PROVE HoldersLock'
  BY <1>21 DEF Crash, Goto, End, Acquiring, Owning, Holding, Claiming,
     Withdrawing
<1>22. CASE UNCHANGED vars
  BY <1>22 DEF vars, Acquiring, Owning, Holding, Claiming, Withdrawing
<1> QED BY <1>1, <1>2, <1>3, <1>4, <1>5, <1>6, <1>7, <1>8, <1>9, <1>10, <1>11,
  <1>12, <1>13, <1>14, <1>15, <1>16, <1>17, <1>18, <1>19, <1>20, <1>21, <1>22
        DEF Next, Acquire, RunChild, Leave

(* The record a contender judges stays the lock's, up to its child, and    *)
(* who was found dead stays dead.                                          *)
LEMMA JudgesOwnerStep ==
  ASSUME TypeOK, Running, NoOverlap, bound.contenders = 1, [Next]_vars
  PROVE  JudgesOwner'
<1> USE DEF TypeOK, NoOverlap, JudgesOwner
<1>1. ASSUME NEW p \in Proc, Start(p) PROVE JudgesOwner'
  BY <1>1, NobodyAcquires DEF Start, Goto, Acquiring
<1>2. ASSUME NEW p \in Proc, Inspect(p) PROVE JudgesOwner'
  BY <1>2, OneHolds DEF Inspect, Goto, HoldersLock, OneAcquires, Acquiring,
     Owning, Holding, Claiming, Withdrawing
<1>3. ASSUME NEW p \in Proc, Judge(p) PROVE JudgesOwner'
  BY <1>3, OneHolds DEF Judge, Goto, End, LooksAlive, HoldersLock,
     OneAcquires, Acquiring, Owning, Holding, Claiming, Withdrawing
<1>4. ASSUME NEW p \in Proc, Retire(p) PROVE JudgesOwner'
  BY <1>4, OneHolds DEF Retire, Goto, End, Retry, HoldersLock, OneAcquires,
     Acquiring, Owning, Holding, Claiming, Withdrawing
<1>5. ASSUME NEW p \in Proc, Link(p) PROVE JudgesOwner'
  BY <1>5, OneHolds DEF Link, Goto, End, Retry, HoldersLock, OneAcquires,
     Acquiring, Owning, Holding, Claiming, Withdrawing
<1>6. ASSUME NEW p \in Proc, ReadEpoch(p) PROVE JudgesOwner'
  BY <1>6, OneHolds DEF ReadEpoch, Goto, HoldersLock, OneAcquires, Acquiring,
     Owning, Holding, Claiming, Withdrawing
<1>7. ASSUME NEW p \in Proc, WriteEpoch(p) PROVE JudgesOwner'
  BY <1>7, OneHolds DEF WriteEpoch, Goto, HoldersLock, OneAcquires, Acquiring,
     Owning, Holding, Claiming, Withdrawing
<1>8. ASSUME NEW p \in Proc, Activate(p) PROVE JudgesOwner'
  BY <1>8, OneHolds DEF Activate, Goto, HoldersLock, OneAcquires, Acquiring,
     Owning, Holding, Claiming, Withdrawing
<1>9. ASSUME NEW p \in Proc, UnclaimRead(p) PROVE JudgesOwner'
  BY <1>9, OneHolds DEF UnclaimRead, Goto, End, HoldersLock, OneAcquires,
     Acquiring, Owning, Holding, Claiming, Withdrawing
<1>10. ASSUME NEW p \in Proc, Unclaim(p) PROVE JudgesOwner'
  BY <1>10, OneHolds DEF Unclaim, Goto, End, HoldersLock, OneAcquires,
     Acquiring, Owning, Holding, Claiming, Withdrawing
<1>11. ASSUME NEW p \in Proc, Spawn(p) PROVE JudgesOwner'
  BY <1>11, OneHolds DEF Spawn, HoldersLock, OneAcquires, Acquiring, Owning,
     Holding, Claiming, Withdrawing
<1>12. ASSUME NEW p \in Proc, RegisterCheck(p) PROVE JudgesOwner'
  BY <1>12, OneHolds DEF RegisterCheck, Owns, HoldersLock, OneAcquires,
     Acquiring, Owning, Holding, Claiming, Withdrawing
<1>13. ASSUME NEW p \in Proc, Register(p) PROVE JudgesOwner'
  BY <1>13, OneHolds DEF Register, WriteLease, HoldersLock, OneAcquires,
     Acquiring, Owning, Holding, Claiming, Withdrawing
<1>14. ASSUME NEW p \in Proc, ChildExits(p) PROVE JudgesOwner'
  BY <1>14, OneHolds DEF ChildExits, ChildAlive, HoldersLock, OneAcquires,
     Acquiring, Owning, Holding, Claiming, Withdrawing
<1>15. ASSUME NEW p \in Proc, UnregisterCheck(p) PROVE JudgesOwner'
  BY <1>15, OneHolds DEF UnregisterCheck, Owns, HoldersLock, OneAcquires,
     Acquiring, Owning, Holding, Claiming, Withdrawing
<1>16. ASSUME NEW p \in Proc, Unregister(p) PROVE JudgesOwner'
  BY <1>16, OneHolds DEF Unregister, WriteLease, HoldersLock, OneAcquires,
     Acquiring, Owning, Holding, Claiming, Withdrawing
<1>17. ASSUME NEW p \in Proc, ClaimFails(p) PROVE JudgesOwner'
  BY <1>17, OneHolds DEF ClaimFails, Goto, HoldersLock, OneAcquires,
     Acquiring, Owning, Holding, Claiming, Withdrawing
<1>18. ASSUME NEW p \in Proc, Shutdown(p) PROVE JudgesOwner'
  BY <1>18, OneHolds DEF Shutdown, Goto, HoldersLock, OneAcquires, Acquiring,
     Owning, Holding, Claiming, Withdrawing
<1>19. ASSUME NEW p \in Proc, ReleaseCheck(p) PROVE JudgesOwner'
  BY <1>19, OneHolds DEF ReleaseCheck, Goto, End, Owns, HoldersLock,
     OneAcquires, Acquiring, Owning, Holding, Claiming, Withdrawing
<1>20. ASSUME NEW p \in Proc, ReleaseUnlink(p) PROVE JudgesOwner'
  BY <1>20, OneHolds DEF ReleaseUnlink, Goto, End, HoldersLock, OneAcquires,
     Acquiring, Owning, Holding, Claiming, Withdrawing
<1>21. ASSUME NEW p \in Proc, Crash(p) PROVE JudgesOwner'
  BY <1>21, OneHolds DEF Crash, Goto, End, HoldersLock, OneAcquires,
     Acquiring, Owning, Holding, Claiming, Withdrawing
<1>22. CASE UNCHANGED vars
  BY <1>22 DEF vars, HoldersLock, OneAcquires, Acquiring, Owning, Holding,
     Claiming, Withdrawing
<1> QED BY <1>1, <1>2, <1>3, <1>4, <1>5, <1>6, <1>7, <1>8, <1>9, <1>10, <1>11,
  <1>12, <1>13, <1>14, <1>15, <1>16, <1>17, <1>18, <1>19, <1>20, <1>21, <1>22
        DEF Next, Acquire, RunChild, Leave

(* Epochs are taken one above the file, by one holder at a time.           *)
LEMMA EpochsRiseStep ==
  ASSUME TypeOK, Running, NoOverlap, [Next]_vars
  PROVE  EpochsRise'
<1> USE DEF TypeOK, NoOverlap, EpochsRise
<1>1. ASSUME NEW p \in Proc, Start(p) PROVE EpochsRise'
  BY <1>1 DEF Start, Goto, Acquiring, Owning, Holding, Claiming, Withdrawing
<1>2. ASSUME NEW p \in Proc, Inspect(p) PROVE EpochsRise'
  BY <1>2 DEF Inspect, Goto, Acquiring, Owning, Holding, Claiming, Withdrawing
<1>3. ASSUME NEW p \in Proc, Judge(p) PROVE EpochsRise'
  BY <1>3 DEF Judge, Goto, End, LooksAlive, Acquiring, Owning, Holding,
     Claiming, Withdrawing
<1>4. ASSUME NEW p \in Proc, Retire(p) PROVE EpochsRise'
  BY <1>4 DEF Retire, Goto, End, Retry, Acquiring, Owning, Holding, Claiming,
     Withdrawing
<1>5. ASSUME NEW p \in Proc, Link(p) PROVE EpochsRise'
  BY <1>5 DEF Link, Goto, End, Retry, Acquiring, Owning, Holding, Claiming,
     Withdrawing
<1>6. ASSUME NEW p \in Proc, ReadEpoch(p) PROVE EpochsRise'
  BY <1>6 DEF ReadEpoch, Goto, Acquiring, Owning, Holding, Claiming,
     Withdrawing
<1>7. ASSUME NEW p \in Proc, WriteEpoch(p) PROVE EpochsRise'
  BY <1>7, OneHolds DEF WriteEpoch, Goto, Acquiring, Owning, Holding, Claiming
<1>8. ASSUME NEW p \in Proc, Activate(p) PROVE EpochsRise'
  BY <1>8 DEF Activate, Goto, Acquiring, Owning, Holding, Claiming, Withdrawing
<1>9. ASSUME NEW p \in Proc, UnclaimRead(p) PROVE EpochsRise'
  BY <1>9 DEF UnclaimRead, Goto, End, Acquiring, Owning, Holding, Claiming,
     Withdrawing
<1>10. ASSUME NEW p \in Proc, Unclaim(p) PROVE EpochsRise'
  BY <1>10 DEF Unclaim, Goto, End, Acquiring, Owning, Holding, Claiming,
     Withdrawing
<1>11. ASSUME NEW p \in Proc, Spawn(p) PROVE EpochsRise'
  BY <1>11 DEF Spawn, Acquiring, Owning, Holding, Claiming, Withdrawing
<1>12. ASSUME NEW p \in Proc, RegisterCheck(p) PROVE EpochsRise'
  BY <1>12 DEF RegisterCheck, Owns, Acquiring, Owning, Holding, Claiming,
     Withdrawing
<1>13. ASSUME NEW p \in Proc, Register(p) PROVE EpochsRise'
  BY <1>13 DEF Register, WriteLease, Acquiring, Owning, Holding, Claiming,
     Withdrawing
<1>14. ASSUME NEW p \in Proc, ChildExits(p) PROVE EpochsRise'
  BY <1>14 DEF ChildExits, ChildAlive, Acquiring, Owning, Holding, Claiming,
     Withdrawing
<1>15. ASSUME NEW p \in Proc, UnregisterCheck(p) PROVE EpochsRise'
  BY <1>15 DEF UnregisterCheck, Owns, Acquiring, Owning, Holding, Claiming,
     Withdrawing
<1>16. ASSUME NEW p \in Proc, Unregister(p) PROVE EpochsRise'
  BY <1>16 DEF Unregister, WriteLease, Acquiring, Owning, Holding, Claiming,
     Withdrawing
<1>17. ASSUME NEW p \in Proc, ClaimFails(p) PROVE EpochsRise'
  BY <1>17 DEF ClaimFails, Goto, Acquiring, Owning, Holding, Claiming,
     Withdrawing
<1>18. ASSUME NEW p \in Proc, Shutdown(p) PROVE EpochsRise'
  BY <1>18 DEF Shutdown, Goto, Acquiring, Owning, Holding, Claiming,
     Withdrawing
<1>19. ASSUME NEW p \in Proc, ReleaseCheck(p) PROVE EpochsRise'
  BY <1>19 DEF ReleaseCheck, Goto, End, Owns, Acquiring, Owning, Holding,
     Claiming, Withdrawing
<1>20. ASSUME NEW p \in Proc, ReleaseUnlink(p) PROVE EpochsRise'
  BY <1>20 DEF ReleaseUnlink, Goto, End, Acquiring, Owning, Holding, Claiming,
     Withdrawing
<1>21. ASSUME NEW p \in Proc, Crash(p) PROVE EpochsRise'
  BY <1>21 DEF Crash, Goto, End, Acquiring, Owning, Holding, Claiming,
     Withdrawing
<1>22. CASE UNCHANGED vars
  BY <1>22 DEF vars, Acquiring, Owning, Holding, Claiming, Withdrawing
<1> QED BY <1>1, <1>2, <1>3, <1>4, <1>5, <1>6, <1>7, <1>8, <1>9, <1>10, <1>11,
  <1>12, <1>13, <1>14, <1>15, <1>16, <1>17, <1>18, <1>19, <1>20, <1>21, <1>22
        DEF Next, Acquire, RunChild, Leave

(* Until somebody leaves, the first to link stays the lock's owner.        *)
LEMMA FirstStep ==
  ASSUME TypeOK, Running, First, departures' = 0, [Next]_vars
  PROVE  First'
<1> USE DEF TypeOK, First
<1>1. ASSUME NEW p \in Proc, Start(p) PROVE First'
  BY <1>1 DEF Start, Goto, Running, Acquiring, Owning, Holding, Claiming,
     Withdrawing, Winning
<1>2. ASSUME NEW p \in Proc, Inspect(p) PROVE First'
  BY <1>2 DEF Inspect, Goto, Running, Acquiring, Owning, Holding, Claiming,
     Withdrawing, Winning
<1>3. ASSUME NEW p \in Proc, Judge(p) PROVE First'
  BY <1>3 DEF Judge, Goto, End, LooksAlive, Lock, Running, Acquiring, Owning,
     Holding, Claiming, Withdrawing, Winning
<1>4. ASSUME NEW p \in Proc, Retire(p) PROVE First'
  BY <1>4 DEF Retire, Goto, End, Retry, Running, Acquiring, Owning, Holding,
     Claiming, Withdrawing, Winning
<1>5. ASSUME NEW p \in Proc, Link(p) PROVE First'
  <2>1. CASE lock = None
    <3>1. [owner |-> p, epoch |-> 0, child |-> FALSE, state |-> "claiming"] # None
      BY RecordIsLock
    <3>2. /\ lock' # None /\ lock'.owner = p
          /\ pc' = [pc EXCEPT ![p] = "read_epoch"]
          /\ alive' = alive /\ seen' = seen /\ epoch' = epoch /\ child' = child
      BY <1>5, <2>1, <3>1 DEF Link, Goto
    <3> QED BY <1>5, <2>1, <3>2 DEF Link, Acquiring, Owning, Holding,
      Claiming, Withdrawing, Winning
  <2>2. CASE lock # None
    <3>1. /\ pc[p] = "link"
          /\ lock' = lock /\ seen' = seen /\ epoch' = epoch /\ child' = child
          /\ \/ pc' = [pc EXCEPT ![p] = "inspect"]
             \/ pc' = [pc EXCEPT ![p] = "contended"]
      BY <1>5, <2>2 DEF Link, Goto, End, Retry
    <3> QED BY <2>2, <3>1 DEF Lock, Acquiring, Owning, Holding, Claiming,
      Withdrawing, Winning
  <2> QED BY <2>1, <2>2
<1>6. ASSUME NEW p \in Proc, ReadEpoch(p) PROVE First'
  BY <1>6 DEF ReadEpoch, Goto, Running, Acquiring, Owning, Holding, Claiming,
     Withdrawing, Winning
<1>7. ASSUME NEW p \in Proc, WriteEpoch(p) PROVE First'
  BY <1>7 DEF WriteEpoch, Goto, Running, Acquiring, Owning, Holding, Claiming,
     Withdrawing, Winning
<1>8. ASSUME NEW p \in Proc, Activate(p) PROVE First'
  <2>1. [owner |-> p, epoch |-> epoch[p], child |-> FALSE, state |-> "active"] # None
    BY RecordIsLock
  <2>2. lock' # None /\ lock'.owner = p /\ lock'.epoch = epoch[p]
    BY <1>8, <2>1 DEF Activate
  <2> QED BY <1>8, <2>2 DEF Activate, Goto, Acquiring, Owning, Holding,
    Claiming, Withdrawing, Winning
<1>9. ASSUME NEW p \in Proc, UnclaimRead(p) PROVE First'
  BY <1>9 DEF UnclaimRead, Goto, End, Running, Acquiring, Owning, Holding,
     Claiming, Withdrawing, Winning
<1>10. ASSUME NEW p \in Proc, Unclaim(p) PROVE First'
  BY <1>10 DEF Unclaim, Goto, End, Running, Acquiring, Owning, Holding,
     Claiming, Withdrawing, Winning
<1>11. ASSUME NEW p \in Proc, Spawn(p) PROVE First'
  BY <1>11 DEF Spawn, Running, Acquiring, Owning, Holding, Claiming,
     Withdrawing, Winning
<1>12. ASSUME NEW p \in Proc, RegisterCheck(p) PROVE First'
  BY <1>12 DEF RegisterCheck, Owns, Running, Acquiring, Owning, Holding,
     Claiming, Withdrawing, Winning
<1>13. ASSUME NEW p \in Proc, Register(p) PROVE First'
  <2>1. [owner |-> p, epoch |-> epoch[p], child |-> TRUE, state |-> "active"] # None
    BY RecordIsLock
  <2>2. lock' # None /\ lock'.owner = p /\ lock'.epoch = epoch[p]
    BY <1>13, <2>1 DEF Register, WriteLease
  <2> QED BY <1>13, <2>2 DEF Register, Acquiring, Owning, Holding, Claiming,
    Withdrawing, Winning
<1>14. ASSUME NEW p \in Proc, ChildExits(p) PROVE First'
  BY <1>14 DEF ChildExits, ChildAlive, Running, Acquiring, Owning, Holding,
     Claiming, Withdrawing, Winning
<1>15. ASSUME NEW p \in Proc, UnregisterCheck(p) PROVE First'
  BY <1>15 DEF UnregisterCheck, Owns, Running, Acquiring, Owning, Holding,
     Claiming, Withdrawing, Winning
<1>16. ASSUME NEW p \in Proc, Unregister(p) PROVE First'
  <2>1. [owner |-> p, epoch |-> epoch[p], child |-> FALSE, state |-> "active"] # None
    BY RecordIsLock
  <2>2. lock' # None /\ lock'.owner = p /\ lock'.epoch = epoch[p]
    BY <1>16, <2>1 DEF Unregister, WriteLease
  <2> QED BY <1>16, <2>2 DEF Unregister, Acquiring, Owning, Holding, Claiming,
    Withdrawing, Winning
<1>17. ASSUME NEW p \in Proc, ClaimFails(p) PROVE First'
  BY <1>17 DEF ClaimFails, Goto, Running, Acquiring, Owning, Holding,
     Claiming, Withdrawing, Winning
<1>18. ASSUME NEW p \in Proc, Shutdown(p) PROVE First'
  BY <1>18 DEF Shutdown, Goto, Running, Acquiring, Owning, Holding, Claiming,
     Withdrawing, Winning
<1>19. ASSUME NEW p \in Proc, ReleaseCheck(p) PROVE First'
  BY <1>19 DEF ReleaseCheck, Goto, End, Owns, Running, Acquiring, Owning,
     Holding, Claiming, Withdrawing, Winning
<1>20. ASSUME NEW p \in Proc, ReleaseUnlink(p) PROVE First'
  BY <1>20 DEF ReleaseUnlink, Goto, End, Running, Acquiring, Owning, Holding,
     Claiming, Withdrawing, Winning
<1>21. ASSUME NEW p \in Proc, Crash(p) PROVE First'
  BY <1>21 DEF Crash, Goto, End, Running, Acquiring, Owning, Holding,
     Claiming, Withdrawing, Winning
<1>22. CASE UNCHANGED vars
  BY <1>22 DEF vars, Running, Acquiring, Owning, Holding, Claiming,
     Withdrawing, Winning
<1> QED BY <1>1, <1>2, <1>3, <1>4, <1>5, <1>6, <1>7, <1>8, <1>9, <1>10, <1>11,
  <1>12, <1>13, <1>14, <1>15, <1>16, <1>17, <1>18, <1>19, <1>20, <1>21, <1>22
        DEF Next, Acquire, RunChild, Leave

-----------------------------------------------------------------------------
(* Before the first start nobody holds anything.                           *)
LEMMA InitIInv == Init => IInv
<1> SUFFICES ASSUME Init PROVE IInv
  OBVIOUS
<1>1. TypeOK
  BY AttemptsAssumption DEF Init, TypeOK, PC, Child
<1>2. Running
  BY AttemptsAssumption
     DEF Init, Running, Acquiring, Owning, Holding, Claiming, Withdrawing
<1>3. NoOverlap
  BY DEF Init, NoOverlap, OneAcquires, HoldersLock, JudgesOwner, EpochsRise,
         Acquiring, Owning, Holding, Claiming, Withdrawing
<1>4. First
  BY DEF Init, First, Winning, Claiming, Withdrawing
<1> QED BY <1>1, <1>2, <1>3, <1>4 DEF IInv

(* The invariant is inductive: the bounds never change, and departures are *)
(* never taken back.                                                       *)
LEMMA StepKeeps == IInv /\ [Next]_vars => IInv'
<1> SUFFICES ASSUME IInv, [Next]_vars PROVE IInv'
  OBVIOUS
<1>1. TypeOK /\ Running
  BY DEF IInv
<1>2. TypeOK' /\ Running'
  BY <1>1, TypeStep, RunningStep
<1>3. bound' = bound
  BY DEF Next, vars
<1>4. ASSUME bound.contenders = 1 PROVE NoOverlap'
  <2>1. NoOverlap
    BY <1>4 DEF IInv
  <2> QED BY <1>1, <1>4, <2>1, OneAcquiresStep, HoldersLockStep,
             JudgesOwnerStep, EpochsRiseStep DEF NoOverlap
<1>5. ASSUME departures' = 0 PROVE First'
  <2>1. departures = 0
    <3>1. departures \in Nat /\ departures' \in {departures, departures + 1}
      BY <1>1 DEF TypeOK, vars, Next, Acquire, RunChild, Leave,
        Start, Inspect, Judge, Retire, Link, ReadEpoch, WriteEpoch, Activate,
        UnclaimRead, Unclaim, Spawn, RegisterCheck, Register, ChildExits,
        UnregisterCheck, Unregister, ClaimFails, Shutdown, ReleaseCheck,
        ReleaseUnlink, Crash
    <3> QED BY <1>5, <3>1
  <2> QED BY <1>1, <1>5, <2>1, FirstStep DEF IInv
<1> QED BY <1>2, <1>3, <1>4, <1>5 DEF IInv

(* While starts do not overlap, whatever crashes, shuts down or fails in   *)
(* between: one process holds the lease, the lock is its record, and the   *)
(* epochs of its predecessors are lower.                                   *)
THEOREM GenerationsAreSerial == Spec => []SerialGenerations
<1>1. IInv => SerialGenerations
  <2> SUFFICES ASSUME IInv PROVE SerialGenerations
    OBVIOUS
  <2>1. ASSUME NoOverlap PROVE OneGeneration /\ HolderIsRecorded
    BY <2>1 DEF NoOverlap, HoldersLock, Holding, OneGeneration,
       HolderIsRecorded, Owns
  <2>2. ASSUME NoOverlap PROVE EpochFences
    <3> SUFFICES ASSUME NEW p \in Proc, NEW q \in Proc, p # q, epoch[p] # 0
                 PROVE  /\ epoch[q] # epoch[p]
                        /\ pc[p] \in Owning => epoch[q] < epoch[p]
      BY DEF EpochFences
    <3>1. epoch[p] \in Nat /\ epoch[q] \in Nat /\ epochFile \in Nat
      BY DEF IInv, TypeOK
    <3> QED BY <2>2, <3>1 DEF NoOverlap, EpochsRise
  <2> QED BY <2>1, <2>2 DEF IInv, SerialGenerations
<1> QED BY InitIInv, StepKeeps, <1>1, PTL DEF Spec

(* However many attempts race, until the first broker leaves one of them   *)
(* holds the lease, and only its child may click.                          *)
THEOREM RaceHasOneWinner == Spec => []OneWinner
<1>1. IInv => OneWinner
  <2> SUFFICES ASSUME IInv, departures = 0 PROVE OneGeneration /\ ChildFence
    BY DEF OneWinner
  <2>1. First
    BY DEF IInv
  <2>2. \A p \in Proc : pc[p] \in Owning => pc[p] = "active"
    BY <2>1 DEF First, Owning
  <2>3. \A p, q \in Proc : pc[p] = "active" /\ pc[q] = "active" => p = q
    BY <2>1 DEF First, Winning
  <2>4. \A q \in Proc : child[q] = "ready" => pc[q] = "active"
    BY <2>1 DEF First
  <2> QED BY <2>2, <2>3, <2>4 DEF OneGeneration, ChildFence
<1> QED BY InitIInv, StepKeeps, <1>1, PTL DEF Spec
=============================================================================
