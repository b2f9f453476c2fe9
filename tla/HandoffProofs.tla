--------------------------- MODULE HandoffProofs ---------------------------
(***************************************************************************)
(* Proofs about the handoff: a broker told to stop is idle, and a broker   *)
(* that serves can be found at its path, for any number of clients, runs   *)
(* of setup, generations and crashes.                                      *)
(*                                                                         *)
(* The argument is about who may write.  One generation at a time holds    *)
(* the lock, and a live one that does not has released it.  A modern       *)
(* broker with its gate closed admits nobody, so the handlers of the drain *)
(* only become fewer; a fenced one is at no path, so nobody connects, and  *)
(* what was on its way at the last proof is all that is left.              *)
(***************************************************************************)
EXTENDS Handoff, TLAPS

Fenced == {"proof", "proof_lease", "last_proof", "last_lease", "restore",
           "rename_back"}
Looking == {"recognise", "compare", "rename"}
Unfenced == {"start", "read_lease", "ask", "asked", "fence"} \cup Looking
Proving == {"proof_lease", "last_proof", "last_lease"}
Ended == {"stopping", "failed", "killed"}
Steps == Over \cup Fenced \cup Unfenced \cup Ended

Prep == [at : {"none", "drain", "status", "lease"}, for : Setup \cup {None},
         expects : Gen \cup {None}]
Calls == [at : {"idle", "connected", "admitted", "detached"},
          gen : Gen \cup {None}]

Types ==
  /\ TypeOK
  /\ prep \in [Gen -> Prep] /\ call \in [Client -> Calls]
  /\ step \in [Setup -> Steps] /\ target \in [Setup -> Gen \cup {None}]
  /\ flying \in [Setup -> SUBSET Client]

(* One generation holds the lock; another one alive has released it.       *)
OneHolder == \A g \in Gen : Alive(g) => lock = g \/ life[g] = "released"

(* A request is with a generation that is alive and has bound its socket.  *)
CallsLive == \A c \in Client :
  /\ call[c].at = "idle" <=> call[c].gen = None
  /\ call[c].gen # None =>
       life[call[c].gen] \in {"serving", "closed", "quiet", "released"}

(* A broker that stops has been told to, and only once it has served.      *)
ToldFirst == \A g \in Gen :
  /\ life[g] \in {"closed", "quiet", "released"} => told[g] # "no"
  /\ life[g] \in {"unborn", "starting"} => told[g] = "no"
  /\ told[g] = "accepted" => ~legacy
  /\ told[g] = "signalled" => legacy

(* A drain is worked on behind the closed gate of a serving broker.  When  *)
(* its status has been seen nobody is admitted; at the lease nothing runs. *)
Draining == \A g \in Gen : prep[g].at # "none" =>
  /\ ~legacy /\ gate[g] /\ life[g] = "serving" /\ told[g] = "no"
  /\ prep[g].for \in Setup
  /\ prep[g].at \in {"status", "lease"} => Admitted(g) = {}
  /\ prep[g].at = "lease" => work = {}

(* An accepted drain leaves the gate closed and nothing behind it.         *)
Drains == \A g \in Gen : told[g] = "accepted" /\ Alive(g) =>
  /\ gate[g] /\ prep[g].at = "none" /\ Admitted(g) = {}
  /\ lock = g => work = {} /\ ~child[g]

(* A setup has a socket behind its fence that nobody else has and that is  *)
(* not at the path; the proofs are about that of its target.               *)
Fences ==
  /\ \A s \in Setup :
       /\ step[s] \in Fenced \cup {"fence"} \cup Looking => legacy
       /\ step[s] \in Fenced => fence[s] # None
       /\ step[s] \in Proving => fence[s] = target[s]
       /\ step[s] \in {"stopping", "failed"} => fence[s] \in {None, target[s]}
       /\ step[s] \in Unfenced \cup {"refused", "not_running", "current", "stopped"}
            => fence[s] = None
       /\ step[s] \in Looking => seen[s] # None
       /\ fence[s] # None =>
            name # fence[s] /\ life[fence[s]] \notin {"unborn", "starting"}
       /\ target[s] # None => life[target[s]] \notin {"unborn", "starting"}
       /\ step[s] \notin {"start", "not_running", "current", "killed"} =>
            target[s] # None
  /\ \A s, z \in Setup : fence[s] # None /\ fence[s] = fence[z] => s = z
  /\ name # None => life[name] \notin {"unborn", "starting"}

(* What a setup saw at its last proof is all its target can still write.   *)
Covered(s) ==
  LET g == target[s]
  IN  /\ fence[s] = g /\ g # None
      /\ InFlight(g) \subseteq flying[s]
      /\ lock = g => Lingering \cup work \subseteq flying[s]

Proven == \A s \in Setup :
  step[s] = "last_lease" /\ Alive(target[s]) => Covered(s)

Signalled == \A g \in Gen :
  told[g] = "signalled" /\ Alive(g) =>
    \E s \in Setup : step[s] \in Ended /\ target[s] = g /\ Covered(s)

(* A setup that ends with a socket behind its fence has told the broker to *)
(* stop, died, or found the path taken.                                    *)
Shut == \A s \in Setup :
  fence[s] # None /\ step[s] \in {"stopping", "failed"} => told[fence[s]] # "no"

IInv ==
  /\ Types /\ OneHolder /\ CallsLive /\ ToldFirst /\ Draining /\ Drains
  /\ Fences /\ Proven /\ Signalled /\ Shut /\ Reachable

-----------------------------------------------------------------------------
(* Every variable keeps its type.                                          *)
LEMMA TypesStep ==
  Types /\ Draining /\ [Next]_vars => Types'
<1> SUFFICES ASSUME Types, Draining, [Next]_vars PROVE Types'
  OBVIOUS
<1> USE DEF Types, TypeOK, Draining, Gen, None, Prep, Calls, NoPrep, NoCall,
          InFlight, Steps, Fenced, Unfenced, Looking, Ended, Over, broker,
          request,
          setup, other, Goto
<1>1. ASSUME NEW c \in Client, Connect(c) PROVE Types'
  BY <1>1 DEF Connect
<1>2. ASSUME NEW c \in Client, HangUp(c) PROVE Types'
  BY <1>2 DEF HangUp
<1>3. ASSUME NEW c \in Client, Arrive(c) PROVE Types'
  BY <1>3 DEF Arrive, Admits
<1>4. ASSUME NEW c \in Client, Handled(c) PROVE Types'
  BY <1>4 DEF Handled
<1>5. ASSUME NEW g \in Gen, NEW c \in Client, WorkEnds(g, c) PROVE Types'
  BY <1>5 DEF WorkEnds
<1>6. ASSUME NEW g \in Gen, SpawnChild(g) PROVE Types'
  BY <1>6 DEF SpawnChild
<1>7. ASSUME NEW g \in Gen, ChildEnds(g) PROVE Types'
  BY <1>7 DEF ChildEnds
<1>8. ASSUME NEW g \in Gen, NEW c \in Client, Autostart(c, g) PROVE Types'
  BY <1>8 DEF Autostart, Free, Runtime
<1>9. ASSUME NEW g \in Gen, Bind(g) PROVE Types'
  BY <1>9 DEF Bind
<1>10. ASSUME NEW g \in Gen, Close(g) PROVE Types'
  BY <1>10 DEF Close
<1>11. ASSUME NEW g \in Gen, Quiesce(g) PROVE Types'
  BY <1>11 DEF Quiesce
<1>12. ASSUME NEW g \in Gen, Release(g) PROVE Types'
  BY <1>12 DEF Release
<1>13. ASSUME NEW g \in Gen, Exit(g) PROVE Types'
  BY <1>13 DEF Exit, Dropped
<1>14. ASSUME NEW g \in Gen, Crash(g) PROVE Types'
  <2>1. crashes' \in 0..Crashes
    BY <1>14, HandoffAssumption DEF Crash
  <2>2. step' \in [Setup -> Steps]
    BY <1>14 DEF Crash
  <2>3. call' \in [Client -> Calls]
    BY <1>14 DEF Crash, Dropped
  <2>4. life' \in [Gen -> {"unborn", "starting", "serving", "closed", "quiet",
                          "released", "stopped", "dead"}]
    BY <1>14 DEF Crash
  <2> QED BY <1>14, <2>1, <2>2, <2>3, <2>4 DEF Crash
<1>15. ASSUME NEW g \in Gen, AwaitAdmitted(g) PROVE Types'
  BY <1>15 DEF AwaitAdmitted, Drained
<1>16. ASSUME NEW g \in Gen, CheckStatus(g) PROVE Types'
  <2>1. prep' \in [Gen -> Prep]
    BY <1>16 DEF CheckStatus, Refuse
  <2>2. step' \in [Setup -> Steps]
    BY <1>16 DEF CheckStatus, Refuse, Reply
  <2>3. /\ gate' = gate \/ gate' = [gate EXCEPT ![g] = FALSE]
        /\ told' = told
    BY <1>16, Zenon DEF CheckStatus, Refuse
  <2>4. /\ gate' \in [Gen -> BOOLEAN]
        /\ told' \in [Gen -> {"no", "accepted", "signalled"}]
    <3>1. gate' \in [Gen -> BOOLEAN]
      <4>1. gate \in [Gen -> BOOLEAN]
        OBVIOUS
      <4> HIDE DEF Types, TypeOK, Gen, Prep, Calls, Steps
      <4> QED BY <2>3, <4>1
    <3>2. told' \in [Gen -> {"no", "accepted", "signalled"}]
      BY <2>3
    <3> QED BY <3>1, <3>2
  <2>5. UNCHANGED <<lock, life, runtime, name, child, work, call, fence, target,
                    seen, flying, legacy, lost, crashes>>
    BY <1>16 DEF CheckStatus, other
  <2> QED BY <2>1, <2>2, <2>4, <2>5
<1>17. ASSUME NEW g \in Gen, CheckLease(g) PROVE Types'
  <2>1. prep' \in [Gen -> Prep]
    BY <1>17 DEF CheckLease, Refuse
  <2>2. step' \in [Setup -> Steps]
    <3>1. \E x \in {"stopping", "refused"} : Reply(g, x)
      BY <1>17 DEF CheckLease, Refuse
    <3>2. PICK x \in {"stopping", "refused"} : Reply(g, x)
      BY <3>1
    <3>3. prep[g].for \in Setup
      BY <1>17 DEF CheckLease
    <3>4. step' = [step EXCEPT ![prep[g].for] =
                     IF step[prep[g].for] = "asked" THEN x ELSE step[prep[g].for]]
      BY <3>2, Zenon DEF Reply
    <3> QED BY <3>3, <3>4
  <2>3. /\ gate' = gate \/ gate' = [gate EXCEPT ![g] = FALSE]
        /\ told' = told \/ told' = [told EXCEPT ![g] = "accepted"]
    BY <1>17, Zenon DEF CheckLease, Refuse
  <2>4. /\ gate' \in [Gen -> BOOLEAN]
        /\ told' \in [Gen -> {"no", "accepted", "signalled"}]
    <3>1. gate' \in [Gen -> BOOLEAN]
      <4>1. gate \in [Gen -> BOOLEAN]
        OBVIOUS
      <4> HIDE DEF Types, TypeOK, Gen, Prep, Calls, Steps
      <4> QED BY <2>3, <4>1
    <3>2. told' \in [Gen -> {"no", "accepted", "signalled"}]
      BY <2>3
    <3> QED BY <3>1, <3>2
  <2>5. UNCHANGED <<lock, life, runtime, name, child, work, call, fence, target,
                    seen, flying, legacy, lost, crashes>>
    BY <1>17 DEF CheckLease, other
  <2> QED BY <2>1, <2>2, <2>4, <2>5
<1>18. ASSUME NEW s \in Setup, Look(s) PROVE Types'
  BY <1>18 DEF Look
<1>19. ASSUME NEW s \in Setup, ReadLease(s) PROVE Types'
  BY <1>19 DEF ReadLease
<1>20. ASSUME NEW s \in Setup, Ask(s) PROVE Types'
  <2>0. PICK x \in {"failed", "refused", "fence", "asked"} :
          step' = [step EXCEPT ![s] = x]
    BY <1>20, ZenonT(40) DEF Ask, Goto
  <2>1. step' \in [Setup -> Steps]
    BY <2>0
  <2>2. [at |-> "drain", for |-> s, expects |-> target[s]] \in Prep
    OBVIOUS
  <2>3. name \in Gen \/ UNCHANGED <<gate, prep>>
    BY <1>20 DEF Ask, Answers
  <2>4. gate' \in [Gen -> BOOLEAN]
    <3>1. gate' = gate \/ gate' = [gate EXCEPT ![name] = TRUE]
      BY <1>20 DEF Ask
    <3>2. gate \in [Gen -> BOOLEAN]
      BY DEF Types, TypeOK
    <3> HIDE DEF Types, TypeOK, Gen, None
    <3> QED BY <3>1, <3>2
  <2>5. prep' = prep \/ prep' = [prep EXCEPT ![name] =
             [at |-> "drain", for |-> s, expects |-> target[s]]]
    BY <1>20 DEF Ask
  <2>6. prep' \in [Gen -> Prep]
    BY <2>2, <2>5
  <2>7. UNCHANGED <<lock, life, runtime, told, name, child, work, call, fence,
                    target, seen, flying, legacy, lost, crashes>>
    BY <1>20 DEF Ask, broker, other
  <2> QED BY <2>1, <2>4, <2>6, <2>7
<1>21. ASSUME NEW s \in Setup, GiveUp(s) PROVE Types'
  BY <1>21 DEF GiveUp
<1>22. ASSUME NEW s \in Setup, Stopped(s) PROVE Types'
  BY <1>22 DEF Stopped
<1>23. ASSUME NEW s \in Setup, LookAtSocket(s) PROVE Types'
  BY <1>23 DEF LookAtSocket
<1>24. ASSUME NEW s \in Setup, Recognise(s) PROVE Types'
  BY <1>24 DEF Recognise
<1>25. ASSUME NEW s \in Setup, Compare(s) PROVE Types'
  BY <1>25 DEF Compare
<1>26. ASSUME NEW s \in Setup, Rename(s) PROVE Types'
  <2>0. PICK x \in {"proof", "refused"} : step' = [step EXCEPT ![s] = x]
    BY <1>26 DEF Rename
  <2>1. step' \in [Setup -> Steps]
    BY <2>0
  <2>2. name' \in Gen \cup {None} /\ lost' \subseteq Gen
    <3>1. name' = None /\ lost' \in {lost, lost \cup ({name} \ {None})}
      BY <1>26 DEF Rename
    <3> QED BY <3>1
  <2>3. fence' \in [Setup -> Gen \cup {None}]
    BY <1>26 DEF Rename
  <2> QED BY <1>26, <2>1, <2>2, <2>3 DEF Rename
<1>27. ASSUME NEW s \in Setup, Proof(s, "proof", "proof_lease") PROVE Types'
  <2>0. PICK x \in {"proof_lease", "restore"} : step' = [step EXCEPT ![s] = x]
    BY <1>27, ZenonT(40) DEF Proof, Goto
  <2>1. step' \in [Setup -> Steps]
    BY <2>0
  <2>2. flying' \in [Setup -> SUBSET Client]
    BY <1>27 DEF Proof, Lingering
  <2> QED BY <1>27, <2>1, <2>2 DEF Proof, broker, request, other
<1>28. ASSUME NEW s \in Setup, FirstLease(s) PROVE Types'
  BY <1>28 DEF FirstLease
<1>29. ASSUME NEW s \in Setup, Proof(s, "last_proof", "last_lease")
       PROVE  Types'
  <2>0. PICK x \in {"last_lease", "restore"} : step' = [step EXCEPT ![s] = x]
    BY <1>29, ZenonT(40) DEF Proof, Goto
  <2>1. step' \in [Setup -> Steps]
    BY <2>0
  <2>2. flying' \in [Setup -> SUBSET Client]
    BY <1>29 DEF Proof, Lingering
  <2>3. UNCHANGED <<lock, life, runtime, told, name, gate, prep, child, work,
                    call, fence, target, seen, legacy, lost, crashes>>
    BY <1>29 DEF Proof, broker, request, other
  <2> QED BY <2>1, <2>2, <2>3
<1>30. ASSUME NEW s \in Setup, Signal(s) PROVE Types'
  <2>0. PICK x \in {"stopping", "restore"} : step' = [step EXCEPT ![s] = x]
    BY <1>30 DEF Signal
  <2>1. step' \in [Setup -> Steps]
    BY <2>0
  <2>2. told' \in [Gen -> {"no", "accepted", "signalled"}]
    BY <1>30 DEF Signal
  <2>3. UNCHANGED <<lock, life, runtime, name, gate, prep, child, work, call,
                    fence, target, seen, flying, legacy, lost, crashes>>
    BY <1>30 DEF Signal
  <2> QED BY <2>1, <2>2, <2>3
<1>31. ASSUME NEW s \in Setup, Restore(s) PROVE Types'
  BY <1>31 DEF Restore
<1>32. ASSUME NEW s \in Setup, RenameBack(s) PROVE Types'
  BY <1>32 DEF RenameBack
<1>33. ASSUME NEW s \in Setup, SetupDies(s) PROVE Types'
  <2>1. crashes' \in 0..Crashes
    BY <1>33, HandoffAssumption DEF SetupDies
  <2>2. step' \in [Setup -> Steps]
    BY <1>33 DEF SetupDies, Goto
  <2> QED BY <1>33, <2>1, <2>2 DEF SetupDies, broker, request
<1>34. CASE UNCHANGED vars
  BY <1>34 DEF vars, broker, request, setup, other
<1> QED
  BY <1>1, <1>2, <1>3, <1>4, <1>5, <1>6, <1>7, <1>8, <1>9, <1>10, <1>11,
    <1>12, <1>13, <1>14, <1>15, <1>16, <1>17, <1>18, <1>19, <1>20, <1>21,
    <1>22, <1>23, <1>24, <1>25, <1>26, <1>27, <1>28, <1>29, <1>30, <1>31,
    <1>32, <1>33, <1>34
    DEF Next, Serve, Run, Answered, broker, request, setup, other, vars

(* A generation takes the lock where no other one is alive that has not    *)
(* released it.                                                            *)
LEMMA HolderStep ==
  Types /\ OneHolder /\ [Next]_vars => OneHolder'
<1> SUFFICES ASSUME Types, OneHolder, [Next]_vars PROVE OneHolder'
  OBVIOUS
<1> USE DEF OneHolder, Alive, Types, TypeOK, Gen, None, broker, request,
          setup, other, Goto
<1>1. ASSUME NEW g \in Gen, NEW c \in Client, Autostart(c, g) PROVE OneHolder'
  BY <1>1 DEF Autostart, Free
<1>2. ASSUME NEW g \in Gen, Bind(g) PROVE OneHolder'
  BY <1>2 DEF Bind
<1>3. ASSUME NEW g \in Gen, Close(g) PROVE OneHolder'
  BY <1>3 DEF Close
<1>4. ASSUME NEW g \in Gen, Quiesce(g) PROVE OneHolder'
  BY <1>4 DEF Quiesce
<1>5. ASSUME NEW g \in Gen, Release(g) PROVE OneHolder'
  BY <1>5 DEF Release
<1>6. ASSUME NEW g \in Gen, Exit(g) PROVE OneHolder'
  BY <1>6 DEF Exit, Dropped
<1>7. ASSUME NEW g \in Gen, Crash(g) PROVE OneHolder'
  BY <1>7 DEF Crash, Dropped
<1>8. CASE UNCHANGED <<life, lock>>
  BY <1>8
<1> QED
  BY <1>1, <1>2, <1>3, <1>4, <1>5, <1>6, <1>7, <1>8 DEF Next, Serve, Run,
    Answered, Connect, HangUp, Arrive, Handled, WorkEnds, SpawnChild,
    ChildEnds, AwaitAdmitted, CheckStatus, CheckLease, Look, ReadLease, Ask,
    GiveUp, Stopped, LookAtSocket, Recognise, Compare, Rename, Proof,
    FirstLease, Signal, Restore,
    RenameBack, SetupDies, broker, request, setup, other, vars

(* A generation is told to stop while it serves, and stops when told.      *)
LEMMA ToldStep ==
  Types /\ ToldFirst /\ Draining /\ Fences /\ [Next]_vars => ToldFirst'
<1> SUFFICES ASSUME Types, ToldFirst, Draining, Fences, [Next]_vars
             PROVE  ToldFirst'
  OBVIOUS
<1> USE DEF ToldFirst, Alive, Types, TypeOK, Gen, None, Fenced, broker,
          request, setup, other, Goto
<1>1. ASSUME NEW g \in Gen, NEW c \in Client, Autostart(c, g) PROVE ToldFirst'
  BY <1>1 DEF Autostart, Free
<1>2. ASSUME NEW g \in Gen, Bind(g) PROVE ToldFirst'
  BY <1>2 DEF Bind
<1>3. ASSUME NEW g \in Gen, Close(g) PROVE ToldFirst'
  BY <1>3 DEF Close
<1>4. ASSUME NEW g \in Gen, Quiesce(g) PROVE ToldFirst'
  BY <1>4 DEF Quiesce
<1>5. ASSUME NEW g \in Gen, Release(g) PROVE ToldFirst'
  BY <1>5 DEF Release
<1>6. ASSUME NEW g \in Gen, Exit(g) PROVE ToldFirst'
  BY <1>6 DEF Exit, Dropped
<1>7. ASSUME NEW g \in Gen, Crash(g) PROVE ToldFirst'
  BY <1>7 DEF Crash, Dropped
<1>8. ASSUME NEW g \in Gen, CheckLease(g) PROVE ToldFirst'
  <2>1. ~legacy /\ life[g] = "serving"
    BY <1>8 DEF CheckLease, Draining
  <2>2. told' = told \/ told' = [told EXCEPT ![g] = "accepted"]
    BY <1>8, Zenon DEF CheckLease, Refuse
  <2>3. UNCHANGED <<life, legacy>>
    BY <1>8 DEF CheckLease
  <2> QED BY <2>1, <2>2, <2>3
<1>9. ASSUME NEW g \in Gen, CheckStatus(g) PROVE ToldFirst'
  BY <1>9 DEF CheckStatus, Refuse, Reply, Idle, Draining
<1>10. ASSUME NEW s \in Setup, Signal(s) PROVE ToldFirst'
  BY <1>10, ZenonT(40) DEF Signal, Leased, Fences
<1>11. CASE UNCHANGED <<life, told, legacy>>
  BY <1>11
<1> QED
  BY <1>1, <1>2, <1>3, <1>4, <1>5, <1>6, <1>7, <1>8, <1>9, <1>10, <1>11 DEF
    Next, Serve, Run, Answered, Connect, HangUp, Arrive, Handled, WorkEnds,
    SpawnChild, ChildEnds, AwaitAdmitted, Look, ReadLease, Ask, GiveUp,
    Stopped, LookAtSocket, Recognise, Compare, Rename, Proof, FirstLease,
    Restore, RenameBack,
    SetupDies, broker, request, setup, other, vars

(* A request connects to a broker that serves, and is gone when its        *)
(* process is.                                                             *)
LEMMA CallsStep ==
  Types /\ CallsLive /\ [Next]_vars => CallsLive'
<1> SUFFICES ASSUME Types, CallsLive, [Next]_vars PROVE CallsLive'
  OBVIOUS
<1> USE DEF CallsLive, Types, TypeOK, Gen, None, Calls, NoCall, InFlight,
          Answers, Alive, broker, request, setup, other, Goto
<1>1. ASSUME NEW c \in Client, Connect(c) PROVE CallsLive'
  BY <1>1 DEF Connect
<1>2. ASSUME NEW c \in Client, HangUp(c) PROVE CallsLive'
  <2>1. CASE call[c].at = "connected"
    BY <1>2, <2>1 DEF HangUp, broker
  <2>2. CASE call[c].at = "admitted"
    <3>1. call'[c].at = "detached" /\ call'[c].gen = call[c].gen /\ call[c].gen # None
      BY <1>2, <2>2 DEF HangUp
    <3>2. \A d \in Client \ {c} : call'[d] = call[d]
      BY <1>2, <2>2 DEF HangUp
    <3>3. life' = life
      BY <1>2 DEF HangUp, broker
    <3> QED BY <3>1, <3>2, <3>3
  <2> QED BY <1>2, <2>1, <2>2 DEF HangUp
<1>3. ASSUME NEW c \in Client, Arrive(c) PROVE CallsLive'
  BY <1>3 DEF Arrive, Admits
<1>4. ASSUME NEW c \in Client, Handled(c) PROVE CallsLive'
  BY <1>4 DEF Handled
<1>5. ASSUME NEW g \in Gen, NEW c \in Client, Autostart(c, g) PROVE CallsLive'
  BY <1>5 DEF Autostart, Free
<1>6. ASSUME NEW g \in Gen, Bind(g) PROVE CallsLive'
  BY <1>6 DEF Bind
<1>7. ASSUME NEW g \in Gen, Close(g) PROVE CallsLive'
  BY <1>7 DEF Close
<1>8. ASSUME NEW g \in Gen, Quiesce(g) PROVE CallsLive'
  BY <1>8 DEF Quiesce
<1>9. ASSUME NEW g \in Gen, Release(g) PROVE CallsLive'
  BY <1>9 DEF Release
<1>10. ASSUME NEW g \in Gen, Exit(g) PROVE CallsLive'
  BY <1>10 DEF Exit, Dropped
<1>11. ASSUME NEW g \in Gen, Crash(g) PROVE CallsLive'
  BY <1>11 DEF Crash, Dropped
<1>12. CASE UNCHANGED <<life, call>>
  BY <1>12
<1> QED
  BY <1>1, <1>2, <1>3, <1>4, <1>5, <1>6, <1>7, <1>8, <1>9, <1>10, <1>11, <1>12
    DEF Next, Serve, Run, Answered, WorkEnds, SpawnChild, ChildEnds,
    AwaitAdmitted, CheckStatus, CheckLease, Look, ReadLease, Ask, GiveUp,
    Stopped, LookAtSocket, Recognise, Compare, Rename, Proof, FirstLease,
    Signal, Restore,
    RenameBack, SetupDies, broker, request, setup, other, vars

(* A drain waits behind its closed gate: nobody is admitted, so the        *)
(* admitted handlers return one by one, and nothing writes after them.     *)
LEMMA DrainingStep ==
  Types /\ OneHolder /\ CallsLive /\ ToldFirst /\ Draining /\ Drains /\ Fences
    /\ [Next]_vars => Draining'
<1> SUFFICES ASSUME Types, OneHolder, CallsLive, ToldFirst, Draining, Drains,
                    Fences, [Next]_vars
             PROVE  Draining'
  OBVIOUS
<1> USE DEF Draining, Admitted, InFlight, Types, TypeOK, Gen, None, NoPrep,
          NoCall, Alive, Answers, broker, request, setup, other, Goto
<1>1. ASSUME NEW c \in Client, Connect(c) PROVE Draining'
  BY <1>1 DEF Connect
<1>2. ASSUME NEW c \in Client, HangUp(c) PROVE Draining'
  <2>0. /\ \A d \in Client \ {c} : call'[d] = call[d]
        /\ \/ call'[c] = NoCall
           \/ call[c].at = "admitted" /\ call'[c].gen = call[c].gen
    <3>1. CASE call[c].at = "connected"
      BY <1>2, <3>1 DEF HangUp
    <3>2. CASE call[c].at = "admitted"
      BY <1>2, <3>2 DEF HangUp
    <3> QED BY <1>2, <3>1, <3>2 DEF HangUp
  <2>1. ASSUME NEW g \in Gen PROVE Admitted(g)' \subseteq Admitted(g)
    BY <2>0
  <2>2. UNCHANGED <<legacy, gate, life, told, prep, work>>
    BY <1>2 DEF HangUp
  <2> QED BY <2>1, <2>2
<1>3. ASSUME NEW c \in Client, Arrive(c) PROVE Draining'
  BY <1>3 DEF Arrive, Admits
<1>4. ASSUME NEW c \in Client, Handled(c) PROVE Draining'
  <2> DEFINE h == call[c].gen
  <2>1. h \in Gen /\ c \in Admitted(h) /\ Alive(h)
    BY <1>4 DEF Handled, CallsLive, Calls
  <2>2. ASSUME NEW g \in Gen, Alive(g), ~legacy, Admitted(g) = {}, lock = g
        PROVE  FALSE
    <3>1. h # g /\ life[h] = "released"
      BY <2>1, <2>2 DEF OneHolder
    <3>2. told[h] = "accepted"
      BY <2>1, <2>2, <3>1 DEF ToldFirst
    <3> QED BY <2>1, <3>2 DEF Drains
  <2> SUFFICES ASSUME NEW g \in Gen, prep[g].at # "none" PROVE
        prep[g].at = "lease" => work' = {}
    BY <1>4 DEF Handled, broker, other
  <2>3. ~(prep[g].at = "lease")
    BY <2>2 DEF OneHolder
  <2> QED BY <2>3
<1>5. ASSUME NEW g \in Gen, NEW c \in Client, WorkEnds(g, c) PROVE Draining'
  BY <1>5 DEF WorkEnds
<1>6. ASSUME NEW g \in Gen, NEW c \in Client, Autostart(c, g) PROVE Draining'
  BY <1>6 DEF Autostart, Free
<1>7. ASSUME NEW g \in Gen, Bind(g) PROVE Draining'
  BY <1>7 DEF Bind
<1>8. ASSUME NEW g \in Gen, Close(g) PROVE Draining'
  BY <1>8 DEF Close
<1>9. ASSUME NEW g \in Gen, Quiesce(g) PROVE Draining'
  BY <1>9 DEF Quiesce
<1>10. ASSUME NEW g \in Gen, Release(g) PROVE Draining'
  BY <1>10 DEF Release
<1>11. ASSUME NEW g \in Gen, Exit(g) PROVE Draining'
  BY <1>11 DEF Exit, Dropped
<1>12. ASSUME NEW g \in Gen, Crash(g) PROVE Draining'
  BY <1>12 DEF Crash, Dropped
<1>13. ASSUME NEW g \in Gen, AwaitAdmitted(g) PROVE Draining'
  BY <1>13 DEF AwaitAdmitted, Drained
<1>14. ASSUME NEW g \in Gen, CheckStatus(g) PROVE Draining'
  <2>1. /\ ~legacy /\ gate[g] /\ life[g] = "serving" /\ told[g] = "no"
        /\ prep[g].for \in Setup /\ Admitted(g) = {}
    BY <1>14 DEF CheckStatus
  <2>2. UNCHANGED <<life, work, call, legacy>>
    BY <1>14 DEF CheckStatus, other
  <2>3. CASE prep[g].expects = g /\ work = {}
    <3>1. UNCHANGED <<gate, told>>
      BY <1>14, <2>3 DEF CheckStatus, Idle
    <3>4. prep' = [prep EXCEPT ![g] =
              [at |-> "lease", for |-> prep[g].for, expects |-> prep[g].expects]]
      BY <1>14, <2>3 DEF CheckStatus, Idle
    <3>2. prep'[g].at = "lease" /\ prep'[g].for = prep[g].for
      BY <3>4
    <3>3. \A h \in Gen \ {g} : prep'[h] = prep[h]
      BY <1>14, <2>3 DEF CheckStatus, Idle
    <3> QED BY <2>1, <2>2, <2>3, <3>1, <3>2, <3>3
  <2>4. CASE ~(prep[g].expects = g /\ work = {})
    <3>0. UNCHANGED told /\ prep' = [prep EXCEPT ![g] = NoPrep]
      BY <1>14, <2>4, Zenon DEF CheckStatus, Idle, Refuse
    <3>1. UNCHANGED told /\ prep'[g].at = "none"
      BY <3>0
    <3>2. \A h \in Gen \ {g} : prep'[h] = prep[h] /\ gate'[h] = gate[h]
      BY <1>14, <2>4, ZenonT(40) DEF CheckStatus, Idle, Refuse
    <3> QED BY <2>2, <3>1, <3>2
  <2> QED BY <2>3, <2>4
<1>15. ASSUME NEW g \in Gen, CheckLease(g) PROVE Draining'
  <2>1. UNCHANGED <<life, work, call, legacy>>
    BY <1>15 DEF CheckLease, other
  <2>0. prep' = [prep EXCEPT ![g] = NoPrep]
    BY <1>15, Zenon DEF CheckLease, Refuse
  <2>2. prep'[g].at = "none"
    BY <2>0
  <2>3. ASSUME NEW h \in Gen \ {g}
        PROVE  prep'[h] = prep[h] /\ gate'[h] = gate[h] /\ told'[h] = told[h]
    BY <1>15, ZenonT(40) DEF CheckLease, Refuse
  <2> QED BY <2>1, <2>2, <2>3
<1>16. ASSUME NEW s \in Setup, Ask(s) PROVE Draining'
  <2>1. CASE UNCHANGED <<gate, prep>>
    BY <1>16, <2>1 DEF Ask, broker, other
  <2>2. CASE ~UNCHANGED <<gate, prep>>
    <3>1. /\ name \in Gen /\ life[name] = "serving" /\ ~legacy /\ ~gate[name]
          /\ gate' = [gate EXCEPT ![name] = TRUE]
          /\ prep' = [prep EXCEPT ![name] =
                [at |-> "drain", for |-> s, expects |-> target[s]]]
      BY <1>16, <2>2 DEF Ask
    <3>2. told[name] = "no"
      BY <3>1 DEF ToldFirst, Drains
    <3>3. prep'[name].at = "drain" /\ prep'[name].for = s /\ gate'[name]
      BY <3>1
    <3>4. \A h \in Gen \ {name} : prep'[h] = prep[h] /\ gate'[h] = gate[h]
      BY <3>1
    <3>5. UNCHANGED <<life, told, call, work, legacy>>
      BY <1>16 DEF Ask, broker, other
    <3> QED BY <3>1, <3>2, <3>3, <3>4, <3>5
  <2> QED BY <2>1, <2>2
<1>17. ASSUME NEW s \in Setup, Signal(s) PROVE Draining'
  BY <1>17 DEF Signal, Leased, Fences, Fenced
<1>18. CASE UNCHANGED <<legacy, gate, life, told, prep, call, work>>
  BY <1>18
<1> QED
  BY <1>1, <1>2, <1>3, <1>4, <1>5, <1>6, <1>7, <1>8, <1>9, <1>10, <1>11,
    <1>12, <1>13, <1>14, <1>15, <1>16, <1>17, <1>18 DEF Next, Serve, Run,
    Answered, SpawnChild, ChildEnds, Look, ReadLease, GiveUp, Stopped,
    LookAtSocket, Recognise, Compare, Rename, Proof, FirstLease, Restore,
    RenameBack, SetupDies,
    broker, request, setup, other, vars

(* A broker that accepted a drain admits nobody and starts nothing until   *)
(* it is gone.                                                             *)
LEMMA DrainsStep ==
  Types /\ OneHolder /\ CallsLive /\ ToldFirst /\ Draining /\ Drains /\ Fences
    /\ [Next]_vars => Drains'
<1> SUFFICES ASSUME Types, OneHolder, CallsLive, ToldFirst, Draining, Drains,
                    Fences, [Next]_vars
             PROVE  Drains'
  OBVIOUS
<1> USE DEF Drains, Admitted, InFlight, Types, TypeOK, Gen, None, NoPrep,
          NoCall, Alive, Answers, broker, request, setup, other, Goto
<1>1. ASSUME NEW c \in Client, Connect(c) PROVE Drains'
  BY <1>1 DEF Connect
<1>2. ASSUME NEW c \in Client, HangUp(c) PROVE Drains'
  BY <1>2 DEF HangUp
<1>3. ASSUME NEW c \in Client, Arrive(c) PROVE Drains'
  BY <1>3 DEF Arrive, Admits
<1>4. ASSUME NEW c \in Client, Handled(c) PROVE Drains'
  <2> DEFINE h == call[c].gen
  <2>1. h \in Gen /\ c \in Admitted(h) /\ Alive(h)
    BY <1>4 DEF Handled, CallsLive, Calls
  <2>2. ASSUME NEW g \in Gen, Alive(g), ~legacy, Admitted(g) = {}, lock = g
        PROVE  FALSE
    <3>1. h # g /\ life[h] = "released"
      BY <2>1, <2>2 DEF OneHolder
    <3>2. told[h] = "accepted"
      BY <2>1, <2>2, <3>1 DEF ToldFirst
    <3> QED BY <2>1, <3>2 DEF Drains
  <2>3. UNCHANGED <<lock, life, told, gate, prep, child>>
    BY <1>4 DEF Handled, broker
  <2>4. ASSUME NEW g \in Gen PROVE Admitted(g)' \subseteq Admitted(g)
    BY <1>4 DEF Handled
  <2> QED BY <2>2, <2>3, <2>4 DEF ToldFirst
<1>5. ASSUME NEW g \in Gen, NEW c \in Client, WorkEnds(g, c) PROVE Drains'
  BY <1>5 DEF WorkEnds
<1>6. ASSUME NEW g \in Gen, SpawnChild(g) PROVE Drains'
  BY <1>6 DEF SpawnChild
<1>7. ASSUME NEW g \in Gen, ChildEnds(g) PROVE Drains'
  BY <1>7 DEF ChildEnds
<1>8. ASSUME NEW g \in Gen, NEW c \in Client, Autostart(c, g) PROVE Drains'
  <2>1. told[g] = "no"
    BY <1>8 DEF Autostart, ToldFirst
  <2>2. UNCHANGED <<told, gate, prep, child, work, call>>
    BY <1>8 DEF Autostart, request
  <2>3. lock' = g /\ \A h \in Gen \ {g} : life'[h] = life[h]
    BY <1>8 DEF Autostart
  <2> QED BY <2>1, <2>2, <2>3
<1>9. ASSUME NEW g \in Gen, Bind(g) PROVE Drains'
  BY <1>9 DEF Bind
<1>10. ASSUME NEW g \in Gen, Close(g) PROVE Drains'
  BY <1>10 DEF Close
<1>11. ASSUME NEW g \in Gen, Quiesce(g) PROVE Drains'
  BY <1>11 DEF Quiesce
<1>12. ASSUME NEW g \in Gen, Release(g) PROVE Drains'
  BY <1>12 DEF Release
<1>13. ASSUME NEW g \in Gen, Exit(g) PROVE Drains'
  BY <1>13 DEF Exit, Dropped
<1>14. ASSUME NEW g \in Gen, Crash(g) PROVE Drains'
  BY <1>14 DEF Crash, Dropped
<1>15. ASSUME NEW g \in Gen, AwaitAdmitted(g) PROVE Drains'
  BY <1>15 DEF AwaitAdmitted, Drained
<1>16. ASSUME NEW g \in Gen, CheckStatus(g) PROVE Drains'
  <2>1. gate[g] /\ told[g] = "no"
    BY <1>16 DEF CheckStatus, Draining
  <2>2. UNCHANGED <<lock, life, told, child, work, call>>
    BY <1>16, Zenon DEF CheckStatus, Refuse
  <2>3. ASSUME NEW h \in Gen \ {g}
        PROVE  prep'[h] = prep[h] /\ gate'[h] = gate[h]
    BY <1>16, ZenonT(40) DEF CheckStatus, Refuse
  <2> QED BY <2>1, <2>2, <2>3
<1>17. ASSUME NEW g \in Gen, CheckLease(g) PROVE Drains'
  <2>1. /\ ~legacy /\ gate[g] /\ life[g] = "serving" /\ told[g] = "no"
        /\ Admitted(g) = {} /\ work = {}
    BY <1>17 DEF CheckLease, Draining
  <2>2. UNCHANGED <<lock, life, work, call, child>>
    BY <1>17 DEF CheckLease
  <2>0. prep' = [prep EXCEPT ![g] = NoPrep]
    BY <1>17, Zenon DEF CheckLease, Refuse
  <2>3. prep'[g].at = "none"
    BY <2>0
  <2>4. ASSUME NEW h \in Gen \ {g}
        PROVE  prep'[h] = prep[h] /\ gate'[h] = gate[h] /\ told'[h] = told[h]
    BY <1>17 DEF CheckLease, Refuse
  <2>5. CASE child[g]
    <3>1. UNCHANGED told
      BY <1>17, <2>5 DEF CheckLease, Refuse
    <3> QED BY <2>1, <2>2, <2>3, <2>4, <3>1
  <2>6. CASE ~child[g]
    <3>1. UNCHANGED gate
      BY <1>17, <2>6 DEF CheckLease
    <3> QED BY <2>1, <2>2, <2>3, <2>4, <2>6, <3>1
  <2> QED BY <2>5, <2>6
<1>18. ASSUME NEW s \in Setup, Ask(s) PROVE Drains'
  <2>1. CASE UNCHANGED <<gate, prep>>
    BY <1>18, <2>1 DEF Ask, broker
  <2>2. CASE ~UNCHANGED <<gate, prep>>
    <3>1. /\ name \in Gen /\ life[name] = "serving" /\ ~gate[name]
          /\ gate' = [gate EXCEPT ![name] = TRUE]
          /\ prep' = [prep EXCEPT ![name] =
                [at |-> "drain", for |-> s, expects |-> target[s]]]
      BY <1>18, <2>2 DEF Ask
    <3>2. told[name] # "accepted"
      BY <3>1
    <3>3. \A h \in Gen \ {name} : prep'[h] = prep[h] /\ gate'[h] = gate[h]
      BY <3>1
    <3>4. UNCHANGED <<lock, life, told, call, work, child>>
      BY <1>18 DEF Ask, broker
    <3> QED BY <3>2, <3>3, <3>4
  <2> QED BY <2>1, <2>2
<1>19. ASSUME NEW s \in Setup, Signal(s) PROVE Drains'
  BY <1>19, ZenonT(40) DEF Signal, Leased
<1>20. CASE UNCHANGED <<lock, child, gate, life, told, prep, call, work>>
  BY <1>20
<1> QED
  BY <1>1, <1>2, <1>3, <1>4, <1>5, <1>6, <1>7, <1>8, <1>9, <1>10, <1>11,
    <1>12, <1>13, <1>14, <1>15, <1>16, <1>17, <1>18, <1>19, <1>20 DEF Next,
    Serve, Run, Answered, Look, ReadLease, GiveUp, Stopped, LookAtSocket,
    Recognise, Compare, Rename,
    Proof, FirstLease, Restore, RenameBack, SetupDies, broker, request, setup,
    other, vars

(* A setup renames the socket it found at the path, and only puts that     *)
(* one back.                                                               *)
LEMMA FencesStep ==
  Types /\ OneHolder /\ Fences /\ Draining /\ [Next]_vars => Fences'
<1> SUFFICES ASSUME Types, OneHolder, Fences, Draining, [Next]_vars
             PROVE  Fences'
  OBVIOUS
<1> USE DEF Fences, Types, TypeOK, Gen, None, Answers, Alive, Steps, Fenced,
          Proving, Unfenced, Looking, Ended, Over, broker, request, setup, other, Goto
<1>1. ASSUME NEW g \in Gen, NEW c \in Client, Autostart(c, g) PROVE Fences'
  BY <1>1 DEF Autostart, Free
<1>2. ASSUME NEW g \in Gen, Bind(g) PROVE Fences'
  BY <1>2 DEF Bind
<1>3. ASSUME NEW g \in Gen, Close(g) PROVE Fences'
  BY <1>3 DEF Close
<1>4. ASSUME NEW g \in Gen, Quiesce(g) PROVE Fences'
  BY <1>4 DEF Quiesce
<1>5. ASSUME NEW g \in Gen, Release(g) PROVE Fences'
  BY <1>5 DEF Release
<1>6. ASSUME NEW g \in Gen, Exit(g) PROVE Fences'
  BY <1>6 DEF Exit, Dropped
<1>7. ASSUME NEW g \in Gen, Crash(g) PROVE Fences'
  BY <1>7 DEF Crash, Dropped
<1>8. ASSUME NEW g \in Gen, CheckStatus(g) PROVE Fences'
  BY <1>8 DEF CheckStatus, Refuse, Reply, Idle
<1>9. ASSUME NEW g \in Gen, CheckLease(g) PROVE Fences'
  BY <1>9 DEF CheckLease, Refuse, Reply
<1>10. ASSUME NEW s \in Setup, Look(s) PROVE Fences'
  BY <1>10 DEF Look
<1>11. ASSUME NEW s \in Setup, ReadLease(s) PROVE Fences'
  BY <1>11 DEF ReadLease
<1>12. ASSUME NEW s \in Setup, Ask(s) PROVE Fences'
  <2>1. /\ step[s] = "ask" /\ step'[s] \in {"failed", "refused", "fence", "asked"}
        /\ step'[s] = "fence" => legacy
    BY <1>12 DEF Ask, Goto
  <2>2. \A z \in Setup \ {s} : step'[z] = step[z]
    BY <1>12 DEF Ask, Goto
  <2>3. UNCHANGED <<legacy, life, name, fence, target, seen>>
    BY <1>12 DEF Ask, other, broker
  <2> QED BY <2>1, <2>2, <2>3
<1>13. ASSUME NEW s \in Setup, GiveUp(s) PROVE Fences'
  BY <1>13 DEF GiveUp
<1>14. ASSUME NEW s \in Setup, Stopped(s) PROVE Fences'
  BY <1>14 DEF Stopped
<1>15. ASSUME NEW s \in Setup, LookAtSocket(s) PROVE Fences'
  BY <1>15 DEF LookAtSocket
<1>16. ASSUME NEW s \in Setup, Recognise(s) PROVE Fences'
  BY <1>16 DEF Recognise
<1>17. ASSUME NEW s \in Setup, Compare(s) PROVE Fences'
  BY <1>17 DEF Compare
<1>18. ASSUME NEW s \in Setup, Rename(s) PROVE Fences'
  <2>1. /\ step[s] = "rename" /\ name' = None
        /\ UNCHANGED <<legacy, life, target, seen>>
    BY <1>18 DEF Rename, broker
  <2>2. CASE name = seen[s]
    <3>1. step' = [step EXCEPT ![s] = "proof"] /\ fence' = [fence EXCEPT ![s] = name]
      BY <1>18, <2>2 DEF Rename
    <3>2. /\ step'[s] = "proof" /\ fence'[s] = name /\ name # None /\ legacy
          /\ \A z \in Setup \ {s} : step'[z] = step[z] /\ fence'[z] = fence[z]
      BY <2>1, <2>2, <3>1
    <3>3. life[name] \notin {"unborn", "starting"} /\ target[s] # None
      BY <2>1, <3>2
    <3>4. \A z \in Setup \ {s} : fence'[z] # None => fence'[z] # fence'[s]
      BY <2>1, <3>2
    <3>5. \A y, z \in Setup : fence'[y] # None /\ fence'[y] = fence'[z] => y = z
      BY <3>2, <3>4
    <3> QED BY <2>1, <3>2, <3>3, <3>5
  <2>3. CASE name # seen[s]
    <3>1. step' = [step EXCEPT ![s] = "refused"] /\ fence' = fence
      BY <1>18, <2>3 DEF Rename
    <3>2. /\ step'[s] = "refused" /\ fence'[s] = None
          /\ \A z \in Setup \ {s} : step'[z] = step[z]
      BY <2>1, <3>1
    <3> QED BY <2>1, <3>1, <3>2
  <2> QED BY <2>2, <2>3
<1>19. ASSUME NEW s \in Setup, Proof(s, "proof", "proof_lease") PROVE Fences'
  BY <1>19 DEF Proof, Idle
<1>20. ASSUME NEW s \in Setup, FirstLease(s) PROVE Fences'
  BY <1>20 DEF FirstLease
<1>21. ASSUME NEW s \in Setup, Proof(s, "last_proof", "last_lease")
       PROVE  Fences'
  BY <1>21 DEF Proof, Idle
<1>22. ASSUME NEW s \in Setup, Signal(s) PROVE Fences'
  <2>1. step[s] = "last_lease" /\ step'[s] \in {"stopping", "restore"}
    BY <1>22 DEF Signal, Goto
  <2>2. \A z \in Setup \ {s} : step'[z] = step[z]
    BY <1>22 DEF Signal, Goto
  <2>3. UNCHANGED <<legacy, life, name, fence, target, seen>>
    BY <1>22 DEF Signal, other
  <2> QED BY <2>1, <2>2, <2>3
<1>23. ASSUME NEW s \in Setup, Restore(s) PROVE Fences'
  BY <1>23 DEF Restore
<1>24. ASSUME NEW s \in Setup, RenameBack(s) PROVE Fences'
  BY <1>24 DEF RenameBack
<1>25. ASSUME NEW s \in Setup, SetupDies(s) PROVE Fences'
  BY <1>25 DEF SetupDies
<1>26. CASE UNCHANGED <<legacy, life, name, fence, step, target, seen>>
  BY <1>26
<1> QED
  BY <1>1, <1>2, <1>3, <1>4, <1>5, <1>6, <1>7, <1>8, <1>9, <1>10, <1>11,
    <1>12, <1>13, <1>14, <1>15, <1>16, <1>17, <1>18, <1>19, <1>20, <1>21,
    <1>22, <1>23, <1>24, <1>25, <1>26
    DEF Next, Serve, Run, Answered, Connect, HangUp,
    Arrive, Handled, WorkEnds, SpawnChild, ChildEnds, AwaitAdmitted, broker,
    request, setup, other, vars

(* Nobody connects to a fenced broker, and while it holds the lock only    *)
(* it and a predecessor that lingers write: what a last proof saw stays    *)
(* all there is.                                                           *)
LEMMA CoverStep ==
  Types /\ OneHolder /\ CallsLive /\ Fences /\ [Next]_vars =>
    \A s \in Setup :
      Covered(s) /\ UNCHANGED <<fence[s], target[s], flying[s]>> /\ Alive(target[s])'
        => Covered(s)'
<1> SUFFICES ASSUME Types, OneHolder, CallsLive, Fences, [Next]_vars,
                    NEW z \in Setup, Covered(z),
                    UNCHANGED <<fence[z], target[z], flying[z]>>, Alive(target[z])'
             PROVE  Covered(z)'
  OBVIOUS
<1> USE DEF Covered, InFlight, Lingering, Types, TypeOK, Gen, None, Answers,
          Alive, Calls, NoCall, broker, request, setup, other, Goto
<1>1. ASSUME NEW c \in Client, Connect(c) PROVE Covered(z)'
  BY <1>1 DEF Connect, Fences
<1>2. ASSUME NEW c \in Client, HangUp(c) PROVE Covered(z)'
  <2>1. \A d \in Client : call'[d].gen \in {call[d].gen, None}
    BY <1>2 DEF HangUp
  <2>2. UNCHANGED <<lock, life, work>>
    BY <1>2 DEF HangUp, broker
  <2> QED BY <2>1, <2>2
<1>3. ASSUME NEW c \in Client, Arrive(c) PROVE Covered(z)'
  BY <1>3 DEF Arrive, Admits
<1>4. ASSUME NEW c \in Client, Handled(c) PROVE Covered(z)'
  BY <1>4 DEF Handled, CallsLive, OneHolder
<1>5. ASSUME NEW g \in Gen, NEW c \in Client, WorkEnds(g, c) PROVE Covered(z)'
  BY <1>5 DEF WorkEnds
<1>6. ASSUME NEW g \in Gen, NEW c \in Client, Autostart(c, g) PROVE Covered(z)'
  BY <1>6 DEF Autostart, Free, Fences
<1>7. ASSUME NEW g \in Gen, Bind(g) PROVE Covered(z)'
  BY <1>7 DEF Bind, OneHolder, CallsLive
<1>8. ASSUME NEW g \in Gen, Close(g) PROVE Covered(z)'
  BY <1>8 DEF Close
<1>9. ASSUME NEW g \in Gen, Quiesce(g) PROVE Covered(z)'
  BY <1>9 DEF Quiesce
<1>10. ASSUME NEW g \in Gen, Release(g) PROVE Covered(z)'
  BY <1>10 DEF Release, OneHolder
<1>11. ASSUME NEW g \in Gen, Exit(g) PROVE Covered(z)'
  <2>1. \A d \in Client : call'[d] \in {call[d], NoCall}
    BY <1>11 DEF Exit, Dropped
  <2>2. /\ UNCHANGED <<lock, work>> /\ life[g] = "released"
        /\ \A x \in Gen \ {g} : life'[x] = life[x]
        /\ life'[g] = "stopped"
    BY <1>11 DEF Exit
  <2>3. target[z] \in Gen
    BY DEF Covered
  <2>4. Lingering' \subseteq Lingering
    BY <2>1, <2>2
  <2>5. InFlight(target[z])' \subseteq InFlight(target[z])
    BY <2>1, <2>3
  <2> QED BY <2>2, <2>3, <2>4, <2>5
<1>12. ASSUME NEW g \in Gen, Crash(g) PROVE Covered(z)'
  BY <1>12 DEF Crash, Dropped, CallsLive
<1>13. CASE UNCHANGED <<lock, life, call, work>>
  BY <1>13
<1> QED
  BY <1>1, <1>2, <1>3, <1>4, <1>5, <1>6, <1>7, <1>8, <1>9, <1>10, <1>11,
    <1>12, <1>13 DEF Next, Serve, Run, Answered, SpawnChild, ChildEnds,
    AwaitAdmitted, CheckStatus, CheckLease, Look, ReadLease, Ask, GiveUp,
    Stopped, LookAtSocket, Recognise, Compare, Rename, Proof, FirstLease,
    Signal, Restore,
    RenameBack, SetupDies, broker, request, setup, other, vars

(* A generation that is alive was so, unless it has just been born.        *)
LEMMA AliveBefore ==
  Types /\ [Next]_vars =>
    \A g \in Gen : Alive(g)' => Alive(g) \/ life[g] = "unborn"
<1> SUFFICES ASSUME Types, [Next]_vars,
                    NEW h \in Gen
             PROVE  Alive(h)' => Alive(h) \/ life[h] = "unborn"
  OBVIOUS
<1> USE DEF Types, TypeOK, Gen, None, Alive, broker, request, setup, other,
          Goto
<1>1. ASSUME NEW g \in Gen, NEW c \in Client, Autostart(c, g)
      PROVE  Alive(h)' => Alive(h) \/ life[h] = "unborn"
  BY <1>1 DEF Autostart, Free
<1>2. ASSUME NEW g \in Gen, Bind(g)
      PROVE  Alive(h)' => Alive(h) \/ life[h] = "unborn"
  BY <1>2 DEF Bind
<1>3. ASSUME NEW g \in Gen, Close(g)
      PROVE  Alive(h)' => Alive(h) \/ life[h] = "unborn"
  BY <1>3 DEF Close
<1>4. ASSUME NEW g \in Gen, Quiesce(g)
      PROVE  Alive(h)' => Alive(h) \/ life[h] = "unborn"
  BY <1>4 DEF Quiesce
<1>5. ASSUME NEW g \in Gen, Release(g)
      PROVE  Alive(h)' => Alive(h) \/ life[h] = "unborn"
  BY <1>5 DEF Release
<1>6. ASSUME NEW g \in Gen, Exit(g)
      PROVE  Alive(h)' => Alive(h) \/ life[h] = "unborn"
  BY <1>6 DEF Exit, Dropped
<1>7. ASSUME NEW g \in Gen, Crash(g)
      PROVE  Alive(h)' => Alive(h) \/ life[h] = "unborn"
  BY <1>7 DEF Crash, Dropped
<1>8. CASE UNCHANGED <<life>>
  BY <1>8
<1> QED
  BY <1>1, <1>2, <1>3, <1>4, <1>5, <1>6, <1>7, <1>8 DEF Next, Serve, Run,
    Answered, Connect, HangUp, Arrive, Handled, WorkEnds, SpawnChild,
    ChildEnds, AwaitAdmitted, CheckStatus, CheckLease, Look, ReadLease, Ask,
    GiveUp, Stopped, LookAtSocket, Recognise, Compare, Rename, Proof,
    FirstLease, Signal, Restore,
    RenameBack, SetupDies, broker, request, setup, other, vars

(* What a setup saw and what it knows of its target once it is to signal.  *)
SeenKept(s) == UNCHANGED <<fence[s], target[s], flying[s]>>

(* A setup comes to its last lease from its last proof.                    *)
LEMMA LastLeaseFrom ==
  Types /\ [Next]_vars =>
    \A s \in Setup : step'[s] = "last_lease" =>
      \/ step[s] = "last_lease" /\ SeenKept(s)
      \/ Proof(s, "last_proof", "last_lease")
<1> SUFFICES ASSUME Types, [Next]_vars,
                    NEW z \in Setup, step'[z] = "last_lease",
                    ~Proof(z, "last_proof", "last_lease")
             PROVE  step[z] = "last_lease" /\ SeenKept(z)
  OBVIOUS
<1> USE DEF Types, TypeOK, Gen, None, SeenKept, broker, request, setup, other,
          Goto
<1>1. ASSUME NEW g \in Gen, CheckStatus(g)
      PROVE  step[z] = "last_lease" /\ SeenKept(z)
  BY <1>1 DEF CheckStatus, Refuse, Reply, Idle
<1>2. ASSUME NEW g \in Gen, CheckLease(g)
      PROVE  step[z] = "last_lease" /\ SeenKept(z)
  BY <1>2 DEF CheckLease, Refuse, Reply
<1>3. ASSUME NEW g \in Gen, Crash(g)
      PROVE  step[z] = "last_lease" /\ SeenKept(z)
  BY <1>3 DEF Crash, Dropped
<1>4. ASSUME NEW s \in Setup, Look(s)
      PROVE  step[z] = "last_lease" /\ SeenKept(z)
  BY <1>4 DEF Look
<1>5. ASSUME NEW s \in Setup, ReadLease(s)
      PROVE  step[z] = "last_lease" /\ SeenKept(z)
  BY <1>5 DEF ReadLease
<1>6. ASSUME NEW s \in Setup, Ask(s)
      PROVE  step[z] = "last_lease" /\ SeenKept(z)
  BY <1>6 DEF Ask
<1>7. ASSUME NEW s \in Setup, GiveUp(s)
      PROVE  step[z] = "last_lease" /\ SeenKept(z)
  BY <1>7 DEF GiveUp
<1>8. ASSUME NEW s \in Setup, Stopped(s)
      PROVE  step[z] = "last_lease" /\ SeenKept(z)
  BY <1>8 DEF Stopped
<1>9. ASSUME NEW s \in Setup, LookAtSocket(s)
      PROVE  step[z] = "last_lease" /\ SeenKept(z)
  BY <1>9 DEF LookAtSocket
<1>10. ASSUME NEW s \in Setup, Recognise(s)
      PROVE  step[z] = "last_lease" /\ SeenKept(z)
  BY <1>10 DEF Recognise
<1>11. ASSUME NEW s \in Setup, Compare(s)
      PROVE  step[z] = "last_lease" /\ SeenKept(z)
  BY <1>11 DEF Compare
<1>12. ASSUME NEW s \in Setup, Rename(s)
       PROVE  step[z] = "last_lease" /\ SeenKept(z)
  BY <1>12 DEF Rename
<1>13. ASSUME NEW s \in Setup, Proof(s, "proof", "proof_lease")
       PROVE  step[z] = "last_lease" /\ SeenKept(z)
  BY <1>13 DEF Proof, Idle
<1>14. ASSUME NEW s \in Setup, FirstLease(s)
       PROVE  step[z] = "last_lease" /\ SeenKept(z)
  BY <1>14 DEF FirstLease
<1>15. ASSUME NEW s \in Setup, Proof(s, "last_proof", "last_lease")
       PROVE  step[z] = "last_lease" /\ SeenKept(z)
  BY <1>15 DEF Proof, Idle
<1>16. ASSUME NEW s \in Setup, Signal(s)
       PROVE  step[z] = "last_lease" /\ SeenKept(z)
  BY <1>16 DEF Signal, Leased
<1>17. ASSUME NEW s \in Setup, Restore(s)
       PROVE  step[z] = "last_lease" /\ SeenKept(z)
  BY <1>17 DEF Restore
<1>18. ASSUME NEW s \in Setup, RenameBack(s)
       PROVE  step[z] = "last_lease" /\ SeenKept(z)
  BY <1>18 DEF RenameBack
<1>19. ASSUME NEW s \in Setup, SetupDies(s)
       PROVE  step[z] = "last_lease" /\ SeenKept(z)
  BY <1>19 DEF SetupDies
<1>20. CASE UNCHANGED <<fence, step, target, flying>>
  BY <1>20
<1> QED
  BY <1>1, <1>2, <1>3, <1>4, <1>5, <1>6, <1>7, <1>8, <1>9, <1>10, <1>11,
    <1>12, <1>13, <1>14, <1>15, <1>16, <1>17, <1>18, <1>19, <1>20
    DEF Next, Serve, Run,
    Answered, Connect, HangUp, Arrive, Handled, WorkEnds, SpawnChild,
    ChildEnds, Autostart, Bind, Close, Quiesce, Release, Exit, AwaitAdmitted,
    broker, request, setup, other, vars

(* A setup whose part is over keeps what it saw while its target lives.    *)
LEMMA EndedKept ==
  Types /\ [Next]_vars =>
    \A s \in Setup : step[s] \in Ended /\ Alive(target[s]) =>
      step'[s] \in Ended /\ SeenKept(s)
<1> SUFFICES ASSUME Types, [Next]_vars,
                    NEW z \in Setup, step[z] \in Ended, Alive(target[z])
             PROVE  step'[z] \in Ended /\ SeenKept(z)
  OBVIOUS
<1> USE DEF Types, TypeOK, Gen, None, SeenKept, Ended, Over, Alive, broker,
          request, setup, other, Goto
<1>1. ASSUME NEW g \in Gen, CheckStatus(g)
      PROVE  step'[z] \in Ended /\ SeenKept(z)
  BY <1>1 DEF CheckStatus, Refuse, Reply, Idle
<1>2. ASSUME NEW g \in Gen, CheckLease(g)
      PROVE  step'[z] \in Ended /\ SeenKept(z)
  BY <1>2 DEF CheckLease, Refuse, Reply
<1>3. ASSUME NEW g \in Gen, Crash(g) PROVE step'[z] \in Ended /\ SeenKept(z)
  BY <1>3 DEF Crash, Dropped
<1>4. ASSUME NEW s \in Setup, Look(s) PROVE step'[z] \in Ended /\ SeenKept(z)
  BY <1>4 DEF Look
<1>5. ASSUME NEW s \in Setup, ReadLease(s)
      PROVE  step'[z] \in Ended /\ SeenKept(z)
  BY <1>5 DEF ReadLease
<1>6. ASSUME NEW s \in Setup, Ask(s) PROVE step'[z] \in Ended /\ SeenKept(z)
  BY <1>6 DEF Ask
<1>7. ASSUME NEW s \in Setup, GiveUp(s) PROVE step'[z] \in Ended /\ SeenKept(z)
  BY <1>7 DEF GiveUp
<1>8. ASSUME NEW s \in Setup, Stopped(s)
      PROVE  step'[z] \in Ended /\ SeenKept(z)
  BY <1>8 DEF Stopped
<1>9. ASSUME NEW s \in Setup, LookAtSocket(s)
      PROVE  step'[z] \in Ended /\ SeenKept(z)
  BY <1>9 DEF LookAtSocket
<1>10. ASSUME NEW s \in Setup, Recognise(s)
      PROVE  step'[z] \in Ended /\ SeenKept(z)
  BY <1>10 DEF Recognise
<1>11. ASSUME NEW s \in Setup, Compare(s)
      PROVE  step'[z] \in Ended /\ SeenKept(z)
  BY <1>11 DEF Compare
<1>12. ASSUME NEW s \in Setup, Rename(s)
       PROVE  step'[z] \in Ended /\ SeenKept(z)
  BY <1>12 DEF Rename
<1>13. ASSUME NEW s \in Setup, Proof(s, "proof", "proof_lease")
       PROVE  step'[z] \in Ended /\ SeenKept(z)
  BY <1>13 DEF Proof, Idle
<1>14. ASSUME NEW s \in Setup, FirstLease(s)
       PROVE  step'[z] \in Ended /\ SeenKept(z)
  BY <1>14 DEF FirstLease
<1>15. ASSUME NEW s \in Setup, Proof(s, "last_proof", "last_lease")
       PROVE  step'[z] \in Ended /\ SeenKept(z)
  BY <1>15 DEF Proof, Idle
<1>16. ASSUME NEW s \in Setup, Signal(s)
       PROVE  step'[z] \in Ended /\ SeenKept(z)
  BY <1>16 DEF Signal, Leased
<1>17. ASSUME NEW s \in Setup, Restore(s)
       PROVE  step'[z] \in Ended /\ SeenKept(z)
  BY <1>17 DEF Restore
<1>18. ASSUME NEW s \in Setup, RenameBack(s)
       PROVE  step'[z] \in Ended /\ SeenKept(z)
  BY <1>18 DEF RenameBack
<1>19. ASSUME NEW s \in Setup, SetupDies(s)
       PROVE  step'[z] \in Ended /\ SeenKept(z)
  BY <1>19 DEF SetupDies
<1>20. CASE UNCHANGED <<fence, step, target, flying>>
  BY <1>20
<1> QED
  BY <1>1, <1>2, <1>3, <1>4, <1>5, <1>6, <1>7, <1>8, <1>9, <1>10, <1>11,
    <1>12, <1>13, <1>14, <1>15, <1>16, <1>17, <1>18, <1>19, <1>20
    DEF Next, Serve, Run,
    Answered, Connect, HangUp, Arrive, Handled, WorkEnds, SpawnChild,
    ChildEnds, Autostart, Bind, Close, Quiesce, Release, Exit, AwaitAdmitted,
    broker, request, setup, other, vars

(* Between its last proof and its signal a setup knows what its target can *)
(* still write.                                                            *)
LEMMA ProvenStep ==
  Types /\ OneHolder /\ CallsLive /\ Fences /\ Proven /\ [Next]_vars => Proven'
<1> SUFFICES ASSUME Types, OneHolder, CallsLive, Fences, Proven, [Next]_vars,
                    NEW s \in Setup, step'[s] = "last_lease", Alive(target[s])'
             PROVE  Covered(s)'
  BY DEF Proven
<1>1. CASE step[s] = "last_lease" /\ SeenKept(s)
  <2>1. target[s] \in Gen /\ target'[s] = target[s]
    BY <1>1 DEF Fences, Types, SeenKept, Fenced
  <2>2. Alive(target[s])
    BY <2>1, AliveBefore DEF Fences, Alive, None, Gen
  <2>3. Covered(s)
    BY <1>1, <2>2 DEF Proven
  <2> QED BY <1>1, <2>3, CoverStep DEF SeenKept
<1>2. CASE Proof(s, "last_proof", "last_lease")
  <2> DEFINE g == target[s]
  <2>1. target[s] # None /\ g \in Gen
    BY <1>2 DEF Fences, Proof, Types, TypeOK
  <2>2. step' = [step EXCEPT ![s] = "last_lease"] \/ step' = [step EXCEPT ![s] = "restore"]
    BY <1>2 DEF Proof, Goto
  <2>3. step' # [step EXCEPT ![s] = "restore"]
    BY DEF Types
  <2>4. work = {} /\ fence[s] = g /\ flying' = [flying EXCEPT ![s] = InFlight(g) \cup Lingering]
    BY <1>2, <2>2, <2>3 DEF Proof, Goto, Idle, Types
  <2>5. UNCHANGED <<lock, life, call, work, fence, target>>
    BY <1>2 DEF Proof, broker, request
  <2>6. InFlight(g)' = InFlight(g) /\ Lingering' = Lingering
    BY <2>5 DEF InFlight, Lingering
  <2>7. flying'[s] = InFlight(g) \cup Lingering
    BY <2>4 DEF Types
  <2> QED BY <2>1, <2>4, <2>5, <2>6, <2>7 DEF Covered, None, Gen, InFlight,
    Lingering
<1> QED BY <1>1, <1>2, LastLeaseFrom DEF SeenKept


(* A generation is signalled by the last lease of a setup whose target it  *)
(* is.                                                                     *)
LEMMA SignalledFrom ==
  Types /\ Draining /\ Fences /\ [Next]_vars =>
    \A g \in Gen : told'[g] = "signalled" =>
      told[g] = "signalled" \/ \E s \in Setup : target[s] = g /\ Signal(s)
<1> SUFFICES ASSUME Types, Draining, Fences, [Next]_vars,
                    NEW h \in Gen, told'[h] = "signalled", told[h] # "signalled"
             PROVE  \E s \in Setup : target[s] = h /\ Signal(s)
  OBVIOUS
<1> USE DEF Types, TypeOK, Gen, None, broker, request, setup, other, Goto
<1>1. ASSUME NEW g \in Gen, CheckLease(g)
      PROVE  \E z \in Setup : target[z] = h /\ Signal(z)
  BY <1>1 DEF CheckLease, Refuse, Reply
<1>2. ASSUME NEW s \in Setup, Signal(s)
      PROVE  \E z \in Setup : target[z] = h /\ Signal(z)
  BY <1>2 DEF Signal, Leased
<1>3. ASSUME NEW g \in Gen, CheckStatus(g)
      PROVE  \E z \in Setup : target[z] = h /\ Signal(z)
  BY <1>3 DEF CheckStatus, Refuse, Reply, Idle
<1>4. CASE UNCHANGED <<told>>
  BY <1>4
<1> QED
  BY <1>1, <1>2, <1>3, <1>4 DEF Next, Serve, Run, Answered, Connect, HangUp,
    Arrive, Handled, WorkEnds, SpawnChild, ChildEnds, Autostart, Bind, Close,
    Quiesce, Release, Exit, Crash, AwaitAdmitted, Look, ReadLease, Ask,
    GiveUp, Stopped, LookAtSocket, Recognise, Compare, Rename, Proof,
    FirstLease, Restore,
    RenameBack, SetupDies, broker, request, setup, other, vars

(* A signalled broker has a setup that saw all it can still write.         *)
LEMMA SignalledStep ==
  Types /\ OneHolder /\ CallsLive /\ ToldFirst /\ Draining /\ Fences /\ Proven
    /\ Signalled /\ [Next]_vars => Signalled'
<1> SUFFICES ASSUME Types, OneHolder, CallsLive, ToldFirst, Draining, Fences,
                    Proven, Signalled, [Next]_vars,
                    NEW g \in Gen, told'[g] = "signalled", Alive(g)'
             PROVE  \E s \in Setup :
                      step'[s] \in Ended /\ target'[s] = g /\ Covered(s)'
  BY DEF Signalled
<1>1. CASE told[g] = "signalled"
  <2>1. Alive(g)
    BY <1>1, AliveBefore DEF ToldFirst
  <2>2. PICK s \in Setup : step[s] \in Ended /\ target[s] = g /\ Covered(s)
    BY <1>1, <2>1 DEF Signalled
  <2>3. step'[s] \in Ended /\ SeenKept(s)
    BY <2>1, <2>2, EndedKept
  <2> QED BY <2>2, <2>3, CoverStep DEF SeenKept
<1>2. CASE told[g] # "signalled" /\ \E s \in Setup : target[s] = g /\ Signal(s)
  <2>1. PICK s \in Setup : target[s] = g /\ Signal(s)
    BY <1>2
  <2>2. UNCHANGED <<fence, target, flying, life>> /\ step[s] = "last_lease"
    BY <2>1 DEF Signal
  <2>3. step'[s] = "stopping"
    <3>1. CASE Leased(g) /\ Alive(g)
      BY <2>1, <3>1 DEF Signal, Goto, Types
    <3>2. CASE ~(Leased(g) /\ Alive(g))
      BY <1>2, <2>1, <3>2 DEF Signal
    <3> QED BY <3>1, <3>2
  <2>4. Covered(s)
    BY <2>1, <2>2 DEF Proven, Alive
  <2> QED BY <2>1, <2>2, <2>3, <2>4, CoverStep DEF Ended
<1> QED BY <1>1, <1>2, SignalledFrom


(* Who is told to stop stays told.                                         *)
LEMMA ToldKept ==
  Types /\ [Next]_vars => \A g \in Gen : told[g] # "no" => told'[g] # "no"
<1> SUFFICES ASSUME Types, [Next]_vars, NEW h \in Gen, told[h] # "no"
             PROVE  told'[h] # "no"
  OBVIOUS
<1> USE DEF Types, TypeOK, Gen, None, broker, request, setup, other, Goto
<1>1. ASSUME NEW g \in Gen, CheckLease(g) PROVE told'[h] # "no"
  BY <1>1 DEF CheckLease, Refuse, Reply
<1>2. ASSUME NEW s \in Setup, Signal(s) PROVE told'[h] # "no"
  BY <1>2 DEF Signal, Leased
<1>3. ASSUME NEW g \in Gen, CheckStatus(g) PROVE told'[h] # "no"
  BY <1>3 DEF CheckStatus, Refuse, Reply, Idle
<1>4. CASE UNCHANGED <<told>>
  BY <1>4
<1> QED
  BY <1>1, <1>2, <1>3, <1>4 DEF Next, Serve, Run, Answered, Connect, HangUp,
    Arrive, Handled, WorkEnds, SpawnChild, ChildEnds, Autostart, Bind, Close,
    Quiesce, Release, Exit, Crash, AwaitAdmitted, Look, ReadLease, Ask,
    GiveUp, Stopped, LookAtSocket, Recognise, Compare, Rename, Proof,
    FirstLease, Restore, RenameBack, SetupDies, broker, request, setup, other,
    vars

(* A setup waits for the end of a broker, or gives up waiting, with a      *)
(* socket behind its fence only after its signal.                          *)
LEMMA ShutStep ==
  Types /\ Draining /\ Fences /\ Shut /\ [Next]_vars => Shut'
<1> SUFFICES ASSUME Types, Draining, Fences, Shut, [Next]_vars,
                    NEW z \in Setup, fence'[z] # None,
                    step'[z] \in {"stopping", "failed"}
             PROVE  told'[fence'[z]] # "no"
  BY DEF Shut
<1> DEFINE Done == fence[z] \in Gen /\ fence'[z] = fence[z] /\
                   step[z] \in {"stopping", "failed"}
<1>1. CASE Done
  BY <1>1, ToldKept DEF Shut, None, Gen
<1>2. CASE \E s \in Setup : Signal(s)
  <2>1. PICK s \in Setup : Signal(s)
    BY <1>2
  <2>2. UNCHANGED fence
    BY <2>1 DEF Signal
  <2>3. CASE s = z
    <3>1. step[z] = "last_lease" /\ fence[z] = target[z] /\ target[z] \in Gen
      BY <2>1, <2>2, <2>3 DEF Signal, Fences, Proving, Types, TypeOK, None
    <3>2. CASE Leased(target[z]) /\ Alive(target[z])
      BY <2>1, <2>2, <2>3, <3>1, <3>2 DEF Signal, Types, TypeOK
    <3>3. CASE ~(Leased(target[z]) /\ Alive(target[z]))
      BY <2>1, <2>3, <3>3 DEF Signal, Goto, Types
    <3> QED BY <3>2, <3>3
  <2>4. CASE s # z
    <3>1. step'[z] = step[z]
      BY <2>1, <2>4 DEF Signal, Goto, Types
    <3> QED BY <1>1, <2>2, <3>1 DEF Types, TypeOK
  <2> QED BY <2>3, <2>4
<1>3. CASE ~Done /\ ~\E s \in Setup : Signal(s)
  <2> USE DEF Types, TypeOK, Gen, None, Fences, Unfenced, Fenced, Proving,
            Looking, broker, request, setup, other, Goto
  <2>1. ASSUME NEW g \in Gen, CheckStatus(g) PROVE Done
    BY <1>3, <2>1 DEF CheckStatus, Refuse, Reply, Idle
  <2>2. ASSUME NEW g \in Gen, CheckLease(g) PROVE Done
    BY <1>3, <2>2 DEF CheckLease, Refuse, Reply
  <2>3. ASSUME NEW g \in Gen, Crash(g) PROVE Done
    BY <1>3, <2>3 DEF Crash, Dropped
  <2>4. ASSUME NEW s \in Setup, Look(s) PROVE Done
    BY <1>3, <2>4 DEF Look
  <2>5. ASSUME NEW s \in Setup, ReadLease(s) PROVE Done
    BY <1>3, <2>5 DEF ReadLease
  <2>6. ASSUME NEW s \in Setup, Ask(s) PROVE Done
    BY <1>3, <2>6 DEF Ask
  <2>7. ASSUME NEW s \in Setup, GiveUp(s) PROVE Done
    BY <1>3, <2>7 DEF GiveUp
  <2>8. ASSUME NEW s \in Setup, Stopped(s) PROVE Done
    BY <1>3, <2>8 DEF Stopped
  <2>9. ASSUME NEW s \in Setup, LookAtSocket(s) PROVE Done
    BY <1>3, <2>9 DEF LookAtSocket
  <2>10. ASSUME NEW s \in Setup, Recognise(s) PROVE Done
    BY <1>3, <2>10 DEF Recognise
  <2>11. ASSUME NEW s \in Setup, Compare(s) PROVE Done
    BY <1>3, <2>11 DEF Compare
  <2>12. ASSUME NEW s \in Setup, Rename(s) PROVE Done
    BY <1>3, <2>12 DEF Rename
  <2>13. ASSUME NEW s \in Setup, Proof(s, "proof", "proof_lease") PROVE Done
    BY <1>3, <2>13 DEF Proof, Idle
  <2>14. ASSUME NEW s \in Setup, FirstLease(s) PROVE Done
    BY <1>3, <2>14 DEF FirstLease
  <2>15. ASSUME NEW s \in Setup, Proof(s, "last_proof", "last_lease") PROVE Done
    BY <1>3, <2>15 DEF Proof, Idle
  <2>16. ASSUME NEW s \in Setup, Restore(s) PROVE Done
    BY <1>3, <2>16 DEF Restore
  <2>17. ASSUME NEW s \in Setup, RenameBack(s) PROVE Done
    BY <1>3, <2>17 DEF RenameBack
  <2>18. ASSUME NEW s \in Setup, SetupDies(s) PROVE Done
    BY <1>3, <2>18 DEF SetupDies
  <2>19. CASE UNCHANGED <<fence, step>>
    BY <1>3, <2>19
  <2> QED
    BY <1>3, <2>1, <2>2, <2>3, <2>4, <2>5, <2>6, <2>7, <2>8, <2>9, <2>10,
      <2>11, <2>12, <2>13, <2>14, <2>15, <2>16, <2>17, <2>18, <2>19 DEF Next,
      Serve,
      Run, Answered, Connect, HangUp, Arrive, Handled, WorkEnds, SpawnChild,
      ChildEnds, Autostart, Bind, Close, Quiesce, Release, Exit,
      AwaitAdmitted, broker, request, setup, other, vars
<1> QED BY <1>1, <1>2, <1>3

(* A fence that a step leaves in place goes on being one: its setup ends   *)
(* in a refusal only without one.                                          *)
LEMMA FenceKept ==
  Types /\ Fences' /\ Shut' =>
    \A s \in Setup, g \in Gen :
      fence'[s] = g => (step'[s] \in {"refused", "failed"} => told'[g] # "no")
BY DEF Types, Fences, Shut, Gen, None

(* A broker that serves is at the path, behind a fence, or lost.           *)
LEMMA ReachableStep ==
  Types /\ OneHolder /\ Fences /\ Fences' /\ Shut' /\ Reachable
    /\ [Next]_vars => Reachable'
<1> SUFFICES ASSUME Types, OneHolder, Fences, Fences', Shut', Reachable,
                    [Next]_vars, NEW h \in Gen, life'[h] = "serving"
             PROVE  name' = h \/ (\E s \in Setup : fence'[s] = h) \/ h \in lost'
  BY FenceKept, Zenon DEF Reachable
<1> DEFINE Place == name' = h \/ (\E s \in Setup : fence'[s] = h) \/ h \in lost'
<1>0. life[h] = "serving" =>
        name = h \/ (\E s \in Setup : fence[s] = h) \/ h \in lost
  BY DEF Reachable
<1>k. ASSUME UNCHANGED <<lost, fence, name>>, life[h] = "serving" PROVE Place
  BY <1>0, <1>k
<1> USE DEF OneHolder, Alive, Types, TypeOK, Gen, None, broker,
          request, setup, other, Goto
<1>1. ASSUME NEW g \in Gen, NEW c \in Client, Autostart(c, g) PROVE Place
  BY <1>0, <1>1 DEF Autostart, Free
<1>2. ASSUME NEW g \in Gen, Bind(g) PROVE Place
  BY <1>0, <1>2 DEF Bind, Answers
<1>3. ASSUME NEW g \in Gen, Close(g) PROVE Place
  BY <1>0, <1>3 DEF Close
<1>4. ASSUME NEW g \in Gen, Quiesce(g) PROVE Place
  BY <1>0, <1>4 DEF Quiesce
<1>5. ASSUME NEW g \in Gen, Release(g) PROVE Place
  <2>1. UNCHANGED <<lost, fence, name>> /\ life[h] = "serving"
    BY <1>5 DEF Release
  <2> QED BY <1>k, <2>1
<1>6. ASSUME NEW g \in Gen, Exit(g) PROVE Place
  <2>1. UNCHANGED <<lost, fence, name>> /\ life[h] = "serving"
    BY <1>6 DEF Exit
  <2> QED BY <1>k, <2>1
<1>7. ASSUME NEW g \in Gen, Crash(g) PROVE Place
  <2>1. UNCHANGED <<lost, fence, name>> /\ life[h] = "serving"
    BY <1>7 DEF Crash
  <2> QED BY <1>k, <2>1
<1>8. ASSUME NEW g \in Gen, CheckStatus(g) PROVE Place
  <2>1. UNCHANGED <<lost, fence, name>> /\ life[h] = "serving"
    BY <1>8 DEF CheckStatus
  <2> QED BY <1>k, <2>1
<1>9. ASSUME NEW g \in Gen, CheckLease(g) PROVE Place
  <2>1. UNCHANGED <<lost, fence, name>> /\ life[h] = "serving"
    BY <1>9 DEF CheckLease
  <2> QED BY <1>k, <2>1
<1>10. ASSUME NEW s \in Setup, Stopped(s) PROVE Place
  BY <1>0, <1>10 DEF Stopped, Fences
<1>11. ASSUME NEW s \in Setup, Rename(s) PROVE Place
  BY <1>0, <1>11 DEF Rename, Fences, Unfenced, Looking
<1>12. ASSUME NEW s \in Setup, RenameBack(s) PROVE Place
  BY <1>0, <1>12 DEF RenameBack, Fences, Fenced
<1>13. CASE UNCHANGED <<lost, fence, life, name>>
  BY <1>0, <1>13
<1> QED
  BY <1>1, <1>2, <1>3, <1>4, <1>5, <1>6, <1>7, <1>8, <1>9, <1>10, <1>11,
    <1>12, <1>13 DEF Next, Serve, Run, Answered, Connect, HangUp,
    Arrive, Handled, WorkEnds, SpawnChild, ChildEnds, AwaitAdmitted,
    Look, ReadLease, Ask, GiveUp, LookAtSocket, Recognise, Compare, Proof,
    FirstLease, Signal, Restore, SetupDies, broker, request, setup, other, vars

-----------------------------------------------------------------------------
(* The first broker serves, with nothing asked of it.                      *)
LEMMA InitIInv == Init => IInv
<1> SUFFICES ASSUME Init PROVE IInv
  OBVIOUS
<1> USE HandoffAssumption DEF Init, Gen, None, NoPrep, NoCall, Alive, InFlight, Admitted
<1>1. Types
  <2>1. TypeOK
    <3>1. 1 \in Gen /\ 0 \in 0..Crashes
      OBVIOUS
    <3>2. life \in [Gen -> {"unborn", "starting", "serving", "closed", "quiet",
                           "released", "stopped", "dead"}]
      OBVIOUS
    <3> QED BY <3>1, <3>2 DEF TypeOK
  <2>2. prep \in [Gen -> Prep] /\ call \in [Client -> Calls]
    BY DEF Prep, Calls
  <2> QED BY <2>1, <2>2 DEF Types, Steps, Unfenced
<1>2. OneHolder /\ CallsLive /\ ToldFirst /\ Draining /\ Drains
  BY DEF OneHolder, CallsLive, ToldFirst, Draining, Drains
<1>3. Fences /\ Proven /\ Signalled /\ Shut /\ Reachable
  BY DEF Fences, Fenced, Unfenced, Looking, Proving, Proven, Signalled, Shut,
    Reachable
<1> QED BY <1>1, <1>2, <1>3 DEF IInv

LEMMA NextIInv == IInv /\ [Next]_vars => IInv'
BY TypesStep, HolderStep, CallsStep, ToldStep, DrainingStep, DrainsStep,
   FencesStep,
   ProvenStep, SignalledStep, ShutStep, ReachableStep DEF IInv

LEMMA Invariance == Spec => []IInv
BY InitIInv, NextIInv, PTL DEF Spec

(* A broker that stops is alive: its drain, or the last proof of the setup *)
(* that signalled it, says what it can leave behind.                       *)
THEOREM BrokersStopIdle == Spec => []StopsIdle
<1>1. IInv => StopsIdle
  <2> SUFFICES ASSUME IInv, NEW g \in Gen, Stopping(g) PROVE
        /\ told[g] = "accepted" =>
             Admitted(g) = {} /\ (lock = g => work = {} /\ ~child[g])
        /\ told[g] = "signalled" => \E s \in Setup :
             /\ target[s] = g /\ Admitted(g) \subseteq flying[s]
             /\ lock = g => work \subseteq flying[s]
    BY DEF IInv, Types, StopsIdle
  <2>1. Alive(g)
    BY DEF Stopping, Alive
  <2>2. told[g] = "accepted" =>
          Admitted(g) = {} /\ (lock = g => work = {} /\ ~child[g])
    BY <2>1 DEF IInv, Drains
  <2>3. CASE told[g] = "signalled"
    <3>1. PICK s \in Setup : target[s] = g /\ Covered(s)
      BY <2>1, <2>3 DEF IInv, Signalled
    <3>2. Admitted(g) \subseteq flying[s] /\ (lock = g => work \subseteq flying[s])
      BY <3>1 DEF Covered, Admitted
    <3> QED BY <2>3, <3>1, <3>2
  <2> QED BY <2>2, <2>3
<1> QED BY <1>1, Invariance, PTL

(* A generation that serves is at the published path, or behind the fence  *)
(* of a setup that has told it to stop, died, or found the path taken,     *)
(* unless a setup's rename took its socket away or replaced it.            *)
THEOREM ServersAreReachable == Spec => []Reachable
<1>1. IInv => Reachable
  BY DEF IInv
<1> QED BY <1>1, Invariance, PTL

=============================================================================
