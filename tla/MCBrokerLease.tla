--------------------------- MODULE MCBrokerLease ---------------------------
(* Instances of BrokerLease for TLC. *)
EXTENDS BrokerLease, TLC

(* Processes are interchangeable (only in runs without liveness). *)
Processes == Permutations(Proc)

SerialAndRace ==
  {[contenders |-> 1, departures |-> 2], [contenders |-> 3, departures |-> 1]}
RaceOfTwo == {[contenders |-> 2, departures |-> 1]}
Serial == {[contenders |-> 1, departures |-> 1]}
=============================================================================
