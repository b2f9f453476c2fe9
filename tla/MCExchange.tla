----------------------------- MODULE MCExchange -----------------------------
(* Bounds for the instances of Exchange. *)
EXTENDS Exchange, TLC

Bound(h, f, c, r, s) ==
  [humans |-> h, faults |-> f, cancels |-> c, crashes |-> r, starts |-> s]

\* A person at the page, two faults, a cancel and a crash.
Everything == {Bound(1, 2, 1, 1, 2)}
\* Two exchanges through two crashes, or one through three.
Crashing == {Bound(0, 1, 1, 2, 2), Bound(0, 0, 1, 3, 1)}
Worlds == Everything \cup Crashing
=============================================================================
