--------------------------- MODULE MCEagleMonitor ---------------------------
(* Worlds for TLC. *)
EXTENDS EagleMonitor

World(b, w, s) == [broker |-> b, wf |-> w, stale |-> s]
MCWorlds == {World("up", "progressing", TRUE), World("dead", "progressing", TRUE),
             World("unclear", "progressing", FALSE), World("up", "ambiguous", FALSE)}

(* Two changes of the world in one session, two sessions with one change,  *)
(* and both without a fault.                                               *)
Bound(s, c, f) == [sessions |-> s, changes |-> c, faults |-> f]
MCBounds == {Bound(1, 2, 1), Bound(2, 1, 1), Bound(2, 2, 0)}
=============================================================================
