--------------------------- MODULE MCEagleSemantic --------------------------
(* A workflow with two steps, two waits and two pieces of evidence. *)
EXTENDS EagleSemantic

Shows(s, e, w) == [step |-> s, evidence |-> e, wait |-> w]
CONSTANTS v1, v2, w1, w2
Shown == {Shows("b", {}, Void), Shows("a", {}, w1), Shows("b", {}, w2),
          Shows("a", {v1, v2}, Void)}
EveryGap == {0, 1, 3}
=============================================================================
