---------------------------- MODULE MCEventStore ----------------------------
(* Two worlds in one store.  "Reviewing": w1 is a convergence that reviews  *)
(* with w2, w3 is another exchange, and every response is different.        *)
(* "Twice": w5 and w6 are one operation asked for twice, w4 is another one, *)
(* and all have the same response.                                          *)
EXTENDS EventStore
CONSTANTS w1, w2, w3, w4, w5, w6, NoBody
Stored == {w1, w2, w3, w4, w5, w6}
StoreKeyOf == [w \in Workflow |-> IF w \in {w5, w6} THEN "twice" ELSE w]
StoreBodyOf == [w \in Workflow |-> IF w \in {w1, w2, w3} THEN w ELSE w4]
StoreChildOf == [w \in Workflow |-> IF w = w1 THEN w2 ELSE NoBody]
StoreSymmetry == Permutations({w5, w6})

Bound(asked, b, e, f, p) ==
  [asked |-> asked, bodies |-> b, events |-> e, faults |-> f, pending |-> p]

Reviewing(e, f, p) == Bound({w1, w2, w3}, 1, e, f, p)
Twice(e, f) == Bound({w4, w5, w6}, 2, e, f, 1)
ReviewingAndTwice == {Reviewing(5, 0, 2), Reviewing(4, 1, 1), Twice(3, 2)}

(* Two events under one number; and a body that two runners hold.           *)
Forking == {Twice(2, 1)}
Sharing == {Twice(5, 0)}
=============================================================================
