--------------------------- MODULE MCConvergence ---------------------------
(* What turns and reviews may come to, and the records a start may find.    *)
EXTENDS Continuation

Kinds ==
  {[kind |-> "candidate", inspected |-> TRUE],
   [kind |-> "inconsistent", inspected |-> TRUE],
   [kind |-> "candidate", inspected |-> FALSE]}

Said == {"settled", "continue", "weak", "weak_continue"}

From(starts, budgets) ==
  {[start |-> s, faults |-> b[1], crashes |-> b[2], acts |-> b[3]] :
     s \in starts, b \in budgets}

Everything ==
  From({"new"}, {<<2, 0, 0>>, <<1, 1, 0>>, <<0, 1, 1>>})
  \cup From({"retried"}, {<<2, 0, 0>>, <<1, 1, 0>>})
  \cup From({"captured", "carried", "reviewed", "reused", "lost"}, {<<0, 1, 0>>})
  \cup From({"spent", "manual", "doubted"},
            {<<1, 1, 1>>, <<1, 0, 2>>, <<2, 0, 1>>})

\* The worlds in which RestartResumes fails: one lost answer, two restarts.
Restarts == From({"new"}, {<<1, 2, 0>>})
=============================================================================
