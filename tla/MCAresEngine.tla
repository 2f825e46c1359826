---------------------------- MODULE MCAresEngine ----------------------------
(* The query engine instantiated for TLC: queries are model values.         *)
EXTENDS AresEngine, TLC

CONSTANTS q1, q2

MCQueries == {q1, q2}

\* Queries are interchangeable handles: nothing in the engine orders them.
QuerySymmetry == Permutations(MCQueries)

=============================================================================
