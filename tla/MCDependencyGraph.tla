------------------------- MODULE MCDependencyGraph -------------------------
(* Small instances of DependencyGraph for TLC. *)
EXTENDS DependencyGraph

CONSTANTS a, b, c, d, r1, r2

(* depends_on lists of one plan: a chain, a cycle, and one edge twice *)
SomeBatches == {<< <<a, b>>, <<b, c>> >>, << <<b, c>>, <<a, b>> >>,
                << <<a, b>>, <<b, a>> >>, << <<c, a>>, <<c, a>> >>, << <<c, a>> >>}

(* one edge in each of two plans *)
TwoPlans == {<< <<a, b>> >>, << <<c, d>> >>}
=============================================================================
