------------------------------- MODULE Slots -------------------------------
(***************************************************************************)
(* What the request handlers of the service modules have in common: a       *)
(* request occupies a slot from its first statement to its answer, and       *)
(* every await on the database is a step.                                   *)
(***************************************************************************)
CONSTANTS
  Request,   \* request slots: at most this many requests run at once
  Nil        \* no value: null, undefined or no row

(* The values of a partial function with the pairs of g added or replaced. *)
Updated(f, g) == [x \in DOMAIN f \cup DOMAIN g |-> IF x \in DOMAIN g THEN g[x] ELSE f[x]]

Without(f, S) == [x \in DOMAIN f \ S |-> f[x]]
=============================================================================
