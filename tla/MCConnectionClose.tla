-------------------------- MODULE MCConnectionClose --------------------------
(* ConnectionClose for TLC: one call with a deadline and one without.       *)
EXTENDS ConnectionClose

CONSTANTS c1, c2

MCDeadlines == {c1}
=============================================================================
