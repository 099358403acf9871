------------------------------ MODULE MCService ------------------------------
(* Service for TLC: a Close with a deadline and one without, and checks of  *)
(* two databases.                                                           *)
EXTENDS Service

CONSTANTS c1, c2, k1, d1, d2, a

MCDeadlines == {c1}

MCDatabaseCollection == [d \in {d1, d2} |-> IF d = d1 THEN {a} ELSE {}]
=============================================================================
