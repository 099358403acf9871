---------------------------- MODULE MCTransaction ----------------------------
(* Transaction for TLC: calls with and without retries.                     *)
EXTENDS Transaction

CONSTANTS t1, t2

MCRetrying == {t1}
=============================================================================
