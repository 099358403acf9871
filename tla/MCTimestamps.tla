---------------------------- MODULE MCTimestamps -----------------------------
(* Timestamps for TLC: two documents, which may share, and two prefixes.    *)
EXTENDS Timestamps, TLC

CONSTANTS m1, m2, u1, u2

MCNamespaces == {"", "current."}

(* One key of either kind, each of another namespace.                       *)
MCOwnKeys == {<<"", LastUpdatedKey>>, <<"current.", UniqueTimestampKey>>}

(* Neither document is special.                                             *)
Symmetry == Permutations({u1, u2})
=============================================================================
