---------------------------- MODULE MCCollection -----------------------------
(* Collection for TLC: documents 1 .. 2 and the calls the runs make.        *)
EXTENDS Collection

CONSTANTS c1, c2

W(op, ids, many, must) == [op |-> op, ids |-> ids, many |-> many, must |-> must]

(* One form of each write, Must for those that have it.                     *)
MCWrites ==
  {W("insert", {1, 2}, TRUE, FALSE), W("upsert", {1}, FALSE, FALSE),
   W("update", {1, 2}, TRUE, TRUE), W("delete", {1}, FALSE, TRUE),
   W("delete", {1, 2}, TRUE, TRUE), W("findAndUpdate", {1, 2}, FALSE, FALSE)}

NoWrites == {}

MCMust == {TRUE}

MCPlain == {FALSE}

MCOptions == {Limit(n) : n \in -1 .. 2} \cup {Offset(1), SortBy(-1), IgnoreZeroLimit}

(* Every list of at most three options of a read, and those of an update.   *)
MCOptionLists ==
  UNION {[1 .. n -> MCOptions] : n \in 0 .. 3} \cup
  {<<ReturnDocument("after")>>, <<SortBy(-1), ReturnDocument("after")>>}

NoOptionLists == {}

OneReader == {c1}

(* A disconnected client, a timeout below an error of the server's, another.*)
MCErrors ==
  {<<"connection error", "client is disconnected">>, <<"command error", "timeout">>,
   <<"command error">>}

MCOneError == {<<"command error">>}
=============================================================================
