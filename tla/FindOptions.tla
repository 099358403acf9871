----------------------------- MODULE FindOptions -----------------------------
(***************************************************************************)
(* The options of a read (mongodb/options.go): functions that are applied  *)
(* one after the other to a findOptions, and what the driver's Find,       *)
(* FindOne, FindOneAndUpdate and CountDocuments make of the result.        *)
(* Documents are their _ids, positive integers; Sort is by _id, ascending  *)
(* or descending, and Projection does not change which ones are found.     *)
(***************************************************************************)
EXTENDS Integers, FiniteSets, Sequences

Limit(l) == [name |-> "Limit", arg |-> l]
Offset(o) == [name |-> "Offset", arg |-> o]
SortBy(direction) == [name |-> "Sort", arg |-> direction]
ReturnDocument(when) == [name |-> "ReturnDocument", arg |-> when]
IgnoreZeroLimit == [name |-> "IgnoreZeroLimit"]

(* The options there are: the server refuses a negative offset.             *)
FindOption ==
  [name : {"Limit", "Sort"}, arg : Int] \cup [name : {"Offset"}, arg : Nat] \cup
  [name : {"ReturnDocument"}, arg : {"before", "after"}] \cup {IgnoreZeroLimit}

(* No sort is 0; the zero value of returnDocument is options.Before.        *)
NoOptions ==
  [limit |-> 0, skip |-> 0, sort |-> 0, obeyZeroLimit |-> FALSE, returnDocument |-> "before"]

(* Mutant: a limit that is not zero leaves obeyZeroLimit, and the zero, be. *)
ApplyFirstLimit(fo, o) ==
  CASE o.name = "Limit" ->
         IF fo.obeyZeroLimit THEN fo
         ELSE [fo EXCEPT !.limit = o.arg, !.obeyZeroLimit = o.arg = 0]
    [] o.name = "Offset" -> [fo EXCEPT !.skip = o.arg]
    [] o.name = "Sort" -> [fo EXCEPT !.sort = o.arg]
    [] o.name = "ReturnDocument" -> [fo EXCEPT !.returnDocument = o.arg]
    [] o.name = "IgnoreZeroLimit" -> [fo EXCEPT !.obeyZeroLimit = FALSE]

Apply(fo, o) ==
  CASE o.name = "Limit" ->
         [fo EXCEPT !.limit = o.arg, !.obeyZeroLimit = @ \/ o.arg = 0]
    [] o.name = "Offset" -> [fo EXCEPT !.skip = o.arg]
    [] o.name = "Sort" -> [fo EXCEPT !.sort = o.arg]
    [] o.name = "ReturnDocument" -> [fo EXCEPT !.returnDocument = o.arg]
    [] o.name = "IgnoreZeroLimit" -> [fo EXCEPT !.obeyZeroLimit = FALSE]

(* The options one after the other.  A recursive function, which TLC        *)
(* evaluates once for a constant list.                                      *)
newFindOptions(opts) ==
  LET f[n \in 0 .. Len(opts)] == IF n = 0 THEN NoOptions ELSE Apply(f[n - 1], opts[n])
  IN  f[Len(opts)]

-----------------------------------------------------------------------------
(* The driver.                                                              *)

(* Find and FindCursor sort by ascending _id unless asked otherwise.        *)
Position(ids, sort, i) ==
  Cardinality({j \in ids : IF sort < 0 THEN j >= i ELSE j <= i})

(* The documents after the first skip, at most limit of them.  A limit of   *)
(* zero is none; a negative one asks for its size in a single batch.        *)
asDriverFindOption(fo, ids) ==
  LET size == IF fo.limit < 0 THEN -fo.limit ELSE fo.limit
  IN  {i \in ids : LET p == Position(ids, fo.sort, i) IN
         p > fo.skip /\ (size = 0 \/ p <= fo.skip + size)}

(* The documents FindOne may return: without a sort, any.                   *)
asDriverFindOneOption(fo, ids) ==
  {i \in ids : IF fo.sort = 0 THEN Cardinality(ids) > fo.skip
               ELSE Position(ids, fo.sort, i) = fo.skip + 1}

(* Mutant: the document is always the one before the update.                *)
asDriverFindOneAndUpdateOptionBefore(fo) == [sort |-> fo.sort, returnDocument |-> "before"]

asDriverFindOneAndUpdateOption(fo) == [sort |-> fo.sort, returnDocument |-> fo.returnDocument]

(* How many documents CountDocuments counts of n.                           *)
asDriverCountOption(fo, n) ==
  LET rest == IF n > fo.skip THEN n - fo.skip ELSE 0
  IN  IF fo.limit > 0 /\ fo.limit < rest THEN fo.limit ELSE rest

-----------------------------------------------------------------------------
(* What a list of options asks for, said without applying them in order.    *)

LastArg(opts, name, default) ==
  LET at == {k \in DOMAIN opts : opts[k].name = name}
  IN  IF at = {} THEN default
      ELSE opts[CHOOSE k \in at : \A j \in at : j <= k].arg

(* Zero was asked for and not taken back.                                   *)
ZeroLimit(opts) ==
  \E k \in DOMAIN opts :
    /\ opts[k] = Limit(0)
    /\ \A j \in DOMAIN opts : j > k => opts[j].name # "IgnoreZeroLimit"

Asked(opts) ==
  [limit |-> LastArg(opts, "Limit", 0), offset |-> LastArg(opts, "Offset", 0),
   sort |-> LastArg(opts, "Sort", 0), zero |-> ZeroLimit(opts),
   returnDocument |-> LastArg(opts, "ReturnDocument", "before")]

(* The page of ids that begins at the offset, without an end if size is 0.  *)
Page(asked, ids, size) ==
  LET before(i) == {j \in ids : IF asked.sort < 0 THEN j > i ELSE j < i}
      n(i) == Cardinality(before(i))
  IN  {i \in ids : asked.offset <= n(i) /\ (size > 0 => n(i) < asked.offset + size)}

(* The documents of ids that a read delivers when nothing else happens: of  *)
(* a Count, those it counts, and of a FindOne, those it chooses from.       *)
Expected(kind, asked, ids) ==
  CASE kind = "Find" ->
         IF asked.limit < 0 \/ (asked.limit = 0 /\ asked.zero) THEN {}
         ELSE Page(asked, ids, asked.limit)
    [] kind = "Count" -> Page(asked, ids, asked.limit)
    [] kind = "FindCursor" ->
         Page(asked, ids, IF asked.limit < 0 THEN -asked.limit ELSE asked.limit)
    [] kind = "FindOne" ->
         IF asked.sort # 0 THEN Page(asked, ids, 1)
         ELSE IF Page(asked, ids, 0) = {} THEN {} ELSE ids
    [] kind \in {"Distinct", "Aggregate"} -> ids
=============================================================================
