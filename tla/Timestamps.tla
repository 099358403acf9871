----------------------------- MODULE Timestamps ------------------------------
(***************************************************************************)
(* The functions of mongodb/timestamp_utils.go, called one after the other *)
(* on documents of their callers.  A bson.M is a reference: the functions  *)
(* change the document they are given and the map its $currentDate is,     *)
(* which a shallow copy of the document shares.                            *)
(***************************************************************************)
EXTENDS Integers, Sequences, FiniteSets

CONSTANTS
  Docs,        \* update documents, by the variables that hold them
  Maps,        \* the maps a $currentDate can be
  Namespaces,  \* of sub-documents; "" is the document itself
  OwnKeys,     \* the keys callers put in a $currentDate themselves
  MaxPrefixes, \* bound: length of a list of prefixes or timestamps
  MaxStamp     \* bound: timestamps

LastUpdatedKey == "last_updated"
UniqueTimestampKey == "unique_timestamp"

(* A key stands for its value: true, or the type "timestamp".               *)
Keys == Namespaces \X {LastUpdatedKey, UniqueTimestampKey}

ASSUME TimestampsAssumption ==
  /\ "" \in Namespaces
  /\ OwnKeys \subseteq Keys
  /\ MaxPrefixes \in Nat /\ MaxStamp \in Nat
  /\ IsFiniteSet(Docs) /\ IsFiniteSet(Maps) /\ Docs # {}
  /\ Cardinality(Maps) >= Cardinality(Docs)
  /\ \A m \in Maps : \A keys \in SUBSET Keys : m # keys

VARIABLES
  currentDate, \* of a document: the map, or the keys of one that is not a
               \* bson.M (a bson.D, say), {} when there is none
  entries,     \* the keys of a map
  query,       \* a query document: the timestamp it asks for, by prefix, or 0
  asked,       \* the keys somebody has asked for or put in a document (history)
  foreign      \* those put there other than in a bson.M, and not asked for since

vars == <<currentDate, entries, query, asked, foreign>>

CurrentDates == Maps \cup SUBSET Keys

PrefixLists == UNION {[1 .. n -> Namespaces] : n \in 0 .. MaxPrefixes}
TimestampLists == UNION {[1 .. n -> 1 .. MaxStamp] : n \in 0 .. MaxPrefixes}

TypeOK ==
  /\ currentDate \in [Docs -> CurrentDates]
  /\ entries \in [Maps -> SUBSET Keys]
  /\ query \in [Namespaces -> 0 .. MaxStamp]
  /\ asked \in [Docs -> SUBSET Keys]
  /\ foreign \in [Docs -> SUBSET Keys]

Init ==
  /\ currentDate = [d \in Docs |-> {}]
  /\ entries = [m \in Maps |-> {}]
  /\ query = [p \in Namespaces |-> 0]
  /\ asked = [d \in Docs |-> {}]
  /\ foreign = [d \in Docs |-> {}]

-----------------------------------------------------------------------------
(* What the callers do with their documents.                                *)

(* What no document refers to any more is gone.                             *)
Swept(cd, maps) == [m \in Maps |-> IF \E d \in Docs : cd[d] = m THEN maps[m] ELSE {}]

Free(cd) == CHOOSE m \in Maps : \A d \in Docs : cd[d] # m

(* A document without a $currentDate, with one that is not a bson.M, or     *)
(* with a bson.M, that has an entry of the caller's.                        *)
NewDoc(d) ==
  /\ \/ \E keys \in {{}} \cup {{key} : key \in OwnKeys} :
          /\ currentDate' = [currentDate EXCEPT ![d] = keys]
          /\ entries' = Swept(currentDate', entries)
          /\ asked' = [asked EXCEPT ![d] = keys]
          /\ foreign' = [foreign EXCEPT ![d] = keys]
     \/ \E key \in OwnKeys :
          LET m == Free([currentDate EXCEPT ![d] = {}])
          IN  /\ currentDate' = [currentDate EXCEPT ![d] = m]
              /\ entries' = Swept(currentDate', [entries EXCEPT ![m] = {key}])
              /\ asked' = [asked EXCEPT ![d] = {key}]
              /\ foreign' = [foreign EXCEPT ![d] = {}]
  /\ UNCHANGED query

ShallowCopy(d, e) ==
  /\ d # e
  /\ currentDate' = [currentDate EXCEPT ![e] = currentDate[d]]
  /\ entries' = Swept(currentDate', entries)
  /\ asked' = [asked EXCEPT ![e] = asked[d]]
  /\ foreign' = [foreign EXCEPT ![e] = foreign[d]]
  /\ UNCHANGED query

-----------------------------------------------------------------------------
(* Mutant: the $currentDate there is is replaced.                           *)
withCurrentDateNew(s, d, key) ==
  LET m == Free([s.currentDate EXCEPT ![d] = {}])
  IN  [currentDate |-> [s.currentDate EXCEPT ![d] = m],
       entries |-> [s.entries EXCEPT ![m] = {key}]]

(* Mutant: one map for all documents that have none.                        *)
withCurrentDateShared(s, d, key) ==
  LET m == IF s.currentDate[d] \in Maps THEN s.currentDate[d] ELSE CHOOSE n \in Maps : TRUE
  IN  [currentDate |-> [s.currentDate EXCEPT ![d] = m],
       entries |-> [s.entries EXCEPT ![m] = @ \cup {key}]]

(* In the bson.M that $currentDate is, or in a new one in place of whatever *)
(* it is, or of nothing.                                                    *)
withCurrentDate(s, d, key) ==
  LET there == s.currentDate[d] \in Maps
      m == IF there THEN s.currentDate[d] ELSE Free(s.currentDate)
  IN  [currentDate |-> [s.currentDate EXCEPT ![d] = m],
       entries |-> [s.entries EXCEPT ![m] = (IF there THEN @ ELSE {}) \cup {key}]]

Key(kind) == [p \in Namespaces |-> <<p, kind>>]

(* WithLastUpdatedUpdate and WithUniqueTimestampUpdate are the namespaced   *)
(* ones for the empty prefix, WithUpdates is one after the other.           *)
KeysFor(form, prefixes) ==
  LET n == Len(prefixes)
      keysOf(kind) == [i \in 1 .. n |-> Key(kind)[prefixes[i]]]
  IN  CASE form = "last updated" -> keysOf(LastUpdatedKey)
        [] form = "unique timestamp" -> keysOf(UniqueTimestampKey)
        [] form = "updates" -> keysOf(LastUpdatedKey) \o keysOf(UniqueTimestampKey)

Update(d, form, prefixes) ==
  LET keys == KeysFor(form, prefixes)
      after[n \in 0 .. Len(keys)] ==
        IF n = 0 THEN [currentDate |-> currentDate, entries |-> entries]
        ELSE withCurrentDate(after[n - 1], d, keys[n])
      s == after[Len(keys)]
      added == {keys[i] : i \in DOMAIN keys}
  IN  /\ currentDate' = s.currentDate
      /\ entries' = s.entries
      /\ asked' = [asked EXCEPT ![d] = @ \cup added]
      /\ foreign' = [foreign EXCEPT ![d] = @ \ added]
      /\ UNCHANGED query

(* Mutant: every prefix is given the first timestamp.                       *)
BindFirst(doc, timestamps, prefixes, idx) ==
  [doc EXCEPT ![prefixes[idx]] = timestamps[1]]

Bind(doc, timestamps, prefixes, idx) ==
  [doc EXCEPT ![prefixes[idx]] = timestamps[idx]]

(* Up to the end of the prefixes, or to the timestamp that is not there.    *)
WithNamespacedUniqueTimestampQuery(doc, timestamps, prefixes) ==
  LET last == IF Len(prefixes) <= Len(timestamps) THEN Len(prefixes) ELSE Len(timestamps)
      bound[idx \in 0 .. last] ==
        IF idx = 0 THEN doc ELSE Bind(bound[idx - 1], timestamps, prefixes, idx)
  IN  [doc |-> bound[last],
       panics |-> last < Len(prefixes)]

(* WithUniqueTimestampQuery is the case of the empty prefix.  A panic ends  *)
(* the call; what it has bound stays in the caller's document.              *)
Query(timestamps, prefixes) ==
  /\ query' = WithNamespacedUniqueTimestampQuery(query, timestamps, prefixes).doc
  /\ UNCHANGED <<currentDate, entries, asked, foreign>>

Next ==
  \/ \E d \in Docs : NewDoc(d)
  \/ \E d, e \in Docs : ShallowCopy(d, e)
  \/ \E d \in Docs, form \in {"last updated", "unique timestamp", "updates"} :
       \E prefixes \in PrefixLists : Update(d, form, prefixes)
  \/ \E timestamps \in TimestampLists, prefixes \in PrefixLists : Query(timestamps, prefixes)

Spec == Init /\ [][Next]_vars

-----------------------------------------------------------------------------
Asks(d) == IF currentDate[d] \in Maps THEN entries[currentDate[d]] ELSE currentDate[d]

(* Whatever calls come one after the other, on a document and on copies     *)
(* that share with it, it asks for every timestamp it was given and for     *)
(* what its caller had asked for, except what the caller had put in a       *)
(* $currentDate that is not a bson.M: that is replaced by one that is,      *)
(* where the comment of withCurrentDate says "creates or adds"              *)
(* (timestamp_utils.go:24-37).                                              *)
OnlyForeignLost ==
  TypeOK /\ \A d \in Docs : asked[d] \ Asks(d) \subseteq foreign[d]

(* A call on one document changes what another asks for only if they have   *)
(* shared a $currentDate before (timestamp_utils.go:28-37).                 *)
OnlySharersChange ==
  [][\A d, e \in Docs :
       d # e /\ Asks(d)' # Asks(d) /\ Asks(e)' # Asks(e) =>
         currentDate[d] = currentDate[e]]_vars

(* The timestamp that a query has for a prefix after a call is the one at   *)
(* the last place of the prefix, for prefixes that are named twice and      *)
(* queries that had one before; with a query document that is not nil, the  *)
(* call panics just when the timestamps are fewer than the prefixes         *)
(* (timestamp_utils.go:98-104).                                             *)
QueryPairs ==
  \A timestamps \in TimestampLists, prefixes \in PrefixLists :
    LET r == WithNamespacedUniqueTimestampQuery(query, timestamps, prefixes)
        places(p) == {i \in DOMAIN prefixes \cap DOMAIN timestamps : prefixes[i] = p}
    IN  /\ r.panics <=> (Len(prefixes) > Len(timestamps))
        /\ \A p \in Namespaces :
             IF places(p) = {} THEN r.doc[p] = query[p]
             ELSE \E i \in places(p) :
                    r.doc[p] = timestamps[i] /\ \A j \in places(p) : j <= i
=============================================================================
