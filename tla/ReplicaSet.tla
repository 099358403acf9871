----------------------------- MODULE ReplicaSet ------------------------------
(***************************************************************************)
(* The MongoDB cluster behind one collection, as the client options of     *)
(* Open (mongodb/driver.go) use it.  External: a log of the collection's   *)
(* states, of which a prefix is held by a majority.  Writes go to the end  *)
(* of the log, on the primary; a failover may cut off what no majority     *)
(* holds.  A document is its ETag, 0 when there is none.                   *)
(***************************************************************************)
EXTENDS Integers, Sequences

CONSTANTS
  MaxId,                         \* the _ids of documents are 1 .. MaxId
  Callers,
  IsStrongReadConcernEnabled,    \* fields of MongoDriverConfig
  IsWriteConcernMajorityEnabled

ASSUME ReplicaSetAssumption ==
  /\ MaxId \in Nat
  /\ IsStrongReadConcernEnabled \in BOOLEAN
  /\ IsWriteConcernMajorityEnabled \in BOOLEAN

VARIABLES
  log,    \* what each write left, and whose write it was
  commit  \* so much of the log is held by a majority

replicaSet == <<log, commit>>

Ids == 1 .. MaxId
Docs == [Ids -> Nat]
Entries == [docs : Docs, by : {<<>>} \cup (Callers \X Nat)]

ReplicaSetTypeOK ==
  /\ log \in Seq(Entries)
  /\ commit \in 1 .. Len(log)

Primary == log[Len(log)].docs

Existing(docs) == {i \in Ids : docs[i] # 0}

(* With the read concern "majority", what the majority holds; without, what *)
(* some secondary has: it may lag behind, or hold what will be cut off.     *)
Readable == IF IsStrongReadConcernEnabled THEN {commit} ELSE DOMAIN log

View(k) == log[k].docs

(* Mutant: write concern 1 whatever the configuration.                      *)
AcknowledgedAtOnce(index) == index <= Len(log)

(* A write is acknowledged by the primary alone or by a majority.           *)
Acknowledged(index) == IsWriteConcernMajorityEnabled => index <= commit

Write(docs, who) == log' = Append(log, [docs |-> docs, by |-> who])

Replicate ==
  /\ commit < Len(log)
  /\ commit' = commit + 1
  /\ UNCHANGED log

CutOff ==
  /\ commit < Len(log)
  /\ \E k \in commit .. Len(log) - 1 : log' = SubSeq(log, 1, k)
  /\ UNCHANGED commit
=============================================================================
