--------------------------- MODULE CollectionProofs ---------------------------
(***************************************************************************)
(* Theorems about Collection, for any number of callers and documents,     *)
(* every configuration of the replica set and every set of writes.         *)
(***************************************************************************)
EXTENDS Collection, TLAPS, SequenceTheorems

(* What the callers and the requests on their way are.                      *)
CallersOK ==
  /\ requests \subseteq Requests
  /\ \A r \in requests : r.op \in {"insert", "upsert"} => r.tag = 0
  /\ pc \in [Callers -> {"idle", "waiting", "found", "counted"}]
  /\ calls \in [Callers -> Nat]
  /\ seen \in [Callers -> Documents]
  /\ \A c \in Callers : pc[c] = "found" => seen[c].id \in Ids

(* The inductive invariant.                                                 *)
TagInv ==
  /\ ReplicaSetTypeOK
  /\ CallersOK
  /\ etag \in 0 .. MaxWrites
  /\ base \in [1 .. MaxWrites -> Nat]
  /\ TagsInv
  /\ NoLostUpdate

(* A write at the end of the log: what it leaves of a document is what was  *)
(* there, nothing, or a new ETag that was calculated of it or of none.      *)
LEMMA WriteKeeps ==
  ASSUME TagInv, NEW docs \in Docs, NEW who \in Callers \X Nat, Write(docs, who),
         etag' \in 0 .. MaxWrites, etag <= etag',
         base' \in [1 .. MaxWrites -> Nat],
         \A v \in 1 .. etag : base'[v] = base[v],
         \A i \in Ids : docs[i] <= etag',
         \A i \in Ids : docs[i] # Primary[i] /\ docs[i] # 0 => base'[docs[i]] \in {0, Primary[i]},
         commit' = commit
  PROVE  ReplicaSetTypeOK' /\ TagsInv' /\ NoLostUpdate'
<1> DEFINE entry == [docs |-> docs, by |-> who]
<1>1. /\ log \in Seq(Entries) /\ Len(log) \in Nat /\ commit \in 1 .. Len(log)
      /\ etag \in Nat /\ base \in [1 .. MaxWrites -> Nat]
      /\ TagsInv /\ NoLostUpdate
  BY CollectionAssumption DEF TagInv, ReplicaSetTypeOK
<1>2. entry \in Entries
  BY DEF Entries
<1>3. /\ log' \in Seq(Entries) /\ Len(log') = Len(log) + 1
      /\ log'[Len(log) + 1] = entry
      /\ \A k \in 1 .. Len(log) : log'[k] = log[k]
  BY <1>1, <1>2 DEF Write
<1>4. ReplicaSetTypeOK'
  BY <1>1, <1>3 DEF ReplicaSetTypeOK
<1>5. \A k \in 1 .. Len(log) : \A i \in Ids : View(k)'[i] = View(k)[i] /\ View(k)[i] \in 0 .. etag
  <2> SUFFICES ASSUME NEW k \in 1 .. Len(log), NEW i \in Ids
               PROVE  View(k)'[i] = View(k)[i] /\ View(k)[i] \in 0 .. etag
    OBVIOUS
  <2>1. log[k] \in Entries
    BY <1>1
  <2>2. View(k)[i] \in Nat
    BY <2>1 DEF View, Entries, Docs
  <2>3. View(k)[i] <= etag
    BY <1>1 DEF TagsInv
  <2> QED BY <1>3, <2>2, <2>3 DEF View
<1>6. PICK n \in Nat : n = Len(log) /\ n >= 1
  BY <1>1
<1>7. View(n + 1)' = docs /\ View(n) = Primary
  BY <1>3, <1>6 DEF View, Primary
<1>8. TagsInv'
  <2> SUFFICES ASSUME NEW k \in 1 .. n + 1, NEW i \in Ids
               PROVE  View(k)'[i] <= etag'
    BY <1>1, <1>3, <1>6 DEF TagsInv
  <2>1. CASE k = n + 1
    BY <1>7, <2>1
  <2>2. CASE k \in 1 .. n
    <3>1. View(k)'[i] \in 0 .. etag
      BY <1>5, <1>6, <2>2
    <3> QED BY <1>1, <3>1, CollectionAssumption
  <2> QED BY <1>6, <2>1, <2>2
<1>9. NoLostUpdate'
  <2> SUFFICES ASSUME NEW k \in 2 .. n + 1, NEW i \in Ids,
                      View(k)'[i] # View(k - 1)'[i], View(k)'[i] # 0
               PROVE  base'[View(k)'[i]] \in {0, View(k - 1)'[i]}
    BY <1>1, <1>3, <1>6 DEF NoLostUpdate, View
  <2>1. CASE k = n + 1
    <3>1. View(k)' = docs /\ k - 1 = n
      BY <1>6, <1>7, <2>1
    <3>2. View(k - 1)'[i] = Primary[i]
      BY <1>5, <1>6, <1>7, <3>1
    <3> QED BY <3>1, <3>2
  <2>2. CASE k \in 2 .. n
    <3>1. k - 1 \in 1 .. Len(log) /\ k \in 1 .. Len(log) /\ k \in 2 .. Len(log)
      BY <1>6, <2>2
    <3>2. View(k)'[i] = View(k)[i] /\ View(k - 1)'[i] = View(k - 1)[i] /\ View(k)[i] \in 0 .. etag
      BY <1>5, <3>1
    <3>3. base[View(k)[i]] \in {0, View(k - 1)[i]}
      BY <1>1, <3>1, <3>2 DEF NoLostUpdate
    <3>4. View(k)[i] \in 1 .. etag
      BY <3>2
    <3> QED BY <3>2, <3>3, <3>4
  <2> QED BY <1>6, <2>1, <2>2
<1> QED BY <1>4, <1>8, <1>9

LEMMA PrimaryType ==
  ASSUME TagInv
  PROVE  Primary \in Docs /\ \A i \in Ids : Primary[i] <= etag
<1>1. log \in Seq(Entries) /\ Len(log) \in 1 .. Len(log)
  BY DEF TagInv, ReplicaSetTypeOK
<1>2. log[Len(log)] \in Entries
  BY <1>1
<1> QED BY <1>1, <1>2 DEF Primary, Entries, TagInv, TagsInv, View

(* A new ETag goes to a document that has the one it was calculated of.     *)
LEMMA NewTagWrites ==
  ASSUME TagInv, NEW r \in Requests, NEW i \in Ids, NewTag(r),
         Write([Primary EXCEPT ![i] = etag'], <<r.caller, r.call>>),
         r.tag \in {0, Primary[i]}, commit' = commit
  PROVE  ReplicaSetTypeOK' /\ TagsInv' /\ NoLostUpdate' /\ etag' \in 0 .. MaxWrites
         /\ base' \in [1 .. MaxWrites -> Nat]
<1> DEFINE docs == [Primary EXCEPT ![i] = etag']
<1>1. Primary \in Docs /\ \A j \in Ids : Primary[j] <= etag
  BY PrimaryType
<1>2. etag \in 0 .. MaxWrites /\ etag < MaxWrites /\ etag' = etag + 1 /\ MaxWrites \in Nat
  BY CollectionAssumption DEF NewTag, TagInv
<1>3. etag' \in 0 .. MaxWrites /\ etag <= etag' /\ etag' \in 1 .. MaxWrites /\ etag' \notin 0 .. etag
  BY <1>2
<1>4. base \in [1 .. MaxWrites -> Nat] /\ r.tag \in Nat /\ base' = [base EXCEPT ![etag'] = r.tag]
  BY <1>2 DEF TagInv, NewTag, Requests
<1>5. base' \in [1 .. MaxWrites -> Nat] /\ base'[etag'] = r.tag
  BY <1>3, <1>4
<1>6. \A v \in 1 .. etag : base'[v] = base[v]
  BY <1>2, <1>3, <1>4
<1>7. docs \in Docs /\ docs[i] = etag' /\ \A j \in Ids \ {i} : docs[j] = Primary[j]
  BY <1>1, <1>3 DEF Docs
<1>8. \A j \in Ids : docs[j] <= etag'
  <2> SUFFICES ASSUME NEW j \in Ids PROVE docs[j] <= etag'
    OBVIOUS
  <2>1. Primary[j] \in Nat /\ Primary[j] <= etag
    BY <1>1 DEF Docs
  <2> QED BY <1>2, <1>7, <2>1
<1>9. \A j \in Ids : docs[j] # Primary[j] /\ docs[j] # 0 => base'[docs[j]] \in {0, Primary[j]}
  BY <1>5, <1>7
<1>10. <<r.caller, r.call>> \in Callers \X Nat
  BY DEF Requests
<1> HIDE DEF docs
<1>11. Write(docs, <<r.caller, r.call>>)
  BY DEF docs
<1> QED BY <1>3, <1>5, <1>6, <1>7, <1>8, <1>9, <1>10, <1>11, WriteKeeps

LEMMA HitKeeps ==
  ASSUME TagInv, NEW r \in Requests, NEW i \in Ids, Hit(r, i), r.op = "insert" => r.tag = 0,
         r.op = "upsert" => r.tag = 0, commit' = commit
  PROVE  ReplicaSetTypeOK' /\ TagsInv' /\ NoLostUpdate' /\ etag' \in 0 .. MaxWrites
         /\ base' \in [1 .. MaxWrites -> Nat]
<1>1. CASE /\ r.op \in {"insert", "upsert"} /\ Primary[i] = 0
           /\ NewTag(r)
           /\ Write([Primary EXCEPT ![i] = etag'], <<r.caller, r.call>>)
  BY <1>1, NewTagWrites
<1>2. CASE /\ r.op \in {"upsert", "update", "findAndUpdate"} /\ Matches(r, i)
           /\ NewTag(r)
           /\ Write([Primary EXCEPT ![i] = etag'], <<r.caller, r.call>>)
  <2>1. r.tag \in {0, Primary[i]}
    BY <1>2 DEF Matches, AnyTag
  <2> QED BY <1>2, <2>1, NewTagWrites
<1>3. CASE /\ r.op = "delete" /\ Matches(r, i)
           /\ Write([Primary EXCEPT ![i] = 0], <<r.caller, r.call>>)
           /\ UNCHANGED tags
  <2> DEFINE docs == [Primary EXCEPT ![i] = 0]
  <2>1. Primary \in Docs /\ \A j \in Ids : Primary[j] <= etag
    BY PrimaryType
  <2>2. etag' = etag /\ base' = base
    BY <1>3 DEF tags
  <2>3. etag \in 0 .. MaxWrites /\ etag <= etag /\ base \in [1 .. MaxWrites -> Nat]
    BY CollectionAssumption DEF TagInv
  <2>4. docs \in Docs /\ docs[i] = 0 /\ \A j \in Ids \ {i} : docs[j] = Primary[j]
    BY <2>1 DEF Docs
  <2>5. \A j \in Ids : docs[j] <= etag'
    BY <2>1, <2>2, <2>3, <2>4 DEF Docs
  <2>6. \A j \in Ids : docs[j] # Primary[j] /\ docs[j] # 0 => base'[docs[j]] \in {0, Primary[j]}
    BY <2>4
  <2>7. <<r.caller, r.call>> \in Callers \X Nat
    BY DEF Requests
  <2> HIDE DEF docs
  <2>8. Write(docs, <<r.caller, r.call>>)
    BY <1>3 DEF docs
  <2> QED BY <2>2, <2>3, <2>4, <2>5, <2>6, <2>7, <2>8, WriteKeeps
<1> QED BY <1>1, <1>2, <1>3 DEF Hit

(* A step that writes nothing.                                              *)
LEMMA NothingWritten ==
  ASSUME TagInv, UNCHANGED <<log, tags>>, commit' \in 1 .. Len(log)
  PROVE  ReplicaSetTypeOK' /\ TagsInv' /\ NoLostUpdate' /\ etag' \in 0 .. MaxWrites
         /\ base' \in [1 .. MaxWrites -> Nat]
<1>1. log' = log /\ etag' = etag /\ base' = base
  BY DEF tags
<1>2. ReplicaSetTypeOK' /\ etag' \in 0 .. MaxWrites /\ base' \in [1 .. MaxWrites -> Nat]
  BY <1>1 DEF TagInv, ReplicaSetTypeOK
<1>3. TagsInv'
  BY <1>1 DEF TagInv, TagsInv, View
<1>4. NoLostUpdate'
  BY <1>1 DEF TagInv, NoLostUpdate, View
<1> QED BY <1>2, <1>3, <1>4

LEMMA KeepKeeps ==
  ASSUME TagInv, NEW r \in requests, NEW s \in Requests, s.op = r.op, s.tag = r.tag, Keep(r, s)
  PROVE  requests' \subseteq Requests
         /\ \A q \in requests' : q.op \in {"insert", "upsert"} => q.tag = 0
<1>1. requests' \subseteq requests \cup {s}
  BY DEF Keep
<1> QED BY <1>1 DEF TagInv, CallersOK

LEMMA ServeStep ==
  ASSUME TagInv, Serve
  PROVE  TagInv'
<1>1. PICK r \in requests : \E i \in r.todo : ServeHit(r, i) \/ ServeMiss(r, i)
  BY DEF Serve
<1>2. PICK i \in r.todo : ServeHit(r, i) \/ ServeMiss(r, i)
  BY <1>1
<1>3. r \in Requests /\ i \in Ids /\ (r.op \in {"insert", "upsert"} => r.tag = 0)
  BY DEF TagInv, CallersOK, Requests
<1>4. calls' = calls /\ seen' = seen /\ pc' = pc /\ commit' = commit
  BY DEF Serve
<1>5. Len(log) \in Nat /\ commit \in 1 .. Len(log)
  BY DEF TagInv, ReplicaSetTypeOK
<1>6. CASE ServeHit(r, i)
  <2> DEFINE s == [r EXCEPT !.todo = IF r.many THEN @ \ {i} ELSE {},
                            !.hits = @ + 1, !.at = Len(log) + 1,
                            !.doc = IF r.op = "findAndUpdate" THEN Found(r, i) ELSE @]
  <2>1. Keep(r, s) /\ Hit(r, i)
    BY <1>6 DEF ServeHit
  <2>2. s \in Requests /\ s.op = r.op /\ s.tag = r.tag
    <3>1. (IF r.many THEN r.todo \ {i} ELSE {}) \in SUBSET Ids
      BY <1>3 DEF Requests
    <3>2. r.hits + 1 \in Nat /\ Len(log) + 1 \in Nat
      BY <1>3, <1>5 DEF Requests
    <3>3. (IF r.op = "findAndUpdate" THEN Found(r, i) ELSE r.doc) \in Documents
      <4>1. r.doc \in Documents
        BY <1>3 DEF Requests
      <4>2. Primary[i] \in Nat
        BY <1>3, PrimaryType DEF Docs
      <4>3. etag' \in Nat
        BY <1>3, <1>4, <2>1, HitKeeps, CollectionAssumption
      <4> QED BY <1>3, <4>1, <4>2, <4>3 DEF Found, Documents
    <3> QED BY <1>3, <3>1, <3>2, <3>3 DEF Requests
  <2> HIDE DEF s
  <2>3. requests' \subseteq Requests
        /\ \A q \in requests' : q.op \in {"insert", "upsert"} => q.tag = 0
    BY <2>1, <2>2, KeepKeeps
  <2>4. ReplicaSetTypeOK' /\ TagsInv' /\ NoLostUpdate' /\ etag' \in 0 .. MaxWrites
        /\ base' \in [1 .. MaxWrites -> Nat]
    BY <1>3, <1>4, <2>1, HitKeeps
  <2> QED BY <1>4, <2>3, <2>4 DEF TagInv, CallersOK
<1>7. CASE ServeMiss(r, i)
  <2> DEFINE s == [r EXCEPT !.todo = IF r.op \in {"insert", "findAndUpdate"} THEN {} ELSE @ \ {i},
                            !.failed = @ \/ r.op = "insert", !.at = Len(log)]
  <2>1. s \in Requests /\ s.op = r.op /\ s.tag = r.tag
    BY <1>3, <1>5 DEF Requests
  <2>2. Keep(r, s) /\ UNCHANGED <<log, tags>>
    BY <1>7 DEF ServeMiss
  <2> HIDE DEF s
  <2>3. requests' \subseteq Requests
        /\ \A q \in requests' : q.op \in {"insert", "upsert"} => q.tag = 0
    BY <2>1, <2>2, KeepKeeps
  <2>4. ReplicaSetTypeOK' /\ TagsInv' /\ NoLostUpdate' /\ etag' \in 0 .. MaxWrites
        /\ base' \in [1 .. MaxWrites -> Nat]
    BY <1>4, <1>5, <2>2, NothingWritten
  <2> QED BY <1>4, <2>3, <2>4 DEF TagInv, CallersOK
<1> QED BY <1>2, <1>6, <1>7

(* A failover keeps a prefix of the log.                                    *)
LEMMA FailoverStep ==
  ASSUME TagInv, Failover
  PROVE  TagInv'
<1>1. PICK k \in commit .. Len(log) - 1 : log' = SubSeq(log, 1, k)
  BY DEF Failover, CutOff
<1>2. log \in Seq(Entries) /\ Len(log) \in Nat /\ commit \in 1 .. Len(log) /\ commit' = commit
  BY DEF TagInv, ReplicaSetTypeOK, Failover, CutOff
<1>3. k \in 1 .. Len(log)
  BY <1>2
<1>4. log' \in Seq(Entries) /\ Len(log') = k /\ \A j \in 1 .. k : log'[j] = log[j]
  BY <1>1, <1>2, <1>3
<1>5. etag' = etag /\ base' = base /\ calls' = calls /\ seen' = seen /\ requests' = {}
  BY DEF Failover, tags
<1>6. ReplicaSetTypeOK'
  BY <1>2, <1>4 DEF ReplicaSetTypeOK
<1>7. TagsInv'
  BY <1>2, <1>3, <1>4, <1>5 DEF TagInv, TagsInv, View
<1>8. NoLostUpdate'
  <2> SUFFICES ASSUME NEW j \in 2 .. k, NEW i \in Ids, log'[j].docs[i] # log'[j - 1].docs[i],
                      log'[j].docs[i] # 0
               PROVE  base'[log'[j].docs[i]] \in {0, log'[j - 1].docs[i]}
    BY <1>3, <1>4 DEF NoLostUpdate, View
  <2>1. j \in 1 .. k /\ j - 1 \in 1 .. k /\ j \in 2 .. Len(log)
    BY <1>2, <1>3
  <2>2. log'[j] = log[j] /\ log'[j - 1] = log[j - 1]
    BY <1>4, <2>1
  <2> QED BY <1>5, <2>1, <2>2 DEF TagInv, NoLostUpdate, View
<1>9. \A c \in Callers : pc'[c] = "found" => pc[c] = "found"
  BY DEF Failover
<1>10. pc' \in [Callers -> {"idle", "waiting", "found", "counted"}]
  BY DEF Failover, TagInv, CallersOK
<1>11. CallersOK'
  BY <1>5, <1>9, <1>10 DEF TagInv, CallersOK
<1>12. etag' \in 0 .. MaxWrites /\ base' \in [1 .. MaxWrites -> Nat]
  BY <1>5 DEF TagInv
<1> QED BY <1>6, <1>7, <1>8, <1>11, <1>12 DEF TagInv

AnyRead(c) == Count(c) \/ FindOne(c) \/ FindCursor(c) \/ Distinct(c) \/ Aggregate(c)

(* The steps of a caller write nothing; only exampleUpdate requests with an *)
(* ETag, to update.                                                         *)
LEMMA RequestType ==
  ASSUME NEW c \in Callers, NEW n \in Nat, NEW w, NEW tag \in Nat, NEW how \in Hows,
         w.op \in Ops, w.ids \in SUBSET Ids, w.many \in BOOLEAN, w.must \in BOOLEAN
  PROVE  Request(c, n, w, tag, how) \in Requests
BY DEF Request, Requests, Documents, NoDocument

LEMMA CallerStep ==
  ASSUME TagInv, NEW c \in Callers, CallerNext(c)
  PROVE  TagInv'
<1> USE DEF Goto, Return, Begin
<1> HIDE DEF NoHow
<1>1. UNCHANGED <<log, commit, tags>>
  BY DEF CallerNext, WriteCall, FindOneAndUpdate, Send, ExampleFindOne, ExampleUpdate, GiveUp,
         FindCount, FindQuery, AnyRead, Count, FindOne, FindCursor, Distinct, Aggregate, ReadAll, ReadOnce, ReadFails, replicaSet
<1>2. commit' \in 1 .. Len(log)
  BY <1>1 DEF TagInv, ReplicaSetTypeOK
<1>3. ReplicaSetTypeOK' /\ TagsInv' /\ NoLostUpdate' /\ etag' \in 0 .. MaxWrites
      /\ base' \in [1 .. MaxWrites -> Nat]
  BY <1>1, <1>2, NothingWritten
<1>4. ASSUME WriteCall(c) \/ FindOneAndUpdate(c) PROVE CallersOK'
  <2>1. PICK w \in Writes, how \in Hows : \E a : Send(c, w, how, a)
    <3>1. CASE WriteCall(c)
      BY <3>1 DEF WriteCall, Hows
    <3>2. CASE FindOneAndUpdate(c)
      BY <3>2 DEF FindOneAndUpdate, Hows
    <3> QED BY <1>4, <3>1, <3>2
  <2> DEFINE q == Request(c, calls'[c], w, AnyTag, how)
  <2>2. w.op \in Ops /\ w.ids \in SUBSET Ids /\ w.many \in BOOLEAN /\ w.must \in BOOLEAN
    BY CollectionAssumption
  <2>3. calls' \in [Callers -> Nat] /\ calls'[c] \in Nat /\ seen' = seen
    BY <2>1 DEF Send, TagInv, CallersOK
  <2>4. q \in Requests /\ q.tag = 0
    BY <2>2, <2>3, RequestType DEF AnyTag, Request
  <2>5. /\ pc' \in [Callers -> {"idle", "waiting", "found", "counted"}]
        /\ \A u \in Callers : pc'[u] = "found" => pc[u] = "found"
    BY <2>1 DEF Send, TagInv, CallersOK
  <2>6. requests' = requests \cup {q}
    BY <2>1 DEF Send
  <2> HIDE DEF q
  <2> QED BY <2>3, <2>4, <2>5, <2>6 DEF TagInv, CallersOK
<1>5. ASSUME ExampleFindOne(c) PROVE CallersOK'
  <2>1. requests' = requests /\ calls' \in [Callers -> Nat]
    <3>1. requests' = requests /\ calls' = [calls EXCEPT ![c] = @ + 1]
      BY <1>5 DEF ExampleFindOne
    <3> QED BY <3>1 DEF TagInv, CallersOK
  <2>2. \/ seen' = seen /\ pc' = [pc EXCEPT ![c] = "idle"]
        \/ \E i \in Ids, tag \in Nat :
             /\ seen' = [seen EXCEPT ![c] = [id |-> i, tag |-> tag]]
             /\ pc' = [pc EXCEPT ![c] = "found"]
    <3>1. etag \in Nat
      BY CollectionAssumption DEF TagInv
    <3> QED BY <1>5, <3>1 DEF ExampleFindOne
  <2>3. CASE seen' = seen /\ pc' = [pc EXCEPT ![c] = "idle"]
    BY <2>1, <2>3 DEF TagInv, CallersOK
  <2>4. ASSUME NEW i \in Ids, NEW tag \in Nat,
               seen' = [seen EXCEPT ![c] = [id |-> i, tag |-> tag]],
               pc' = [pc EXCEPT ![c] = "found"]
        PROVE  CallersOK'
    <3>1. [id |-> i, tag |-> tag] \in Documents
      BY DEF Documents
    <3>2. seen' \in [Callers -> Documents] /\ seen'[c].id = i
          /\ \A u \in Callers \ {c} : seen'[u] = seen[u]
      BY <2>4, <3>1 DEF TagInv, CallersOK
    <3>3. pc' \in [Callers -> {"idle", "waiting", "found", "counted"}]
          /\ \A u \in Callers \ {c} : pc'[u] = pc[u]
      BY <2>4 DEF TagInv, CallersOK
    <3>4. \A u \in Callers : pc'[u] = "found" => seen'[u].id \in Ids
      BY <3>2, <3>3 DEF TagInv, CallersOK
    <3> QED BY <2>1, <3>2, <3>3, <3>4 DEF TagInv, CallersOK
  <2> QED BY <2>2, <2>3, <2>4
<1>6. ASSUME ExampleUpdate(c) PROVE CallersOK'
  <2>1. pc[c] = "found" /\ calls' = calls /\ seen' = seen
    BY <1>6 DEF ExampleUpdate
  <2> DEFINE W(must) == [op |-> "update", ids |-> {seen[c].id}, many |-> FALSE, must |-> must]
  <2>2. PICK must \in MustForms :
          requests' = requests \cup {Request(c, calls[c], W(must), seen[c].tag, NoHow)}
    BY <1>6 DEF ExampleUpdate
  <2>3. must \in BOOLEAN
    BY CollectionAssumption
  <2>4. /\ W(must).op \in Ops /\ W(must).ids \in SUBSET Ids
        /\ W(must).many \in BOOLEAN /\ W(must).must \in BOOLEAN
    BY <2>1, <2>3 DEF TagInv, CallersOK, Ops
  <2>5. calls[c] \in Nat /\ seen[c].tag \in Nat
    BY DEF TagInv, CallersOK, Documents
  <2>6. Request(c, calls[c], W(must), seen[c].tag, NoHow) \in Requests
        /\ Request(c, calls[c], W(must), seen[c].tag, NoHow).op = "update"
    <3>1. Request(c, calls[c], W(must), seen[c].tag, NoHow).op = "update"
      BY DEF Request
    <3> HIDE DEF W
    <3>2. NoHow \in Hows
      BY DEF Hows
    <3> QED BY <2>4, <2>5, <3>1, <3>2, RequestType
  <2>7. /\ pc' \in [Callers -> {"idle", "waiting", "found", "counted"}]
        /\ \A u \in Callers : pc'[u] = "found" => pc[u] = "found"
    BY <1>6 DEF ExampleUpdate, TagInv, CallersOK
  <2> QED BY <2>1, <2>2, <2>6, <2>7 DEF TagInv, CallersOK
<1>7. ASSUME GiveUp(c) \/ FindCount(c) \/ FindQuery(c) \/ AnyRead(c) \/ ReadFails(c)
      PROVE  CallersOK'
  <2>1. requests' \subseteq requests /\ seen' = seen
    BY <1>7 DEF GiveUp, FindCount, FindQuery, AnyRead, Count, FindOne, FindCursor, Distinct, Aggregate, ReadAll, ReadOnce, ReadFails
  <2>2. calls' \in [Callers -> Nat]
    <3>1. calls' \in {calls, [calls EXCEPT ![c] = @ + 1]}
      BY <1>7 DEF GiveUp, FindCount, FindQuery, AnyRead, Count, FindOne, FindCursor, Distinct, Aggregate, ReadAll, ReadOnce, ReadFails
    <3> QED BY <3>1 DEF TagInv, CallersOK
  <2>3. pc' = [pc EXCEPT ![c] = "idle"] \/ pc' = [pc EXCEPT ![c] = "counted"]
    BY <1>7 DEF GiveUp, FindCount, FindQuery, AnyRead, Count, FindOne, FindCursor, Distinct, Aggregate, ReadAll, ReadOnce, ReadFails
  <2>4. /\ pc' \in [Callers -> {"idle", "waiting", "found", "counted"}]
        /\ \A u \in Callers : pc'[u] = "found" => pc[u] = "found"
    BY <2>3 DEF TagInv, CallersOK
  <2> QED BY <2>1, <2>2, <2>4 DEF TagInv, CallersOK
<1> QED BY <1>3, <1>4, <1>5, <1>6, <1>7 DEF CallerNext, AnyRead, TagInv

LEMMA TagInvStep ==
  ASSUME TagInv, [Next]_vars
  PROVE  TagInv'
<1>1. CASE \E c \in Callers : CallerNext(c)
  BY <1>1, CallerStep
<1>2. CASE Serve
  BY <1>2, ServeStep
<1>3. CASE Failover
  BY <1>3, FailoverStep
<1>4. CASE Answer
  <2>1. UNCHANGED <<log, tags>> /\ commit' \in 1 .. Len(log)
    BY <1>4 DEF Answer, replicaSet, TagInv, ReplicaSetTypeOK
  <2>2. PICK r \in requests :
          /\ requests' = requests \ {r} /\ calls' = calls
          /\ pc' = [pc EXCEPT ![r.caller] = "idle"]
          /\ seen' \in {seen, [seen EXCEPT ![r.caller] = r.doc]}
    BY <1>4 DEF Answer, Return, Goto
  <2>3. r.doc \in Documents /\ r.caller \in Callers
    BY DEF TagInv, CallersOK, Requests
  <2>4. pc' \in [Callers -> {"idle", "waiting", "found", "counted"}]
        /\ seen' \in [Callers -> Documents]
    BY <2>2, <2>3 DEF TagInv, CallersOK
  <2>5. \A u \in Callers : pc'[u] = "found" => pc[u] = "found" /\ seen'[u] = seen[u]
    BY <2>2, <2>3 DEF TagInv, CallersOK
  <2> QED BY <2>1, <2>2, <2>4, <2>5, NothingWritten DEF TagInv, CallersOK
<1>5. CASE ReplicaSetNext
  <2>1. UNCHANGED <<log, tags, requests, pc, calls, seen>>
    BY <1>5 DEF ReplicaSetNext, Replicate, caller
  <2>2. commit' \in 1 .. Len(log)
    BY <1>5 DEF ReplicaSetNext, Replicate, TagInv, ReplicaSetTypeOK
  <2> QED BY <2>1, <2>2, NothingWritten DEF TagInv, CallersOK
<1>6. CASE UNCHANGED vars
  <2>1. UNCHANGED <<log, commit, tags, requests, pc, calls, seen>>
    BY <1>6 DEF vars, replicaSet, caller
  <2>2. commit' \in 1 .. Len(log)
    BY <2>1 DEF TagInv, ReplicaSetTypeOK
  <2> QED BY <2>1, <2>2, NothingWritten DEF TagInv, CallersOK
<1> QED BY <1>1, <1>2, <1>3, <1>4, <1>5, <1>6 DEF Next

LEMMA TagInvInit ==
  ASSUME Init
  PROVE  TagInv
<1>1. PICK docs \in Docs :
        /\ \A i \in Ids : docs[i] \in {0, i}
        /\ log = <<[docs |-> docs, by |-> <<>>]>>
  <2>1. PICK present \in SUBSET Ids :
          log = <<[docs |-> [i \in Ids |-> IF i \in present THEN i ELSE 0], by |-> <<>>]>>
    BY DEF Init
  <2>2. [i \in Ids |-> IF i \in present THEN i ELSE 0] \in Docs
    BY ReplicaSetAssumption DEF Docs, Ids
  <2> QED BY <2>1, <2>2
<1>2. log \in Seq(Entries) /\ Len(log) = 1 /\ log[1].docs = docs
  BY <1>1 DEF Entries
<1>3. etag = MaxId /\ MaxId \in 0 .. MaxWrites
  BY ReplicaSetAssumption, CollectionAssumption DEF Init
<1>4. ReplicaSetTypeOK
  BY <1>2 DEF Init, ReplicaSetTypeOK
<1>5. TagsInv
  BY <1>1, <1>2, <1>3, ReplicaSetAssumption DEF TagsInv, View, Ids
<1>6. NoLostUpdate
  BY <1>2 DEF NoLostUpdate
<1>7. /\ requests = {}
      /\ pc \in [Callers -> {"idle", "waiting", "found", "counted"}]
      /\ calls \in [Callers -> Nat]
      /\ seen \in [Callers -> Documents]
      /\ \A c \in Callers : pc[c] = "found" => seen[c].id \in Ids
      /\ base \in [1 .. MaxWrites -> Nat]
  BY DEF Init, Documents, NoDocument
<1> QED BY <1>3, <1>4, <1>5, <1>6, <1>7 DEF TagInv, CallersOK

-----------------------------------------------------------------------------
(* Every ETag an exampleUpdate calculated replaces, in the log, the one it  *)
(* was calculated of: the ETag in the selector of its Update is enough,     *)
(* whatever it read, whoever else writes, however late its request arrives  *)
(* and whatever a failover cuts off (CONVERT.md:351-377).                   *)
THEOREM OptimisticUpdatesKept == Spec => []NoLostUpdate
<1>1. Init => TagInv
  BY TagInvInit
<1>2. TagInv /\ [Next]_vars => TagInv'
  BY TagInvStep
<1>3. TagInv => NoLostUpdate
  BY DEF TagInv
<1> QED BY <1>1, <1>2, <1>3, PTL DEF Spec

-----------------------------------------------------------------------------
(* What Must returns.                                                       *)

(* The layers of errors.  The provers do not know that a literal is in      *)
(* STRING.                                                                  *)
Texts ==
  STRING \cup {"none", "bad object version", "write exception", "client is disconnected",
               "no documents in result", "Error", "exampleUpdate"}

MustTypes ==
  /\ write \in [Callers -> [op : Ops \cup {"none"}, ids : SUBSET Ids, many : BOOLEAN, must : BOOLEAN]]
  /\ done \in [Callers -> SUBSET Ids]
  /\ result \in [Callers -> Seq(Texts)]

(* One request at most belongs to a call, and while its caller waits it     *)
(* counts what was done; nothing of a call in exampleUpdate is sent before  *)
(* its Update.                                                              *)
MustOf(c) ==
  /\ \A r \in requests : r.caller = c => r.call <= calls[c]
  /\ \A r \in requests, q \in requests :
       r.caller = c /\ q.caller = c /\ r.call = q.call => r = q
  /\ pc[c] = "found" =>
       done[c] = {} /\ \A r \in requests : r.caller = c => r.call # calls[c]
  /\ pc[c] = "waiting" => \A r \in requests : r.caller = c /\ r.call = calls[c] =>
       r.must = write[c].must /\ (r.hits = 0 <=> done[c] = {})
  /\ pc[c] = "counted" => ~write[c].must
  /\ write[c].must /\ pc[c] = "idle" =>
       /\ result[c] = Nil => done[c] # {}
       /\ Is(result[c], ErrNoDocumentFound) =>
            done[c] = {} /\ \A r \in requests : r.caller = c => r.call # calls[c]

MustInv == TagInv /\ MustTypes /\ \A c \in Callers : MustOf(c)

(* What a step leaves of a caller, and takes of its requests, keeps it.     *)
LEMMA MustKept ==
  ASSUME NEW c \in Callers, MustOf(c), pc'[c] = pc[c], calls'[c] = calls[c],
         write'[c] = write[c], done'[c] = done[c], result'[c] = result[c],
         \A r \in requests' : r.caller = c => r \in requests
  PROVE  MustOf(c)'
BY DEF MustOf

LEMMA Single ==
  ASSUME NEW S, NEW a \in S
  PROVE  <<a>> \in Seq(S) /\ Len(<<a>>) = 1 /\ <<a>>[1] = a /\ DOMAIN <<a>> = {1}
OBVIOUS

LEMMA SeqGrows ==
  ASSUME NEW S, NEW T, S \subseteq T, NEW e \in Seq(S)
  PROVE  e \in Seq(T)
OBVIOUS

(* One more layer makes no error nil, and another error of none.            *)
LEMMA Layer ==
  ASSUME NEW a \in Texts, NEW err \in Seq(Texts), NEW s, s[1] # a
  PROVE  /\ <<a>> \o err \in Seq(Texts) /\ <<a>> \o err # Nil
         /\ Is(<<a>> \o err, s) => Is(err, s)
<1> DEFINE w == <<a>> \o err
<1>1. <<a>> \in Seq(Texts) /\ Len(<<a>>) = 1 /\ <<a>>[1] = a
  BY Single
<1>2. Len(err) \in Nat /\ DOMAIN err = 1 .. Len(err)
  BY LenProperties
<1>3. w \in Seq(Texts) /\ Len(w) = Len(err) + 1
      /\ \A k \in 1 .. Len(err) + 1 : w[k] = IF k <= 1 THEN <<a>>[k] ELSE err[k - 1]
  BY <1>1, <1>2, ConcatProperties
<1> HIDE DEF w
<1>4. DOMAIN w = 1 .. Len(err) + 1
  BY <1>3, LenProperties
<1>5. w # Nil
  BY <1>2, <1>3, EmptySeq DEF Nil
<1>6. ASSUME NEW k \in DOMAIN w, w[k] = s[1]
      PROVE  Is(err, s)
  <2>1. k # 1
    BY <1>1, <1>2, <1>3, <1>4, <1>6
  <2>2. k - 1 \in DOMAIN err /\ err[k - 1] = s[1]
    BY <1>2, <1>3, <1>4, <1>6, <2>1
  <2> QED BY <2>2 DEF Is
<1>7. Is(w, s) => Is(err, s)
  BY <1>6 DEF Is
<1> QED BY <1>3, <1>5, <1>7 DEF w

LEMMA Sentinels ==
  /\ ErrDisconnect \in Seq(Texts) /\ ErrDisconnect # Nil /\ ~Is(ErrDisconnect, ErrNoDocumentFound)
  /\ ErrNoDocumentFound \in Seq(Texts) /\ ErrNoDocumentFound # Nil
  /\ DuplicateKey \in Seq(Texts) /\ DuplicateKey # Nil /\ ~Is(DuplicateKey, ErrNoDocumentFound)
  /\ Nil \in Seq(Texts) /\ ~Is(Nil, ErrNoDocumentFound)
  /\ ErrNoDocumentFound[1] \notin {"Error", "exampleUpdate"}
<1>1. ASSUME NEW a \in Texts, a # "no documents in result"
      PROVE  <<a>> \in Seq(Texts) /\ <<a>> # Nil /\ ~Is(<<a>>, ErrNoDocumentFound)
  <2>1. <<a>> \in Seq(Texts) /\ Len(<<a>>) = 1 /\ <<a>>[1] = a /\ DOMAIN <<a>> = {1}
    BY Single
  <2>2. ErrNoDocumentFound[1] = "no documents in result"
    BY DEF ErrNoDocumentFound
  <2> QED BY <1>1, <2>1, <2>2, EmptySeq DEF Is, Nil
<1>2. ErrNoDocumentFound \in Seq(Texts) /\ Len(ErrNoDocumentFound) = 1
  BY Single DEF ErrNoDocumentFound, Texts
<1>3. ErrNoDocumentFound # Nil
  BY <1>2, EmptySeq DEF Nil
<1>4. Nil \in Seq(Texts) /\ ~Is(Nil, ErrNoDocumentFound)
  BY EmptySeq, LenProperties DEF Nil, Is
<1>5. ErrNoDocumentFound[1] \notin {"Error", "exampleUpdate"}
  BY DEF ErrNoDocumentFound
<1>6. {"client is disconnected", "write exception"} \subseteq Texts \ {"no documents in result"}
  BY DEF Texts
<1> QED BY <1>1, <1>2, <1>3, <1>4, <1>5, <1>6 DEF ErrDisconnect, DuplicateKey

(* wrapMongoError makes no error nil, and no other error ErrNoDocumentFound. *)
LEMMA WrapKept ==
  ASSUME NEW err \in Seq(Texts), err # Nil
  PROVE  /\ wrapMongoError(err) \in Seq(Texts) /\ wrapMongoError(err) # Nil
         /\ Is(wrapMongoError(err), ErrNoDocumentFound) => Is(err, ErrNoDocumentFound)
<1> DEFINE w == <<"Error">> \o err
<1>1. w \in Seq(Texts) /\ w # Nil /\ (Is(w, ErrNoDocumentFound) => Is(err, ErrNoDocumentFound))
  BY Layer, Sentinels DEF Texts
<1>2. \/ wrapMongoError(err) = ErrDisconnect
      \/ wrapMongoError(err) = w
      \/ Is(err, ErrNoDocumentFound) /\ wrapMongoError(err) = ErrNoDocumentFound
  <2> HIDE DEF w
  <2> QED BY DEF wrapMongoError, w
<1> HIDE DEF w
<1> QED BY <1>1, <1>2, Sentinels

LEMMA FailureKept ==
  ASSUME NEW c, NEW err \in Seq(Texts)
  PROVE  /\ Failure(c, err) \in Seq(Texts)
         /\ Failure(c, err) = Nil => err = Nil
         /\ Is(Failure(c, err), ErrNoDocumentFound) => Is(err, ErrNoDocumentFound)
<1>1. <<"exampleUpdate">> \o err \in Seq(Texts) /\ <<"exampleUpdate">> \o err # Nil
      /\ (Is(<<"exampleUpdate">> \o err, ErrNoDocumentFound) => Is(err, ErrNoDocumentFound))
  BY Layer, Sentinels DEF Texts
<1>2. Failure(c, err) \in {err, Example(err)}
  BY DEF Failure
<1> QED BY <1>1, <1>2 DEF Example

(* What the driver fails with is neither nil nor ErrNoDocumentFound.        *)
LEMMA DriverFailure ==
  ASSUME NEW c, NEW e \in DriverErrors
  PROVE  LET f == Failure(c, wrapMongoError(e))
         IN  f \in Seq(Texts) /\ f # Nil /\ ~Is(f, ErrNoDocumentFound)
<1>1. e \in Seq(STRING) /\ e # Nil /\ ~Is(e, ErrNoDocumentFound)
  BY CollectionAssumption
<1>2. e \in Seq(Texts)
  BY <1>1, SeqGrows DEF Texts
<1> QED BY <1>1, <1>2, WrapKept, FailureKept

LEMMA OutcomeTells ==
  ASSUME NEW r \in Requests
  PROVE  /\ Outcome(r) \in Seq(Texts)
         /\ r.must /\ Outcome(r) = Nil => r.hits # 0
         /\ r.must /\ Is(Outcome(r), ErrNoDocumentFound) => r.hits = 0
<1>1. /\ wrapMongoError(DuplicateKey) \in Seq(Texts) /\ wrapMongoError(DuplicateKey) # Nil
      /\ ~Is(wrapMongoError(DuplicateKey), ErrNoDocumentFound)
      /\ wrapMongoError(ErrNoDocumentFound) \in Seq(Texts) /\ wrapMongoError(ErrNoDocumentFound) # Nil
  BY Sentinels, WrapKept
<1>2. CASE r.failed
  BY <1>1, <1>2 DEF Outcome
<1>3. CASE ~r.failed
  BY <1>1, <1>3, Sentinels DEF Outcome
<1> QED BY <1>2, <1>3

LEMMA RestOfResults == NoResult \in Seq(Texts) /\ BadObjectVersion \in Seq(Texts)
BY Single DEF NoResult, BadObjectVersion, Texts

(* A call that begins has no request yet, and no document done.             *)
LEMMA MustBegins ==
  ASSUME MustInv, NEW c \in Callers, NEW f, NEW a, NEW w,
         w \in Writes \cup {NoWrite}, Begin(c, f, w, a)
  PROVE  /\ write' \in [Callers -> [op : Ops \cup {"none"}, ids : SUBSET Ids, many : BOOLEAN, must : BOOLEAN]]
         /\ done' \in [Callers -> SUBSET Ids]
         /\ calls'[c] = calls[c] + 1 /\ done'[c] = {} /\ write'[c] = w
         /\ \A r \in requests : r.caller = c => r.call < calls'[c]
         /\ \A u \in Callers \ {c} :
              calls'[u] = calls[u] /\ done'[u] = done[u] /\ write'[u] = write[u]
<1>1. w \in [op : Ops \cup {"none"}, ids : SUBSET Ids, many : BOOLEAN, must : BOOLEAN]
  <2>1. CASE w = NoWrite
    BY <2>1 DEF NoWrite
  <2>2. CASE w \in Writes
    <3>1. w \in [op : Ops, ids : (SUBSET Ids) \ {{}}, many : BOOLEAN, must : BOOLEAN]
      BY <2>2, CollectionAssumption
    <3>2. w = [op |-> w.op, ids |-> w.ids, many |-> w.many, must |-> w.must]
          /\ w.op \in Ops /\ w.ids \in SUBSET Ids /\ w.many \in BOOLEAN /\ w.must \in BOOLEAN
      BY <3>1
    <3> HIDE <2>2
    <3> QED BY <3>2
  <2> QED BY <2>1, <2>2
<1>2. calls \in [Callers -> Nat] /\ calls[c] \in Nat /\ requests \subseteq Requests
  BY DEF MustInv, TagInv, CallersOK
<1>3. \A r \in requests : r.caller = c => r.call <= calls[c] /\ r.call \in Nat
  BY <1>2 DEF MustInv, MustOf, Requests
<1> QED BY <1>1, <1>2, <1>3 DEF Begin, MustInv, MustTypes

(* The steps of callers that send nothing.                                  *)
LEMMA MustReads ==
  ASSUME MustInv, NEW c \in Callers, NEW f, NEW a, Begin(c, f, NoWrite, a), requests' = requests,
         result' \in [Callers -> Seq(Texts)], pc' \in [Callers -> {"idle", "found", "counted", "waiting"}],
         pc'[c] # "waiting",
         \A u \in Callers \ {c} : pc'[u] = pc[u] /\ result'[u] = result[u]
  PROVE  MustTypes' /\ \A u \in Callers : MustOf(u)'
<1>1. NoWrite \in Writes \cup {NoWrite} /\ ~NoWrite.must
  BY DEF NoWrite
<1>2. /\ write' \in [Callers -> [op : Ops \cup {"none"}, ids : SUBSET Ids, many : BOOLEAN, must : BOOLEAN]]
      /\ done' \in [Callers -> SUBSET Ids]
      /\ calls'[c] = calls[c] + 1 /\ done'[c] = {} /\ write'[c] = NoWrite
      /\ \A r \in requests : r.caller = c => r.call < calls'[c]
      /\ \A u \in Callers \ {c} :
           calls'[u] = calls[u] /\ done'[u] = done[u] /\ write'[u] = write[u]
  BY <1>1, MustBegins
<1>3. \A r \in requests : r.caller = c => r.call \in Nat /\ calls'[c] \in Nat
  BY <1>2 DEF MustInv, TagInv, CallersOK, Requests
<1>4. MustOf(c)'
  BY <1>1, <1>2, <1>3 DEF MustOf, MustInv
<1>5. \A u \in Callers \ {c} : MustOf(u)'
  BY <1>2, MustKept DEF MustInv
<1> QED BY <1>2, <1>4, <1>5 DEF MustTypes

LEMMA MustSends ==
  ASSUME MustInv, NEW c \in Callers, NEW w \in Writes, NEW how, NEW a, Send(c, w, how, a)
  PROVE  MustTypes' /\ \A u \in Callers : MustOf(u)'
<1> DEFINE q == Request(c, calls'[c], w, AnyTag, how)
<1>1. /\ write' \in [Callers -> [op : Ops \cup {"none"}, ids : SUBSET Ids, many : BOOLEAN, must : BOOLEAN]]
      /\ done' \in [Callers -> SUBSET Ids]
      /\ calls'[c] = calls[c] + 1 /\ done'[c] = {} /\ write'[c] = w
      /\ \A r \in requests : r.caller = c => r.call < calls'[c]
      /\ \A u \in Callers \ {c} :
           calls'[u] = calls[u] /\ done'[u] = done[u] /\ write'[u] = write[u]
  BY MustBegins DEF Send
<1>2. /\ requests' = requests \cup {q}
      /\ q.caller = c /\ q.call = calls'[c] /\ q.must = w.must /\ q.hits = 0
  BY DEF Send, Request
<1>3. calls'[c] \in Nat /\ \A r \in requests : r.call \in Nat
  BY <1>1 DEF MustInv, TagInv, CallersOK, Requests
<1>4. /\ pc' = [pc EXCEPT ![c] = "waiting"] /\ result' = [result EXCEPT ![c] = NoResult]
  BY DEF Send, Goto
<1>5. /\ pc'[c] = "waiting" /\ result' \in [Callers -> Seq(Texts)]
      /\ \A u \in Callers \ {c} : pc'[u] = pc[u] /\ result'[u] = result[u]
  BY <1>4, RestOfResults DEF MustInv, MustTypes, TagInv, CallersOK
<1> HIDE DEF q
<1>6. MustOf(c)'
  BY <1>1, <1>2, <1>3, <1>5 DEF MustOf, MustInv
<1>7. \A u \in Callers \ {c} : MustOf(u)'
  BY <1>1, <1>2, <1>5, MustKept DEF MustInv
<1> QED BY <1>1, <1>5, <1>6, <1>7 DEF MustTypes

LEMMA MustUpdates ==
  ASSUME MustInv, NEW c \in Callers, ExampleUpdate(c)
  PROVE  MustTypes' /\ \A u \in Callers : MustOf(u)'
<1> DEFINE W(must) == [op |-> "update", ids |-> {seen[c].id}, many |-> FALSE, must |-> must]
<1>1. PICK must \in MustForms :
        /\ requests' = requests \cup {Request(c, calls[c], W(must), seen[c].tag, NoHow)}
        /\ write' = [write EXCEPT ![c] = W(must)]
  BY DEF ExampleUpdate
<1> DEFINE q == Request(c, calls[c], W(must), seen[c].tag, NoHow)
<1>2. /\ pc[c] = "found" /\ pc' = [pc EXCEPT ![c] = "waiting"]
      /\ calls' = calls /\ done' = done /\ result' = result
  BY DEF ExampleUpdate, Goto
<1>3. q.caller = c /\ q.call = calls[c] /\ q.must = must /\ q.hits = 0
  BY DEF Request
<1>4. done[c] = {} /\ \A r \in requests : r.caller = c => r.call # calls[c] /\ r.call <= calls[c]
  BY <1>2 DEF MustInv, MustOf
<1>5. W(must) \in [op : Ops \cup {"none"}, ids : SUBSET Ids, many : BOOLEAN, must : BOOLEAN]
  BY <1>2, CollectionAssumption DEF MustInv, TagInv, CallersOK, Ops
<1>6. /\ write' \in [Callers -> [op : Ops \cup {"none"}, ids : SUBSET Ids, many : BOOLEAN, must : BOOLEAN]]
      /\ write'[c].must = must
      /\ \A u \in Callers \ {c} : write'[u] = write[u]
  BY <1>1, <1>5 DEF MustInv, MustTypes
<1>7. pc'[c] = "waiting" /\ \A u \in Callers \ {c} : pc'[u] = pc[u]
  BY <1>2 DEF MustInv, TagInv, CallersOK
<1>8. calls[c] \in Nat /\ requests' = requests \cup {q}
  BY <1>1 DEF MustInv, TagInv, CallersOK
<1> HIDE DEF q, W
<1>9. MustOf(c)'
  BY <1>2, <1>3, <1>4, <1>6, <1>7, <1>8 DEF MustOf, MustInv
<1>10. \A u \in Callers \ {c} : MustOf(u)'
  BY <1>2, <1>3, <1>6, <1>7, <1>8, MustKept DEF MustInv
<1> QED BY <1>2, <1>6, <1>9, <1>10 DEF MustTypes, MustInv

(* A step that ends calls with errors of the driver.                        *)
LEMMA MustGivesUp ==
  ASSUME MustInv, requests' \subseteq requests, UNCHANGED <<calls, write, done>>,
         result' \in [Callers -> Seq(Texts)],
         \A u \in Callers :
           \/ pc'[u] = pc[u] /\ result'[u] = result[u]
           \/ pc'[u] = "idle" /\ result'[u] # Nil /\ ~Is(result'[u], ErrNoDocumentFound)
  PROVE  MustTypes' /\ \A u \in Callers : MustOf(u)'
<1>1. ASSUME NEW u \in Callers PROVE MustOf(u)'
  <2>1. CASE pc'[u] = pc[u] /\ result'[u] = result[u]
    BY <2>1, MustKept DEF MustInv
  <2>2. CASE pc'[u] = "idle" /\ result'[u] # Nil /\ ~Is(result'[u], ErrNoDocumentFound)
    <3> HIDE DEF Nil, Is
    <3> QED BY <2>2 DEF MustOf, MustInv
  <2> QED BY <2>1, <2>2
<1> QED BY <1>1 DEF MustTypes, MustInv

LEMMA MustAnswers ==
  ASSUME MustInv, Answer
  PROVE  MustTypes' /\ \A u \in Callers : MustOf(u)'
<1>1. PICK r \in requests :
        /\ pc[r.caller] = "waiting" /\ calls[r.caller] = r.call
        /\ pc' = [pc EXCEPT ![r.caller] = "idle"]
        /\ result' = [result EXCEPT ![r.caller] = Failure(r.caller, Outcome(r))]
        /\ requests' = requests \ {r}
  BY DEF Answer, Waiting, Return, Goto
<1>2. UNCHANGED <<calls, write, done>>
  BY DEF Answer
<1> DEFINE c == r.caller
<1>3. r \in Requests /\ c \in Callers
  BY DEF MustInv, TagInv, CallersOK, Requests
<1>4. /\ Outcome(r) \in Seq(Texts)
      /\ r.must /\ Outcome(r) = Nil => r.hits # 0
      /\ r.must /\ Is(Outcome(r), ErrNoDocumentFound) => r.hits = 0
  BY <1>3, OutcomeTells
<1>5. /\ result' \in [Callers -> Seq(Texts)]
      /\ result'[c] = Nil => Outcome(r) = Nil
      /\ Is(result'[c], ErrNoDocumentFound) => Is(Outcome(r), ErrNoDocumentFound)
      /\ \A u \in Callers \ {c} : result'[u] = result[u]
  BY <1>1, <1>3, <1>4, FailureKept DEF MustInv, MustTypes
<1>6. pc'[c] = "idle" /\ \A u \in Callers \ {c} : pc'[u] = pc[u]
  BY <1>1, <1>3 DEF MustInv, TagInv, CallersOK
<1>7. MustOf(c) /\ r.must = write[c].must /\ (r.hits = 0 <=> done[c] = {})
  BY <1>1, <1>3 DEF MustInv, MustOf
<1>8. \A q \in requests' : q.caller = c => q.call # calls[c]
  BY <1>1, <1>7 DEF MustOf
<1>9. MustOf(c)'
  <2> HIDE DEF Nil, Is, c
  <2> QED BY <1>1, <1>2, <1>4, <1>5, <1>6, <1>7, <1>8 DEF MustOf
<1>10. \A u \in Callers \ {c} : MustOf(u)'
  BY <1>1, <1>2, <1>5, <1>6, MustKept DEF MustInv
<1> QED BY <1>2, <1>5, <1>9, <1>10 DEF MustTypes, MustInv

(* The server counts a hit, and while the caller waits the call has its     *)
(* document then.                                                           *)
LEMMA MustServes ==
  ASSUME MustInv, Serve
  PROVE  MustTypes' /\ \A u \in Callers : MustOf(u)'
<1>1. PICK r \in requests : \E i \in r.todo : ServeHit(r, i) \/ ServeMiss(r, i)
  BY DEF Serve
<1>2. PICK i \in r.todo : ServeHit(r, i) \/ ServeMiss(r, i)
  BY <1>1
<1> DEFINE c == r.caller
<1>3. r \in Requests /\ c \in Callers /\ i \in Ids /\ r.hits \in Nat /\ r.call \in Nat
  BY DEF MustInv, TagInv, CallersOK, Requests
<1>4. UNCHANGED <<calls, write, pc, result>>
  BY DEF Serve
<1>5. PICK s : /\ requests' \subseteq (requests \ {r}) \cup {s}
               /\ s.caller = c /\ s.call = r.call /\ s.must = r.must
               /\ \/ s.hits = r.hits + 1 /\ done' = IF Waiting(r) THEN [done EXCEPT ![c] = @ \cup {i}] ELSE done
                  \/ s.hits = r.hits /\ done' = done
  <2>1. CASE ServeHit(r, i)
    <3> DEFINE s == [r EXCEPT !.todo = IF r.many THEN @ \ {i} ELSE {},
                              !.hits = @ + 1, !.at = Len(log) + 1,
                              !.doc = IF r.op = "findAndUpdate" THEN Found(r, i) ELSE @]
    <3>1. s.caller = c /\ s.call = r.call /\ s.must = r.must /\ s.hits = r.hits + 1
      BY <1>3 DEF Requests
    <3>2. Keep(r, s) /\ done' = IF Waiting(r) THEN [done EXCEPT ![c] = @ \cup {i}] ELSE done
      BY <2>1 DEF ServeHit
    <3> HIDE DEF s
    <3> QED BY <3>1, <3>2 DEF Keep
  <2>2. CASE ServeMiss(r, i)
    <3> DEFINE s == [r EXCEPT !.todo = IF r.op \in {"insert", "findAndUpdate"} THEN {} ELSE @ \ {i},
                              !.failed = @ \/ r.op = "insert", !.at = Len(log)]
    <3>1. s.caller = c /\ s.call = r.call /\ s.must = r.must /\ s.hits = r.hits
      BY <1>3 DEF Requests
    <3>2. Keep(r, s) /\ done' = done
      BY <2>2 DEF ServeMiss
    <3> HIDE DEF s
    <3> QED BY <3>1, <3>2 DEF Keep
  <2> QED BY <1>2, <2>1, <2>2
<1>6. /\ done' \in [Callers -> SUBSET Ids]
      /\ \A u \in Callers \ {c} : done'[u] = done[u]
      /\ ~Waiting(r) => done' = done
      /\ Waiting(r) /\ s.hits # r.hits => done'[c] # {}
      /\ s.hits = r.hits => done' = done
  <2>1. done \in [Callers -> SUBSET Ids] /\ r.hits + 1 # r.hits
    BY <1>3 DEF MustInv, MustTypes
  <2>2. CASE done' = done /\ (s.hits = r.hits \/ ~Waiting(r))
    BY <2>1, <2>2
  <2>3. CASE Waiting(r) /\ s.hits # r.hits /\ done' = [done EXCEPT ![c] = @ \cup {i}]
    BY <1>3, <2>1, <2>3
  <2> QED BY <1>5, <2>1, <2>2, <2>3
<1>7. MustOf(c)
  BY <1>3 DEF MustInv
<1>8. \A q \in requests \ {r} : q.caller = c => q.call # r.call
  BY <1>7 DEF MustOf
<1>9. pc[c] = "waiting" => \A q \in requests' : q.caller = c /\ q.call = calls[c] =>
        q.must = write[c].must /\ (q.hits = 0 <=> done'[c] = {})
  <2> SUFFICES ASSUME pc[c] = "waiting", NEW q \in requests', q.caller = c, q.call = calls[c]
               PROVE  q.must = write[c].must /\ (q.hits = 0 <=> done'[c] = {})
    OBVIOUS
  <2>1. CASE q \in requests \ {r}
    <3>1. ~Waiting(r)
      BY <1>8, <2>1 DEF Waiting
    <3> QED BY <1>6, <1>7, <2>1, <3>1 DEF MustOf
  <2>2. CASE q = s
    <3>1. Waiting(r) /\ r.must = write[c].must /\ (r.hits = 0 <=> done[c] = {})
      BY <1>5, <1>7, <2>2 DEF MustOf, Waiting
    <3>2. CASE s.hits = r.hits
      BY <1>5, <1>6, <2>2, <3>1, <3>2
    <3>3. CASE s.hits # r.hits
      BY <1>3, <1>5, <1>6, <2>2, <3>1, <3>3
    <3> QED BY <3>2, <3>3
  <2> QED BY <1>5, <2>1, <2>2
<1>10. \A q \in requests' : q.caller = c => q.call <= calls[c] /\
         (\A t \in requests' : t.caller = c /\ t.call = q.call => t = q)
  BY <1>5, <1>7, <1>8 DEF MustOf
<1>11. \A q \in requests' : q.caller = c => \E t \in requests : t.caller = c /\ t.call = q.call
  BY <1>5
<1>12. pc[c] # "waiting" => done'[c] = done[c]
  BY <1>6 DEF Waiting
<1>13. MustOf(c)'
  <2> HIDE DEF Nil, Is, c
  <2> QED BY <1>4, <1>7, <1>9, <1>10, <1>11, <1>12 DEF MustOf
<1>14. \A u \in Callers \ {c} : MustOf(u)'
  BY <1>4, <1>5, <1>6, MustKept DEF MustInv
<1> QED BY <1>4, <1>6, <1>13, <1>14 DEF MustTypes, MustInv

LEMMA MustCaller ==
  ASSUME MustInv, NEW c \in Callers, CallerNext(c)
  PROVE  MustTypes' /\ \A u \in Callers : MustOf(u)'
<1>1. CASE WriteCall(c)
  BY <1>1, MustSends DEF WriteCall
<1>2. CASE FindOneAndUpdate(c)
  BY <1>2, MustSends DEF FindOneAndUpdate
<1>3. CASE ExampleUpdate(c)
  BY <1>3, MustUpdates
<1>4. CASE GiveUp(c)
  <2>1. PICK e \in DriverErrors : Return(c, Failure(c, wrapMongoError(e)))
    BY <1>4 DEF GiveUp
  <2> DEFINE err == Failure(c, wrapMongoError(e))
  <2>2. err \in Seq(Texts) /\ err # Nil /\ ~Is(err, ErrNoDocumentFound)
    BY DriverFailure
  <2>3. UNCHANGED <<calls, write, done>> /\ requests' \subseteq requests
    BY <1>4 DEF GiveUp
  <2> HIDE DEF err, Nil, Is
  <2>4. /\ result' \in [Callers -> Seq(Texts)] /\ result'[c] = err /\ pc'[c] = "idle"
        /\ \A u \in Callers \ {c} : pc'[u] = pc[u] /\ result'[u] = result[u]
    BY <2>1, <2>2 DEF err, Return, Goto, MustInv, MustTypes, TagInv, CallersOK
  <2> QED BY <2>2, <2>3, <2>4, MustGivesUp
<1>5. CASE FindQuery(c)
  <2>1. UNCHANGED <<requests, calls, write, done>> /\ Return(c, Nil) /\ pc[c] = "counted"
    BY <1>5 DEF FindQuery
  <2>2. /\ result' \in [Callers -> Seq(Texts)] /\ result'[c] = Nil /\ pc'[c] = "idle"
        /\ \A u \in Callers \ {c} : pc'[u] = pc[u] /\ result'[u] = result[u]
    BY <2>1, Sentinels DEF Return, Goto, MustInv, MustTypes, TagInv, CallersOK
  <2>3. MustOf(c) /\ ~write[c].must
    BY <2>1 DEF MustInv, MustOf
  <2>4. MustOf(c)'
    BY <2>1, <2>2, <2>3 DEF MustOf
  <2>5. \A u \in Callers \ {c} : MustOf(u)'
    BY <2>1, <2>2, MustKept DEF MustInv
  <2> QED BY <2>1, <2>2, <2>4, <2>5 DEF MustTypes, MustInv
<1>6. CASE ExampleFindOne(c) \/ FindCount(c) \/ AnyRead(c) \/ ReadFails(c)
  <2>1. requests' = requests /\ \E f, a : Begin(c, f, NoWrite, a)
    BY <1>6 DEF ExampleFindOne, FindCount, AnyRead, Count, FindOne, FindCursor, Distinct, Aggregate, ReadAll, ReadOnce, ReadFails
  <2>2. \/ \E err \in Seq(Texts) : Return(c, err)
        \/ \E label \in {"found", "counted"} :
             Goto(c, label) /\ result' = [result EXCEPT ![c] = NoResult]
    <3>1. \A e \in DriverErrors : e \in Seq(Texts) /\ wrapMongoError(e) \in Seq(Texts)
                                  /\ Example(wrapMongoError(e)) \in Seq(Texts)
      <4> TAKE e \in DriverErrors
      <4>1. e \in Seq(STRING) /\ e # Nil
        BY CollectionAssumption
      <4>2. e \in Seq(Texts)
        BY <4>1, SeqGrows DEF Texts
      <4>3. wrapMongoError(e) \in Seq(Texts)
        BY <4>1, <4>2, WrapKept
      <4> QED BY <4>2, <4>3, Layer, Sentinels DEF Example, Texts
    <3>2. /\ Example(ErrNoDocumentFound) \in Seq(Texts) /\ wrapMongoError(ErrNoDocumentFound) \in Seq(Texts)
          /\ BadObjectVersion \in Seq(Texts) /\ Nil \in Seq(Texts)
      BY Layer, Sentinels, RestOfResults, WrapKept DEF Example, Texts
    <3>3. CASE ExampleFindOne(c)
      BY <3>1, <3>2, <3>3 DEF ExampleFindOne
    <3>4. CASE FindCount(c)
      BY <3>2, <3>4 DEF FindCount
    <3>5. CASE AnyRead(c)
      BY <3>2, <3>5 DEF AnyRead, Count, FindOne, FindCursor, Distinct, Aggregate, ReadAll, ReadOnce
    <3>6. CASE ReadFails(c)
      BY <3>1, <3>6 DEF ReadFails
    <3> QED BY <1>6, <3>3, <3>4, <3>5, <3>6
  <2>3. /\ pc' \in [Callers -> {"idle", "found", "counted", "waiting"}] /\ pc'[c] # "waiting"
        /\ result' \in [Callers -> Seq(Texts)]
        /\ \A u \in Callers \ {c} : pc'[u] = pc[u] /\ result'[u] = result[u]
    <3>1. /\ pc \in [Callers -> {"idle", "found", "counted", "waiting"}]
          /\ result \in [Callers -> Seq(Texts)]
      BY DEF MustInv, MustTypes, TagInv, CallersOK
    <3> QED BY <2>2, <3>1, RestOfResults DEF Return, Goto
  <2> QED BY <2>1, <2>3, MustReads
<1> QED BY <1>1, <1>2, <1>3, <1>4, <1>5, <1>6 DEF CallerNext, AnyRead

LEMMA MustStep ==
  ASSUME MustInv, [Next]_vars
  PROVE  MustInv'
<1>1. TagInv'
  BY TagInvStep DEF MustInv
<1>2. CASE \E c \in Callers : CallerNext(c)
  BY <1>1, <1>2, MustCaller DEF MustInv
<1>3. CASE Serve
  BY <1>1, <1>3, MustServes DEF MustInv
<1>4. CASE Answer
  BY <1>1, <1>4, MustAnswers DEF MustInv
<1>5. CASE Failover
  <2>1. PICK e \in DriverErrors : result' = [c \in Callers |->
          IF pc[c] = "waiting" THEN Failure(c, wrapMongoError(e)) ELSE result[c]]
    BY <1>5 DEF Failover
  <2>2. \A u \in Callers : /\ Failure(u, wrapMongoError(e)) \in Seq(Texts)
                           /\ Failure(u, wrapMongoError(e)) # Nil
                           /\ ~Is(Failure(u, wrapMongoError(e)), ErrNoDocumentFound)
    BY DriverFailure
  <2>3. UNCHANGED <<calls, write, done>> /\ requests' = {}
        /\ pc' = [c \in Callers |-> IF pc[c] = "waiting" THEN "idle" ELSE pc[c]]
    BY <1>5 DEF Failover
  <2>4. result \in [Callers -> Seq(Texts)]
    BY DEF MustInv, MustTypes
  <2> HIDE DEF Nil, Is
  <2>5. /\ result' \in [Callers -> Seq(Texts)]
        /\ \A u \in Callers :
             \/ pc'[u] = pc[u] /\ result'[u] = result[u]
             \/ pc'[u] = "idle" /\ result'[u] # Nil /\ ~Is(result'[u], ErrNoDocumentFound)
    BY <2>1, <2>2, <2>3, <2>4
  <2> QED BY <1>1, <2>3, <2>5, MustGivesUp DEF MustInv
<1>6. CASE ReplicaSetNext \/ UNCHANGED vars
  <2>1. UNCHANGED <<requests, pc, calls, write, done, result>>
    BY <1>6 DEF ReplicaSetNext, vars, caller
  <2> QED BY <1>1, <2>1, MustKept DEF MustInv, MustTypes
<1> QED BY <1>2, <1>3, <1>4, <1>5, <1>6 DEF Next

LEMMA MustInit ==
  ASSUME Init
  PROVE  MustInv
<1>1. TagInv
  BY TagInvInit
<1>2. /\ requests = {} /\ pc = [c \in Callers |-> "idle"]
      /\ write = [c \in Callers |-> NoWrite] /\ done = [c \in Callers |-> {}]
      /\ result = [c \in Callers |-> NoResult]
  BY DEF Init
<1>3. NoWrite \in [op : Ops \cup {"none"}, ids : SUBSET Ids, many : BOOLEAN, must : BOOLEAN]
      /\ ~NoWrite.must
  BY DEF NoWrite
<1>4. MustTypes
  BY <1>2, <1>3, RestOfResults DEF MustTypes
<1>5. \A c \in Callers : MustOf(c)
  BY <1>2, <1>3 DEF MustOf
<1> QED BY <1>1, <1>4, <1>5 DEF MustInv

(* What Must returns is true of the documents (must.go:40-127), for any     *)
(* number of callers and requests, whatever fails, answers late or is       *)
(* served after its caller gave up.                                         *)
THEOREM MustTellsTheTruth == Spec => []MustToldTrue
<1>1. Init => MustInv
  BY MustInit
<1>2. MustInv /\ [Next]_vars => MustInv'
  BY MustStep
<1>3. MustInv => MustToldTrue
  <2> HIDE DEF Nil, Is
  <2> QED BY DEF MustInv, MustOf, MustToldTrue, Returned
<1> QED BY <1>1, <1>2, <1>3, PTL DEF Spec

-----------------------------------------------------------------------------
(* What was acknowledged.                                                   *)

(* What a call has changed is in the log up to where its request was        *)
(* served last, and, once it has returned nil, in what the majority holds.  *)
StayOf(c) ==
  /\ pc[c] \in {"found", "counted"} => done[c] = {}
  /\ pc[c] = "waiting" /\ done[c] # {} =>
       \A r \in requests : r.caller = c /\ r.call = calls[c] =>
         \E k \in 1 .. r.at : log[k].by = <<c, calls[c]>>
  /\ IsWriteConcernMajorityEnabled /\ pc[c] = "idle" /\ result[c] = Nil /\ done[c] # {} =>
       \E k \in 1 .. commit : log[k].by = <<c, calls[c]>>

StayInv ==
  /\ MustInv
  /\ \A r \in requests : r.at \in 0 .. Len(log)
  /\ \A c \in Callers : StayOf(c)

(* A step that is not of a caller keeps it, if it keeps the log as far as   *)
(* a majority holds it and as far as the caller's requests have come.       *)
LEMMA StayKept ==
  ASSUME NEW c \in Callers, StayOf(c), pc'[c] = pc[c], calls'[c] = calls[c],
         done'[c] = done[c], result'[c] = result[c], commit \in Nat, commit' \in Nat,
         commit <= commit', \A k \in 1 .. commit : log'[k] = log[k],
         \A r \in requests' : r.caller = c =>
           r \in requests /\ \A k \in 1 .. r.at : log'[k] = log[k]
  PROVE  StayOf(c)'
<1>1. CASE pc[c] = "waiting"
  BY <1>1 DEF StayOf
<1>2. CASE pc[c] # "waiting"
  <2> HIDE DEF Nil
  <2>1. ASSUME NEW k \in 1 .. commit, log[k].by = <<c, calls[c]>>
        PROVE  k \in 1 .. commit' /\ log'[k].by = <<c, calls'[c]>>
    BY <2>1
  <2> QED BY <1>2, <2>1 DEF StayOf
<1> QED BY <1>1, <1>2

(* A step of a caller: nothing is written, and its call has changed nothing *)
(* yet or ends with an error.                                               *)
LEMMA StayCaller ==
  ASSUME StayInv, NEW c \in Callers, CallerNext(c)
  PROVE  /\ \A r \in requests' : r.at \in 0 .. Len(log')
         /\ \A u \in Callers : StayOf(u)'
<1> USE DEF Goto, Return, Begin
<1>1. UNCHANGED <<log, commit>>
  BY DEF CallerNext, AnyRead, WriteCall, FindOneAndUpdate, Send, ExampleFindOne, ExampleUpdate,
         GiveUp, FindCount, FindQuery, Count, FindOne, FindCursor, Distinct, Aggregate, ReadAll, ReadOnce, ReadFails, replicaSet
<1>2. Len(log) \in Nat /\ commit \in Nat /\ pc \in [Callers -> {"idle", "waiting", "found", "counted"}]
      /\ calls \in [Callers -> Nat] /\ done \in [Callers -> SUBSET Ids]
      /\ result \in [Callers -> Seq(Texts)]
  BY DEF StayInv, MustInv, MustTypes, TagInv, CallersOK, ReplicaSetTypeOK
<1>3. \A r \in requests' : r \in requests \/ (r.caller = c /\ r.at = 0)
  <2>1. \A n, w, tag, how : LET q == Request(c, n, w, tag, how) IN q.caller = c /\ q.at = 0
    BY DEF Request
  <2>2. \/ requests' \subseteq requests
        \/ \E n, w, tag, how : requests' = requests \cup {Request(c, n, w, tag, how)}
    <3>1. CASE WriteCall(c) \/ FindOneAndUpdate(c)
      <4>1. PICK w, how, a : Send(c, w, how, a)
        BY <3>1 DEF WriteCall, FindOneAndUpdate
      <4> QED BY <4>1 DEF Send
    <3>2. CASE ExampleUpdate(c)
      BY <3>2 DEF ExampleUpdate
    <3>3. CASE ~WriteCall(c) /\ ~FindOneAndUpdate(c) /\ ~ExampleUpdate(c)
      BY <3>3 DEF CallerNext, AnyRead, ExampleFindOne, GiveUp, FindCount, FindQuery, Count, FindOne,
                  FindCursor, Distinct, Aggregate, ReadAll, ReadOnce, ReadFails
    <3> QED BY <3>1, <3>2, <3>3
  <2> QED BY <2>1, <2>2
<1>4. \A u \in Callers \ {c} : /\ pc'[u] = pc[u] /\ calls'[u] = calls[u]
                               /\ done'[u] = done[u] /\ result'[u] = result[u]
  BY <1>2 DEF CallerNext, AnyRead, WriteCall, FindOneAndUpdate, Send, ExampleFindOne, ExampleUpdate,
         GiveUp, FindCount, FindQuery, Count, FindOne, FindCursor, Distinct, Aggregate, ReadAll, ReadOnce, ReadFails
<1>5. done'[c] = {} \/ (pc'[c] = "idle" /\ result'[c] # Nil)
  <2>1. CASE GiveUp(c)
    <3>1. PICK e \in DriverErrors : Return(c, Failure(c, wrapMongoError(e)))
      BY <2>1 DEF GiveUp
    <3>2. Failure(c, wrapMongoError(e)) # Nil
      BY DriverFailure
    <3> HIDE DEF Nil
    <3> QED BY <1>2, <3>1, <3>2
  <2>2. CASE ExampleUpdate(c) \/ FindQuery(c)
    <3>1. done'[c] = done[c] /\ pc[c] \in {"found", "counted"}
      BY <2>2 DEF ExampleUpdate, FindQuery
    <3> QED BY <3>1 DEF StayInv, StayOf
  <2>3. CASE ~GiveUp(c) /\ ~ExampleUpdate(c) /\ ~FindQuery(c)
    <3>1. done' = [done EXCEPT ![c] = {}]
      BY <2>3 DEF CallerNext, AnyRead, WriteCall, FindOneAndUpdate, Send, ExampleFindOne,
                  FindCount, Count, FindOne, FindCursor, Distinct, Aggregate, ReadAll, ReadOnce, ReadFails
    <3> QED BY <1>2, <3>1
  <2> QED BY <2>1, <2>2, <2>3
<1>6. StayOf(c)'
  <2> HIDE DEF Nil
  <2> QED BY <1>5 DEF StayOf
<1>7. ASSUME NEW u \in Callers \ {c} PROVE StayOf(u)'
  <2>1. \A r \in requests' : r.caller = u => r \in requests /\ \A k \in 1 .. r.at : log'[k] = log[k]
    BY <1>1, <1>3
  <2> QED BY <1>1, <1>2, <1>4, <2>1, StayKept DEF StayInv
<1> QED BY <1>1, <1>2, <1>3, <1>6, <1>7 DEF StayInv

LEMMA StayServes ==
  ASSUME StayInv, Serve
  PROVE  /\ \A r \in requests' : r.at \in 0 .. Len(log')
         /\ \A u \in Callers : StayOf(u)'
<1>1. PICK r \in requests : \E i \in r.todo : ServeHit(r, i) \/ ServeMiss(r, i)
  BY DEF Serve
<1>2. PICK i \in r.todo : ServeHit(r, i) \/ ServeMiss(r, i)
  BY <1>1
<1> DEFINE c == r.caller
<1>3. r \in Requests /\ c \in Callers
  BY DEF StayInv, MustInv, TagInv, CallersOK, Requests
<1>4. UNCHANGED <<calls, pc, result, commit>>
  BY DEF Serve
<1>5. log \in Seq(Entries) /\ Len(log) \in Nat /\ commit \in 1 .. Len(log)
      /\ done \in [Callers -> SUBSET Ids] /\ \A q \in requests : q.at \in 0 .. Len(log)
  BY DEF StayInv, MustInv, MustTypes, TagInv, ReplicaSetTypeOK
<1>6. PICK s : /\ requests' \subseteq (requests \ {r}) \cup {s}
               /\ s.caller = c /\ s.call = r.call /\ s.at = Len(log')
               /\ Len(log') \in Nat /\ Len(log) <= Len(log')
               /\ \A k \in 1 .. Len(log) : log'[k] = log[k]
               /\ \A u \in Callers \ {c} : done'[u] = done[u]
               /\ \/ done' = done
                  \/ Waiting(r) /\ log'[Len(log')].by = <<c, r.call>> /\ Len(log') >= 1
  <2>1. CASE ServeHit(r, i)
    <3> DEFINE s == [r EXCEPT !.todo = IF r.many THEN @ \ {i} ELSE {},
                              !.hits = @ + 1, !.at = Len(log) + 1,
                              !.doc = IF r.op = "findAndUpdate" THEN Found(r, i) ELSE @]
    <3>1. s.caller = c /\ s.call = r.call /\ s.at = Len(log) + 1
      BY <1>3 DEF Requests
    <3>2. /\ Keep(r, s) /\ Hit(r, i)
          /\ done' = IF Waiting(r) THEN [done EXCEPT ![c] = @ \cup {i}] ELSE done
      BY <2>1 DEF ServeHit
    <3> HIDE DEF s
    <3>3. PICK docs : log' = Append(log, [docs |-> docs, by |-> <<c, r.call>>])
      BY <3>2 DEF Hit, Write
    <3>4. /\ Len(log') = Len(log) + 1
          /\ \A k \in 1 .. Len(log) : log'[k] = log[k]
          /\ log'[Len(log) + 1].by = <<c, r.call>>
      <4> DEFINE entry == [docs |-> docs, by |-> <<c, r.call>>]
          T == Entries \cup {entry}
      <4>1. log \in Seq(T) /\ entry \in T
        BY <1>5, SeqGrows
      <4>2. entry.by = <<c, r.call>>
        OBVIOUS
      <4> HIDE DEF entry, T
      <4>3. log' = Append(log, entry)
        BY <3>3 DEF entry
      <4> QED BY <4>1, <4>2, <4>3, AppendProperties
    <3>5. \A u \in Callers \ {c} : done'[u] = done[u]
      BY <1>5, <3>2
    <3>6. requests' \subseteq (requests \ {r}) \cup {s}
      BY <3>2 DEF Keep
    <3>7. done' = done \/ Waiting(r)
      BY <3>2
    <3> QED BY <1>5, <3>1, <3>4, <3>5, <3>6, <3>7
  <2>2. CASE ServeMiss(r, i)
    <3> DEFINE s == [r EXCEPT !.todo = IF r.op \in {"insert", "findAndUpdate"} THEN {} ELSE @ \ {i},
                              !.failed = @ \/ r.op = "insert", !.at = Len(log)]
    <3>1. s.caller = c /\ s.call = r.call /\ s.at = Len(log)
      BY <1>3 DEF Requests
    <3>2. Keep(r, s) /\ log' = log /\ done' = done
      BY <2>2 DEF ServeMiss
    <3> HIDE DEF s
    <3> QED BY <1>5, <3>1, <3>2 DEF Keep
  <2> QED BY <1>2, <2>1, <2>2
<1>7. \A q \in requests' : q.at \in 0 .. Len(log')
  BY <1>5, <1>6
<1>8. ASSUME NEW u \in Callers \ {c} PROVE StayOf(u)'
  <2>1. \A q \in requests' : q.caller = u => q \in requests /\ \A k \in 1 .. q.at : log'[k] = log[k]
    BY <1>5, <1>6
  <2> QED BY <1>4, <1>5, <1>6, <2>1, StayKept DEF StayInv
<1>9. CASE done' = done
  <2>1. /\ pc[c] \in {"found", "counted"} => done[c] = {}
        /\ IsWriteConcernMajorityEnabled /\ pc[c] = "idle" /\ result[c] = Nil /\ done[c] # {} =>
             \E k \in 1 .. commit : log'[k].by = <<c, calls[c]>>
    <3> HIDE DEF Nil
    <3>1. StayOf(c)
      BY <1>3 DEF StayInv
    <3>2. \A k \in 1 .. commit : log'[k] = log[k]
      BY <1>5, <1>6
    <3> QED BY <3>1, <3>2 DEF StayOf
  <2>2. ASSUME pc[c] = "waiting", done[c] # {},
               NEW q \in requests', q.caller = c, q.call = calls[c]
        PROVE  \E k \in 1 .. q.at : log'[k].by = <<c, calls[c]>>
    <3>1. PICK p \in requests : p.caller = c /\ p.call = calls[c] /\ p.at <= q.at
      BY <1>5, <1>6, <2>2
    <3>2. PICK k \in 1 .. p.at : log[k].by = <<c, calls[c]>>
      BY <1>3, <2>2, <3>1 DEF StayInv, StayOf
    <3>3. k \in 1 .. q.at /\ log'[k] = log[k]
      BY <1>5, <1>6, <1>7, <3>1
    <3> QED BY <3>2, <3>3
  <2>3. StayOf(c)'
    <3> HIDE DEF Nil, c
    <3> QED BY <1>4, <1>9, <2>1, <2>2 DEF StayOf
  <2> QED BY <1>7, <1>8, <2>3
<1>10. CASE Waiting(r) /\ log'[Len(log')].by = <<c, r.call>> /\ Len(log') >= 1
  <2>1. pc'[c] = "waiting" /\ calls'[c] = r.call
    BY <1>4, <1>10 DEF Waiting
  <2>2. MustOf(c)
    BY <1>3 DEF StayInv, MustInv
  <2>3. \A q \in requests' : q.caller = c /\ q.call = calls'[c] => q = s
    BY <1>6, <2>1, <2>2 DEF MustOf
  <2>4. Len(log') \in 1 .. s.at
    BY <1>6, <1>10
  <2>5. StayOf(c)'
    BY <1>10, <2>1, <2>3, <2>4 DEF StayOf
  <2> QED BY <1>7, <1>8, <2>5
<1> QED BY <1>6, <1>9, <1>10

LEMMA StayAnswers ==
  ASSUME StayInv, Answer
  PROVE  /\ \A r \in requests' : r.at \in 0 .. Len(log')
         /\ \A u \in Callers : StayOf(u)'
<1>1. PICK r \in requests :
        /\ pc[r.caller] = "waiting" /\ calls[r.caller] = r.call
        /\ IsWriteConcernMajorityEnabled => r.at <= commit
        /\ pc' = [pc EXCEPT ![r.caller] = "idle"]
        /\ \E err : result' = [result EXCEPT ![r.caller] = err]
        /\ requests' = requests \ {r}
  BY DEF Answer, Waiting, Return, Goto, Acknowledged
<1>2. UNCHANGED <<calls, done, log, commit>>
  BY DEF Answer, replicaSet
<1> DEFINE c == r.caller
<1>3. c \in Callers /\ commit \in Nat /\ r.at \in Nat
  BY DEF StayInv, MustInv, TagInv, CallersOK, ReplicaSetTypeOK, Requests
<1>4. pc'[c] = "idle" /\ \A u \in Callers \ {c} : pc'[u] = pc[u] /\ result'[u] = result[u]
  BY <1>1, <1>3 DEF StayInv, MustInv, MustTypes, TagInv, CallersOK
<1>5. IsWriteConcernMajorityEnabled /\ done[c] # {} =>
        \E k \in 1 .. commit : log[k].by = <<c, calls[c]>>
  <2> SUFFICES ASSUME IsWriteConcernMajorityEnabled, done[c] # {}
               PROVE  \E k \in 1 .. commit : log[k].by = <<c, calls[c]>>
    OBVIOUS
  <2>1. PICK k \in 1 .. r.at : log[k].by = <<c, calls[c]>>
    BY <1>1, <1>3 DEF StayInv, StayOf
  <2> QED BY <1>1, <1>3, <2>1
<1>6. StayOf(c)'
  <2> HIDE DEF Nil, c
  <2> QED BY <1>2, <1>4, <1>5 DEF StayOf
<1>7. \A u \in Callers \ {c} : StayOf(u)'
  BY <1>1, <1>2, <1>3, <1>4, StayKept DEF StayInv
<1> QED BY <1>1, <1>2, <1>6, <1>7 DEF StayInv

LEMMA StayFailover ==
  ASSUME StayInv, Failover
  PROVE  /\ \A r \in requests' : r.at \in 0 .. Len(log')
         /\ \A u \in Callers : StayOf(u)'
<1>1. /\ requests' = {} /\ UNCHANGED <<calls, done, commit>>
      /\ pc' = [c \in Callers |-> IF pc[c] = "waiting" THEN "idle" ELSE pc[c]]
  BY DEF Failover, CutOff
<1>2. log \in Seq(Entries) /\ Len(log) \in Nat /\ commit \in 1 .. Len(log)
  BY DEF StayInv, MustInv, TagInv, ReplicaSetTypeOK
<1>3. \A k \in 1 .. commit : log'[k] = log[k]
  <2>1. PICK n \in commit .. Len(log) - 1 : log' = SubSeq(log, 1, n)
    BY DEF Failover, CutOff
  <2>2. n \in 1 .. Len(log) /\ 1 .. commit \subseteq 1 .. n
    BY <1>2, <2>1
  <2>3. \A k \in 1 .. n : log'[k] = log[k]
    BY <1>2, <2>1, <2>2
  <2> QED BY <2>2, <2>3
<1>4. PICK e \in DriverErrors : result' = [c \in Callers |->
        IF pc[c] = "waiting" THEN Failure(c, wrapMongoError(e)) ELSE result[c]]
  BY DEF Failover
<1>5. ASSUME NEW u \in Callers PROVE StayOf(u)'
  <2>1. CASE pc[u] = "waiting"
    <3>1. pc'[u] = "idle" /\ result'[u] = Failure(u, wrapMongoError(e))
      BY <1>1, <1>4, <2>1
    <3>2. result'[u] # Nil
      BY <3>1, DriverFailure
    <3> HIDE DEF Nil
    <3> QED BY <3>1, <3>2 DEF StayOf
  <2>2. CASE pc[u] # "waiting"
    <3>1. pc'[u] = pc[u] /\ result'[u] = result[u]
      BY <1>1, <1>4, <2>2
    <3> QED BY <1>1, <1>2, <1>3, <3>1, StayKept DEF StayInv
  <2> QED BY <2>1, <2>2
<1> QED BY <1>1, <1>5

LEMMA StayStep ==
  ASSUME StayInv, [Next]_vars
  PROVE  StayInv'
<1>1. MustInv'
  BY MustStep DEF StayInv
<1>2. CASE \E c \in Callers : CallerNext(c)
  BY <1>1, <1>2, StayCaller DEF StayInv
<1>3. CASE Serve
  BY <1>1, <1>3, StayServes DEF StayInv
<1>4. CASE Answer
  BY <1>1, <1>4, StayAnswers DEF StayInv
<1>5. CASE Failover
  BY <1>1, <1>5, StayFailover DEF StayInv
<1>6. CASE ReplicaSetNext \/ UNCHANGED vars
  <2>1. UNCHANGED <<requests, pc, calls, done, result, log>> /\ commit' \in {commit, commit + 1}
    BY <1>6 DEF ReplicaSetNext, Replicate, vars, caller, replicaSet
  <2>2. commit \in Nat /\ commit' \in Nat /\ commit <= commit'
    BY <2>1 DEF StayInv, MustInv, TagInv, ReplicaSetTypeOK
  <2>3. \A u \in Callers : StayOf(u)'
    BY <2>1, <2>2, StayKept DEF StayInv
  <2> QED BY <1>1, <2>1, <2>3 DEF StayInv
<1> QED BY <1>2, <1>3, <1>4, <1>5, <1>6 DEF Next

(* With IsWriteConcernMajorityEnabled what a call returned nil for stays in *)
(* the log, whatever primary fails when (driver.go:162-166): while the call *)
(* waits, no failover has been, and when it is answered a majority holds    *)
(* its last write and all before it.                                        *)
THEOREM AcknowledgedKept == Spec => [](IsWriteConcernMajorityEnabled => AcknowledgedWritesStay)
<1>1. Init => StayInv
  <2> SUFFICES ASSUME Init PROVE StayInv
    OBVIOUS
  <2>1. requests = {} /\ \A c \in Callers : done[c] = {}
    BY DEF Init
  <2> QED BY <2>1, MustInit DEF StayInv, StayOf
<1>2. StayInv /\ [Next]_vars => StayInv'
  BY StayStep
<1>3. StayInv => (IsWriteConcernMajorityEnabled => AcknowledgedWritesStay)
  <2> SUFFICES ASSUME StayInv, IsWriteConcernMajorityEnabled,
                      NEW c \in Callers, Returned(c, Nil), done[c] # {}
               PROVE  \E k \in DOMAIN log : log[k].by = <<c, calls[c]>>
    BY DEF AcknowledgedWritesStay
  <2> HIDE DEF Nil
  <2>1. PICK k \in 1 .. commit : log[k].by = <<c, calls[c]>>
    BY DEF StayInv, StayOf, Returned
  <2>2. k \in DOMAIN log
    BY <2>1 DEF StayInv, MustInv, TagInv, ReplicaSetTypeOK
  <2> QED BY <2>1, <2>2
<1> QED BY <1>1, <1>2, <1>3, PTL DEF Spec
=============================================================================
