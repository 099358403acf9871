--------------------------- MODULE TimestampsProofs --------------------------
(***************************************************************************)
(* That the functions of timestamp_utils.go, called any number of times on *)
(* any documents that share what shallow copies share, lose nothing but    *)
(* what was put in a $currentDate that is not a bson.M.  Update and WithNamespacedUniqueTimestampQuery are     *)
(* loops: a fact about every round is proved with the lemmas of            *)
(* RecursionProofs.                                                        *)
(***************************************************************************)
EXTENDS Timestamps, RecursionProofs, FiniteSetTheorems, SequenceTheorems

States ==
  [currentDate : [Docs -> CurrentDates], entries : [Maps -> SUBSET Keys]]

(* What the map of a document asks for, if it has one.                      *)
AsksOf(s, d) == IF s.currentDate[d] \in Maps THEN s.entries[s.currentDate[d]] ELSE {}

(* There is a map that no document has, when one of them has none.          *)
LEMMA FreeMap ==
  ASSUME NEW cd \in [Docs -> CurrentDates], NEW d \in Docs, cd[d] \notin Maps
  PROVE  Free(cd) \in Maps /\ \A e \in Docs : cd[e] # Free(cd)
<1> DEFINE others == Docs \ {d}
           used == {cd[e] : e \in others}
<1>1. IsFiniteSet(Docs) /\ IsFiniteSet(Maps) /\ Cardinality(Docs) <= Cardinality(Maps)
  BY TimestampsAssumption
<1>2. IsFiniteSet(others) /\ Cardinality(others) = Cardinality(Docs) - 1
  BY <1>1, FS_RemoveElement
<1>3. IsFiniteSet(used) /\ Cardinality(used) <= Cardinality(others)
  <2> DEFINE f == [e \in others |-> cd[e]]
  <2>1. f \in Surjection(others, used)
    BY DEF Surjection
  <2> HIDE DEF others, used, f
  <2> QED BY <1>2, <2>1, FS_Surjection
<1>4. Cardinality(Docs) \in Nat /\ Cardinality(Maps) \in Nat /\ Cardinality(used) \in Nat
  BY <1>1, <1>3, FS_CardinalityType
<1>5. ~(Maps \subseteq used)
  <2> SUFFICES ASSUME Maps \subseteq used PROVE FALSE
    OBVIOUS
  <2> HIDE DEF used, others
  <2>1. Cardinality(Maps) <= Cardinality(used)
    BY <1>3, FS_Subset
  <2> QED BY <2>1, <1>1, <1>2, <1>3, <1>4
<1>6. PICK m \in Maps : m \notin used
  BY <1>5
<1>7. \A e \in Docs : cd[e] # m
  BY <1>6
<1> QED BY <1>6, <1>7 DEF Free

(* One call of withCurrentDate adds the key to what d asks for, takes none  *)
(* from any document, and changes another only if the two share.            *)
LEMMA CurrentDate ==
  ASSUME NEW s \in States, NEW d \in Docs, NEW key \in Keys
  PROVE  LET t == withCurrentDate(s, d, key)
         IN  /\ t \in States
             /\ \A e \in Docs : AsksOf(s, e) \subseteq AsksOf(t, e)
             /\ key \in AsksOf(t, d)
             /\ \A e \in Docs : e # d /\ AsksOf(t, e) # AsksOf(s, e) =>
                  s.currentDate[e] = s.currentDate[d]
             /\ \A e \in Docs : e # d => t.currentDate[e] = s.currentDate[e]
             /\ \/ t.currentDate[d] = s.currentDate[d]
                \/ /\ s.currentDate[d] \notin Maps /\ t.currentDate[d] \in Maps
                   /\ \A e \in Docs : s.currentDate[e] # t.currentDate[d]
<1> DEFINE t == withCurrentDate(s, d, key)
<1>1. s.currentDate \in [Docs -> CurrentDates] /\ s.entries \in [Maps -> SUBSET Keys]
  BY DEF States
<1>2. CASE s.currentDate[d] \in Maps
  <2> DEFINE m == s.currentDate[d]
  <2>1. t = [currentDate |-> [s.currentDate EXCEPT ![d] = m],
             entries |-> [s.entries EXCEPT ![m] = s.entries[m] \cup {key}]]
    BY <1>1, <1>2 DEF withCurrentDate
  <2>2. t.currentDate = s.currentDate
    BY <1>1, <2>1
  <2>3. t.entries = [s.entries EXCEPT ![m] = s.entries[m] \cup {key}]
    BY <2>1
  <2>4. t.entries \in [Maps -> SUBSET Keys]
    BY <1>1, <1>2, <2>3
  <2>5. t \in States
    BY <1>1, <2>1, <2>2, <2>4 DEF States
  <2> HIDE DEF t
  <2>6. ASSUME NEW e \in Docs
        PROVE  /\ AsksOf(s, e) \subseteq AsksOf(t, e)
               /\ e = d => key \in AsksOf(t, e)
               /\ AsksOf(t, e) # AsksOf(s, e) => s.currentDate[e] = s.currentDate[d]
    BY <1>1, <1>2, <2>2, <2>3 DEF AsksOf
  <2> QED BY <2>2, <2>5, <2>6 DEF t
<1>3. CASE s.currentDate[d] \notin Maps
  <2> DEFINE m == Free(s.currentDate)
  <2>1. m \in Maps /\ \A e \in Docs : s.currentDate[e] # m
    BY <1>1, <1>3, FreeMap
  <2>2. t = [currentDate |-> [s.currentDate EXCEPT ![d] = m],
             entries |-> [s.entries EXCEPT ![m] = {} \cup {key}]]
    BY <1>1, <1>3 DEF withCurrentDate
  <2> HIDE DEF m
  <2>3. t.currentDate = [s.currentDate EXCEPT ![d] = m] /\ t.entries = [s.entries EXCEPT ![m] = {} \cup {key}]
    BY <2>2
  <2>4. t.currentDate \in [Docs -> CurrentDates] /\ t.entries \in [Maps -> SUBSET Keys]
    BY <1>1, <2>1, <2>3 DEF CurrentDates
  <2>5. t \in States
    BY <2>2, <2>3, <2>4 DEF States
  <2> HIDE DEF t
  <2>6. ASSUME NEW e \in Docs
        PROVE  /\ e # d => t.currentDate[e] = s.currentDate[e] /\ AsksOf(s, e) = AsksOf(t, e)
               /\ e = d => AsksOf(s, e) = {} /\ key \in AsksOf(t, e) /\ t.currentDate[e] = m
    BY <1>1, <1>3, <2>1, <2>3 DEF AsksOf
  <2>7. \A e \in Docs : AsksOf(s, e) \subseteq AsksOf(t, e)
    BY <2>6
  <2>8. \A e \in Docs : e # d => AsksOf(t, e) = AsksOf(s, e)
    BY <2>6
  <2>9. key \in AsksOf(t, d) /\ t.currentDate[d] = m
    BY <2>6
  <2>10. \A e \in Docs : e # d => t.currentDate[e] = s.currentDate[e]
    BY <2>6
  <2> QED BY <1>3, <2>1, <2>5, <2>7, <2>8, <2>9, <2>10 DEF t
<1> QED BY <1>2, <1>3

(* What the calls of withCurrentDate that turned s into t, all on d, may    *)
(* have done.                                                               *)
Called(s, t, d) ==
  /\ t \in States
  /\ \A e \in Docs : AsksOf(s, e) \subseteq AsksOf(t, e)
  /\ \A e \in Docs : e # d /\ AsksOf(t, e) # AsksOf(s, e) => s.currentDate[e] = s.currentDate[d]
  /\ \A e \in Docs : e # d => t.currentDate[e] = s.currentDate[e]
  /\ \/ t.currentDate[d] = s.currentDate[d]
     \/ /\ s.currentDate[d] \notin Maps /\ t.currentDate[d] \in Maps
        /\ \A e \in Docs : e # d => s.currentDate[e] # t.currentDate[d]

LEMMA CalledAgain ==
  ASSUME NEW s \in States, NEW t \in States, NEW d \in Docs, NEW key \in Keys, Called(s, t, d)
  PROVE  /\ Called(s, withCurrentDate(t, d, key), d)
         /\ AsksOf(t, d) \cup {key} \subseteq AsksOf(withCurrentDate(t, d, key), d)
<1> DEFINE u == withCurrentDate(t, d, key)
<1>1. /\ u \in States
      /\ \A e \in Docs : AsksOf(t, e) \subseteq AsksOf(u, e)
      /\ key \in AsksOf(u, d)
      /\ \A e \in Docs : e # d /\ AsksOf(u, e) # AsksOf(t, e) => t.currentDate[e] = t.currentDate[d]
      /\ \A e \in Docs : e # d => u.currentDate[e] = t.currentDate[e]
      /\ \/ u.currentDate[d] = t.currentDate[d]
         \/ /\ t.currentDate[d] \notin Maps /\ u.currentDate[d] \in Maps
            /\ \A e \in Docs : t.currentDate[e] # u.currentDate[d]
  BY CurrentDate
<1> HIDE DEF u
<1>2. \A e \in Docs : AsksOf(s, e) \subseteq AsksOf(u, e)
  BY <1>1 DEF Called
<1>3. ASSUME NEW e \in Docs, e # d
      PROVE  u.currentDate[e] = s.currentDate[e] /\ t.currentDate[e] = s.currentDate[e]
  BY <1>1, <1>3 DEF Called
<1>4. ASSUME NEW e \in Docs, e # d, AsksOf(u, e) # AsksOf(s, e)
      PROVE  s.currentDate[e] = s.currentDate[d]
  <2>1. CASE AsksOf(t, e) # AsksOf(s, e)
    BY <1>4, <2>1 DEF Called
  <2>2. CASE AsksOf(t, e) = AsksOf(s, e)
    <3>1. s.currentDate[e] = t.currentDate[d]
      BY <1>1, <1>3, <1>4, <2>2
    <3> QED BY <1>4, <3>1 DEF Called
  <2> QED BY <2>1, <2>2
<1>5. \/ u.currentDate[d] = s.currentDate[d]
      \/ /\ s.currentDate[d] \notin Maps /\ u.currentDate[d] \in Maps
         /\ \A e \in Docs : e # d => s.currentDate[e] # u.currentDate[d]
  <2>1. CASE u.currentDate[d] = t.currentDate[d]
    BY <2>1 DEF Called
  <2>2. CASE /\ t.currentDate[d] \notin Maps /\ u.currentDate[d] \in Maps
             /\ \A e \in Docs : t.currentDate[e] # u.currentDate[d]
    <3>1. \A e \in Docs : e # d => s.currentDate[e] # u.currentDate[d]
      BY <1>3, <2>2
    <3>2. s.currentDate[d] \notin Maps
      BY <2>2 DEF Called
    <3> QED BY <2>2, <3>1, <3>2
  <2> QED BY <1>1, <2>1, <2>2
<1>6. Called(s, u, d)
  BY <1>1, <1>2, <1>3, <1>4, <1>5 DEF Called
<1> QED BY <1>1, <1>6 DEF u

(* All rounds of the loop that WithUpdates and the others are.              *)
LEMMA Rounds ==
  ASSUME NEW s \in States, NEW d \in Docs, NEW N \in Nat, NEW keys \in [1 .. N -> Keys], NEW after,
         after = CHOOSE f : f = [n \in 0 .. N |->
                   IF n = 0 THEN s ELSE withCurrentDate(f[n - 1], d, keys[n])]
  PROVE  Called(s, after[N], d) /\ \A k \in 1 .. N : keys[k] \in AsksOf(after[N], d)
<1> DEFINE step == [n \in 1 .. N |-> [t \in States |-> withCurrentDate(t, d, keys[n])]]
<1>1. \A n \in 1 .. N : \A t \in States : withCurrentDate(t, d, keys[n]) \in States
  <2> SUFFICES ASSUME NEW n \in 1 .. N, NEW t \in States
               PROVE  withCurrentDate(t, d, keys[n]) \in States
    OBVIOUS
  <2>1. keys[n] \in Keys
    OBVIOUS
  <2> QED BY <2>1, CurrentDate
<1>2. step \in [1 .. N -> [States -> States]]
  BY <1>1
<1>3. \A n \in 1 .. N : \A t \in States : step[n][t] = withCurrentDate(t, d, keys[n])
  OBVIOUS
<1> HIDE DEF step
<1>4. PICK g \in [0 .. N -> States] : g[0] = s /\ \A n \in 1 .. N : g[n] = step[n][g[n - 1]]
  <2>1. step \in Steps(N, States)
    BY <1>2 DEF Steps
  <2>2. Recursions(N, States, s, step) # {}
    BY <2>1, Recurs
  <2> QED BY <2>2 DEF Recursions
<1>5. ASSUME NEW n \in 0 .. N
      PROVE  g[n] = IF n = 0 THEN s ELSE withCurrentDate(g[n - 1], d, keys[n])
  <2>1. CASE n # 0
    <3>1. n \in 1 .. N /\ n - 1 \in 0 .. N
      BY <2>1
    <3>2. g[n - 1] \in States
      BY <3>1
    <3> QED BY <1>3, <1>4, <3>1, <3>2
  <2> QED BY <1>4, <2>1
<1>6. g = [n \in 0 .. N |-> IF n = 0 THEN s ELSE withCurrentDate(g[n - 1], d, keys[n])]
  BY <1>5
<1>7. after = [n \in 0 .. N |-> IF n = 0 THEN s ELSE withCurrentDate(after[n - 1], d, keys[n])]
  BY <1>6, Zenon
<1> DEFINE Good(n) == /\ Called(s, after[n], d)
                      /\ \A k \in 1 .. n : keys[k] \in AsksOf(after[n], d)
           S == {n \in 0 .. N : Good(n)}
<1>8. 0 \in S
  <2>0. 0 \in 0 .. N
    OBVIOUS
  <2>1. after[0] = s
    BY <1>7, <2>0
  <2>2. Called(s, s, d)
    BY DEF Called
  <2> QED BY <2>0, <2>1, <2>2
<1>9. ASSUME NEW n \in 0 .. N - 1, n \in S
      PROVE  n + 1 \in S
  <2>1. n + 1 \in 0 .. N /\ n + 1 \in 1 .. N /\ n + 1 # 0 /\ (n + 1) - 1 = n
    OBVIOUS
  <2>2. after[n + 1] = withCurrentDate(after[n], d, keys[n + 1])
    BY <1>7, <2>1
  <2>3. Called(s, after[n], d) /\ after[n] \in States
    BY <1>9 DEF Called
  <2>4. keys[n + 1] \in Keys
    BY <2>1
  <2>5. /\ Called(s, after[n + 1], d)
        /\ AsksOf(after[n], d) \cup {keys[n + 1]} \subseteq AsksOf(after[n + 1], d)
    BY <2>2, <2>3, <2>4, CalledAgain
  <2>6. ASSUME NEW k \in 1 .. n + 1
        PROVE  keys[k] \in AsksOf(after[n + 1], d)
    <3>1. CASE k = n + 1
      BY <2>5, <3>1
    <3>2. CASE k # n + 1
      <4>1. k \in 1 .. n
        BY <3>2
      <4> QED BY <1>9, <2>5, <4>1
    <3> QED BY <3>1, <3>2
  <2> QED BY <2>1, <2>5, <2>6
<1>10. N \in S
  <2> HIDE DEF S
  <2>1. 0 .. N \subseteq S
    BY <1>8, <1>9, UpTo
  <2> QED BY <2>1
<1> QED BY <1>10

-----------------------------------------------------------------------------
State == [currentDate |-> currentDate, entries |-> entries]

LEMMA StateTyped ==
  TypeOK => State \in States
BY DEF TypeOK, State, States

LEMMA SeqOfFunction ==
  ASSUME NEW S, NEW n \in Nat, NEW f \in [1 .. n -> S]
  PROVE  f \in Seq(S)
BY SeqDef

LEMMA Lists ==
  ASSUME NEW S, NEW prefixes \in UNION {[1 .. n -> S] : n \in 0 .. MaxPrefixes}
  PROVE  prefixes \in Seq(S) /\ Len(prefixes) \in Nat /\ prefixes \in [1 .. Len(prefixes) -> S]
<1>1. PICK n \in 0 .. MaxPrefixes : prefixes \in [1 .. n -> S]
  OBVIOUS
<1>2. n \in Nat
  <2>1. MaxPrefixes \in Nat
    BY TimestampsAssumption
  <2> QED BY <2>1
<1>3. prefixes \in Seq(S)
  BY <1>1, <1>2, SeqDef
<1> QED BY <1>3

LEMMA KeysAsked ==
  ASSUME NEW form \in {"last updated", "unique timestamp", "updates"}, NEW prefixes \in PrefixLists
  PROVE  LET keys == KeysFor(form, prefixes)
         IN  /\ Len(keys) \in Nat
             /\ keys \in [1 .. Len(keys) -> Keys]
<1> DEFINE n == Len(prefixes)
           keysOf(kind) == [i \in 1 .. n |-> Key(kind)[prefixes[i]]]
<1>1. n \in Nat /\ prefixes \in [1 .. n -> Namespaces]
  BY Lists DEF PrefixLists
<1>2. ASSUME NEW kind \in {LastUpdatedKey, UniqueTimestampKey}
      PROVE  keysOf(kind) \in Seq(Keys)
  <2>1. \A i \in 1 .. n : Key(kind)[prefixes[i]] \in Keys
    BY <1>1 DEF Key, Keys
  <2>2. keysOf(kind) \in [1 .. n -> Keys]
    BY <2>1
  <2> HIDE DEF keysOf, n
  <2> QED BY <1>1, <2>2, SeqOfFunction
<1>3. keysOf(LastUpdatedKey) \in Seq(Keys) /\ keysOf(UniqueTimestampKey) \in Seq(Keys)
  BY <1>2
<1> HIDE DEF keysOf
<1>4. keysOf(LastUpdatedKey) \o keysOf(UniqueTimestampKey) \in Seq(Keys)
  <2> DEFINE a == keysOf(LastUpdatedKey)
             b == keysOf(UniqueTimestampKey)
  <2> HIDE DEF a, b
  <2>1. a \in Seq(Keys) /\ b \in Seq(Keys)
    BY <1>3 DEF a, b
  <2> QED BY <2>1, ConcatProperties DEF a, b
<1>5. KeysFor(form, prefixes) \in Seq(Keys)
  BY <1>3, <1>4 DEF KeysFor, keysOf
<1> HIDE DEF Keys
<1> DEFINE keys == KeysFor(form, prefixes)
<1>6. keys \in Seq(Keys)
  BY <1>5
<1> HIDE DEF keys
<1>7. Len(keys) \in Nat /\ keys \in [1 .. Len(keys) -> Keys]
  BY <1>6, LenProperties
<1> QED BY <1>7 DEF keys

(* What a step of the callers or of the functions on documents does.        *)
LEMMA UpdateCalls ==
  ASSUME TypeOK, NEW d \in Docs, NEW form \in {"last updated", "unique timestamp", "updates"},
         NEW prefixes \in PrefixLists, Update(d, form, prefixes)
  PROVE  LET keys == KeysFor(form, prefixes)
         IN  /\ Called(State, State', d)
             /\ \A k \in 1 .. Len(keys) : keys[k] \in AsksOf(State', d) /\ keys[k] \in Keys
             /\ asked' = [asked EXCEPT ![d] = @ \cup {keys[i] : i \in 1 .. Len(keys)}]
             /\ foreign' = [foreign EXCEPT ![d] = @ \ {keys[i] : i \in 1 .. Len(keys)}]
             /\ query' = query
<1> DEFINE keys == KeysFor(form, prefixes)
           N == Len(keys)
           after == CHOOSE f : f = [n \in 0 .. N |->
                      IF n = 0 THEN State ELSE withCurrentDate(f[n - 1], d, keys[n])]
<1>1. N \in Nat /\ keys \in [1 .. N -> Keys]
  BY KeysAsked
<1>2. State \in States
  BY StateTyped
<1>3. /\ currentDate' = after[N].currentDate
      /\ entries' = after[N].entries
      /\ asked' = [asked EXCEPT ![d] = @ \cup {keys[i] : i \in DOMAIN keys}]
      /\ foreign' = [foreign EXCEPT ![d] = @ \ {keys[i] : i \in DOMAIN keys}]
      /\ query' = query
  BY DEF Update, State
<1>4. Called(State, after[N], d) /\ \A k \in 1 .. N : keys[k] \in AsksOf(after[N], d)
  <2> HIDE DEF keys, N
  <2> QED BY <1>1, <1>2, Rounds
<1> HIDE DEF after
<1>5. after[N] \in States
  BY <1>4 DEF Called
<1>6. after[N] = State'
  BY <1>3, <1>5 DEF State, States
<1>7. DOMAIN keys = 1 .. N /\ \A k \in 1 .. N : keys[k] \in Keys
  <2> HIDE DEF keys, N
  <2> QED BY <1>1
<1> QED BY <1>3, <1>4, <1>6, <1>7

-----------------------------------------------------------------------------
QueryDocs == [Namespaces -> 0 .. MaxStamp]

(* What n rounds of the loop of WithNamespacedUniqueTimestampQuery made of  *)
(* doc: a prefix has the timestamp of its last place among the first n.     *)
BoundTo(doc, q, timestamps, prefixes, n) ==
  \A p \in Namespaces :
    IF \E i \in 1 .. n : prefixes[i] = p
    THEN \E i \in 1 .. n : /\ prefixes[i] = p /\ q[p] = timestamps[i]
                           /\ \A j \in 1 .. n : prefixes[j] = p => j <= i
    ELSE q[p] = doc[p]

LEMMA BindNext ==
  ASSUME NEW doc \in QueryDocs, NEW q \in QueryDocs, NEW n \in Nat, NEW timestamps, NEW prefixes,
         prefixes[n + 1] \in Namespaces, timestamps[n + 1] \in 0 .. MaxStamp,
         BoundTo(doc, q, timestamps, prefixes, n)
  PROVE  LET q2 == Bind(q, timestamps, prefixes, n + 1)
         IN  q2 \in QueryDocs /\ BoundTo(doc, q2, timestamps, prefixes, n + 1)
<1> DEFINE q2 == Bind(q, timestamps, prefixes, n + 1)
<1>1. q2 = [q EXCEPT ![prefixes[n + 1]] = timestamps[n + 1]]
  BY DEF Bind
<1>2. q2 \in QueryDocs
  BY <1>1 DEF QueryDocs
<1> HIDE DEF q2
<1>3. \A i \in 1 .. n + 1 : i = n + 1 \/ i \in 1 .. n
  OBVIOUS
<1>4. n + 1 \in 1 .. n + 1 /\ \A i \in 1 .. n : i \in 1 .. n + 1 /\ i <= n + 1
  OBVIOUS
<1>5. ASSUME NEW p \in Namespaces
      PROVE  IF \E i \in 1 .. n + 1 : prefixes[i] = p
             THEN \E i \in 1 .. n + 1 : /\ prefixes[i] = p /\ q2[p] = timestamps[i]
                                        /\ \A j \in 1 .. n + 1 : prefixes[j] = p => j <= i
             ELSE q2[p] = doc[p]
  <2>1. CASE p = prefixes[n + 1]
    <3>1. q2[p] = timestamps[n + 1]
      BY <1>1, <2>1 DEF QueryDocs
    <3>2. \A j \in 1 .. n + 1 : j <= n + 1
      OBVIOUS
    <3> QED BY <1>4, <2>1, <3>1, <3>2
  <2>2. CASE p # prefixes[n + 1]
    <3>1. q2[p] = q[p]
      BY <1>1, <2>2 DEF QueryDocs
    <3>2. CASE \E i \in 1 .. n : prefixes[i] = p
      <4>1. PICK i \in 1 .. n : /\ prefixes[i] = p /\ q[p] = timestamps[i]
                                /\ \A j \in 1 .. n : prefixes[j] = p => j <= i
        BY <3>2 DEF BoundTo
      <4>2. \A j \in 1 .. n + 1 : prefixes[j] = p => j <= i
        BY <1>3, <2>2, <4>1
      <4>3. i \in 1 .. n + 1
        BY <1>4
      <4> QED BY <3>1, <4>1, <4>2, <4>3
    <3>3. CASE ~\E i \in 1 .. n : prefixes[i] = p
      <4>1. q[p] = doc[p]
        BY <3>3 DEF BoundTo
      <4>2. ~\E i \in 1 .. n + 1 : prefixes[i] = p
        BY <1>3, <2>2, <3>3
      <4> QED BY <3>1, <4>1, <4>2
    <3> QED BY <3>2, <3>3
  <2> QED BY <2>1, <2>2
<1> QED BY <1>2, <1>5 DEF BoundTo, q2

(* The whole loop, up to the timestamp that is not there.                   *)
LEMMA AllBound ==
  ASSUME NEW doc \in QueryDocs, NEW timestamps \in TimestampLists, NEW prefixes \in PrefixLists
  PROVE  LET r == WithNamespacedUniqueTimestampQuery(doc, timestamps, prefixes)
             last == IF Len(prefixes) <= Len(timestamps) THEN Len(prefixes) ELSE Len(timestamps)
         IN  /\ r.doc \in QueryDocs
             /\ r.panics <=> (Len(prefixes) > Len(timestamps))
             /\ last \in Nat /\ 1 .. last = DOMAIN prefixes \cap DOMAIN timestamps
             /\ BoundTo(doc, r.doc, timestamps, prefixes, last)
<1> DEFINE last == IF Len(prefixes) <= Len(timestamps) THEN Len(prefixes) ELSE Len(timestamps)
           bound == CHOOSE f : f = [idx \in 0 .. last |->
                      IF idx = 0 THEN doc ELSE Bind(f[idx - 1], timestamps, prefixes, idx)]
           r == WithNamespacedUniqueTimestampQuery(doc, timestamps, prefixes)
<1>1. /\ Len(prefixes) \in Nat /\ prefixes \in [1 .. Len(prefixes) -> Namespaces]
      /\ Len(timestamps) \in Nat /\ timestamps \in [1 .. Len(timestamps) -> 1 .. MaxStamp]
  BY Lists DEF PrefixLists, TimestampLists
<1>2. r = [doc |-> bound[last], panics |-> last < Len(prefixes)]
  BY DEF WithNamespacedUniqueTimestampQuery
<1>3. r.panics <=> (Len(prefixes) > Len(timestamps))
  <2>1. r.panics = (last < Len(prefixes))
    BY <1>2
  <2>2. (last < Len(prefixes)) <=> (Len(prefixes) > Len(timestamps))
    BY <1>1
  <2> QED BY <2>1, <2>2
<1>4. last \in Nat /\ 1 .. last = DOMAIN prefixes \cap DOMAIN timestamps
  BY <1>1
<1>5. r.doc = bound[last]
  BY <1>2
<1>6. \A i \in 1 .. last : prefixes[i] \in Namespaces /\ timestamps[i] \in 0 .. MaxStamp
  <2> MaxStamp \in Nat
    BY TimestampsAssumption
  <2> QED BY <1>1
<1> HIDE DEF r, last
<1> DEFINE step == [n \in 1 .. last |-> [q \in QueryDocs |-> Bind(q, timestamps, prefixes, n)]]
<1>7. step \in Steps(last, QueryDocs)
  <2>1. \A n \in 1 .. last : \A q \in QueryDocs : Bind(q, timestamps, prefixes, n) \in QueryDocs
    BY <1>6 DEF Bind, QueryDocs
  <2> QED BY <2>1 DEF Steps
<1>8. \A n \in 1 .. last : \A q \in QueryDocs : step[n][q] = Bind(q, timestamps, prefixes, n)
  OBVIOUS
<1> HIDE DEF step
<1>9. PICK g \in [0 .. last -> QueryDocs] :
        g[0] = doc /\ \A n \in 1 .. last : g[n] = step[n][g[n - 1]]
  <2>1. Recursions(last, QueryDocs, doc, step) # {}
    BY <1>4, <1>7, Recurs
  <2> QED BY <2>1 DEF Recursions
<1>10. ASSUME NEW n \in 0 .. last
       PROVE  g[n] = IF n = 0 THEN doc ELSE Bind(g[n - 1], timestamps, prefixes, n)
  <2>1. CASE n # 0
    <3>1. n \in 1 .. last /\ n - 1 \in 0 .. last
      BY <1>4, <2>1
    <3>2. g[n - 1] \in QueryDocs
      BY <3>1
    <3> QED BY <1>8, <1>9, <3>1, <3>2
  <2> QED BY <1>9, <2>1
<1>11. g = [n \in 0 .. last |-> IF n = 0 THEN doc ELSE Bind(g[n - 1], timestamps, prefixes, n)]
  BY <1>10
<1>12. bound = [n \in 0 .. last |-> IF n = 0 THEN doc ELSE Bind(bound[n - 1], timestamps, prefixes, n)]
  BY <1>11, Zenon
<1> HIDE DEF bound
<1> DEFINE S == {n \in 0 .. last : bound[n] \in QueryDocs /\ BoundTo(doc, bound[n], timestamps, prefixes, n)}
<1>13. 0 \in S
  <2>0. 0 \in 0 .. last
    BY <1>4
  <2>1. bound[0] = doc
    BY <1>12, <2>0
  <2>2. BoundTo(doc, doc, timestamps, prefixes, 0)
    BY DEF BoundTo
  <2> QED BY <2>0, <2>1, <2>2
<1>14. ASSUME NEW n \in 0 .. last - 1, n \in S
       PROVE  n + 1 \in S
  <2>1. n + 1 \in 0 .. last /\ n + 1 \in 1 .. last /\ n + 1 # 0 /\ (n + 1) - 1 = n /\ n \in Nat
    BY <1>4
  <2>2. bound[n + 1] = Bind(bound[n], timestamps, prefixes, n + 1)
    BY <1>12, <2>1
  <2>3. bound[n] \in QueryDocs /\ BoundTo(doc, bound[n], timestamps, prefixes, n)
    BY <1>14
  <2>4. prefixes[n + 1] \in Namespaces /\ timestamps[n + 1] \in 0 .. MaxStamp
    BY <1>6, <2>1
  <2>5. bound[n + 1] \in QueryDocs /\ BoundTo(doc, bound[n + 1], timestamps, prefixes, n + 1)
    BY <2>1, <2>2, <2>3, <2>4, BindNext
  <2> QED BY <2>1, <2>5
<1>15. bound[last] \in QueryDocs /\ BoundTo(doc, bound[last], timestamps, prefixes, last)
  <2>1. 0 .. last \subseteq S
    <3> HIDE DEF S
    <3> QED BY <1>4, <1>13, <1>14, UpTo
  <2>2. last \in 0 .. last
    BY <1>4
  <2> QED BY <2>1, <2>2
<1> QED BY <1>3, <1>4, <1>5, <1>15 DEF r, last

-----------------------------------------------------------------------------
LEMMA QueryKeepsType ==
  ASSUME TypeOK, NEW timestamps \in TimestampLists, NEW prefixes \in PrefixLists, Query(timestamps, prefixes)
  PROVE  query' \in QueryDocs
<1>1. query \in QueryDocs
  BY DEF TypeOK, QueryDocs
<1> QED BY <1>1, AllBound DEF Query

(* What a document asks for and its type after a map is given to it or its  *)
(* own taken away, and what no document has is gone.                        *)
LEMMA SweptKeeps ==
  ASSUME NEW cd \in [Docs -> CurrentDates], NEW maps \in [Maps -> SUBSET Keys]
  PROVE  /\ Swept(cd, maps) \in [Maps -> SUBSET Keys]
         /\ \A e \in Docs : cd[e] \in Maps => Swept(cd, maps)[cd[e]] = maps[cd[e]]
<1>1. \A m \in Maps : (IF \E e \in Docs : cd[e] = m THEN maps[m] ELSE {}) \in SUBSET Keys
  OBVIOUS
<1>2. Swept(cd, maps) \in [Maps -> SUBSET Keys]
  BY <1>1 DEF Swept
<1>3. \A e \in Docs : cd[e] \in Maps => Swept(cd, maps)[cd[e]] = maps[cd[e]]
  BY DEF Swept
<1> QED BY <1>2, <1>3

(* What a document has of what it was asked for.                            *)
DocOK(d) ==
  /\ asked[d] \ Asks(d) \subseteq foreign[d]
  /\ currentDate[d] \notin Maps => asked[d] \subseteq foreign[d]

Same(e) ==
  currentDate'[e] = currentDate[e] /\ asked'[e] = asked[e] /\ foreign'[e] = foreign[e]

(* A document of its own leaves what the others ask for as it is.           *)
LEMMA NewDocAlone ==
  ASSUME TypeOK, NEW d \in Docs, NewDoc(d)
  PROVE  /\ TypeOK'
         /\ \A e \in Docs : e # d => Asks(e)' = Asks(e) /\ Same(e)
         /\ DocOK(d)'
<1>1. /\ currentDate \in [Docs -> CurrentDates] /\ entries \in [Maps -> SUBSET Keys]
      /\ asked \in [Docs -> SUBSET Keys] /\ foreign \in [Docs -> SUBSET Keys] /\ query' = query
  BY DEF TypeOK, NewDoc
<1>2. OwnKeys \subseteq Keys /\ \A keys \in SUBSET Keys : keys \notin Maps /\ keys \in CurrentDates
  BY TimestampsAssumption DEF CurrentDates
<1>3. ASSUME NEW keys \in {{}} \cup {{key} : key \in OwnKeys},
             currentDate' = [currentDate EXCEPT ![d] = keys],
             entries' = Swept(currentDate', entries),
             asked' = [asked EXCEPT ![d] = keys],
             foreign' = [foreign EXCEPT ![d] = keys]
      PROVE  /\ TypeOK'
             /\ \A e \in Docs : e # d => Asks(e)' = Asks(e) /\ Same(e)
             /\ DocOK(d)'
  <2>1. keys \in SUBSET Keys
    BY <1>2
  <2>2. currentDate' \in [Docs -> CurrentDates]
    BY <1>1, <1>2, <1>3, <2>1
  <2>3. /\ entries' \in [Maps -> SUBSET Keys]
        /\ \A e \in Docs : currentDate'[e] \in Maps => entries'[currentDate'[e]] = entries[currentDate'[e]]
    BY <1>1, <1>3, <2>2, SweptKeeps
  <2>4. asked' \in [Docs -> SUBSET Keys] /\ foreign' \in [Docs -> SUBSET Keys]
    BY <1>1, <1>3, <2>1
  <2>5. TypeOK'
    BY <1>1, <2>2, <2>3, <2>4 DEF TypeOK
  <2>6. \A e \in Docs : e # d => Same(e)
    BY <1>1, <1>3 DEF Same
  <2>7. \A e \in Docs : e # d => Asks(e)' = Asks(e)
    BY <2>3, <2>6 DEF Asks, Same
  <2>8. asked'[d] = keys /\ foreign'[d] = keys
    BY <1>1, <1>3
  <2> QED BY <2>5, <2>6, <2>7, <2>8 DEF DocOK
<1>4. ASSUME NEW key \in OwnKeys, NEW m, m = Free([currentDate EXCEPT ![d] = {}]),
             currentDate' = [currentDate EXCEPT ![d] = m],
             entries' = Swept(currentDate', [entries EXCEPT ![m] = {key}]),
             asked' = [asked EXCEPT ![d] = {key}],
             foreign' = [foreign EXCEPT ![d] = {}]
      PROVE  /\ TypeOK'
             /\ \A e \in Docs : e # d => Asks(e)' = Asks(e) /\ Same(e)
             /\ DocOK(d)'
  <2> DEFINE cd == [currentDate EXCEPT ![d] = {}]
             maps == [entries EXCEPT ![m] = {key}]
  <2>1. m \in Maps /\ \A e \in Docs : e # d => currentDate[e] # m
    <3>1. {} \in SUBSET Keys
      OBVIOUS
    <3>2. cd \in [Docs -> CurrentDates] /\ cd[d] = {} /\ {} \notin Maps
      BY <1>1, <1>2, <3>1
    <3>3. \A e \in Docs : e # d => cd[e] = currentDate[e]
      BY <1>1
    <3>4. m = Free(cd)
      BY <1>4
    <3> HIDE DEF cd
    <3>5. m \in Maps /\ \A e \in Docs : cd[e] # m
      BY <3>2, <3>4, FreeMap
    <3> QED BY <3>3, <3>5
  <2>2. key \in Keys /\ m \in CurrentDates
    BY <1>2, <2>1 DEF CurrentDates
  <2>3. maps \in [Maps -> SUBSET Keys] /\ maps[m] = {key} /\ \A n \in Maps : n # m => maps[n] = entries[n]
    BY <1>1, <2>1, <2>2
  <2>4. currentDate' \in [Docs -> CurrentDates] /\ asked' \in [Docs -> SUBSET Keys]
        /\ foreign' \in [Docs -> SUBSET Keys]
    BY <1>1, <1>4, <2>2
  <2>5. entries' = Swept(currentDate', maps)
    BY <1>4
  <2> HIDE DEF maps
  <2>6. /\ entries' \in [Maps -> SUBSET Keys]
        /\ \A e \in Docs : currentDate'[e] \in Maps => entries'[currentDate'[e]] = maps[currentDate'[e]]
    BY <2>3, <2>4, <2>5, SweptKeeps
  <2>7. TypeOK'
    BY <1>1, <2>4, <2>6 DEF TypeOK
  <2>8. \A e \in Docs : e # d => Same(e)
    BY <1>1, <1>4 DEF Same
  <2>9. \A e \in Docs : e # d => Asks(e)' = Asks(e)
    BY <2>1, <2>3, <2>6, <2>8 DEF Asks, Same
  <2>10. currentDate'[d] = m /\ asked'[d] = {key}
    BY <1>1, <1>4
  <2>11. Asks(d)' = {key}
    BY <2>1, <2>3, <2>6, <2>10 DEF Asks
  <2> QED BY <2>1, <2>7, <2>8, <2>9, <2>10, <2>11 DEF DocOK
<1> QED BY <1>3, <1>4 DEF NewDoc

LEMMA CopyAlone ==
  ASSUME TypeOK, NEW d \in Docs, NEW c \in Docs, ShallowCopy(d, c)
  PROVE  /\ TypeOK'
         /\ \A e \in Docs : e # c => Asks(e)' = Asks(e) /\ Same(e)
         /\ Asks(c)' = Asks(d) /\ currentDate'[c] = currentDate[d]
         /\ asked'[c] = asked[d] /\ foreign'[c] = foreign[d]
<1>1. /\ currentDate \in [Docs -> CurrentDates] /\ entries \in [Maps -> SUBSET Keys]
      /\ asked \in [Docs -> SUBSET Keys] /\ foreign \in [Docs -> SUBSET Keys] /\ query' = query
      /\ currentDate' = [currentDate EXCEPT ![c] = currentDate[d]]
      /\ entries' = Swept(currentDate', entries)
      /\ asked' = [asked EXCEPT ![c] = asked[d]]
      /\ foreign' = [foreign EXCEPT ![c] = foreign[d]]
  BY DEF TypeOK, ShallowCopy
<1>2. currentDate' \in [Docs -> CurrentDates] /\ asked' \in [Docs -> SUBSET Keys]
      /\ foreign' \in [Docs -> SUBSET Keys]
  BY <1>1
<1>3. /\ entries' \in [Maps -> SUBSET Keys]
      /\ \A e \in Docs : currentDate'[e] \in Maps => entries'[currentDate'[e]] = entries[currentDate'[e]]
  BY <1>1, <1>2, SweptKeeps
<1>4. TypeOK'
  BY <1>1, <1>2, <1>3 DEF TypeOK
<1>5. \A e \in Docs : e # c => Same(e)
  BY <1>1 DEF Same
<1>6. currentDate'[c] = currentDate[d] /\ asked'[c] = asked[d] /\ foreign'[c] = foreign[d]
  BY <1>1
<1>7. \A e \in Docs : e # c => Asks(e)' = Asks(e)
  BY <1>3, <1>5 DEF Asks, Same
<1>8. Asks(c)' = Asks(d)
  BY <1>3, <1>6 DEF Asks
<1> QED BY <1>4, <1>5, <1>6, <1>7, <1>8

(* What is asked for in the call is asked for afterwards; what the document *)
(* asked for is kept, unless it had something else than a bson.M.           *)
LEMMA UpdateAlone ==
  ASSUME TypeOK, NEW d \in Docs, NEW form \in {"last updated", "unique timestamp", "updates"},
         NEW prefixes \in PrefixLists, Update(d, form, prefixes)
  PROVE  /\ TypeOK'
         /\ \A e \in Docs : e # d => Same(e) /\ Asks(e) \subseteq Asks(e)'
         /\ \A e \in Docs : e # d /\ Asks(e)' # Asks(e) => currentDate[e] = currentDate[d]
         /\ DocOK(d) => DocOK(d)'
<1> DEFINE keys == KeysFor(form, prefixes)
           added == {keys[i] : i \in 1 .. Len(keys)}
<1>1. /\ Called(State, State', d)
      /\ \A k \in 1 .. Len(keys) : keys[k] \in AsksOf(State', d) /\ keys[k] \in Keys
      /\ asked' = [asked EXCEPT ![d] = @ \cup added]
      /\ foreign' = [foreign EXCEPT ![d] = @ \ added]
      /\ query' = query
  BY UpdateCalls
<1>2. /\ \A e \in Docs : currentDate[e] \in Maps => Asks(e) = AsksOf(State, e)
      /\ \A e \in Docs : currentDate'[e] \in Maps => Asks(e)' = AsksOf(State', e)
      /\ \A e \in Docs : currentDate[e] \notin Maps => Asks(e) = currentDate[e]
      /\ \A e \in Docs : currentDate'[e] \notin Maps => Asks(e)' = currentDate'[e] /\ AsksOf(State', e) = {}
  BY DEF Asks, AsksOf, State
<1>3. added \subseteq AsksOf(State', d) /\ added \subseteq Keys
  BY <1>1
<1> HIDE DEF keys, added
<1>4. asked \in [Docs -> SUBSET Keys] /\ foreign \in [Docs -> SUBSET Keys] /\ query \in QueryDocs
  BY DEF TypeOK, QueryDocs
<1>5. /\ asked' \in [Docs -> SUBSET Keys] /\ foreign' \in [Docs -> SUBSET Keys]
      /\ asked'[d] = asked[d] \cup added /\ foreign'[d] = foreign[d] \ added
  BY <1>1, <1>3, <1>4
<1>6. State' \in States
  BY <1>1 DEF Called
<1>7. TypeOK'
  BY <1>1, <1>4, <1>5, <1>6 DEF TypeOK, State, States, QueryDocs
<1>8. \A e \in Docs : e # d => Same(e)
  BY <1>1, <1>4 DEF Same, Called, State
<1>9. \A e \in Docs : AsksOf(State, e) \subseteq AsksOf(State', e)
  BY <1>1 DEF Called
<1>10. ASSUME NEW e \in Docs, e # d
       PROVE  \/ Asks(e)' = Asks(e)
              \/ Asks(e) = AsksOf(State, e) /\ Asks(e)' = AsksOf(State', e)
  <2>1. currentDate'[e] = currentDate[e]
    BY <1>8, <1>10 DEF Same
  <2> QED BY <1>2, <2>1
<1>11. \A e \in Docs : e # d => Asks(e) \subseteq Asks(e)'
  BY <1>9, <1>10
<1>12. ASSUME NEW e \in Docs, e # d, Asks(e)' # Asks(e)
       PROVE  currentDate[e] = currentDate[d]
  <2>1. AsksOf(State', e) # AsksOf(State, e)
    BY <1>10, <1>12
  <2> QED BY <1>1, <1>12, <2>1 DEF Called, State
<1>13. ASSUME DocOK(d)
       PROVE  DocOK(d)'
  <2>1. CASE currentDate'[d] \notin Maps
    <3>1. currentDate'[d] = currentDate[d]
      BY <1>1, <2>1 DEF Called, State
    <3>2. added = {}
      BY <1>2, <1>3, <2>1
    <3> QED BY <1>2, <1>5, <1>13, <2>1, <3>1, <3>2 DEF DocOK
  <2>2. CASE currentDate'[d] \in Maps /\ currentDate[d] \in Maps
    <3>1. Asks(d) \subseteq Asks(d)' /\ added \subseteq Asks(d)'
      BY <1>2, <1>3, <1>9, <2>2
    <3> QED BY <1>5, <1>13, <2>2, <3>1 DEF DocOK
  <2>3. CASE currentDate'[d] \in Maps /\ currentDate[d] \notin Maps
    <3>1. added \subseteq Asks(d)' /\ asked[d] \subseteq foreign[d]
      BY <1>2, <1>3, <1>13, <2>3 DEF DocOK
    <3> QED BY <1>5, <2>3, <3>1 DEF DocOK
  <2> QED BY <2>1, <2>2, <2>3
<1> QED BY <1>7, <1>8, <1>11, <1>12, <1>13

-----------------------------------------------------------------------------
(* Besides OnlyForeignLost: as long as a document has a $currentDate that   *)
(* is not a bson.M, all it was asked for is what its caller put there.      *)
ForeignKept == TypeOK /\ \A d \in Docs : DocOK(d)

LEMMA ForeignKeptStep ==
  ASSUME ForeignKept, [Next]_vars
  PROVE  ForeignKept'
<1> USE DEF ForeignKept
<1>1. ASSUME NEW d \in Docs, NewDoc(d)
      PROVE  ForeignKept'
  <2>1. TypeOK' /\ DocOK(d)' /\ \A e \in Docs : e # d => Asks(e)' = Asks(e) /\ Same(e)
    BY <1>1, NewDocAlone
  <2> QED BY <2>1 DEF DocOK, Same
<1>2. ASSUME NEW d \in Docs, NEW c \in Docs, ShallowCopy(d, c)
      PROVE  ForeignKept'
  <2>1. TypeOK' /\ \A e \in Docs : e # c => Asks(e)' = Asks(e) /\ Same(e)
    BY <1>2, CopyAlone
  <2>2. /\ Asks(c)' = Asks(d) /\ currentDate'[c] = currentDate[d]
        /\ asked'[c] = asked[d] /\ foreign'[c] = foreign[d]
    BY <1>2, CopyAlone
  <2>3. DocOK(c)'
    BY <2>2 DEF DocOK
  <2> QED BY <2>1, <2>3 DEF DocOK, Same
<1>3. ASSUME NEW d \in Docs, NEW form \in {"last updated", "unique timestamp", "updates"},
             NEW prefixes \in PrefixLists, Update(d, form, prefixes)
      PROVE  ForeignKept'
  <2>1. TypeOK' /\ DocOK(d)' /\ \A e \in Docs : e # d => Same(e) /\ Asks(e) \subseteq Asks(e)'
    BY <1>3, UpdateAlone
  <2>2. ASSUME NEW e \in Docs, e # d
        PROVE  DocOK(e)'
    <3>1. DocOK(e) /\ Same(e) /\ Asks(e) \subseteq Asks(e)'
      BY <2>1, <2>2
    <3> QED BY <3>1 DEF DocOK, Same
  <2> QED BY <2>1, <2>2
<1>4. ASSUME NEW timestamps \in TimestampLists, NEW prefixes \in PrefixLists, Query(timestamps, prefixes)
      PROVE  ForeignKept'
  <2>1. query' \in QueryDocs
    BY <1>4, QueryKeepsType
  <2>2. UNCHANGED <<currentDate, entries, asked, foreign>>
    BY <1>4 DEF Query
  <2> QED BY <2>1, <2>2 DEF TypeOK, QueryDocs, Asks, DocOK
<1>5. ASSUME UNCHANGED vars
      PROVE  ForeignKept'
  BY <1>5 DEF vars, TypeOK, Asks, DocOK
<1> QED BY <1>1, <1>2, <1>3, <1>4, <1>5 DEF Next

LEMMA ForeignKeptAlways == Spec => []ForeignKept
<1>1. Init => ForeignKept
  <2> SUFFICES ASSUME Init PROVE ForeignKept
    OBVIOUS
  <2>1. MaxStamp \in Nat
    BY TimestampsAssumption
  <2> QED BY <2>1 DEF Init, ForeignKept, DocOK, TypeOK, Asks, CurrentDates
<1>2. ForeignKept /\ [Next]_vars => ForeignKept'
  BY ForeignKeptStep
<1> QED BY <1>1, <1>2, PTL DEF Spec

(* Whatever functions are called on whatever documents in whatever order,   *)
(* a document asks for every timestamp it was given and for what its caller *)
(* had put in it, except what the caller had put in a $currentDate that is  *)
(* not a bson.M (timestamp_utils.go:24-60).                                 *)
THEOREM LosesOnlyForeign == Spec => []OnlyForeignLost
<1>1. ForeignKept => OnlyForeignLost
  BY DEF ForeignKept, DocOK, OnlyForeignLost
<1> QED BY <1>1, ForeignKeptAlways, PTL

(* A query has, for every prefix, the timestamp at the last place of the    *)
(* prefix, and the call, with a query document that is not nil, panics just *)
(* when a timestamp is missing (timestamp_utils.go:98-104).                                             *)
THEOREM PairsInOrder == Spec => []QueryPairs
<1>1. TypeOK => QueryPairs
  <2> SUFFICES ASSUME TypeOK, NEW timestamps \in TimestampLists, NEW prefixes \in PrefixLists
               PROVE  LET r == WithNamespacedUniqueTimestampQuery(query, timestamps, prefixes)
                          places(p) == {i \in DOMAIN prefixes \cap DOMAIN timestamps : prefixes[i] = p}
                      IN  /\ r.panics <=> (Len(prefixes) > Len(timestamps))
                          /\ \A p \in Namespaces :
                               IF places(p) = {} THEN r.doc[p] = query[p]
                               ELSE \E i \in places(p) :
                                      r.doc[p] = timestamps[i] /\ \A j \in places(p) : j <= i
    BY DEF QueryPairs
  <2> DEFINE r == WithNamespacedUniqueTimestampQuery(query, timestamps, prefixes)
             places(p) == {i \in DOMAIN prefixes \cap DOMAIN timestamps : prefixes[i] = p}
             last == IF Len(prefixes) <= Len(timestamps) THEN Len(prefixes) ELSE Len(timestamps)
  <2>1. query \in QueryDocs
    BY DEF TypeOK, QueryDocs
  <2>2. /\ r.panics <=> (Len(prefixes) > Len(timestamps))
        /\ 1 .. last = DOMAIN prefixes \cap DOMAIN timestamps
        /\ BoundTo(query, r.doc, timestamps, prefixes, last)
    BY <2>1, AllBound
  <2> HIDE DEF r, last
  <2>3. ASSUME NEW p \in Namespaces
        PROVE  IF places(p) = {} THEN r.doc[p] = query[p]
               ELSE \E i \in places(p) : r.doc[p] = timestamps[i] /\ \A j \in places(p) : j <= i
    <3>1. places(p) = {i \in 1 .. last : prefixes[i] = p}
      BY <2>2
    <3> QED BY <2>2, <3>1 DEF BoundTo
  <2> QED BY <2>2, <2>3 DEF r
<1>2. ForeignKept => TypeOK
  BY DEF ForeignKept
<1> QED BY <1>1, <1>2, ForeignKeptAlways, PTL

(* Two documents that change together had a $currentDate in common before   *)
(* the call (timestamp_utils.go:28-37).                                     *)
THEOREM SharersAlone == Spec => OnlySharersChange
<1> DEFINE Alone == \A d, e \in Docs :
             d # e /\ Asks(d)' # Asks(d) /\ Asks(e)' # Asks(e) => currentDate[d] = currentDate[e]
<1>1. TypeOK /\ [Next]_vars => [Alone]_vars
  <2> SUFFICES ASSUME TypeOK, Next PROVE Alone
    OBVIOUS
  <2>1. ASSUME NEW d \in Docs, NewDoc(d)
        PROVE  Alone
    <3>1. \A e \in Docs : e # d => Asks(e)' = Asks(e)
      BY <2>1, NewDocAlone
    <3> QED BY <3>1
  <2>2. ASSUME NEW d \in Docs, NEW c \in Docs, ShallowCopy(d, c)
        PROVE  Alone
    <3>1. \A e \in Docs : e # c => Asks(e)' = Asks(e)
      BY <2>2, CopyAlone
    <3> QED BY <3>1
  <2>3. ASSUME NEW d \in Docs, NEW form \in {"last updated", "unique timestamp", "updates"},
               NEW prefixes \in PrefixLists, Update(d, form, prefixes)
        PROVE  Alone
    <3>1. \A e \in Docs : e # d /\ Asks(e)' # Asks(e) => currentDate[e] = currentDate[d]
      BY <2>3, UpdateAlone
    <3> QED BY <3>1
  <2>4. ASSUME NEW timestamps \in TimestampLists, NEW prefixes \in PrefixLists, Query(timestamps, prefixes)
        PROVE  Alone
    <3>1. UNCHANGED <<currentDate, entries, asked, foreign>>
      BY <2>4 DEF Query
    <3>2. \A e \in Docs : Asks(e)' = Asks(e)
      BY <3>1 DEF Asks
    <3> QED BY <3>2
  <2> QED BY <2>1, <2>2, <2>3, <2>4 DEF Next
<1>2. ForeignKept => TypeOK
  BY DEF ForeignKept
<1> QED BY <1>1, <1>2, ForeignKeptAlways, PTL DEF Spec, OnlySharersChange
=============================================================================
