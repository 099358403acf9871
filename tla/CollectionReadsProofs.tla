------------------------ MODULE CollectionReadsProofs ------------------------
(***************************************************************************)
(* Theorems about what the reads of Collection deliver and what it returns: *)
(* the options of a call, in any order and number, ask the driver for what *)
(* they say together, and the driver's page of the documents is the one    *)
(* they say.  newFindOptions is a loop: see RecursionProofs.               *)
(***************************************************************************)
EXTENDS CollectionProofs, RecursionProofs, FiniteSetTheorems

-----------------------------------------------------------------------------
(* The options.                                                             *)

FindOptionsType ==
  [limit : Int, skip : Nat, sort : Int, obeyZeroLimit : BOOLEAN, returnDocument : {"before", "after"}]

(* v is the argument at the last of the places T, or default.               *)
SettledBy(v, T, opts, default) ==
  IF T = {} THEN v = default ELSE \E k \in T : v = opts[k].arg /\ \A j \in T : j <= k

Named(opts, n, name) == {k \in 1 .. n : opts[k].name = name}

ZeroAt(opts, n) ==
  \E k \in 1 .. n :
    opts[k] = Limit(0) /\ \A j \in 1 .. n : j > k => opts[j].name # "IgnoreZeroLimit"

(* What the first n options have made of the zero findOptions.              *)
Made(fo, opts, n) ==
  /\ fo \in FindOptionsType
  /\ SettledBy(fo.limit, Named(opts, n, "Limit"), opts, 0)
  /\ SettledBy(fo.skip, Named(opts, n, "Offset"), opts, 0)
  /\ SettledBy(fo.sort, Named(opts, n, "Sort"), opts, 0)
  /\ SettledBy(fo.returnDocument, Named(opts, n, "ReturnDocument"), opts, "before")
  /\ fo.obeyZeroLimit <=> ZeroAt(opts, n)

LEMMA NamedGrows ==
  ASSUME NEW n \in Nat, NEW opts, NEW name
  PROVE  Named(opts, n + 1, name) =
           Named(opts, n, name) \cup (IF opts[n + 1].name = name THEN {n + 1} ELSE {})
<1>1. \A k : k \in 1 .. n + 1 <=> k \in 1 .. n \/ k = n + 1
  OBVIOUS
<1> QED BY <1>1 DEF Named

LEMMA SettledNext ==
  ASSUME NEW n \in Nat, NEW opts, NEW name, NEW v, NEW w, NEW default,
         SettledBy(v, Named(opts, n, name), opts, default),
         IF opts[n + 1].name = name THEN w = opts[n + 1].arg ELSE w = v
  PROVE  SettledBy(w, Named(opts, n + 1, name), opts, default)
<1> DEFINE T == Named(opts, n, name)
<1>1. CASE opts[n + 1].name = name
  <2>1. Named(opts, n + 1, name) = T \cup {n + 1}
    BY <1>1, NamedGrows
  <2>2. \A j \in T \cup {n + 1} : j <= n + 1
    BY DEF Named
  <2> HIDE DEF T
  <2> QED BY <1>1, <2>1, <2>2 DEF SettledBy
<1>2. CASE opts[n + 1].name # name
  <2>1. Named(opts, n + 1, name) = T \cup {}
    BY <1>2, NamedGrows
  <2>2. T \cup {} = T
    OBVIOUS
  <2> QED BY <1>2, <2>1, <2>2
<1> QED BY <1>1, <1>2

(* An option, by its name.                                                  *)
LEMMA OptionTypes ==
  ASSUME NEW o \in FindOption
  PROVE  /\ o.name \in {"Limit", "Offset", "Sort", "ReturnDocument", "IgnoreZeroLimit"}
         /\ o.name \in {"Limit", "Sort"} => o.arg \in Int
         /\ o.name = "Offset" => o.arg \in Nat
         /\ o.name = "ReturnDocument" => o.arg \in {"before", "after"}
         /\ o = Limit(0) <=> o.name = "Limit" /\ o.arg = 0
<1>1. CASE o \in [name : {"Limit", "Sort"}, arg : Int]
  BY <1>1 DEF Limit
<1>2. CASE o \in [name : {"Offset"}, arg : Nat]
  BY <1>2 DEF Limit
<1>3. CASE o \in [name : {"ReturnDocument"}, arg : {"before", "after"}]
  BY <1>3 DEF Limit
<1>4. CASE o = IgnoreZeroLimit
  BY <1>4 DEF IgnoreZeroLimit, Limit
<1> QED BY <1>1, <1>2, <1>3, <1>4 DEF FindOption

LEMMA ApplyMakes ==
  ASSUME NEW fo \in FindOptionsType, NEW o \in FindOption
  PROVE  LET f == Apply(fo, o)
         IN  /\ f \in FindOptionsType
             /\ f.limit = IF o.name = "Limit" THEN o.arg ELSE fo.limit
             /\ f.skip = IF o.name = "Offset" THEN o.arg ELSE fo.skip
             /\ f.sort = IF o.name = "Sort" THEN o.arg ELSE fo.sort
             /\ f.returnDocument = IF o.name = "ReturnDocument" THEN o.arg ELSE fo.returnDocument
             /\ f.obeyZeroLimit = IF o.name = "Limit" THEN fo.obeyZeroLimit \/ o.arg = 0
                                  ELSE IF o.name = "IgnoreZeroLimit" THEN FALSE ELSE fo.obeyZeroLimit
<1>1. /\ o.name \in {"Limit", "Offset", "Sort", "ReturnDocument", "IgnoreZeroLimit"}
      /\ o.name \in {"Limit", "Sort"} => o.arg \in Int
      /\ o.name = "Offset" => o.arg \in Nat
      /\ o.name = "ReturnDocument" => o.arg \in {"before", "after"}
  BY OptionTypes
<1>2. CASE o.name = "Limit"
  BY <1>1, <1>2 DEF Apply, FindOptionsType
<1>3. CASE o.name = "Offset"
  BY <1>1, <1>3 DEF Apply, FindOptionsType
<1>4. CASE o.name = "Sort"
  BY <1>1, <1>4 DEF Apply, FindOptionsType
<1>5. CASE o.name = "ReturnDocument"
  BY <1>1, <1>5 DEF Apply, FindOptionsType
<1>6. CASE o.name = "IgnoreZeroLimit"
  BY <1>1, <1>6 DEF Apply, FindOptionsType
<1> QED BY <1>1, <1>2, <1>3, <1>4, <1>5, <1>6

LEMMA MadeNext ==
  ASSUME NEW n \in Nat, NEW opts, NEW fo, opts[n + 1] \in FindOption, Made(fo, opts, n)
  PROVE  Made(Apply(fo, opts[n + 1]), opts, n + 1)
<1> DEFINE o == opts[n + 1]
           f == Apply(fo, o)
<1>1. fo \in FindOptionsType
  BY DEF Made
<1>2. /\ f \in FindOptionsType
      /\ f.limit = IF o.name = "Limit" THEN o.arg ELSE fo.limit
      /\ f.skip = IF o.name = "Offset" THEN o.arg ELSE fo.skip
      /\ f.sort = IF o.name = "Sort" THEN o.arg ELSE fo.sort
      /\ f.returnDocument = IF o.name = "ReturnDocument" THEN o.arg ELSE fo.returnDocument
      /\ f.obeyZeroLimit = IF o.name = "Limit" THEN fo.obeyZeroLimit \/ o.arg = 0
                           ELSE IF o.name = "IgnoreZeroLimit" THEN FALSE ELSE fo.obeyZeroLimit
  BY <1>1, ApplyMakes
<1>3. o.name \in {"Limit", "Offset", "Sort", "ReturnDocument", "IgnoreZeroLimit"}
      /\ (o = Limit(0) <=> o.name = "Limit" /\ o.arg = 0)
  BY OptionTypes
<1> HIDE DEF f
<1>4. SettledBy(f.limit, Named(opts, n + 1, "Limit"), opts, 0)
  BY <1>2, SettledNext DEF Made
<1>5. SettledBy(f.skip, Named(opts, n + 1, "Offset"), opts, 0)
  BY <1>2, SettledNext DEF Made
<1>6. SettledBy(f.sort, Named(opts, n + 1, "Sort"), opts, 0)
  BY <1>2, SettledNext DEF Made
<1>7. SettledBy(f.returnDocument, Named(opts, n + 1, "ReturnDocument"), opts, "before")
  BY <1>2, SettledNext DEF Made
<1>8. f.obeyZeroLimit <=> ZeroAt(opts, n + 1)
  <2>1. /\ \A k \in 1 .. n + 1 : k = n + 1 \/ k \in 1 .. n
        /\ n + 1 \in 1 .. n + 1 /\ \A k \in 1 .. n : k \in 1 .. n + 1 /\ n + 1 > k
        /\ \A j \in 1 .. n + 1 : ~(j > n + 1)
    OBVIOUS
  <2>2. fo.obeyZeroLimit <=> ZeroAt(opts, n)
    BY DEF Made
  <2>3. fo.obeyZeroLimit \in BOOLEAN
    BY <1>1 DEF FindOptionsType
  <2>4. CASE o = Limit(0)
    <3>1. ZeroAt(opts, n + 1)
      BY <2>1, <2>4 DEF ZeroAt
    <3> QED BY <1>2, <1>3, <2>3, <2>4, <3>1
  <2>5. CASE o.name = "IgnoreZeroLimit"
    <3>1. ~ZeroAt(opts, n + 1)
      BY <1>3, <2>1, <2>5 DEF ZeroAt
    <3> QED BY <1>2, <2>5, <3>1
  <2>6. CASE o # Limit(0) /\ o.name # "IgnoreZeroLimit"
    <3>1. ZeroAt(opts, n + 1) <=> ZeroAt(opts, n)
      BY <2>1, <2>6 DEF ZeroAt
    <3>2. f.obeyZeroLimit = fo.obeyZeroLimit
      BY <1>2, <1>3, <2>3, <2>6
    <3> QED BY <2>2, <3>1, <3>2
  <2> QED BY <2>4, <2>5, <2>6
<1> QED BY <1>2, <1>4, <1>5, <1>6, <1>7, <1>8 DEF Made, f

LEMMA MadeOfNone ==
  ASSUME NEW opts
  PROVE  Made(NoOptions, opts, 0)
<1>1. \A name : Named(opts, 0, name) = {}
  BY DEF Named
<1>2. ~ZeroAt(opts, 0)
  BY DEF ZeroAt
<1>3. NoOptions \in FindOptionsType
  BY DEF NoOptions, FindOptionsType
<1> QED BY <1>1, <1>2, <1>3 DEF Made, SettledBy, NoOptions

(* newFindOptions is what all the options have made.                        *)
LEMMA OptionsMade ==
  ASSUME NEW opts \in Seq(FindOption)
  PROVE  Made(newFindOptions(opts), opts, Len(opts))
<1> DEFINE N == Len(opts)
           F == CHOOSE f : f = [n \in 0 .. N |-> IF n = 0 THEN NoOptions ELSE Apply(f[n - 1], opts[n])]
           step == [n \in 1 .. N |-> [fo \in FindOptionsType |-> Apply(fo, opts[n])]]
<1>1. N \in Nat /\ \A n \in 1 .. N : opts[n] \in FindOption
  BY LenProperties
<1>2. newFindOptions(opts) = F[N]
  BY DEF newFindOptions
<1> HIDE DEF N
<1>3. step \in Steps(N, FindOptionsType)
  <2>1. \A n \in 1 .. N : \A fo \in FindOptionsType : Apply(fo, opts[n]) \in FindOptionsType
    BY <1>1, ApplyMakes
  <2> QED BY <2>1 DEF Steps
<1>4. \A n \in 1 .. N : \A fo \in FindOptionsType : step[n][fo] = Apply(fo, opts[n])
  OBVIOUS
<1> HIDE DEF step
<1>5. PICK g \in [0 .. N -> FindOptionsType] :
        g[0] = NoOptions /\ \A n \in 1 .. N : g[n] = step[n][g[n - 1]]
  <2>1. NoOptions \in FindOptionsType
    BY MadeOfNone DEF Made
  <2>2. Recursions(N, FindOptionsType, NoOptions, step) # {}
    BY <1>1, <1>3, <2>1, Recurs
  <2> QED BY <2>2 DEF Recursions
<1>6. ASSUME NEW n \in 0 .. N
      PROVE  g[n] = IF n = 0 THEN NoOptions ELSE Apply(g[n - 1], opts[n])
  <2>1. CASE n # 0
    <3>1. n \in 1 .. N /\ n - 1 \in 0 .. N
      BY <1>1, <2>1
    <3>2. g[n - 1] \in FindOptionsType
      BY <3>1
    <3> QED BY <1>4, <1>5, <3>1, <3>2
  <2> QED BY <1>5, <2>1
<1>7. g = [n \in 0 .. N |-> IF n = 0 THEN NoOptions ELSE Apply(g[n - 1], opts[n])]
  BY <1>6
<1>8. F = [n \in 0 .. N |-> IF n = 0 THEN NoOptions ELSE Apply(F[n - 1], opts[n])]
  BY <1>7, Zenon
<1> HIDE DEF F
<1> DEFINE S == {n \in 0 .. N : Made(F[n], opts, n)}
<1>9. 0 \in S
  <2>1. 0 \in 0 .. N
    BY <1>1
  <2>2. F[0] = NoOptions
    BY <1>8, <2>1
  <2> QED BY <2>1, <2>2, MadeOfNone
<1>10. ASSUME NEW n \in 0 .. N - 1, n \in S
       PROVE  n + 1 \in S
  <2>1. n \in Nat /\ n + 1 \in 0 .. N /\ n + 1 \in 1 .. N /\ n + 1 # 0 /\ (n + 1) - 1 = n
    BY <1>1
  <2>2. F[n + 1] = Apply(F[n], opts[n + 1])
    BY <1>8, <2>1
  <2>3. Made(F[n + 1], opts, n + 1)
    BY <1>1, <1>10, <2>1, <2>2, MadeNext
  <2> QED BY <2>1, <2>3
<1>11. Made(F[N], opts, N)
  <2>1. 0 .. N \subseteq S
    <3> HIDE DEF S
    <3> QED BY <1>1, <1>9, <1>10, UpTo
  <2>2. N \in 0 .. N
    BY <1>1
  <2> QED BY <2>1, <2>2
<1> QED BY <1>2, <1>11 DEF N

LEMMA SettledIsLast ==
  ASSUME NEW opts \in Seq(FindOption), NEW name, NEW v, NEW default,
         SettledBy(v, Named(opts, Len(opts), name), opts, default)
  PROVE  LastArg(opts, name, default) = v
<1> DEFINE at == {k \in DOMAIN opts : opts[k].name = name}
<1>1. at = Named(opts, Len(opts), name) /\ at \subseteq Nat
  BY LenProperties DEF Named
<1>2. LastArg(opts, name, default) =
        IF at = {} THEN default ELSE opts[CHOOSE k \in at : \A j \in at : j <= k].arg
  BY DEF LastArg
<1> HIDE DEF at
<1>3. CASE at = {}
  BY <1>1, <1>2, <1>3 DEF SettledBy
<1>4. CASE at # {}
  <2>1. PICK k \in at : v = opts[k].arg /\ \A j \in at : j <= k
    BY <1>1, <1>4 DEF SettledBy
  <2> DEFINE last == CHOOSE i \in at : \A j \in at : j <= i
  <2>2. last \in at /\ \A j \in at : j <= last
    BY <2>1
  <2> HIDE DEF last
  <2>3. last = k
    BY <1>1, <2>1, <2>2
  <2>4. LastArg(opts, name, default) = opts[last].arg
    BY <1>2, <1>4 DEF last
  <2> QED BY <2>1, <2>3, <2>4
<1> QED BY <1>3, <1>4

(* What options ask for is what newFindOptions makes of them.               *)
AskedBy(fo) ==
  [limit |-> fo.limit, offset |-> fo.skip, sort |-> fo.sort, zero |-> fo.obeyZeroLimit,
   returnDocument |-> fo.returnDocument]

LEMMA OptionsAsk ==
  ASSUME NEW opts \in Seq(FindOption)
  PROVE  newFindOptions(opts) \in FindOptionsType /\ Asked(opts) = AskedBy(newFindOptions(opts))
<1> DEFINE fo == newFindOptions(opts)
           n == Len(opts)
<1>1. Made(fo, opts, n)
  BY OptionsMade
<1>2. DOMAIN opts = 1 .. n
  BY LenProperties
<1> HIDE DEF fo, n
<1>3. /\ fo \in FindOptionsType
      /\ LastArg(opts, "Limit", 0) = fo.limit
      /\ LastArg(opts, "Offset", 0) = fo.skip
      /\ LastArg(opts, "Sort", 0) = fo.sort
      /\ LastArg(opts, "ReturnDocument", "before") = fo.returnDocument
  BY <1>1, SettledIsLast DEF Made, n
<1>4. ZeroLimit(opts) <=> ZeroAt(opts, n)
  BY <1>2 DEF ZeroLimit, ZeroAt
<1>5. ZeroLimit(opts) = fo.obeyZeroLimit
  BY <1>1, <1>3, <1>4 DEF Made, FindOptionsType, ZeroLimit
<1>6. Asked(opts) = AskedBy(fo)
  BY <1>3, <1>5 DEF Asked, AskedBy
<1> QED BY <1>3, <1>6 DEF fo

-----------------------------------------------------------------------------
(* The pages.                                                               *)

(* The numbers before i among ids, where key orders them.                   *)
Under(ids, key, i) == {j \in ids : key[j] < key[i]}

Rank(ids, key, i) == Cardinality(Under(ids, key, i))

LEMMA RankType ==
  ASSUME NEW ids, IsFiniteSet(ids), NEW key \in [ids -> Int], NEW i
  PROVE  IsFiniteSet(Under(ids, key, i)) /\ Rank(ids, key, i) \in Nat
<1>1. Under(ids, key, i) \subseteq ids
  BY DEF Under
<1> QED BY <1>1, FS_Subset, FS_CardinalityType DEF Rank

LEMMA RankBelow ==
  ASSUME NEW ids, IsFiniteSet(ids), NEW key \in [ids -> Int], NEW i \in ids
  PROVE  Rank(ids, key, i) < Cardinality(ids)
<1> DEFINE U == Under(ids, key, i)
<1>1. U \in SUBSET ids /\ i \in ids /\ i \notin U
  BY DEF Under
<1>2. Cardinality(U) <= Cardinality(ids) /\ (Cardinality(ids) = Cardinality(U) => ids = U)
  BY <1>1, FS_Subset
<1>3. Cardinality(U) \in Nat /\ Cardinality(ids) \in Nat
  BY RankType, FS_CardinalityType DEF Rank
<1> QED BY <1>1, <1>2, <1>3 DEF Rank

LEMMA RankGrows ==
  ASSUME NEW ids, IsFiniteSet(ids), NEW key \in [ids -> Int], NEW i \in ids, NEW j \in ids, key[i] < key[j]
  PROVE  Rank(ids, key, i) < Rank(ids, key, j)
<1> DEFINE U == Under(ids, key, i)
           V == Under(ids, key, j)
<1>1. U \in SUBSET V /\ i \in V /\ i \notin U
  <2>1. key[i] \in Int /\ key[j] \in Int /\ \A k \in ids : key[k] \in Int
    OBVIOUS
  <2> QED BY <2>1 DEF Under
<1>2. IsFiniteSet(U) /\ IsFiniteSet(V) /\ Cardinality(U) \in Nat /\ Cardinality(V) \in Nat
  BY RankType DEF Rank
<1>3. Cardinality(U) <= Cardinality(V) /\ (Cardinality(V) = Cardinality(U) => V = U)
  BY <1>1, <1>2, FS_Subset
<1> QED BY <1>1, <1>2, <1>3 DEF Rank

(* The first k of ids are as many as that, or all there are.                *)
LEMMA FirstOf ==
  ASSUME NEW ids, IsFiniteSet(ids), NEW key \in [ids -> Nat],
         \A i, j \in ids : key[i] = key[j] => i = j, NEW K \in Nat
  PROVE  LET first == {i \in ids : Rank(ids, key, i) < K}
         IN  /\ IsFiniteSet(first)
             /\ Cardinality(first) = IF K < Cardinality(ids) THEN K ELSE Cardinality(ids)
<1> DEFINE First(k) == {i \in ids : Rank(ids, key, i) < k}
           Size == Cardinality(ids)
           S == {k \in 0 .. K : Cardinality(First(k)) = IF k < Size THEN k ELSE Size}
<1>0. key \in [ids -> Int] /\ \A i \in ids : key[i] \in Nat
  OBVIOUS
<1>1. Size \in Nat /\ \A k : IsFiniteSet(First(k)) /\ Cardinality(First(k)) \in Nat
  <2>1. \A k : First(k) \subseteq ids
    OBVIOUS
  <2> QED BY <2>1, FS_Subset, FS_CardinalityType
<1>2. \A i \in ids : Rank(ids, key, i) \in Nat
  BY <1>0, RankType
<1>3. 0 \in S
  <2>1. First(0) = {}
    BY <1>2
  <2> HIDE DEF First
  <2> QED BY <1>1, <2>1, FS_EmptySet
<1>4. ASSUME NEW k \in 0 .. K - 1, k \in S
      PROVE  k + 1 \in S
  <2>0. k \in Nat /\ k + 1 \in 0 .. K /\ Cardinality(First(k)) = IF k < Size THEN k ELSE Size
    BY <1>4
  <2>1. CASE k >= Size
    <3>1. \A i \in ids : Rank(ids, key, i) < Size
      BY <1>0, RankBelow
    <3>2. First(k + 1) = First(k)
      BY <1>1, <1>2, <2>0, <2>1, <3>1
    <3> HIDE DEF First
    <3> QED BY <1>1, <2>0, <2>1, <3>2
  <2>2. CASE k < Size
    <3> DEFINE rest == ids \ First(k)
    <3>1. rest # {}
      <4> SUFFICES ASSUME rest = {} PROVE FALSE
        OBVIOUS
      <4>1. First(k) = ids
        OBVIOUS
      <4> HIDE DEF First
      <4> QED BY <1>1, <2>0, <2>2, <4>1
    <3> DEFINE keys == {key[i] : i \in rest}
    <3>2. keys \subseteq Nat /\ keys # {}
      BY <1>0, <3>1
    <3>3. PICK least \in keys : \A l \in keys : least <= l
      <4> HIDE DEF keys
      <4> QED BY <3>2, LeastNat
    <3>4. PICK m \in rest : key[m] = least
      OBVIOUS
    <3>5. \A i \in rest : key[m] <= key[i]
      BY <3>3, <3>4
    <3>6. Under(ids, key, m) = First(k)
      <4>1. ASSUME NEW i \in ids, key[i] < key[m]
            PROVE  i \in First(k)
        <5> HIDE DEF First
        <5>1. key[i] \in Nat /\ key[m] \in Nat /\ ~(key[m] <= key[i])
          BY <1>0, <4>1
        <5> QED BY <3>5, <5>1
      <4>2. ASSUME NEW i \in First(k), ~(key[i] < key[m])
            PROVE  FALSE
        <5>1. i \in ids /\ m \in ids /\ Rank(ids, key, i) < k /\ ~(Rank(ids, key, m) < k)
          OBVIOUS
        <5>2. key[i] \in Nat /\ key[m] \in Nat /\ key[i] # key[m]
          BY <1>0, <5>1
        <5>3. key[m] < key[i]
          BY <4>2, <5>2
        <5>4. Rank(ids, key, m) < Rank(ids, key, i)
          BY <1>0, <5>1, <5>3, RankGrows
        <5> QED BY <1>2, <2>0, <5>1, <5>4
      <4> HIDE DEF rest
      <4>3. First(k) \subseteq ids
        OBVIOUS
      <4> HIDE DEF First
      <4> QED BY <4>1, <4>2, <4>3 DEF Under
    <3>7. Rank(ids, key, m) = k
      <4> HIDE DEF First
      <4> QED BY <2>0, <2>2, <3>6 DEF Rank
    <3>8. ASSUME NEW i \in ids, Rank(ids, key, i) = k
          PROVE  i = m
      <4>1. key[i] \in Nat /\ key[m] \in Nat /\ m \in ids
        BY <1>0
      <4>2. ~(key[i] < key[m]) /\ ~(key[m] < key[i])
        BY <1>0, <1>2, <2>0, <3>7, <3>8, <4>1, RankGrows
      <4> QED BY <4>1, <4>2
    <3>9. First(k + 1) = First(k) \cup {m}
      <4>1. \A i \in ids : Rank(ids, key, i) < k + 1 <=> Rank(ids, key, i) < k \/ Rank(ids, key, i) = k
        BY <1>2, <2>0
      <4>2. m \in ids
        OBVIOUS
      <4> HIDE DEF rest
      <4> QED BY <3>7, <3>8, <4>1, <4>2
    <3>10. m \notin First(k)
      OBVIOUS
    <3> HIDE DEF First
    <3>11. Cardinality(First(k + 1)) = Cardinality(First(k)) + 1
      BY <1>1, <3>9, <3>10, FS_AddElement
    <3> QED BY <1>1, <2>0, <2>2, <3>11
  <2> QED BY <1>1, <2>0, <2>1, <2>2
<1>5. K \in S
  <2>1. 0 .. K \subseteq S
    <3> HIDE DEF S
    <3> QED BY <1>3, <1>4, UpTo
  <2> QED BY <2>1
<1> QED BY <1>1, <1>5

(* The order of a sort: by _id, from the last one if it is descending.      *)
KeyOf(ids, sort) == [i \in ids |-> IF sort < 0 THEN MaxId - i ELSE i]

LEMMA IdsFinite ==
  ASSUME NEW ids, ids \subseteq Ids
  PROVE  IsFiniteSet(ids) /\ Cardinality(ids) \in Nat
<1>1. IsFiniteSet(Ids)
  BY ReplicaSetAssumption, FS_Interval DEF Ids
<1> QED BY <1>1, FS_Subset, FS_CardinalityType

LEMMA KeyOrders ==
  ASSUME NEW ids, ids \subseteq Ids, NEW sort \in Int
  PROVE  /\ KeyOf(ids, sort) \in [ids -> Nat]
         /\ \A i, j \in ids : KeyOf(ids, sort)[i] = KeyOf(ids, sort)[j] => i = j
<1>1. MaxId \in Nat /\ \A i \in ids : i \in Nat /\ i <= MaxId
  BY ReplicaSetAssumption DEF Ids
<1>2. \A i \in ids : (IF sort < 0 THEN MaxId - i ELSE i) \in Nat
  BY <1>1
<1> QED BY <1>1, <1>2 DEF KeyOf

LEMMA KeyOrder ==
  ASSUME NEW ids, ids \subseteq Ids, NEW sort \in Int, NEW i \in ids, NEW j \in ids
  PROVE  KeyOf(ids, sort)[j] < KeyOf(ids, sort)[i] <=> IF sort < 0 THEN j > i ELSE j < i
<1>1. MaxId \in Nat /\ i \in Nat /\ i <= MaxId /\ j \in Nat /\ j <= MaxId
  BY ReplicaSetAssumption DEF Ids
<1> QED BY <1>1 DEF KeyOf

LEMMA PageRanks ==
  ASSUME NEW ids, ids \subseteq Ids, NEW a, NEW sort \in Int, a.sort = sort, NEW size
  PROVE  Page(a, ids, size) =
           {i \in ids : /\ a.offset <= Rank(ids, KeyOf(ids, sort), i)
                        /\ size > 0 => Rank(ids, KeyOf(ids, sort), i) < a.offset + size}
<1> DEFINE before(i) == {j \in ids : IF sort < 0 THEN j > i ELSE j < i}
           key == KeyOf(ids, sort)
<1>1. ASSUME NEW i \in ids, NEW j \in ids
      PROVE  key[j] < key[i] <=> IF sort < 0 THEN j > i ELSE j < i
  BY KeyOrder
<1> HIDE DEF key
<1>2. \A i \in ids : before(i) = Under(ids, key, i)
  BY <1>1 DEF Under
<1>3. \A i \in ids : Cardinality(before(i)) = Rank(ids, key, i)
  BY <1>2 DEF Rank
<1>4. Page(a, ids, size) =
        {i \in ids : a.offset <= Cardinality(before(i)) /\ (size > 0 => Cardinality(before(i)) < a.offset + size)}
  BY DEF Page
<1> HIDE DEF before
<1> QED BY <1>3, <1>4 DEF key

LEMMA PositionRanks ==
  ASSUME NEW ids, ids \subseteq Ids, NEW sort \in Int, NEW i \in ids
  PROVE  Position(ids, sort, i) = Rank(ids, KeyOf(ids, sort), i) + 1
<1> DEFINE key == KeyOf(ids, sort)
           U == Under(ids, key, i)
<1>1. \A j \in ids : key[j] < key[i] <=> IF sort < 0 THEN j > i ELSE j < i
  BY KeyOrder
<1>2. \A j \in ids : j \in Int /\ i \in Int
  BY DEF Ids
<1>3. {j \in ids : IF sort < 0 THEN j >= i ELSE j <= i} = U \cup {i} /\ i \notin U
  <2> HIDE DEF key
  <2> QED BY <1>1, <1>2 DEF Under
<1>4. IsFiniteSet(U)
  <2>1. U \subseteq ids
    BY DEF Under
  <2> QED BY <2>1, IdsFinite, FS_Subset
<1> HIDE DEF U
<1>5. Cardinality(U \cup {i}) = Cardinality(U) + 1
  BY <1>3, <1>4, FS_AddElement
<1> QED BY <1>3, <1>5 DEF Position, Rank, U

LEMMA IdRanks ==
  ASSUME NEW ids, ids \subseteq Ids, NEW sort \in Int, NEW i \in ids
  PROVE  Rank(ids, KeyOf(ids, sort), i) \in 0 .. Cardinality(ids) - 1
<1>1. KeyOf(ids, sort) \in [ids -> Int]
  BY KeyOrders
<1>2. IsFiniteSet(ids) /\ Cardinality(ids) \in Nat
  BY IdsFinite
<1>3. Rank(ids, KeyOf(ids, sort), i) \in Nat /\ Rank(ids, KeyOf(ids, sort), i) < Cardinality(ids)
  <2> DEFINE key == KeyOf(ids, sort)
  <2> HIDE DEF key
  <2> QED BY <1>1, <1>2, RankType, RankBelow DEF key
<1> QED BY <1>2, <1>3

(* Find and FindCursor deliver the page.                                    *)
LEMMA FindsPage ==
  ASSUME NEW ids, ids \subseteq Ids, NEW fo \in FindOptionsType
  PROVE  asDriverFindOption(fo, ids) =
           Page(AskedBy(fo), ids, IF fo.limit < 0 THEN -fo.limit ELSE fo.limit)
<1> DEFINE a == AskedBy(fo)
           size == IF fo.limit < 0 THEN -fo.limit ELSE fo.limit
           R(i) == Rank(ids, KeyOf(ids, fo.sort), i)
<1>1. fo.limit \in Int /\ fo.skip \in Nat /\ fo.sort \in Int
  BY DEF FindOptionsType
<1>2. a.sort = fo.sort /\ a.offset = fo.skip
  BY DEF AskedBy
<1>3. size \in Nat
  BY <1>1
<1> HIDE DEF a
<1>4. Page(a, ids, size) = {i \in ids : fo.skip <= R(i) /\ (size > 0 => R(i) < fo.skip + size)}
  <2> HIDE DEF size
  <2> QED BY <1>1, <1>2, PageRanks
<1>5. asDriverFindOption(fo, ids) = {i \in ids : LET p == Position(ids, fo.sort, i) IN
                                       p > fo.skip /\ (size = 0 \/ p <= fo.skip + size)}
  BY DEF asDriverFindOption
<1> HIDE DEF size
<1>6. \A i \in ids : R(i) \in Nat /\ Position(ids, fo.sort, i) = R(i) + 1
  BY <1>1, PositionRanks, IdRanks
<1> HIDE DEF R
<1>7. \A i \in ids : fo.skip <= R(i) /\ (size > 0 => R(i) < fo.skip + size) <=>
                     Position(ids, fo.sort, i) > fo.skip /\ (size = 0 \/ Position(ids, fo.sort, i) <= fo.skip + size)
  BY <1>1, <1>3, <1>6
<1> QED BY <1>4, <1>5, <1>7 DEF a, size

LEMMA IdFirstOf ==
  ASSUME NEW ids, ids \subseteq Ids, NEW sort \in Int, NEW K \in Nat
  PROVE  LET first == {i \in ids : Rank(ids, KeyOf(ids, sort), i) < K}
         IN  /\ IsFiniteSet(first)
             /\ Cardinality(first) = IF K < Cardinality(ids) THEN K ELSE Cardinality(ids)
<1> DEFINE key == KeyOf(ids, sort)
<1>1. key \in [ids -> Nat] /\ \A i, j \in ids : key[i] = key[j] => i = j
  BY KeyOrders
<1>2. IsFiniteSet(ids)
  BY IdsFinite
<1> HIDE DEF key
<1> QED BY <1>1, <1>2, FirstOf DEF key

(* The count is the size of the page.                                       *)
LEMMA CountsPage ==
  ASSUME NEW ids, ids \subseteq Ids, NEW fo \in FindOptionsType
  PROVE  asDriverCountOption(fo, Cardinality(ids)) = Cardinality(Page(AskedBy(fo), ids, fo.limit))
<1> DEFINE n == Cardinality(ids)
           R(i) == Rank(ids, KeyOf(ids, fo.sort), i)
           First(K) == {i \in ids : R(i) < K}
           page == Page(AskedBy(fo), ids, fo.limit)
           upper == IF fo.limit > 0 THEN First(fo.skip + fo.limit) ELSE ids
<1>1. fo.limit \in Int /\ fo.skip \in Nat /\ fo.sort \in Int /\ IsFiniteSet(ids) /\ n \in Nat
  BY IdsFinite DEF FindOptionsType
<1>2. page = {i \in ids : fo.skip <= R(i) /\ (fo.limit > 0 => R(i) < fo.skip + fo.limit)}
  <2> DEFINE a == AskedBy(fo)
  <2>1. a.sort = fo.sort /\ a.offset = fo.skip
    BY DEF AskedBy
  <2> HIDE DEF a
  <2>2. ASSUME NEW size
        PROVE  Page(a, ids, size) = {i \in ids : fo.skip <= R(i) /\ (size > 0 => R(i) < fo.skip + size)}
    BY <1>1, <2>1, PageRanks
  <2> HIDE DEF R
  <2> QED BY <2>2 DEF a
<1>3. \A i \in ids : R(i) \in Nat /\ R(i) < n
  BY <1>1, IdRanks
<1>4. ASSUME NEW K \in Nat
      PROVE  IsFiniteSet(First(K)) /\ Cardinality(First(K)) = IF K < n THEN K ELSE n
  BY <1>1, <1>4, IdFirstOf
<1> HIDE DEF page, R
<1>5. upper = First(fo.skip) \cup page /\ First(fo.skip) \cap page = {}
  BY <1>1, <1>2, <1>3
<1>6. /\ IsFiniteSet(upper)
      /\ Cardinality(upper) = IF fo.limit > 0 /\ fo.skip + fo.limit < n THEN fo.skip + fo.limit ELSE n
  <2>1. CASE fo.limit > 0
    <3>1. fo.skip + fo.limit \in Nat
      BY <1>1, <2>1
    <3> HIDE DEF First, n
    <3> QED BY <1>4, <2>1, <3>1
  <2>2. CASE ~(fo.limit > 0)
    BY <1>1, <2>2
  <2> QED BY <2>1, <2>2
<1>7. IsFiniteSet(First(fo.skip)) /\ Cardinality(First(fo.skip)) = IF fo.skip < n THEN fo.skip ELSE n
  <2> HIDE DEF First, n
  <2> QED BY <1>1, <1>4
<1>8. page \subseteq upper
  BY <1>5
<1> HIDE DEF upper, First, n
<1>9. IsFiniteSet(page) /\ Cardinality(page) \in Nat
  BY <1>6, <1>8, FS_Subset, FS_CardinalityType
<1>10. Cardinality(upper) = Cardinality(First(fo.skip)) + Cardinality(page) - Cardinality({})
  BY <1>5, <1>7, <1>9, FS_Union
<1>11. Cardinality(upper) = Cardinality(First(fo.skip)) + Cardinality(page)
  BY <1>7, <1>9, <1>10, <1>1, FS_EmptySet
<1>12. asDriverCountOption(fo, n) = Cardinality(page)
  <2> DEFINE rest == IF n > fo.skip THEN n - fo.skip ELSE 0
  <2>1. asDriverCountOption(fo, n) = IF fo.limit > 0 /\ fo.limit < rest THEN fo.limit ELSE rest
    BY DEF asDriverCountOption
  <2>2. Cardinality(page) = IF fo.limit > 0 /\ fo.limit < rest THEN fo.limit ELSE rest
    BY <1>1, <1>6, <1>7, <1>9, <1>11
  <2> QED BY <2>1, <2>2
<1> QED BY <1>12 DEF n, page

LEMMA FindsOne ==
  ASSUME NEW ids, ids \subseteq Ids, NEW fo \in FindOptionsType
  PROVE  asDriverFindOneOption(fo, ids) = Expected("FindOne", AskedBy(fo), ids)
<1> DEFINE n == Cardinality(ids)
           a == AskedBy(fo)
           R(i) == Rank(ids, KeyOf(ids, fo.sort), i)
<1>1. fo.skip \in Nat /\ fo.sort \in Int /\ IsFiniteSet(ids) /\ n \in Nat
  BY IdsFinite DEF FindOptionsType
<1>2. a.sort = fo.sort /\ a.offset = fo.skip
  BY DEF AskedBy
<1> HIDE DEF a
<1>3. Page(a, ids, 0) = {i \in ids : fo.skip <= R(i)} /\ Page(a, ids, 1) = {i \in ids : fo.skip <= R(i) /\ R(i) < fo.skip + 1}
  <2>1. ASSUME NEW size
        PROVE  Page(a, ids, size) = {i \in ids : fo.skip <= R(i) /\ (size > 0 => R(i) < fo.skip + size)}
    BY <1>1, <1>2, PageRanks
  <2> HIDE DEF R
  <2>2. Page(a, ids, 0) = {i \in ids : fo.skip <= R(i) /\ (0 > 0 => R(i) < fo.skip + 0)}
    BY <2>1
  <2>3. Page(a, ids, 1) = {i \in ids : fo.skip <= R(i) /\ (1 > 0 => R(i) < fo.skip + 1)}
    BY <2>1
  <2> QED BY <2>2, <2>3
<1>4. \A i \in ids : R(i) \in Nat /\ R(i) < n /\ Position(ids, fo.sort, i) = R(i) + 1
  BY <1>1, PositionRanks, IdRanks
<1>5. n > fo.skip => \E i \in ids : ~(R(i) < fo.skip)
  <2> SUFFICES ASSUME n > fo.skip, \A i \in ids : R(i) < fo.skip PROVE FALSE
    OBVIOUS
  <2>1. {i \in ids : R(i) < fo.skip} = ids
    OBVIOUS
  <2>2. Cardinality({i \in ids : R(i) < fo.skip}) = IF fo.skip < n THEN fo.skip ELSE n
    BY <1>1, IdFirstOf
  <2> HIDE DEF R, n
  <2>3. n = fo.skip
    BY <1>1, <2>1, <2>2 DEF n
  <2> QED BY <1>1, <2>3
<1> HIDE DEF R
<1>6. CASE fo.sort # 0
  <2>1. Expected("FindOne", a, ids) = Page(a, ids, 1)
    BY <1>2, <1>6 DEF Expected
  <2>2. asDriverFindOneOption(fo, ids) = {i \in ids : Position(ids, fo.sort, i) = fo.skip + 1}
    BY <1>6 DEF asDriverFindOneOption
  <2>3. \A i \in ids : Position(ids, fo.sort, i) = fo.skip + 1 <=> fo.skip <= R(i) /\ R(i) < fo.skip + 1
    BY <1>1, <1>4
  <2> QED BY <1>3, <2>1, <2>2, <2>3 DEF a
<1>7. CASE fo.sort = 0
  <2>1. Expected("FindOne", a, ids) = IF Page(a, ids, 0) = {} THEN {} ELSE ids
    BY <1>2, <1>7 DEF Expected
  <2>2. asDriverFindOneOption(fo, ids) = {i \in ids : n > fo.skip}
    BY <1>7 DEF asDriverFindOneOption
  <2>3. CASE n > fo.skip
    <3>1. Page(a, ids, 0) # {}
      BY <1>1, <1>3, <1>4, <1>5, <2>3
    <3> QED BY <2>1, <2>2, <2>3, <3>1 DEF a
  <2>4. CASE ~(n > fo.skip)
    <3>1. Page(a, ids, 0) = {}
      BY <1>1, <1>3, <1>4, <2>4
    <3> QED BY <2>1, <2>2, <2>4, <3>1 DEF a
  <2> QED BY <2>3, <2>4
<1> QED BY <1>6, <1>7

(* Find without its query delivers nothing, as it should; its query         *)
(* delivers the page.                                                       *)
LEMMA FindCounts ==
  ASSUME NEW ids, ids \subseteq Ids, NEW fo \in FindOptionsType
  PROVE  /\ CountsOnly(fo, Cardinality(ids)) => Expected("Find", AskedBy(fo), ids) = {}
         /\ \A tc : ~CountsOnly(fo, tc) =>
              asDriverFindOption(fo, ids) = Expected("Find", AskedBy(fo), ids)
<1> DEFINE n == Cardinality(ids)
           a == AskedBy(fo)
           R(i) == Rank(ids, KeyOf(ids, fo.sort), i)
<1>1. fo.limit \in Int /\ fo.skip \in Nat /\ fo.sort \in Int /\ IsFiniteSet(ids) /\ n \in Nat
      /\ fo.obeyZeroLimit \in BOOLEAN
  BY IdsFinite DEF FindOptionsType
<1>2. a.sort = fo.sort /\ a.offset = fo.skip /\ a.limit = fo.limit /\ a.zero = fo.obeyZeroLimit
  BY DEF AskedBy
<1>3. asDriverFindOption(fo, ids) = Page(a, ids, IF fo.limit < 0 THEN -fo.limit ELSE fo.limit)
  BY FindsPage
<1> HIDE DEF a
<1>4. Expected("Find", a, ids) =
        IF fo.limit < 0 \/ (fo.limit = 0 /\ fo.obeyZeroLimit) THEN {} ELSE Page(a, ids, fo.limit)
  BY <1>2 DEF Expected
<1>5. n <= fo.skip => Page(a, ids, fo.limit) = {}
  <2>0. ASSUME NEW size
        PROVE  Page(a, ids, size) = {i \in ids : fo.skip <= R(i) /\ (size > 0 => R(i) < fo.skip + size)}
    <3>1. fo.sort \in Int /\ a.sort = fo.sort /\ a.offset = fo.skip
      BY <1>1, <1>2
    <3> QED BY <3>1, PageRanks
  <2>2. \A i \in ids : R(i) \in Nat /\ R(i) < n
    BY <1>1, IdRanks
  <2> HIDE DEF R
  <2>1. Page(a, ids, fo.limit) = {i \in ids : fo.skip <= R(i) /\ (fo.limit > 0 => R(i) < fo.skip + fo.limit)}
    BY <2>0
  <2> QED BY <1>1, <2>1, <2>2
<1>6. ASSUME CountsOnly(fo, n) PROVE Expected("Find", a, ids) = {}
  <2>1. n = 0 => n <= fo.skip
    BY <1>1
  <2>2. n <= fo.skip \/ fo.limit < 0 \/ (fo.limit = 0 /\ fo.obeyZeroLimit)
    BY <1>1, <1>6, <2>1 DEF CountsOnly
  <2> HIDE DEF n
  <2> QED BY <1>4, <1>5, <2>2
<1>7. ASSUME NEW tc, ~CountsOnly(fo, tc) PROVE asDriverFindOption(fo, ids) = Expected("Find", a, ids)
  <2>1. ~(fo.limit < 0) /\ ~(fo.limit = 0 /\ fo.obeyZeroLimit)
    BY <1>7 DEF CountsOnly
  <2> QED BY <1>3, <1>4, <2>1
<1> QED BY <1>6, <1>7 DEF a

-----------------------------------------------------------------------------
(* The reads as steps.                                                      *)

FindType ==
  [kind : Kinds \cup {"none", "exampleUpdate"}, fo : FindOptionsType, counted : SUBSET Ids,
   queried : SUBSET Ids, total : Nat, found : SUBSET Ids]

AskType ==
  [limit : Int, offset : Nat, sort : Int, zero : BOOLEAN, returnDocument : {"before", "after"}]

(* What a read that returned nil has delivered is what it was asked for.    *)
Exact(f, a) ==
  f.kind \in Kinds =>
    /\ f.kind = "Find" => f.total = Cardinality(f.counted)
    /\ f.kind = "Count" => f.total = Cardinality(Expected(f.kind, a, f.queried))
    /\ f.kind \notin {"Count", "FindOne"} => f.found = Expected(f.kind, a, f.queried)
    /\ f.kind = "FindOne" => f.found # {} /\ f.found \subseteq Expected(f.kind, a, f.queried)

(* A Find between its count and its query still knows its options and what  *)
(* it counted.                                                              *)
ReadOf(c) ==
  /\ pc[c] \in {"waiting", "found"} => find[c].kind \notin Kinds
  /\ pc[c] = "counted" =>
       /\ find[c].kind = "Find" /\ find[c].total = Cardinality(find[c].counted)
       /\ asked[c] = AskedBy(find[c].fo) /\ ~CountsOnly(find[c].fo, find[c].total)
  /\ pc[c] = "idle" /\ result[c] = Nil => Exact(find[c], asked[c])

ReadInv ==
  /\ MustInv
  /\ find \in [Callers -> FindType]
  /\ asked \in [Callers -> AskType]
  /\ \A c \in Callers : ReadOf(c)

LEMMA OptionOf ==
  ASSUME NEW o \in Options
  PROVE  o.fo \in FindOptionsType /\ o.asked = AskedBy(o.fo) /\ o.asked \in AskType
<1>1. PICK opts \in OptionLists : o = [fo |-> newFindOptions(opts), asked |-> Asked(opts)]
  BY DEF Options
<1>2. opts \in Seq(FindOption)
  BY CollectionAssumption
<1>3. newFindOptions(opts) \in FindOptionsType /\ Asked(opts) = AskedBy(newFindOptions(opts))
  BY <1>2, OptionsAsk
<1>4. o.fo = newFindOptions(opts) /\ o.asked = Asked(opts)
  BY <1>1
<1>5. o.fo \in FindOptionsType /\ o.asked = AskedBy(o.fo)
  BY <1>3, <1>4
<1> QED BY <1>5 DEF AskedBy, AskType, FindOptionsType

LEMMA NothingAsked ==
  NoOptions \in FindOptionsType /\ Asked(<<>>) \in AskType
<1>1. <<>> \in Seq(FindOption)
  OBVIOUS
<1>2. newFindOptions(<<>>) \in FindOptionsType /\ Asked(<<>>) = AskedBy(newFindOptions(<<>>))
  BY <1>1, OptionsAsk
<1> QED BY <1>2, MadeOfNone DEF AskedBy, AskType, FindOptionsType, Made

LEMMA Exists == \A docs : Existing(docs) \subseteq Ids
BY DEF Existing

(* What a step leaves of a caller keeps it.                                 *)
LEMMA ReadKept ==
  ASSUME NEW c \in Callers, ReadOf(c), pc'[c] = pc[c], find'[c] = find[c],
         asked'[c] = asked[c], result'[c] = result[c]
  PROVE  ReadOf(c)'
<1> HIDE DEF Nil
<1> QED BY DEF ReadOf, Exact, CountsOnly

ReadKeeps ==
  /\ find' \in [Callers -> FindType] /\ asked' \in [Callers -> AskType]
  /\ \A u \in Callers : ReadOf(u)'

(* A call begins: its read, what it is asked for and what it returns.       *)
LEMMA ReadBegins ==
  ASSUME ReadInv, NEW c \in Callers, NEW f \in FindType, NEW w, NEW a \in AskType, Begin(c, f, w, a),
         NEW label \in {"idle", "waiting", "found", "counted"}, NEW r,
         Goto(c, label), result' = [result EXCEPT ![c] = r],
         label \in {"waiting", "found"} => f.kind \notin Kinds,
         label = "counted" =>
           /\ f.kind = "Find" /\ f.total = Cardinality(f.counted)
           /\ a = AskedBy(f.fo) /\ ~CountsOnly(f.fo, f.total),
         label = "idle" /\ r = Nil => Exact(f, a)
  PROVE  ReadKeeps
<1>1. /\ find' = [find EXCEPT ![c] = f] /\ asked' = [asked EXCEPT ![c] = a]
      /\ pc' = [pc EXCEPT ![c] = label] /\ result' = [result EXCEPT ![c] = r]
  BY DEF Begin, Goto
<1>2. /\ find \in [Callers -> FindType] /\ asked \in [Callers -> AskType]
      /\ pc \in [Callers -> {"idle", "waiting", "found", "counted"}] /\ result \in [Callers -> Seq(Texts)]
  BY DEF ReadInv, MustInv, MustTypes, TagInv, CallersOK
<1>3. find' \in [Callers -> FindType] /\ asked' \in [Callers -> AskType]
  BY <1>1, <1>2
<1>4. /\ find'[c] = f /\ asked'[c] = a /\ pc'[c] = label /\ result'[c] = r
      /\ \A u \in Callers \ {c} : /\ find'[u] = find[u] /\ asked'[u] = asked[u]
                                  /\ pc'[u] = pc[u] /\ result'[u] = result[u]
  BY <1>1, <1>2
<1>5. ReadOf(c)'
  <2> HIDE DEF Nil
  <2> QED BY <1>4 DEF ReadOf, Exact, CountsOnly
<1>6. \A u \in Callers \ {c} : ReadOf(u)'
  BY <1>4, ReadKept DEF ReadInv
<1> QED BY <1>3, <1>5, <1>6 DEF ReadKeeps

LEMMA ReadsOnce ==
  ASSUME ReadInv, NEW c \in Callers, NEW f \in FindType, NEW o, o.asked \in AskType, NEW err,
         ReadOnce(c, f, o, err), err = Nil => Exact(f, o.asked)
  PROVE  ReadKeeps
<1>1. /\ Begin(c, f, NoWrite, o.asked) /\ Goto(c, "idle")
      /\ result' = [result EXCEPT ![c] = err]
  BY DEF ReadOnce, Return
<1> HIDE DEF Nil
<1> QED BY <1>1, ReadBegins

LEMMA ReadsCount ==
  ASSUME ReadInv, NEW c \in Callers, Count(c)
  PROVE  ReadKeeps
<1>1. PICK o \in Options : \E k \in Readable :
        LET ids == Existing(View(k))
            total == asDriverCountOption(o.fo, Cardinality(ids))
        IN  ReadOnce(c, [Reading("Count", NoOptions, ids) EXCEPT !.total = total], o, Nil)
  BY DEF Count
<1>2. PICK k \in Readable :
        LET ids == Existing(View(k))
            total == asDriverCountOption(o.fo, Cardinality(ids))
        IN  ReadOnce(c, [Reading("Count", NoOptions, ids) EXCEPT !.total = total], o, Nil)
  BY <1>1
<1> DEFINE ids == Existing(View(k))
           total == asDriverCountOption(o.fo, Cardinality(ids))
           f == [Reading("Count", NoOptions, ids) EXCEPT !.total = total]
           page == Page(o.asked, ids, o.asked.limit)
<1>3. ReadOnce(c, f, o, Nil)
  BY <1>2
<1>4. ids \subseteq Ids
  BY Exists
<1> HIDE DEF ids
<1>5. o.fo \in FindOptionsType /\ o.asked = AskedBy(o.fo) /\ o.asked \in AskType
  BY OptionOf
<1>6. o.asked.limit = o.fo.limit
  BY <1>5 DEF AskedBy
<1>7. total = Cardinality(page)
  BY <1>4, <1>5, <1>6, CountsPage
<1>8. page \subseteq Ids
  BY <1>4 DEF Page
<1> HIDE DEF total, page
<1>9. total \in Nat
  BY <1>7, <1>8, IdsFinite
<1>10. f \in FindType /\ f.kind = "Count" /\ f.queried = ids /\ f.total = total
  BY <1>4, <1>9, NothingAsked DEF Reading, FindType, Kinds
<1>11. Expected("Count", o.asked, ids) = page
  BY DEF Expected, page
<1>12. Exact(f, o.asked)
  BY <1>7, <1>10, <1>11 DEF Exact
<1> HIDE DEF f
<1> QED BY <1>3, <1>5, <1>10, <1>12, ReadsOnce

LEMMA ReadsFindOne ==
  ASSUME ReadInv, NEW c \in Callers, FindOne(c)
  PROVE  ReadKeeps
<1>1. PICK o \in Options : \E k \in Readable :
        LET ids == Existing(View(k))
            may == asDriverFindOneOption(o.fo, ids)
            read == Reading("FindOne", NoOptions, ids)
        IN  \/ \E i \in may : ReadOnce(c, [read EXCEPT !.found = {i}], o, Nil)
            \/ may = {} /\ ReadOnce(c, read, o, wrapMongoError(ErrNoDocumentFound))
  BY DEF FindOne
<1>2. PICK k \in Readable :
        LET ids == Existing(View(k))
            may == asDriverFindOneOption(o.fo, ids)
            read == Reading("FindOne", NoOptions, ids)
        IN  \/ \E i \in may : ReadOnce(c, [read EXCEPT !.found = {i}], o, Nil)
            \/ may = {} /\ ReadOnce(c, read, o, wrapMongoError(ErrNoDocumentFound))
  BY <1>1
<1> DEFINE ids == Existing(View(k))
           may == asDriverFindOneOption(o.fo, ids)
           read == Reading("FindOne", NoOptions, ids)
<1>3. ids \subseteq Ids
  BY Exists
<1> HIDE DEF ids
<1>4. o.fo \in FindOptionsType /\ o.asked = AskedBy(o.fo) /\ o.asked \in AskType
  BY OptionOf
<1>5. may = Expected("FindOne", o.asked, ids)
  BY <1>3, <1>4, FindsOne
<1>6. may \subseteq Ids
  BY <1>3 DEF asDriverFindOneOption
<1> HIDE DEF may
<1>7. ASSUME NEW i \in may, ReadOnce(c, [read EXCEPT !.found = {i}], o, Nil)
      PROVE  ReadKeeps
  <2> DEFINE f == [read EXCEPT !.found = {i}]
  <2>1. f \in FindType /\ f.kind = "FindOne" /\ f.queried = ids /\ f.found = {i}
    BY <1>3, <1>6, NothingAsked DEF Reading, FindType, Kinds
  <2>2. Exact(f, o.asked)
    BY <1>5, <2>1 DEF Exact
  <2> HIDE DEF f, read
  <2> QED BY <1>4, <1>7, <2>1, <2>2, ReadsOnce DEF f
<1>8. ASSUME ReadOnce(c, read, o, wrapMongoError(ErrNoDocumentFound))
      PROVE  ReadKeeps
  <2>1. wrapMongoError(ErrNoDocumentFound) # Nil
    BY Sentinels, WrapKept
  <2>2. read \in FindType
    BY <1>3, NothingAsked DEF Reading, FindType, Kinds
  <2> HIDE DEF read, Nil
  <2> QED BY <1>4, <1>8, <2>1, <2>2, ReadsOnce
<1> QED BY <1>2, <1>7, <1>8 DEF ids, may

LEMMA ReadsCursor ==
  ASSUME ReadInv, NEW c \in Callers, FindCursor(c)
  PROVE  ReadKeeps
<1>1. PICK o \in Options : \E k \in Readable :
        LET ids == Existing(View(k))
            found == asDriverFindOption(o.fo, ids)
        IN  ReadOnce(c, [Reading("FindCursor", NoOptions, ids) EXCEPT !.found = found], o, Nil)
  BY DEF FindCursor
<1>2. PICK k \in Readable :
        LET ids == Existing(View(k))
            found == asDriverFindOption(o.fo, ids)
        IN  ReadOnce(c, [Reading("FindCursor", NoOptions, ids) EXCEPT !.found = found], o, Nil)
  BY <1>1
<1> DEFINE ids == Existing(View(k))
           found == asDriverFindOption(o.fo, ids)
           f == [Reading("FindCursor", NoOptions, ids) EXCEPT !.found = found]
<1>3. ReadOnce(c, f, o, Nil)
  BY <1>2
<1>4. ids \subseteq Ids
  BY Exists
<1> HIDE DEF ids
<1>5. o.fo \in FindOptionsType /\ o.asked = AskedBy(o.fo) /\ o.asked \in AskType
  BY OptionOf
<1>6. found = Page(AskedBy(o.fo), ids, IF o.fo.limit < 0 THEN -o.fo.limit ELSE o.fo.limit)
  BY <1>4, <1>5, FindsPage
<1>7. found \subseteq Ids
  BY <1>4 DEF asDriverFindOption
<1> HIDE DEF found
<1>8. f \in FindType /\ f.kind = "FindCursor" /\ f.queried = ids /\ f.found = found
  BY <1>4, <1>7, NothingAsked DEF Reading, FindType, Kinds
<1>9. o.asked.limit = o.fo.limit
  BY <1>5 DEF AskedBy
<1>10. Expected("FindCursor", o.asked, ids) = found
  BY <1>5, <1>6, <1>9 DEF Expected
<1>11. Exact(f, o.asked)
  BY <1>8, <1>10 DEF Exact
<1> HIDE DEF f
<1> QED BY <1>3, <1>5, <1>8, <1>11, ReadsOnce

LEMMA ReadsAll ==
  ASSUME ReadInv, NEW c \in Callers, NEW kind \in {"Distinct", "Aggregate"}, ReadAll(c, kind)
  PROVE  ReadKeeps
<1>1. PICK k \in Readable :
        LET ids == Existing(View(k))
        IN  ReadOnce(c, [Reading(kind, NoOptions, ids) EXCEPT !.found = ids], [asked |-> Asked(<<>>)], Nil)
  BY DEF ReadAll
<1> DEFINE ids == Existing(View(k))
           f == [Reading(kind, NoOptions, ids) EXCEPT !.found = ids]
           o == [asked |-> Asked(<<>>)]
<1>2. ReadOnce(c, f, o, Nil)
  BY <1>1
<1>3. ids \subseteq Ids
  BY Exists
<1> HIDE DEF ids
<1>4. f \in FindType /\ f.kind = kind /\ f.queried = ids /\ f.found = ids
  BY <1>3, NothingAsked DEF Reading, FindType, Kinds
<1>5. o.asked \in AskType
  BY NothingAsked
<1> HIDE DEF o
<1>6. Expected(kind, o.asked, ids) = ids
  BY DEF Expected
<1>7. Exact(f, o.asked)
  BY <1>4, <1>6 DEF Exact
<1> HIDE DEF f
<1> QED BY <1>2, <1>4, <1>5, <1>7, ReadsOnce

(* The count of Find: the call ends when there is nothing to query for.     *)
LEMMA ReadsFindCount ==
  ASSUME ReadInv, NEW c \in Callers, FindCount(c)
  PROVE  ReadKeeps
<1>1. PICK o \in Options : \E k \in Readable :
        LET ids == Existing(View(k))
            tc == Cardinality(ids)
            over == CountsOnly(o.fo, tc)
        IN  /\ Begin(c, [Reading("Find", o.fo, ids) EXCEPT !.total = tc], NoWrite, o.asked)
            /\ \/ over /\ Return(c, Nil)
               \/ ~over /\ Goto(c, "counted") /\ result' = [result EXCEPT ![c] = NoResult]
  BY DEF FindCount
<1>2. PICK k \in Readable :
        LET ids == Existing(View(k))
            tc == Cardinality(ids)
            over == CountsOnly(o.fo, tc)
        IN  /\ Begin(c, [Reading("Find", o.fo, ids) EXCEPT !.total = tc], NoWrite, o.asked)
            /\ \/ over /\ Return(c, Nil)
               \/ ~over /\ Goto(c, "counted") /\ result' = [result EXCEPT ![c] = NoResult]
  BY <1>1
<1> DEFINE ids == Existing(View(k))
           tc == Cardinality(ids)
           f == [Reading("Find", o.fo, ids) EXCEPT !.total = tc]
<1>3. ids \subseteq Ids
  BY Exists
<1>4. Begin(c, f, NoWrite, o.asked)
  BY <1>2
<1>5. \/ CountsOnly(o.fo, tc) /\ Return(c, Nil)
      \/ ~CountsOnly(o.fo, tc) /\ Goto(c, "counted") /\ result' = [result EXCEPT ![c] = NoResult]
  BY <1>2
<1> HIDE DEF ids
<1>6. o.fo \in FindOptionsType /\ o.asked = AskedBy(o.fo) /\ o.asked \in AskType
  BY OptionOf
<1>7. tc \in Nat
  BY <1>3, IdsFinite
<1>8. /\ CountsOnly(o.fo, tc) => Expected("Find", o.asked, ids) = {}
      /\ ~CountsOnly(o.fo, tc) => asDriverFindOption(o.fo, ids) = Expected("Find", o.asked, ids)
  BY <1>3, <1>6, FindCounts
<1>9. /\ f \in FindType /\ f.kind = "Find" /\ f.fo = o.fo /\ f.counted = ids /\ f.queried = ids
       /\ f.total = tc /\ f.found = {}
  BY <1>3, <1>6, <1>7 DEF Reading, FindType, Kinds
<1> HIDE DEF f
<1>10. CASE CountsOnly(o.fo, tc) /\ Return(c, Nil)
  <2>1. Exact(f, o.asked)
    BY <1>8, <1>9, <1>10 DEF Exact
  <2>2. Goto(c, "idle") /\ result' = [result EXCEPT ![c] = Nil]
    BY <1>10 DEF Return
  <2> QED BY <1>4, <1>6, <1>9, <2>1, <2>2, ReadBegins
<1>11. CASE ~CountsOnly(o.fo, tc) /\ Goto(c, "counted") /\ result' = [result EXCEPT ![c] = NoResult]
  <2>1. ~CountsOnly(f.fo, f.total) /\ f.total = Cardinality(f.counted) /\ o.asked = AskedBy(f.fo)
    BY <1>6, <1>9, <1>11
  <2> QED BY <1>4, <1>6, <1>9, <1>11, <2>1, ReadBegins
<1> QED BY <1>5, <1>10, <1>11

(* The query of Find, of whatever documents there are by then.              *)
LEMMA ReadsFindQuery ==
  ASSUME ReadInv, NEW c \in Callers, FindQuery(c)
  PROVE  ReadKeeps
<1>1. PICK k \in Readable :
        LET ids == Existing(View(k))
        IN  find' = [find EXCEPT ![c].queried = ids,
                                 ![c].found = asDriverFindOption(find[c].fo, ids),
                                 ![c].fo = NoOptions]
  BY DEF FindQuery
<1> DEFINE ids == Existing(View(k))
           f == find[c]
           found == asDriverFindOption(f.fo, ids)
           g == [f EXCEPT !.queried = ids, !.found = found, !.fo = NoOptions]
<1>2. /\ find \in [Callers -> FindType] /\ asked \in [Callers -> AskType]
      /\ pc \in [Callers -> {"idle", "waiting", "found", "counted"}] /\ result \in [Callers -> Seq(Texts)]
  BY DEF ReadInv, MustInv, MustTypes, TagInv, CallersOK
<1>3. /\ pc[c] = "counted" /\ pc' = [pc EXCEPT ![c] = "idle"] /\ result' = [result EXCEPT ![c] = Nil]
      /\ asked' = asked
  BY DEF FindQuery, Return, Goto
<1>4. /\ f \in FindType /\ f.kind = "Find" /\ f.total = Cardinality(f.counted)
      /\ asked[c] = AskedBy(f.fo) /\ ~CountsOnly(f.fo, f.total)
  BY <1>2, <1>3 DEF ReadInv, ReadOf
<1>5. find' = [find EXCEPT ![c] = g]
  BY <1>1, <1>2
<1>6. ids \subseteq Ids
  BY Exists
<1> HIDE DEF ids
<1>7. found \subseteq Ids
  BY <1>6 DEF asDriverFindOption
<1>8. found = Expected("Find", asked[c], ids)
  <2>1. f.fo \in FindOptionsType
    BY <1>4 DEF FindType
  <2> HIDE DEF f
  <2> QED BY <1>4, <1>6, <2>1, FindCounts
<1> HIDE DEF found
<1>9. /\ g \in FindType /\ g.kind = "Find" /\ g.total = f.total /\ g.counted = f.counted
      /\ g.queried = ids /\ g.found = found
  BY <1>4, <1>6, <1>7, NothingAsked DEF FindType
<1>10. Exact(g, asked[c])
  <2> HIDE DEF g, f
  <2> QED BY <1>4, <1>8, <1>9 DEF Exact
<1> HIDE DEF g
<1>11. find' \in [Callers -> FindType] /\ asked' \in [Callers -> AskType]
  BY <1>2, <1>3, <1>5, <1>9
<1>12. /\ find'[c] = g /\ asked'[c] = asked[c] /\ pc'[c] = "idle"
       /\ \A u \in Callers \ {c} : /\ find'[u] = find[u] /\ asked'[u] = asked[u]
                                   /\ pc'[u] = pc[u] /\ result'[u] = result[u]
  BY <1>2, <1>3, <1>5
<1>13. ReadOf(c)'
  <2> HIDE DEF Nil
  <2> QED BY <1>10, <1>12 DEF ReadOf, Exact
<1>14. \A u \in Callers \ {c} : ReadOf(u)'
  BY <1>12, ReadKept DEF ReadInv
<1> QED BY <1>11, <1>13, <1>14 DEF ReadKeeps

(* The calls that are no read, and the reads that fail.                     *)
LEMMA ReadsElse ==
  ASSUME ReadInv, NEW c \in Callers, WriteCall(c) \/ FindOneAndUpdate(c) \/ ExampleFindOne(c) \/ ReadFails(c)
  PROVE  ReadKeeps
<1>1. NoFind \in FindType /\ NoFind.kind \notin Kinds
  BY NothingAsked DEF NoFind, Reading, FindType, Kinds
<1>2. CASE WriteCall(c)
  <2>1. PICK w : Send(c, w, NoHow, Asked(<<>>))
    BY <1>2 DEF WriteCall
  <2>2. /\ Begin(c, NoFind, w, Asked(<<>>)) /\ Goto(c, "waiting")
        /\ result' = [result EXCEPT ![c] = NoResult]
    BY <2>1 DEF Send
  <2> HIDE DEF NoFind, Kinds
  <2> QED BY <1>1, <2>2, NothingAsked, ReadBegins
<1>3. CASE FindOneAndUpdate(c)
  <2>1. PICK o \in Options : \E w \in Writes :
           Send(c, w, asDriverFindOneAndUpdateOption(o.fo),
                [Asked(<<>>) EXCEPT !.sort = o.asked.sort, !.returnDocument = o.asked.returnDocument])
    BY <1>3 DEF FindOneAndUpdate
  <2> DEFINE a == [Asked(<<>>) EXCEPT !.sort = o.asked.sort, !.returnDocument = o.asked.returnDocument]
  <2>2. a \in AskType
    BY NothingAsked, OptionOf DEF AskType
  <2> HIDE DEF a
  <2>3. PICK w : Begin(c, NoFind, w, a)
    BY <2>1 DEF Send, a
  <2>4. Goto(c, "waiting") /\ result' = [result EXCEPT ![c] = NoResult]
    BY <2>1 DEF Send
  <2> HIDE DEF NoFind, Kinds
  <2> QED BY <1>1, <2>2, <2>3, <2>4, ReadBegins
<1>4. CASE ExampleFindOne(c)
  <2> DEFINE f == [NoFind EXCEPT !.kind = "exampleUpdate"]
  <2>1. f \in FindType /\ f.kind = "exampleUpdate" /\ f.kind \notin Kinds
    BY NothingAsked DEF NoFind, Reading, FindType, Kinds
  <2>2. Begin(c, f, NoWrite, Asked(<<>>))
    BY <1>4 DEF ExampleFindOne
  <2>3. PICK label \in {"idle", "found"}, r \in {result'[c]} :
          Goto(c, label) /\ result' = [result EXCEPT ![c] = r]
    <3>1. result \in [Callers -> Seq(Texts)]
      BY DEF ReadInv, MustInv, MustTypes
    <3> QED BY <1>4, <3>1 DEF ExampleFindOne, Return
  <2> HIDE DEF f
  <2>4. Exact(f, Asked(<<>>))
    BY <2>1 DEF Exact
  <2> HIDE DEF Kinds
  <2> QED BY <2>1, <2>2, <2>3, <2>4, NothingAsked, ReadBegins
<1>5. CASE ReadFails(c)
  <2>1. PICK kind \in Kinds, e \in DriverErrors :
          /\ Begin(c, Reading(kind, NoOptions, {}), NoWrite, Asked(<<>>))
          /\ Return(c, IF kind = "Find" THEN e ELSE wrapMongoError(e))
    BY <1>5 DEF ReadFails
  <2> DEFINE r == IF kind = "Find" THEN e ELSE wrapMongoError(e)
             f == Reading(kind, NoOptions, {})
  <2>2. r # Nil
    <3>1. e \in Seq(STRING) /\ e # Nil
      BY CollectionAssumption
    <3>2. e \in Seq(Texts)
      BY <3>1, SeqGrows DEF Texts
    <3>3. wrapMongoError(e) # Nil
      BY <3>1, <3>2, WrapKept
    <3> HIDE DEF Nil
    <3> QED BY <3>1, <3>3
  <2>3. f \in FindType
    BY NothingAsked DEF Reading, FindType
  <2>4. /\ Begin(c, f, NoWrite, Asked(<<>>)) /\ Goto(c, "idle")
        /\ result' = [result EXCEPT ![c] = r]
    BY <2>1 DEF Return
  <2> HIDE DEF f, r, Nil
  <2> QED BY <2>2, <2>3, <2>4, NothingAsked, ReadBegins
<1> QED BY <1>2, <1>3, <1>4, <1>5

(* The steps that leave the reads, and may end a call: with an error, or    *)
(* one that waits for the server and so is no read.                         *)
LEMMA ReadEnds ==
  ASSUME ReadInv, UNCHANGED <<find, asked>>,
         \A u \in Callers :
           \/ pc'[u] = pc[u] /\ result'[u] = result[u]
           \/ pc[u] = "found" /\ pc'[u] = "waiting"
           \/ pc'[u] = "idle" /\ (result'[u] # Nil \/ pc[u] = "waiting")
  PROVE  ReadKeeps
<1>1. find' = find /\ asked' = asked
  OBVIOUS
<1>2. ASSUME NEW u \in Callers PROVE ReadOf(u)'
  <2>1. ReadOf(u)
    BY DEF ReadInv
  <2>2. CASE pc'[u] = pc[u] /\ result'[u] = result[u]
    BY <1>1, <2>1, <2>2, ReadKept
  <2>3. CASE pc[u] = "found" /\ pc'[u] = "waiting"
    <3> HIDE DEF Nil
    <3> QED BY <1>1, <2>1, <2>3 DEF ReadOf
  <2>4. CASE pc'[u] = "idle" /\ (result'[u] # Nil \/ pc[u] = "waiting")
    <3>1. find[u].kind \notin Kinds => Exact(find'[u], asked'[u])
      BY <1>1 DEF Exact
    <3> HIDE DEF Nil, Kinds
    <3>2. pc[u] = "waiting" => Exact(find'[u], asked'[u])
      BY <2>1, <3>1 DEF ReadOf
    <3> QED BY <2>4, <3>2 DEF ReadOf, Exact
  <2> QED BY <2>2, <2>3, <2>4
<1> QED BY <1>1, <1>2 DEF ReadKeeps, ReadInv

LEMMA ReadStep ==
  ASSUME ReadInv, [Next]_vars
  PROVE  ReadInv'
<1> SUFFICES ReadKeeps
  BY MustStep DEF ReadInv, ReadKeeps
<1>1. /\ pc \in [Callers -> {"idle", "waiting", "found", "counted"}] /\ result \in [Callers -> Seq(Texts)]
  BY DEF ReadInv, MustInv, MustTypes, TagInv, CallersOK
<1>2. ASSUME NEW c \in Callers, CallerNext(c) PROVE ReadKeeps
  <2>1. CASE WriteCall(c) \/ FindOneAndUpdate(c) \/ ExampleFindOne(c) \/ ReadFails(c)
    BY <2>1, ReadsElse
  <2>2. CASE ExampleUpdate(c)
    <3>1. /\ pc[c] = "found" /\ Goto(c, "waiting") /\ UNCHANGED <<find, asked, result>>
      BY <2>2 DEF ExampleUpdate
    <3> QED BY <1>1, <3>1, ReadEnds DEF Goto
  <2>3. CASE GiveUp(c)
    <3>1. PICK e \in DriverErrors : Return(c, Failure(c, wrapMongoError(e)))
      BY <2>3 DEF GiveUp
    <3> DEFINE err == Failure(c, wrapMongoError(e))
    <3>2. err # Nil
      BY DriverFailure
    <3>3. UNCHANGED <<find, asked>>
      BY <2>3 DEF GiveUp
    <3> HIDE DEF err, Nil
    <3> QED BY <1>1, <3>1, <3>2, <3>3, ReadEnds DEF err, Return, Goto
  <2>4. CASE FindQuery(c)
    BY <2>4, ReadsFindQuery
  <2>5. CASE FindCount(c)
    BY <2>5, ReadsFindCount
  <2>6. CASE Count(c)
    BY <2>6, ReadsCount
  <2>7. CASE FindOne(c)
    BY <2>7, ReadsFindOne
  <2>8. CASE FindCursor(c)
    BY <2>8, ReadsCursor
  <2>9. CASE Distinct(c) \/ Aggregate(c)
    BY <2>9, ReadsAll DEF Distinct, Aggregate
  <2> QED BY <1>2, <2>1, <2>2, <2>3, <2>4, <2>5, <2>6, <2>7, <2>8, <2>9 DEF CallerNext
<1>3. CASE Answer
  <2>1. UNCHANGED <<find, asked>>
    BY <1>3 DEF Answer
  <2>2. PICK r \in requests : \E err : /\ pc[r.caller] = "waiting" /\ pc' = [pc EXCEPT ![r.caller] = "idle"]
                                      /\ result' = [result EXCEPT ![r.caller] = err]
    BY <1>3 DEF Answer, Waiting, Return, Goto
  <2> HIDE DEF Nil
  <2> QED BY <1>1, <2>1, <2>2, ReadEnds
<1>4. CASE Failover
  <2>1. UNCHANGED <<find, asked>>
    BY <1>4 DEF Failover
  <2>2. pc' = [c \in Callers |-> IF pc[c] = "waiting" THEN "idle" ELSE pc[c]]
    BY <1>4 DEF Failover
  <2>3. PICK err : result' = [c \in Callers |-> IF pc[c] = "waiting" THEN err[c] ELSE result[c]]
    <3>1. PICK e : result' = [c \in Callers |->
                     IF pc[c] = "waiting" THEN Failure(c, wrapMongoError(e)) ELSE result[c]]
      BY <1>4 DEF Failover
    <3> WITNESS [c \in Callers |-> Failure(c, wrapMongoError(e))]
    <3> QED BY <3>1
  <2> HIDE DEF Nil
  <2> QED BY <2>1, <2>2, <2>3, ReadEnds
<1>5. CASE Serve \/ ReplicaSetNext \/ UNCHANGED vars
  <2>1. UNCHANGED <<find, asked, pc, result>>
    BY <1>5 DEF Serve, ReplicaSetNext, vars, caller
  <2> QED BY <2>1, ReadEnds
<1> QED BY <1>2, <1>3, <1>4, <1>5 DEF Next

LEMMA ReadInit ==
  ASSUME Init
  PROVE  ReadInv
<1>1. MustInv
  BY MustInit
<1>2. /\ find = [c \in Callers |-> NoFind] /\ asked = [c \in Callers |-> Asked(<<>>)]
      /\ \A c \in Callers : pc[c] = "idle"
  BY DEF Init
<1>3. NoFind \in FindType /\ NoFind.kind \notin Kinds
  BY NothingAsked DEF NoFind, Reading, FindType, Kinds
<1> HIDE DEF NoFind, Kinds
<1>4. find \in [Callers -> FindType] /\ asked \in [Callers -> AskType]
  BY <1>2, <1>3, NothingAsked
<1>5. ASSUME NEW c \in Callers PROVE ReadOf(c)
  <2>1. pc[c] = "idle" /\ find[c] = NoFind
    BY <1>2
  <2>2. Exact(find[c], asked[c])
    BY <1>3, <2>1 DEF Exact
  <2> QED BY <2>1, <2>2 DEF ReadOf
<1> QED BY <1>1, <1>4, <1>5 DEF ReadInv

(* A read that returns nil has delivered what its options ask for, in       *)
(* whatever order they are given and however many there are: Find the       *)
(* number of the documents it counted and the page of those it queried,     *)
(* whatever was written between the two (collection.go:77-167,              *)
(* options.go:5-61).                                                        *)
THEOREM ReadsDeliver == Spec => []ReadsExact
<1>1. Init => ReadInv
  BY ReadInit
<1>2. ReadInv /\ [Next]_vars => ReadInv'
  BY ReadStep
<1>3. ReadInv => ReadsExact
  <2> SUFFICES ASSUME ReadInv, NEW c \in Callers, find[c].kind \in Kinds,
                      Returned(c, Nil)
               PROVE  /\ find[c].kind = "Find" => find[c].total = Cardinality(find[c].counted)
                      /\ find[c].kind = "Count" =>
                           find[c].total = Cardinality(Expected(find[c].kind, asked[c], find[c].queried))
                      /\ find[c].kind \notin {"Count", "FindOne"} =>
                           find[c].found = Expected(find[c].kind, asked[c], find[c].queried)
                      /\ find[c].kind = "FindOne" =>
                           find[c].found # {} /\ find[c].found \subseteq Expected(find[c].kind, asked[c], find[c].queried)
    BY DEF ReadsExact
  <2> HIDE DEF Nil, Kinds
  <2>1. Exact(find[c], asked[c])
    BY DEF ReadInv, ReadOf, Returned
  <2> QED BY <2>1 DEF Exact
<1> QED BY <1>1, <1>2, <1>3, PTL DEF Spec

-----------------------------------------------------------------------------
(* FindOneAndUpdate.                                                        *)

(* The write of entry, after the one of before, is an update by who of the  *)
(* first document of ids that a asks for, and doc is what it returns.       *)
Updates(entry, before, who, a, ids, doc) ==
  LET i == doc.id
      there == Existing(before.docs) \cap ids
      returned == IF a.returnDocument = "before" THEN before ELSE entry
  IN  /\ entry.by = who
      /\ i \in Expected("FindOne", a, there)
      /\ doc.tag = returned.docs[i]
      /\ entry.docs[i] # before.docs[i]

UpdatedAt(c, k, doc) == Updates(log[k], log[k - 1], <<c, calls[c]>>, asked[c], write[c].ids, doc)

(* The request of a call that waits for it: that of a FindOneAndUpdate is   *)
(* served whole in one step, and then knows where.                          *)
SentBy(r, c) ==
  /\ r.op = write[c].op
  /\ r.op = "findAndUpdate" =>
       /\ ~r.many /\ r.tag = AnyTag
       /\ r.how = [sort |-> asked[c].sort, returnDocument |-> asked[c].returnDocument]
       /\ r.todo # {} => r.hits = 0 /\ r.todo = write[c].ids
       /\ r.hits # 0 => r.at \in 2 .. Len(log) /\ UpdatedAt(c, r.at, r.doc)

UpdatedOf(c) ==
  /\ pc[c] = "counted" => write[c].op # "findAndUpdate"
  /\ write[c].op = "findAndUpdate" => asked[c].sort \in Int /\ asked[c].offset = 0
  /\ pc[c] = "waiting" => \A r \in requests : r.caller = c /\ r.call = calls[c] => SentBy(r, c)
  /\ IsWriteConcernMajorityEnabled /\ pc[c] = "idle" /\ result[c] = Nil
       /\ write[c].op = "findAndUpdate" => \E k \in 2 .. commit : UpdatedAt(c, k, seen[c])

UpdatedInv == ReadInv /\ \A c \in Callers : UpdatedOf(c)

(* What the server chooses by the sort alone is what was asked for.         *)
LEMMA UpdatesFirst ==
  ASSUME NEW a, a.sort \in Int, a.offset = 0, NEW ids, ids \subseteq Ids
  PROVE  asDriverFindOneOption([NoOptions EXCEPT !.sort = a.sort], ids) = Expected("FindOne", a, ids)
<1> DEFINE fo == [NoOptions EXCEPT !.sort = a.sort]
           b == AskedBy(fo)
<1>1. fo \in FindOptionsType /\ fo.sort = a.sort /\ fo.skip = 0
  BY NothingAsked DEF NoOptions, FindOptionsType
<1>2. b.sort = a.sort /\ b.offset = 0
  BY <1>1 DEF AskedBy
<1>3. asDriverFindOneOption(fo, ids) = Expected("FindOne", b, ids)
  BY <1>1, FindsOne
<1> HIDE DEF fo, b
<1>4. \A size : Page(b, ids, size) = Page(a, ids, size)
  BY <1>2 DEF Page
<1>5. Expected("FindOne", b, ids) = Expected("FindOne", a, ids)
  BY <1>2, <1>4 DEF Expected
<1> QED BY <1>3, <1>5 DEF fo

LEMMA SentKept ==
  ASSUME NEW c, NEW r, SentBy(r, c), calls'[c] = calls[c], write'[c] = write[c], asked'[c] = asked[c],
         Len(log) \in Nat, Len(log') \in Nat, Len(log) <= Len(log'),
         \A k \in 1 .. Len(log) : log'[k] = log[k]
  PROVE  SentBy(r, c)'
<1>1. ASSUME r.op = "findAndUpdate", r.hits # 0
      PROVE  r.at \in 2 .. Len(log') /\ UpdatedAt(c, r.at, r.doc)'
  <2>1. r.at \in 2 .. Len(log) /\ UpdatedAt(c, r.at, r.doc)
    BY <1>1 DEF SentBy
  <2>2. r.at \in 2 .. Len(log') /\ r.at \in 1 .. Len(log) /\ r.at - 1 \in 1 .. Len(log)
    BY <2>1
  <2>3. log'[r.at] = log[r.at] /\ log'[r.at - 1] = log[r.at - 1]
    BY <2>2
  <2> QED BY <2>1, <2>2, <2>3 DEF UpdatedAt
<1> QED BY <1>1 DEF SentBy

(* A step that leaves the call, its request, and the log as far as a        *)
(* majority holds it.                                                       *)
LEMMA UpdatedKept ==
  ASSUME NEW c \in Callers, UpdatedOf(c), pc'[c] = pc[c], calls'[c] = calls[c],
         write'[c] = write[c], asked'[c] = asked[c], result'[c] = result[c], seen'[c] = seen[c],
         commit \in Nat, commit' \in Nat, commit <= commit', \A k \in 1 .. commit : log'[k] = log[k],
         pc[c] = "waiting" =>
           \A r \in requests' : r.caller = c /\ r.call = calls[c] => SentBy(r, c)'
  PROVE  UpdatedOf(c)'
<1>1. ASSUME NEW k \in 2 .. commit, UpdatedAt(c, k, seen[c])
      PROVE  k \in 2 .. commit' /\ UpdatedAt(c, k, seen[c])'
  <2>1. k \in 2 .. commit' /\ k \in 1 .. commit /\ k - 1 \in 1 .. commit
    OBVIOUS
  <2>2. log'[k] = log[k] /\ log'[k - 1] = log[k - 1]
    BY <2>1
  <2> QED BY <1>1, <2>1, <2>2 DEF UpdatedAt
<1> HIDE DEF Nil
<1> QED BY <1>1 DEF UpdatedOf

(* A step of others, which takes from the log nothing that a request of the *)
(* call relies on.                                                          *)
LEMMA UpdatedLeft ==
  ASSUME NEW c \in Callers, UpdatedOf(c), pc'[c] = pc[c], calls'[c] = calls[c],
         write'[c] = write[c], asked'[c] = asked[c], result'[c] = result[c], seen'[c] = seen[c],
         commit \in Nat, commit' \in Nat, commit <= commit', commit <= Len(log),
         Len(log) \in Nat, Len(log') \in Nat, Len(log) <= Len(log'),
         \A k \in 1 .. Len(log) : log'[k] = log[k],
         \A r \in requests' : r.caller = c => r \in requests
  PROVE  UpdatedOf(c)'
<1>1. ASSUME pc[c] = "waiting", NEW r \in requests', r.caller = c, r.call = calls[c]
      PROVE  SentBy(r, c)'
  <2>1. SentBy(r, c)
    BY <1>1 DEF UpdatedOf
  <2> QED BY <2>1, SentKept
<1> QED BY <1>1, UpdatedKept

LEMMA UpdatedQuiet ==
  ASSUME NEW c, write'[c].op # "findAndUpdate", pc'[c] # "waiting"
  PROVE  UpdatedOf(c)'
BY DEF UpdatedOf

LEMMA UpdatedTypes ==
  ASSUME UpdatedInv
  PROVE  /\ log \in Seq(Entries) /\ Len(log) \in Nat /\ commit \in 1 .. Len(log)
         /\ pc \in [Callers -> {"idle", "waiting", "found", "counted"}]
         /\ calls \in [Callers -> Nat] /\ requests \subseteq Requests
         /\ write \in [Callers -> [op : Ops \cup {"none"}, ids : SUBSET Ids, many : BOOLEAN, must : BOOLEAN]]
         /\ seen \in [Callers -> Documents] /\ asked \in [Callers -> AskType]
         /\ result \in [Callers -> Seq(Texts)]
BY DEF UpdatedInv, ReadInv, MustInv, MustTypes, TagInv, CallersOK, ReplicaSetTypeOK

LEMMA UpdatedSends ==
  ASSUME UpdatedInv, NEW c \in Callers, NEW w \in Writes, NEW how, NEW a, Send(c, w, how, a),
         w.op = "findAndUpdate" =>
           /\ how = [sort |-> a.sort, returnDocument |-> a.returnDocument]
           /\ a.sort \in Int /\ a.offset = 0
  PROVE  UpdatedOf(c)'
<1>0. PICK q : q = Request(c, calls'[c], w, AnyTag, how)
  OBVIOUS
<1>1. /\ calls'[c] = calls[c] + 1 /\ write'[c] = w
      /\ \A r \in requests : r.caller = c => r.call < calls'[c]
  BY MustBegins DEF Send, UpdatedInv, ReadInv
<1>2. /\ requests' = requests \cup {q}
      /\ q.op = w.op /\ q.tag = AnyTag /\ q.many = w.many /\ q.how = how /\ q.hits = 0 /\ q.todo = w.ids
  BY <1>0 DEF Send, Request
<1>3. asked'[c] = a /\ pc'[c] = "waiting"
  BY UpdatedTypes DEF Send, Begin, Goto
<1>4. calls'[c] \in Nat /\ \A r \in requests : r.call \in Nat
  BY <1>1, UpdatedTypes DEF Requests
<1>5. w.op = "findAndUpdate" => ~w.many
  BY CollectionAssumption
<1>6. SentBy(q, c)'
  <2>1. w.op = "findAndUpdate" =>
          q.how = [sort |-> asked'[c].sort, returnDocument |-> asked'[c].returnDocument]
    BY <1>2, <1>3
  <2> QED BY <1>1, <1>2, <1>5, <2>1 DEF SentBy
<1>7. \A r \in requests' : r.caller = c /\ r.call = calls'[c] => r = q
  BY <1>1, <1>2, <1>4
<1>8. write'[c].op = "findAndUpdate" => asked'[c].sort \in Int /\ asked'[c].offset = 0
  BY <1>1, <1>3
<1> HIDE DEF Nil
<1> QED BY <1>3, <1>6, <1>7, <1>8 DEF UpdatedOf

LEMMA UpdatedCaller ==
  ASSUME UpdatedInv, NEW c \in Callers, CallerNext(c)
  PROVE  \A u \in Callers : UpdatedOf(u)'
<1> USE DEF Goto, Return, Begin
<1>1. UNCHANGED <<log, commit>>
  BY DEF CallerNext, AnyRead, WriteCall, FindOneAndUpdate, Send, ExampleFindOne, ExampleUpdate,
         GiveUp, FindCount, FindQuery, Count, FindOne, FindCursor, Distinct, Aggregate, ReadAll, ReadOnce, ReadFails, replicaSet
<1>2. \A r \in requests' : r \in requests \/ r.caller = c
  <2>1. \A n, w, tag, how : Request(c, n, w, tag, how).caller = c
    BY DEF Request
  <2>2. CASE WriteCall(c) \/ FindOneAndUpdate(c)
    <3>1. PICK w, how, a : Send(c, w, how, a)
      BY <2>2 DEF WriteCall, FindOneAndUpdate
    <3> QED BY <2>1, <3>1 DEF Send
  <2>3. CASE ExampleUpdate(c)
    BY <2>1, <2>3 DEF ExampleUpdate
  <2>4. CASE ~WriteCall(c) /\ ~FindOneAndUpdate(c) /\ ~ExampleUpdate(c)
    BY <2>4 DEF CallerNext, AnyRead, ExampleFindOne, GiveUp, FindCount, FindQuery, Count, FindOne,
                FindCursor, Distinct, Aggregate, ReadAll, ReadOnce, ReadFails
  <2> QED BY <2>2, <2>3, <2>4
<1>3. ASSUME NEW u \in Callers \ {c} PROVE UpdatedOf(u)'
  <2>1. /\ pc'[u] = pc[u] /\ calls'[u] = calls[u] /\ write'[u] = write[u] /\ asked'[u] = asked[u]
        /\ result'[u] = result[u] /\ seen'[u] = seen[u]
    BY UpdatedTypes DEF CallerNext, AnyRead, WriteCall, FindOneAndUpdate, Send, ExampleFindOne,
         ExampleUpdate, GiveUp, FindCount, FindQuery, Count, FindOne, FindCursor, Distinct, Aggregate,
         ReadAll, ReadOnce, ReadFails
  <2>2. commit \in Nat /\ commit' = commit /\ commit <= Len(log) /\ Len(log) \in Nat /\ log' = log
    BY <1>1, UpdatedTypes
  <2>3. UpdatedOf(u)
    BY DEF UpdatedInv
  <2> HIDE DEF Begin, Goto, Return
  <2> QED BY <1>2, <2>1, <2>2, <2>3, UpdatedLeft
<1>4. UpdatedOf(c)'
  <2>1. CASE WriteCall(c)
    <3>1. PICK w \in Writes : w.op # "findAndUpdate" /\ Send(c, w, NoHow, Asked(<<>>))
      BY <2>1 DEF WriteCall
    <3> HIDE DEF NoHow
    <3> QED BY <3>1, UpdatedSends
  <2>2. CASE FindOneAndUpdate(c)
    <3>1. PICK w \in Writes, o \in Options :
            Send(c, w, asDriverFindOneAndUpdateOption(o.fo),
                 [Asked(<<>>) EXCEPT !.sort = o.asked.sort, !.returnDocument = o.asked.returnDocument])
      BY <2>2 DEF FindOneAndUpdate
    <3> DEFINE a == [Asked(<<>>) EXCEPT !.sort = o.asked.sort, !.returnDocument = o.asked.returnDocument]
    <3>2. o.fo \in FindOptionsType /\ o.asked = AskedBy(o.fo)
      BY OptionOf
    <3>3. a.sort = o.fo.sort /\ a.returnDocument = o.fo.returnDocument /\ a.offset = 0 /\ a.sort \in Int
      <4>1. DOMAIN <<>> = {}
        OBVIOUS
      <4>2. Asked(<<>>).offset = 0
        BY <4>1 DEF Asked, LastArg
      <4>3. Asked(<<>>) \in AskType
        BY NothingAsked
      <4> QED BY <3>2, <4>2, <4>3 DEF AskType, AskedBy, FindOptionsType
    <3>4. asDriverFindOneAndUpdateOption(o.fo) = [sort |-> a.sort, returnDocument |-> a.returnDocument]
      BY <3>3 DEF asDriverFindOneAndUpdateOption
    <3> HIDE DEF a
    <3>5. Send(c, w, asDriverFindOneAndUpdateOption(o.fo), a)
      BY <3>1 DEF a
    <3> QED BY <3>3, <3>4, <3>5, UpdatedSends
  <2>3. CASE ExampleUpdate(c)
    <3>1. PICK must, w : /\ w = [op |-> "update", ids |-> {seen[c].id}, many |-> FALSE, must |-> must]
                         /\ requests' = requests \cup {Request(c, calls[c], w, seen[c].tag, NoHow)}
                         /\ write' = [write EXCEPT ![c] = w]
      BY <2>3 DEF ExampleUpdate
    <3>2. PICK q : q = Request(c, calls[c], w, seen[c].tag, NoHow)
      OBVIOUS
    <3>3. q.op = "update" /\ write'[c].op = "update"
      BY <3>1, <3>2, UpdatedTypes DEF Request
    <3>4. SentBy(q, c)'
      BY <3>3 DEF SentBy
    <3>5. pc[c] = "found" /\ calls' = calls /\ pc'[c] = "waiting"
      BY <2>3, UpdatedTypes DEF ExampleUpdate
    <3>6. \A r \in requests : r.caller = c => r.call # calls[c]
      BY <3>5 DEF UpdatedInv, ReadInv, MustInv, MustOf
    <3>7. \A r \in requests' : r.caller = c /\ r.call = calls'[c] => r = q
      BY <3>1, <3>2, <3>5, <3>6
    <3> HIDE DEF Nil
    <3> QED BY <3>3, <3>4, <3>5, <3>7 DEF UpdatedOf
  <2>4. CASE GiveUp(c)
    <3>1. PICK e \in DriverErrors : Return(c, Failure(c, wrapMongoError(e)))
      BY <2>4 DEF GiveUp
    <3>2. pc'[c] = "idle" /\ result'[c] = Failure(c, wrapMongoError(e)) /\ write' = write /\ asked' = asked
      BY <2>4, <3>1, UpdatedTypes DEF GiveUp
    <3>3. result'[c] # Nil
      BY <3>2, DriverFailure
    <3>4. UpdatedOf(c)
      BY DEF UpdatedInv
    <3> HIDE DEF Nil
    <3> QED BY <3>2, <3>3, <3>4 DEF UpdatedOf
  <2>5. CASE FindQuery(c)
    <3>1. pc[c] = "counted" /\ pc'[c] = "idle" /\ write' = write
      BY <2>5, UpdatedTypes DEF FindQuery
    <3>2. write[c].op # "findAndUpdate"
      BY <3>1 DEF UpdatedInv, UpdatedOf
    <3> QED BY <3>1, <3>2, UpdatedQuiet
  <2>6. CASE ExampleFindOne(c) \/ FindCount(c) \/ AnyRead(c) \/ ReadFails(c)
    <3>1. pc'[c] # "waiting" /\ write'[c] = NoWrite
      BY <2>6, UpdatedTypes DEF ExampleFindOne, FindCount, AnyRead, Count, FindOne, FindCursor, Distinct,
         Aggregate, ReadAll, ReadOnce, ReadFails
    <3> QED BY <3>1, UpdatedQuiet DEF NoWrite
  <2> QED BY <2>1, <2>2, <2>3, <2>4, <2>5, <2>6 DEF CallerNext, AnyRead
<1> QED BY <1>3, <1>4

(* The one step that serves a FindOneAndUpdate.                             *)
LEMMA UpdatedHit ==
  ASSUME UpdatedInv, NEW r \in requests, NEW i \in r.todo, InOrder(r, i), Hit(r, i),
         r.op = "findAndUpdate", r.caller \in Callers, SentBy(r, r.caller), calls[r.caller] = r.call
  PROVE  Updates([docs |-> [Primary EXCEPT ![i] = etag'], by |-> <<r.caller, r.call>>], log[Len(log)],
                 <<r.caller, calls[r.caller]>>, asked[r.caller], write[r.caller].ids, Found(r, i))
<1> DEFINE c == r.caller
           a == asked[c]
           ids == write[c].ids
           there == {j \in r.todo : Matches(r, j)}
           docs == [Primary EXCEPT ![i] = etag']
<1>1. /\ r.tag = AnyTag /\ r.todo = ids
      /\ r.how.sort = a.sort /\ r.how.returnDocument = a.returnDocument
  BY DEF SentBy
<1>2. /\ ids \subseteq Ids /\ i \in Ids /\ a.sort \in Int /\ a.offset = 0
  <2>1. UpdatedOf(c) /\ write[c].op = "findAndUpdate"
    BY DEF UpdatedInv, SentBy
  <2>2. ids \subseteq Ids
    BY UpdatedTypes
  <2> QED BY <1>1, <2>1, <2>2 DEF UpdatedOf
<1>3. Matches(r, i) /\ etag' = etag + 1 /\ NewTag(r)
  BY DEF Hit, NewTag
<1>4. Primary \in Docs /\ Primary[i] <= etag /\ etag \in Nat
  BY <1>2, PrimaryType, CollectionAssumption DEF UpdatedInv, ReadInv, MustInv, TagInv
<1>5. docs[i] = etag' /\ docs[i] # Primary[i]
  BY <1>2, <1>3, <1>4 DEF Docs
<1>6. there = Existing(Primary) \cap ids
  BY <1>1, <1>2 DEF Matches, Existing
<1>7. i \in asDriverFindOneOption([NoOptions EXCEPT !.sort = a.sort], there)
  BY <1>1, <1>3 DEF InOrder
<1>8. i \in Expected("FindOne", a, Existing(Primary) \cap ids)
  <2>1. there \subseteq Ids
    BY <1>1, <1>2
  <2> HIDE DEF there, a
  <2> QED BY <1>2, <1>6, <1>7, <2>1, UpdatesFirst
<1>9. log[Len(log)].docs = Primary
  BY DEF Primary
<1>10. /\ Found(r, i).id = i
       /\ Found(r, i).tag = IF a.returnDocument = "before" THEN Primary[i] ELSE docs[i]
  BY <1>1, <1>5 DEF Found
<1> HIDE DEF a, ids, docs
<1> QED BY <1>5, <1>8, <1>9, <1>10 DEF Updates, a, ids, docs

LEMMA UpdatedServes ==
  ASSUME UpdatedInv, Serve
  PROVE  \A u \in Callers : UpdatedOf(u)'
<1>1. PICK r \in requests : \E i \in r.todo : InOrder(r, i) /\ (ServeHit(r, i) \/ ServeMiss(r, i))
  BY DEF Serve
<1>2. PICK i \in r.todo : InOrder(r, i) /\ (ServeHit(r, i) \/ ServeMiss(r, i))
  BY <1>1
<1>3. PICK c \in Callers : c = r.caller /\ r \in Requests
  BY UpdatedTypes DEF Requests
<1>4. UNCHANGED <<commit, pc, calls, write, seen, asked, result>>
  BY DEF Serve
<1>5. log \in Seq(Entries) /\ Len(log) \in Nat /\ commit \in 1 .. Len(log)
  BY UpdatedTypes
<1>6. PICK s : /\ requests' \subseteq (requests \ {r}) \cup {s}
               /\ s.caller = c /\ s.call = r.call
               /\ Len(log') \in Nat /\ Len(log) <= Len(log')
               /\ \A k \in 1 .. Len(log) : log'[k] = log[k]
               /\ Waiting(r) => SentBy(s, c)'
  <2>1. CASE ServeHit(r, i)
    <3>1. PICK s : s = [r EXCEPT !.todo = IF r.many THEN @ \ {i} ELSE {},
                                 !.hits = @ + 1, !.at = Len(log) + 1,
                                 !.doc = IF r.op = "findAndUpdate" THEN Found(r, i) ELSE @]
      OBVIOUS
    <3>2. /\ s.caller = c /\ s.call = r.call /\ s.op = r.op /\ s.many = r.many /\ s.tag = r.tag
          /\ s.how = r.how /\ s.at = Len(log) + 1
          /\ ~r.many => s.todo = {}
          /\ r.op = "findAndUpdate" => s.doc = Found(r, i)
      BY <1>3, <3>1 DEF Requests
    <3>3. Keep(r, s) /\ Hit(r, i)
      BY <2>1, <3>1 DEF ServeHit
    <3>4. PICK entry : /\ log' = Append(log, entry)
                       /\ r.op = "findAndUpdate" =>
                            entry = [docs |-> [Primary EXCEPT ![i] = etag'], by |-> <<r.caller, r.call>>]
      BY <3>3 DEF Hit, Write
    <3>5. /\ Len(log') = Len(log) + 1
          /\ \A k \in 1 .. Len(log) : log'[k] = log[k]
          /\ log'[Len(log) + 1] = entry
      <4> DEFINE T == Entries \cup {entry}
      <4>1. log \in Seq(T) /\ entry \in T
        BY <1>5, SeqGrows
      <4> HIDE DEF T
      <4> QED BY <3>4, <4>1, AppendProperties
    <3>6. ASSUME Waiting(r) PROVE SentBy(s, c)'
      <4>1. SentBy(r, c) /\ calls[c] = r.call
        BY <1>3, <3>6 DEF UpdatedInv, UpdatedOf, Waiting
      <4>2. CASE r.op # "findAndUpdate"
        BY <1>4, <3>2, <4>1, <4>2 DEF SentBy
      <4>3. CASE r.op = "findAndUpdate"
        <5>1. Updates(entry, log[Len(log)], <<c, calls[c]>>, asked[c], write[c].ids, s.doc)
          BY <1>2, <1>3, <3>2, <3>3, <3>4, <4>1, <4>3, UpdatedHit
        <5>2. s.at \in 2 .. Len(log') /\ log'[s.at] = entry /\ log'[s.at - 1] = log[Len(log)]
          BY <1>5, <3>2, <3>5
        <5>3. UpdatedAt(c, s.at, s.doc)'
          BY <1>4, <5>1, <5>2 DEF UpdatedAt
        <5>4. s.todo = {}
          BY <3>2, <4>1, <4>3 DEF SentBy
        <5> QED BY <1>4, <3>2, <4>1, <4>3, <5>2, <5>3, <5>4 DEF SentBy
      <4> QED BY <4>2, <4>3
    <3> QED BY <1>5, <3>2, <3>3, <3>5, <3>6 DEF Keep
  <2>2. CASE ServeMiss(r, i)
    <3>1. PICK s : s = [r EXCEPT !.todo = IF r.op \in {"insert", "findAndUpdate"} THEN {} ELSE @ \ {i},
                                 !.failed = @ \/ r.op = "insert", !.at = Len(log)]
      OBVIOUS
    <3>2. /\ s.caller = c /\ s.call = r.call /\ s.op = r.op /\ s.many = r.many /\ s.tag = r.tag
          /\ s.how = r.how /\ s.hits = r.hits
          /\ r.op = "findAndUpdate" => s.todo = {}
      BY <1>3, <3>1 DEF Requests
    <3>3. Keep(r, s) /\ log' = log
      BY <2>2, <3>1 DEF ServeMiss
    <3>4. ASSUME Waiting(r) PROVE SentBy(s, c)'
      <4>1. SentBy(r, c) /\ calls[c] = r.call
        BY <1>3, <3>4 DEF UpdatedInv, UpdatedOf, Waiting
      <4>2. r.op = "findAndUpdate" => r.hits = 0
        BY <1>2, <4>1 DEF SentBy
      <4> QED BY <1>4, <3>2, <4>1, <4>2 DEF SentBy
    <3> QED BY <1>5, <3>2, <3>3, <3>4 DEF Keep
  <2> QED BY <1>2, <2>1, <2>2
<1>7. ASSUME NEW u \in Callers \ {c} PROVE UpdatedOf(u)'
  <2>1. \A q \in requests' : q.caller = u => q \in requests
    BY <1>6
  <2> QED BY <1>4, <1>5, <1>6, <2>1, UpdatedLeft DEF UpdatedInv
<1>8. UpdatedOf(c)'
  <2>1. UpdatedOf(c) /\ MustOf(c)
    BY DEF UpdatedInv, ReadInv, MustInv
  <2>2. ASSUME pc[c] = "waiting", NEW q \in requests', q.caller = c, q.call = calls[c]
        PROVE  SentBy(q, c)'
    <3>1. CASE r.call = calls[c]
      <4>1. q = s
        BY <1>3, <1>6, <2>1, <2>2, <3>1 DEF MustOf
      <4> QED BY <1>3, <1>6, <2>2, <3>1, <4>1 DEF Waiting
    <3>2. CASE r.call # calls[c]
      <4>1. q \in requests
        BY <1>6, <2>2, <3>2
      <4>2. SentBy(q, c)
        BY <2>1, <2>2, <4>1 DEF UpdatedOf
      <4> QED BY <1>4, <1>5, <1>6, <4>2, SentKept
    <3> QED BY <3>1, <3>2
  <2> QED BY <1>4, <1>5, <1>6, <2>1, <2>2, UpdatedKept
<1> QED BY <1>7, <1>8

LEMMA UpdatedAnswers ==
  ASSUME UpdatedInv, Answer
  PROVE  \A u \in Callers : UpdatedOf(u)'
<1>1. PICK r \in requests :
        /\ Waiting(r) /\ Acknowledged(r.at)
        /\ pc' = [pc EXCEPT ![r.caller] = "idle"]
        /\ result' = [result EXCEPT ![r.caller] = Failure(r.caller, Outcome(r))]
        /\ seen' = IF r.op = "findAndUpdate" THEN [seen EXCEPT ![r.caller] = r.doc] ELSE seen
        /\ requests' = requests \ {r}
  BY DEF Answer, Return, Goto
<1>2. PICK c \in Callers : c = r.caller /\ r \in Requests
  BY UpdatedTypes DEF Requests
<1>3. UNCHANGED <<calls, write, asked, log, commit>>
  BY DEF Answer, replicaSet
<1>4. /\ pc'[c] = "idle" /\ result'[c] = Failure(c, Outcome(r))
      /\ r.op = "findAndUpdate" => seen'[c] = r.doc
      /\ \A u \in Callers \ {c} : pc'[u] = pc[u] /\ result'[u] = result[u] /\ seen'[u] = seen[u]
  BY <1>1, <1>2, UpdatedTypes
<1>5. SentBy(r, c) /\ UpdatedOf(c)
  BY <1>1, <1>2 DEF UpdatedInv, UpdatedOf, Waiting
<1>6. ASSUME IsWriteConcernMajorityEnabled, result'[c] = Nil, write[c].op = "findAndUpdate"
      PROVE  \E k \in 2 .. commit : Updates(log[k], log[k - 1], <<c, calls[c]>>, asked[c], write[c].ids, seen'[c])
  <2>1. r.op = "findAndUpdate" /\ seen'[c] = r.doc
    BY <1>4, <1>5, <1>6 DEF SentBy
  <2>2. Outcome(r) = Nil
    <3>1. Outcome(r) \in Seq(Texts)
      BY <1>2, OutcomeTells
    <3> QED BY <1>4, <1>6, <3>1, FailureKept
  <2>3. r.hits # 0
    <3>1. /\ wrapMongoError(DuplicateKey) # Nil /\ wrapMongoError(ErrNoDocumentFound) # Nil
      BY Sentinels, WrapKept
    <3> HIDE DEF Nil
    <3> QED BY <2>1, <2>2, <3>1 DEF Outcome
  <2>4. r.at \in 2 .. Len(log) /\ UpdatedAt(c, r.at, r.doc)
    BY <1>5, <2>1, <2>3 DEF SentBy
  <2>5. r.at \in 2 .. commit
    BY <1>1, <1>6, <2>4, UpdatedTypes DEF Acknowledged
  <2> QED BY <2>1, <2>4, <2>5 DEF UpdatedAt
<1>7. UpdatedOf(c)'
  <2>1. /\ pc'[c] # "counted" /\ pc'[c] # "waiting"
        /\ write'[c].op = "findAndUpdate" => asked'[c].sort \in Int /\ asked'[c].offset = 0
    BY <1>3, <1>4, <1>5 DEF UpdatedOf
  <2>2. ASSUME IsWriteConcernMajorityEnabled, result'[c] = Nil, write'[c].op = "findAndUpdate"
        PROVE  \E k \in 2 .. commit' : UpdatedAt(c, k, seen[c])'
    BY <1>3, <1>6, <2>2 DEF UpdatedAt
  <2> HIDE DEF Nil
  <2> QED BY <2>1, <2>2 DEF UpdatedOf
<1>8. ASSUME NEW u \in Callers \ {c} PROVE UpdatedOf(u)'
  <2>1. UpdatedOf(u)
    BY DEF UpdatedInv
  <2>2. commit \in Nat /\ commit <= Len(log) /\ Len(log) \in Nat
    BY UpdatedTypes
  <2> QED BY <1>1, <1>3, <1>4, <2>1, <2>2, UpdatedLeft
<1> QED BY <1>7, <1>8

LEMMA UpdatedFailover ==
  ASSUME UpdatedInv, Failover
  PROVE  \A u \in Callers : UpdatedOf(u)'
<1>1. /\ requests' = {} /\ UNCHANGED <<calls, write, asked, seen, commit>>
      /\ pc' = [c \in Callers |-> IF pc[c] = "waiting" THEN "idle" ELSE pc[c]]
  BY DEF Failover, CutOff
<1>2. log \in Seq(Entries) /\ Len(log) \in Nat /\ commit \in 1 .. Len(log)
  BY UpdatedTypes
<1>3. \A k \in 1 .. commit : log'[k] = log[k]
  <2>1. PICK n \in commit .. Len(log) - 1 : log' = SubSeq(log, 1, n)
    BY DEF Failover, CutOff
  <2>2. n \in 1 .. Len(log) /\ 1 .. commit \subseteq 1 .. n
    BY <1>2, <2>1
  <2>3. \A k \in 1 .. n : log'[k] = log[k]
    BY <1>2, <2>1, <2>2
  <2> QED BY <2>2, <2>3
<1>4. PICK e \in DriverErrors : result' = [c \in Callers |->
        IF pc[c] = "waiting" THEN Failure(c, wrapMongoError(e)) ELSE result[c]]
  BY DEF Failover
<1>5. ASSUME NEW u \in Callers PROVE UpdatedOf(u)'
  <2>1. UpdatedOf(u)
    BY DEF UpdatedInv
  <2>2. CASE pc[u] = "waiting"
    <3>1. pc'[u] = "idle" /\ result'[u] = Failure(u, wrapMongoError(e))
      BY <1>1, <1>4, <2>2
    <3>2. result'[u] # Nil
      BY <3>1, DriverFailure
    <3> HIDE DEF Nil
    <3> QED BY <1>1, <2>1, <3>1, <3>2 DEF UpdatedOf
  <2>3. CASE pc[u] # "waiting"
    <3>1. pc'[u] = pc[u] /\ result'[u] = result[u]
      BY <1>1, <1>4, <2>3
    <3> QED BY <1>1, <1>2, <1>3, <2>1, <3>1, UpdatedKept
  <2> QED BY <2>2, <2>3
<1> QED BY <1>5

LEMMA UpdatedStep ==
  ASSUME UpdatedInv, [Next]_vars
  PROVE  UpdatedInv'
<1> SUFFICES \A u \in Callers : UpdatedOf(u)'
  BY ReadStep DEF UpdatedInv
<1>1. CASE \E c \in Callers : CallerNext(c)
  BY <1>1, UpdatedCaller
<1>2. CASE Serve
  BY <1>2, UpdatedServes
<1>3. CASE Answer
  BY <1>3, UpdatedAnswers
<1>4. CASE Failover
  BY <1>4, UpdatedFailover
<1>5. CASE ReplicaSetNext \/ UNCHANGED vars
  <2>1. /\ UNCHANGED <<requests, pc, calls, write, asked, seen, result, log>>
        /\ commit' \in {commit, commit + 1}
    BY <1>5 DEF ReplicaSetNext, Replicate, vars, caller, replicaSet
  <2>2. commit \in Nat /\ commit' \in Nat /\ commit <= commit' /\ commit <= Len(log) /\ Len(log) \in Nat
    BY <2>1, UpdatedTypes
  <2> QED BY <2>1, <2>2, UpdatedLeft DEF UpdatedInv
<1> QED BY <1>1, <1>2, <1>3, <1>4, <1>5 DEF Next

(* FindOneAndUpdate reads and writes in one step, whoever else writes, and  *)
(* with write concern majority that write stays: the document it returned   *)
(* is the first that there was by its sort, as its own write replaced it    *)
(* or, asked for After, left it (collection.go:134-149, options.go:50-52).  *)
THEOREM UpdatesAtomic == Spec => [](IsWriteConcernMajorityEnabled => UpdatedAtomically)
<1>1. Init => UpdatedInv
  <2> SUFFICES ASSUME Init PROVE UpdatedInv
    OBVIOUS
  <2>1. ASSUME NEW c \in Callers PROVE UpdatedOf(c)
    <3>1. pc[c] = "idle" /\ write[c].op = "none"
      BY DEF Init, NoWrite
    <3> QED BY <3>1 DEF UpdatedOf
  <2> QED BY <2>1, ReadInit DEF UpdatedInv
<1>2. UpdatedInv /\ [Next]_vars => UpdatedInv'
  BY UpdatedStep
<1>3. UpdatedInv => (IsWriteConcernMajorityEnabled => UpdatedAtomically)
  <2> SUFFICES ASSUME UpdatedInv, IsWriteConcernMajorityEnabled, NEW c \in Callers,
                      Returned(c, Nil), write[c].op = "findAndUpdate"
               PROVE  \E k \in 2 .. Len(log) :
                        LET i == seen[c].id
                            there == Existing(View(k - 1)) \cap write[c].ids
                            returned == IF asked[c].returnDocument = "before" THEN k - 1 ELSE k
                        IN  /\ log[k].by = <<c, calls[c]>>
                            /\ i \in Expected("FindOne", asked[c], there)
                            /\ seen[c].tag = View(returned)[i]
                            /\ View(k)[i] # View(k - 1)[i]
    BY DEF UpdatedAtomically
  <2>1. PICK k \in 2 .. commit : UpdatedAt(c, k, seen[c])
    <3> HIDE DEF Nil
    <3> QED BY DEF UpdatedInv, UpdatedOf, Returned
  <2>2. k \in 2 .. Len(log)
    BY <2>1, UpdatedTypes
  <2> WITNESS k \in 2 .. Len(log)
  <2> QED BY <2>1 DEF UpdatedAt, Updates, View
<1> QED BY <1>1, <1>2, <1>3, PTL DEF Spec

-----------------------------------------------------------------------------
(* Which errors a caller can tell.                                          *)

Tells(err) == <<Is(err, ErrDisconnect), Is(err, ErrNoDocumentFound), IsTimeout(err), IsServerErr(err)>>

Recognised(err) == Cardinality({n \in 1 .. 4 : Tells(err)[n]}) = 1

(* The errors that were not wrapped, or once more.                          *)
Outside(c) == find[c].kind = "exampleUpdate" \/ (find[c].kind = "Find" /\ find[c].total = 0)

ErrorOf(c) ==
  pc[c] = "idle" /\ result[c] \notin {NoResult, Nil, BadObjectVersion} =>
    /\ Outside(c) => result[c][1] # "Error"
    /\ ~Outside(c) => Recognised(result[c])

ErrorInv == ReadInv /\ \A c \in Callers : ErrorOf(c)

LEMMA OneTells ==
  ASSUME NEW p \in [1 .. 4 -> BOOLEAN], NEW k \in 1 .. 4, p[k], \A n \in 1 .. 4 : p[n] => n = k
  PROVE  Cardinality({n \in 1 .. 4 : p[n]}) = 1
<1>1. {n \in 1 .. 4 : p[n]} = {k}
  OBVIOUS
<1> QED BY <1>1, FS_Singleton

LEMMA FourTuple ==
  ASSUME NEW a \in BOOLEAN, NEW b \in BOOLEAN, NEW c \in BOOLEAN, NEW d \in BOOLEAN
  PROVE  LET t == <<a, b, c, d>>
         IN  t \in [1 .. 4 -> BOOLEAN] /\ t[1] = a /\ t[2] = b /\ t[3] = c /\ t[4] = d
OBVIOUS

LEMMA TellsOne ==
  ASSUME NEW err,
         \/ Is(err, ErrDisconnect) /\ ~Is(err, ErrNoDocumentFound) /\ ~IsTimeout(err) /\ ~IsServerErr(err)
         \/ ~Is(err, ErrDisconnect) /\ Is(err, ErrNoDocumentFound) /\ ~IsTimeout(err) /\ ~IsServerErr(err)
         \/ ~Is(err, ErrDisconnect) /\ ~Is(err, ErrNoDocumentFound) /\ (IsTimeout(err) <=> ~IsServerErr(err))
  PROVE  Recognised(err)
<1> DEFINE t == Tells(err)
<1>1. /\ t \in [1 .. 4 -> BOOLEAN] /\ t[1] = Is(err, ErrDisconnect) /\ t[2] = Is(err, ErrNoDocumentFound)
      /\ t[3] = IsTimeout(err) /\ t[4] = IsServerErr(err)
  <2>1. /\ Is(err, ErrDisconnect) \in BOOLEAN /\ Is(err, ErrNoDocumentFound) \in BOOLEAN
        /\ IsTimeout(err) \in BOOLEAN /\ IsServerErr(err) \in BOOLEAN
    BY Zenon DEF Is, IsTimeout, IsServerErr
  <2> QED BY <2>1, FourTuple, Zenon DEF Tells
<1> HIDE DEF t
<1>2. \E k \in 1 .. 4 : t[k] /\ \A n \in 1 .. 4 : t[n] => n = k
  <2>1. CASE t[1] /\ ~t[2] /\ ~t[3] /\ ~t[4]
    <3> WITNESS 1 \in 1 .. 4
    <3> QED BY <2>1
  <2>2. CASE ~t[1] /\ t[2] /\ ~t[3] /\ ~t[4]
    <3> WITNESS 2 \in 1 .. 4
    <3> QED BY <2>2
  <2>3. CASE ~t[1] /\ ~t[2] /\ t[3] /\ ~t[4]
    <3> WITNESS 3 \in 1 .. 4
    <3> QED BY <2>3
  <2>4. CASE ~t[1] /\ ~t[2] /\ ~t[3] /\ t[4]
    <3> WITNESS 4 \in 1 .. 4
    <3> QED BY <2>4
  <2> QED BY <1>1, <2>1, <2>2, <2>3, <2>4
<1> QED BY <1>1, <1>2, OneTells DEF Recognised, t

LEMMA FirstLayer ==
  ASSUME NEW a \in Texts, NEW err \in Seq(Texts)
  PROVE  <<a>> \o err \in Seq(Texts) /\ <<a>> \o err # Nil /\ (<<a>> \o err)[1] = a
<1>1. <<a>> \in Seq(Texts) /\ Len(<<a>>) = 1 /\ <<a>>[1] = a
  BY Single
<1>2. Len(err) \in Nat
  BY LenProperties
<1>3. /\ <<a>> \o err \in Seq(Texts) /\ Len(<<a>> \o err) = Len(err) + 1
      /\ (<<a>> \o err)[1] = a
  BY <1>1, <1>2, ConcatProperties
<1>4. <<a>> \o err # Nil
  BY <1>2, <1>3, EmptySeq DEF Nil
<1> QED BY <1>3, <1>4

(* What wrapMongoError returns one predicate knows, and one only.           *)
LEMMA WrapRecognised ==
  ASSUME NEW err \in Seq(Texts), err # Nil
  PROVE  Recognised(wrapMongoError(err))
<1> DEFINE w == <<"Error">> \o err
<1>1. /\ ErrDisconnect[1] = "client is disconnected" /\ Is(ErrDisconnect, ErrDisconnect)
      /\ ErrNoDocumentFound[1] = "no documents in result" /\ Is(ErrNoDocumentFound, ErrNoDocumentFound)
      /\ ~Is(ErrDisconnect, ErrNoDocumentFound) /\ ~Is(ErrNoDocumentFound, ErrDisconnect)
  <2>1. ASSUME NEW a \in Texts, NEW b \in Texts
        PROVE  Is(<<a>>, <<b>>) <=> a = b
    BY Single DEF Is
  <2>2. "client is disconnected" \in Texts /\ "no documents in result" \in Texts
    BY DEF Texts
  <2> QED BY <2>1, <2>2 DEF ErrDisconnect, ErrNoDocumentFound
<1>2. CASE Is(err, ErrDisconnect)
  <2>1. wrapMongoError(err) = ErrDisconnect
    BY <1>2 DEF wrapMongoError
  <2>2. ~IsTimeout(ErrDisconnect) /\ ~IsServerErr(ErrDisconnect)
    BY <1>1 DEF IsTimeout, IsServerErr
  <2>3. Recognised(ErrDisconnect)
    <3> HIDE DEF ErrDisconnect
    <3> QED BY <1>1, <2>2, TellsOne
  <2> QED BY <2>1, <2>3
<1>3. CASE Is(err, ErrNoDocumentFound) /\ ~Is(err, ErrDisconnect)
  <2>1. wrapMongoError(err) = ErrNoDocumentFound
    BY <1>3 DEF wrapMongoError
  <2>2. ~IsTimeout(ErrNoDocumentFound) /\ ~IsServerErr(ErrNoDocumentFound)
    BY <1>1 DEF IsTimeout, IsServerErr
  <2>3. Recognised(ErrNoDocumentFound)
    <3> HIDE DEF ErrNoDocumentFound
    <3> QED BY <1>1, <2>2, TellsOne
  <2> QED BY <2>1, <2>3
<1>4. CASE ~Is(err, ErrNoDocumentFound) /\ ~Is(err, ErrDisconnect)
  <2>1. wrapMongoError(err) = w
    <3> HIDE DEF w
    <3> QED BY <1>4 DEF wrapMongoError, w
  <2>2. "Error" \in Texts /\ "Error" # "client is disconnected" /\ "Error" # "no documents in result"
    BY DEF Texts
  <2>3. ~Is(w, ErrDisconnect) /\ ~Is(w, ErrNoDocumentFound)
    BY <1>1, <1>4, <2>2, Layer
  <2>4. w # Nil /\ w[1] = "Error"
    BY <2>2, FirstLayer
  <2>5. /\ IsTimeout(w) <=> DriverIsTimeout(Tail(w))
        /\ IsServerErr(w) <=> ~DriverIsTimeout(Tail(w))
    <3> HIDE DEF w, Nil
    <3> QED BY <2>4 DEF IsTimeout, IsServerErr
  <2> HIDE DEF w
  <2> QED BY <2>1, <2>3, <2>5, TellsOne
<1> QED BY <1>2, <1>3, <1>4

(* What a call fails with where the library has wrapped it.                 *)
LEMMA FailureTold ==
  ASSUME NEW c, NEW err \in Seq(Texts), err # Nil, find[c].kind # "Find" \/ find[c].total # 0
  PROVE  LET f == Failure(c, wrapMongoError(err))
         IN  /\ Outside(c) => f[1] # "Error"
             /\ ~Outside(c) => Recognised(f)
<1>1. wrapMongoError(err) \in Seq(Texts) /\ wrapMongoError(err) # Nil /\ Recognised(wrapMongoError(err))
  BY WrapKept, WrapRecognised
<1>2. Example(wrapMongoError(err))[1] = "exampleUpdate"
  BY <1>1, FirstLayer DEF Example, Texts
<1> HIDE DEF Nil
<1>3. CASE find[c].kind = "exampleUpdate"
  BY <1>1, <1>2, <1>3 DEF Failure, Outside
<1>4. CASE find[c].kind # "exampleUpdate"
  BY <1>1, <1>4 DEF Failure, Outside
<1> QED BY <1>3, <1>4

LEMMA ErrorKept ==
  ASSUME NEW c, ErrorOf(c), pc'[c] = pc[c], result'[c] = result[c], find'[c] = find[c]
  PROVE  ErrorOf(c)'
<1> HIDE DEF Nil, NoResult, BadObjectVersion
<1> QED BY DEF ErrorOf, Outside

LEMMA ErrorQuiet ==
  ASSUME NEW c, pc'[c] # "idle" \/ result'[c] \in {NoResult, Nil, BadObjectVersion}
  PROVE  ErrorOf(c)'
<1> HIDE DEF Nil, NoResult, BadObjectVersion
<1> QED BY DEF ErrorOf

LEMMA ErrorTypes ==
  ASSUME ErrorInv
  PROVE  /\ pc \in [Callers -> {"idle", "waiting", "found", "counted"}] /\ result \in [Callers -> Seq(Texts)]
         /\ find \in [Callers -> FindType] /\ requests \subseteq Requests
         /\ \A c \in Callers : ErrorOf(c) /\ ReadOf(c)
BY DEF ErrorInv, ReadInv, MustInv, MustTypes, TagInv, CallersOK

(* What a call that has begun to wait, or a Find that goes on, fails with.  *)
LEMMA FailureOf ==
  ASSUME ErrorInv, NEW c \in Callers, pc[c] \in {"waiting", "found", "counted"},
         NEW err \in Seq(Texts), err # Nil, pc'[c] = "idle", find'[c] = find[c],
         result'[c] = Failure(c, wrapMongoError(err))
  PROVE  ErrorOf(c)'
<1>1. find[c].kind # "Find" \/ find[c].total # 0
  <2>1. ReadOf(c)
    BY ErrorTypes
  <2>2. CASE pc[c] = "counted"
    BY <2>1, <2>2 DEF ReadOf, CountsOnly
  <2>3. CASE pc[c] # "counted"
    BY <2>1, <2>3 DEF ReadOf, Kinds
  <2> QED BY <2>2, <2>3
<1>2. /\ Outside(c) => result'[c][1] # "Error"
      /\ ~Outside(c) => Recognised(result'[c])
  BY <1>1, FailureTold
<1> HIDE DEF Nil, NoResult, BadObjectVersion
<1> QED BY <1>2 DEF ErrorOf, Outside

LEMMA DriverError ==
  ASSUME NEW e \in DriverErrors
  PROVE  e \in Seq(Texts) /\ e # Nil /\ e[1] # "Error"
<1>1. e \in Seq(STRING) /\ e # Nil /\ e[1] # "Error"
  BY CollectionAssumption
<1> QED BY <1>1, SeqGrows DEF Texts

LEMMA ErrorCaller ==
  ASSUME ErrorInv, NEW c \in Callers, CallerNext(c)
  PROVE  \A u \in Callers : ErrorOf(u)'
<1> USE DEF Goto, Return, Begin
<1> HIDE DEF Nil, NoResult, BadObjectVersion, NoHow
<1>1. ASSUME NEW u \in Callers \ {c} PROVE ErrorOf(u)'
  <2>1. pc'[u] = pc[u] /\ result'[u] = result[u] /\ find'[u] = find[u]
    BY ErrorTypes DEF CallerNext, AnyRead, WriteCall, FindOneAndUpdate, Send, ExampleFindOne,
         ExampleUpdate, GiveUp, FindCount, FindQuery, Count, FindOne, FindCursor, Distinct, Aggregate,
         ReadAll, ReadOnce, ReadFails
  <2> QED BY <2>1, ErrorKept, ErrorTypes
<1>2. ErrorOf(c)'
  <2>1. CASE WriteCall(c) \/ FindOneAndUpdate(c) \/ ExampleUpdate(c)
    <3>1. pc'[c] = "waiting"
      BY <2>1, ErrorTypes DEF WriteCall, FindOneAndUpdate, Send, ExampleUpdate
    <3> QED BY <3>1, ErrorQuiet
  <2>2. CASE FindCount(c) \/ FindQuery(c) \/ Count(c) \/ FindCursor(c) \/ Distinct(c) \/ Aggregate(c)
    <3>1. pc'[c] = "counted" \/ result'[c] = Nil
      BY <2>2, ErrorTypes DEF FindCount, FindQuery, Count, FindCursor, Distinct, Aggregate, ReadAll, ReadOnce
    <3> QED BY <3>1, ErrorQuiet
  <2>3. CASE FindOne(c)
    <3>1. \/ result'[c] = Nil
          \/ result'[c] = wrapMongoError(ErrNoDocumentFound) /\ find'[c].kind = "FindOne"
      BY <2>3, ErrorTypes DEF FindOne, ReadOnce, Reading
    <3>2. Recognised(wrapMongoError(ErrNoDocumentFound))
      BY Sentinels, WrapRecognised
    <3>3. CASE result'[c] = Nil
      BY <3>3, ErrorQuiet
    <3>4. CASE result'[c] = wrapMongoError(ErrNoDocumentFound) /\ find'[c].kind = "FindOne"
      BY <3>2, <3>4 DEF ErrorOf, Outside
    <3> QED BY <3>1, <3>3, <3>4
  <2>4. CASE ExampleFindOne(c)
    <3>1. find'[c].kind = "exampleUpdate"
      BY <2>4, ErrorTypes DEF ExampleFindOne, NoFind, Reading
    <3>2. \/ pc'[c] = "found" \/ result'[c] = BadObjectVersion
          \/ \E err \in {ErrNoDocumentFound} \cup {wrapMongoError(e) : e \in DriverErrors} : result'[c] = Example(err)
      BY <2>4, ErrorTypes DEF ExampleFindOne
    <3>3. CASE pc'[c] = "found" \/ result'[c] = BadObjectVersion
      BY <3>3, ErrorQuiet
    <3>4. ASSUME NEW err \in {ErrNoDocumentFound} \cup {wrapMongoError(e) : e \in DriverErrors},
                 result'[c] = Example(err)
          PROVE  ErrorOf(c)'
      <4>1. err \in Seq(Texts)
        BY DriverError, WrapKept, Sentinels
      <4>2. "exampleUpdate" \in Texts
        BY DEF Texts
      <4>3. result'[c][1] = "exampleUpdate"
        BY <3>4, <4>1, <4>2, FirstLayer DEF Example
      <4> QED BY <3>1, <4>3 DEF ErrorOf, Outside
    <3> QED BY <3>2, <3>3, <3>4
  <2>5. CASE ReadFails(c)
    <3>1. PICK kind \in Kinds, e \in DriverErrors :
            /\ find' = [find EXCEPT ![c] = Reading(kind, NoOptions, {})]
            /\ result' = [result EXCEPT ![c] = IF kind = "Find" THEN e ELSE wrapMongoError(e)]
      BY <2>5 DEF ReadFails
    <3>2. /\ find'[c].kind = kind /\ find'[c].total = 0
          /\ result'[c] = IF kind = "Find" THEN e ELSE wrapMongoError(e)
      BY <3>1, ErrorTypes DEF Reading
    <3>3. e[1] # "Error" /\ Recognised(wrapMongoError(e))
      BY DriverError, WrapRecognised
    <3>4. kind # "exampleUpdate"
      BY DEF Kinds
    <3> QED BY <3>2, <3>3, <3>4 DEF ErrorOf, Outside
  <2>6. CASE GiveUp(c)
    <3>1. PICK e \in DriverErrors : result'[c] = Failure(c, wrapMongoError(e))
      BY <2>6, ErrorTypes DEF GiveUp
    <3>2. pc[c] \in {"waiting", "found", "counted"} /\ pc'[c] = "idle" /\ find'[c] = find[c]
      BY <2>6, ErrorTypes DEF GiveUp
    <3> QED BY <3>1, <3>2, DriverError, FailureOf
  <2> QED BY <2>1, <2>2, <2>3, <2>4, <2>5, <2>6 DEF CallerNext
<1> QED BY <1>1, <1>2

LEMMA ErrorStep ==
  ASSUME ErrorInv, [Next]_vars
  PROVE  ErrorInv'
<1> SUFFICES \A u \in Callers : ErrorOf(u)'
  BY ReadStep DEF ErrorInv
<1> HIDE DEF Nil
<1>1. CASE \E c \in Callers : CallerNext(c)
  BY <1>1, ErrorCaller
<1>2. CASE Answer
  <2>1. PICK r \in requests : /\ pc[r.caller] = "waiting" /\ pc' = [pc EXCEPT ![r.caller] = "idle"]
                              /\ result' = [result EXCEPT ![r.caller] = Failure(r.caller, Outcome(r))]
    BY <1>2 DEF Answer, Waiting, Return, Goto
  <2>2. PICK c \in Callers : c = r.caller
    BY ErrorTypes DEF Requests
  <2>3. find' = find
    BY <1>2 DEF Answer
  <2>4. ASSUME NEW u \in Callers \ {c} PROVE ErrorOf(u)'
    <3>1. pc'[u] = pc[u] /\ result'[u] = result[u]
      BY <2>1, <2>2, ErrorTypes
    <3> QED BY <2>3, <3>1, ErrorKept, ErrorTypes
  <2>5. pc'[c] = "idle" /\ result'[c] = Failure(c, Outcome(r))
    BY <2>1, <2>2, ErrorTypes
  <2>6. ASSUME Outcome(r) = Nil PROVE ErrorOf(c)'
    <3>1. result'[c] = Nil
      BY <2>5, <2>6 DEF Failure
    <3> QED BY <3>1, ErrorQuiet
  <2>7. ASSUME Outcome(r) # Nil PROVE ErrorOf(c)'
    <3>1. PICK err \in {DuplicateKey, ErrNoDocumentFound} : Outcome(r) = wrapMongoError(err)
      BY <2>7 DEF Outcome
    <3>2. err \in Seq(Texts) /\ err # Nil
      BY Sentinels
    <3> QED BY <2>1, <2>2, <2>3, <2>5, <3>1, <3>2, FailureOf
  <2> QED BY <2>4, <2>6, <2>7
<1>3. CASE Failover
  <2>1. PICK e \in DriverErrors : result' = [c \in Callers |->
          IF pc[c] = "waiting" THEN Failure(c, wrapMongoError(e)) ELSE result[c]]
    BY <1>3 DEF Failover
  <2>2. pc' = [c \in Callers |-> IF pc[c] = "waiting" THEN "idle" ELSE pc[c]] /\ find' = find
    BY <1>3 DEF Failover
  <2>3. ASSUME NEW u \in Callers PROVE ErrorOf(u)'
    <3>1. CASE pc[u] = "waiting"
      <4>1. pc'[u] = "idle" /\ result'[u] = Failure(u, wrapMongoError(e))
        BY <2>1, <2>2, <3>1
      <4> QED BY <2>2, <3>1, <4>1, DriverError, FailureOf
    <3>2. CASE pc[u] # "waiting"
      <4>1. pc'[u] = pc[u] /\ result'[u] = result[u]
        BY <2>1, <2>2, <3>2
      <4> QED BY <2>2, <4>1, ErrorKept, ErrorTypes
    <3> QED BY <3>1, <3>2
  <2> QED BY <2>3
<1>4. CASE Serve \/ ReplicaSetNext \/ UNCHANGED vars
  <2>1. UNCHANGED <<find, pc, result>>
    BY <1>4 DEF Serve, ReplicaSetNext, vars, caller
  <2> QED BY <2>1, ErrorKept, ErrorTypes
<1> QED BY <1>1, <1>2, <1>3, <1>4 DEF Next

(* Every error a call returns is known to exactly one of the predicates a   *)
(* caller has (error.go), except that of the count of Find and those that   *)
(* exampleUpdate has wrapped once more, which no predicate for errors of    *)
(* the server knows (collection.go:99, CONVERT.md:361, 373).                *)
THEOREM ErrorsTold == Spec => []ErrorsRecognised
<1>1. Init => ErrorInv
  <2> SUFFICES ASSUME Init PROVE ErrorInv
    OBVIOUS
  <2>1. ASSUME NEW c \in Callers PROVE ErrorOf(c)
    <3>1. result[c] = NoResult
      BY DEF Init
    <3> QED BY <3>1 DEF ErrorOf
  <2> QED BY <2>1, ReadInit DEF ErrorInv
<1>2. ErrorInv /\ [Next]_vars => ErrorInv'
  BY ErrorStep
<1>3. ErrorInv => ErrorsRecognised
  <2> SUFFICES ASSUME ErrorInv, NEW c \in Callers, pc[c] = "idle",
                      result[c] \notin {NoResult, Nil, BadObjectVersion}
               PROVE  /\ Outside(c) => ~IsTimeout(result[c]) /\ ~IsServerErr(result[c])
                      /\ ~Outside(c) => Recognised(result[c])
    BY DEF ErrorsRecognised, Outside, Recognised, Tells
  <2>1. ErrorOf(c)
    BY DEF ErrorInv
  <2>2. result[c][1] # "Error" => ~IsTimeout(result[c]) /\ ~IsServerErr(result[c])
    BY DEF IsTimeout, IsServerErr
  <2> HIDE DEF Nil, NoResult, BadObjectVersion
  <2> QED BY <2>1, <2>2 DEF ErrorOf
<1> QED BY <1>1, <1>2, <1>3, PTL DEF Spec

-----------------------------------------------------------------------------
(* The rest of the invariant that TLC checks: bounds, and that nobody waits *)
(* in vain.                                                                 *)

ExampleWrite(i, m) == [op |-> "update", ids |-> {i}, many |-> FALSE, must |-> m]

WriteType == Writes \cup {NoWrite} \cup {ExampleWrite(i, m) : i \in Ids, m \in MustForms}

Expects(c) == pc[c] = "waiting" => \E r \in requests : r.caller = c /\ r.call = calls[c]

Bounded ==
  /\ calls \in [Callers -> 0 .. MaxCalls]
  /\ write \in [Callers -> WriteType]
  /\ faults \in 0 .. MaxFaults
  /\ \A c \in Callers : Expects(c)

WholeInv == ReadInv /\ StayInv /\ Bounded

LEMMA WholeTypes ==
  ASSUME WholeInv
  PROVE  /\ pc \in [Callers -> {"idle", "waiting", "found", "counted"}]
         /\ calls \in [Callers -> 0 .. MaxCalls] /\ write \in [Callers -> WriteType]
         /\ faults \in 0 .. MaxFaults /\ requests \subseteq Requests
BY DEF WholeInv, Bounded, ReadInv, MustInv, TagInv, CallersOK

LEMMA FaultCounts ==
  ASSUME WholeInv, faults' = faults \/ Fault
  PROVE  faults' \in 0 .. MaxFaults
BY WholeTypes, CollectionAssumption DEF Fault

LEMMA ExpectsKept ==
  ASSUME NEW c, Expects(c), pc'[c] = pc[c], calls'[c] = calls[c],
         \A r \in requests : r.caller = c /\ r.call = calls[c] =>
           \E q \in requests' : q.caller = c /\ q.call = r.call
  PROVE  Expects(c)'
BY DEF Expects

LEMMA BoundedBegins ==
  ASSUME WholeInv, NEW c \in Callers, NEW f, NEW w \in WriteType, NEW a, Begin(c, f, w, a)
  PROVE  calls' \in [Callers -> 0 .. MaxCalls] /\ write' \in [Callers -> WriteType]
<1>1. calls' = [calls EXCEPT ![c] = calls[c] + 1] /\ calls[c] < MaxCalls /\ write' = [write EXCEPT ![c] = w]
  BY WholeTypes DEF Begin
<1>2. calls[c] + 1 \in 0 .. MaxCalls
  BY <1>1, WholeTypes, CollectionAssumption
<1> QED BY <1>1, <1>2, WholeTypes

LEMMA BoundedCaller ==
  ASSUME WholeInv, NEW c \in Callers, CallerNext(c)
  PROVE  Bounded'
<1> USE DEF Goto, Return
<1>1. ASSUME NEW u \in Callers \ {c} PROVE Expects(u)'
  <2>1. pc'[u] = pc[u] /\ calls'[u] = calls[u]
    BY WholeTypes DEF Begin, CallerNext, AnyRead, WriteCall, FindOneAndUpdate, Send, ExampleFindOne,
         ExampleUpdate, GiveUp, FindCount, FindQuery, Count, FindOne, FindCursor, Distinct, Aggregate,
         ReadAll, ReadOnce, ReadFails
  <2>2. \A r \in requests : r.caller = u => r \in requests'
    BY DEF CallerNext, AnyRead, WriteCall, FindOneAndUpdate, Send, ExampleFindOne,
         ExampleUpdate, GiveUp, FindCount, FindQuery, Count, FindOne, FindCursor, Distinct, Aggregate,
         ReadAll, ReadOnce, ReadFails
  <2> QED BY <2>1, <2>2, ExpectsKept DEF WholeInv, Bounded
<1>2. faults' \in 0 .. MaxFaults
  <2>1. faults' = faults \/ Fault
    BY DEF CallerNext, AnyRead, WriteCall, FindOneAndUpdate, Send, ExampleFindOne,
         ExampleUpdate, GiveUp, FindCount, FindQuery, Count, FindOne, FindCursor, Distinct, Aggregate,
         ReadAll, ReadOnce, ReadFails
  <2> QED BY <2>1, FaultCounts
<1>3. CASE WriteCall(c) \/ FindOneAndUpdate(c)
  <2>1. PICK w \in Writes : \E how, a : Send(c, w, how, a)
    BY <1>3 DEF WriteCall, FindOneAndUpdate
  <2>2. PICK how, a : Send(c, w, how, a)
    BY <2>1
  <2>3. PICK q : q = Request(c, calls'[c], w, AnyTag, how)
    OBVIOUS
  <2>4. q \in requests' /\ q.caller = c /\ q.call = calls'[c]
    BY <2>2, <2>3 DEF Send, Request
  <2>5. calls' \in [Callers -> 0 .. MaxCalls] /\ write' \in [Callers -> WriteType]
    BY <2>2, BoundedBegins DEF Send, WriteType
  <2>6. Expects(c)'
    BY <2>4 DEF Expects
  <2> QED BY <1>1, <1>2, <2>5, <2>6 DEF Bounded
<1>4. CASE ExampleUpdate(c)
  <2>1. PICK must \in MustForms : \E w :
           /\ w = ExampleWrite(seen[c].id, must)
           /\ requests' = requests \cup {Request(c, calls[c], w, seen[c].tag, NoHow)}
           /\ write' = [write EXCEPT ![c] = w]
    BY <1>4 DEF ExampleUpdate, ExampleWrite
  <2>2. PICK w : /\ w = ExampleWrite(seen[c].id, must)
                 /\ requests' = requests \cup {Request(c, calls[c], w, seen[c].tag, NoHow)}
                 /\ write' = [write EXCEPT ![c] = w]
    BY <2>1
  <2>3. seen[c].id \in Ids
    BY <1>4 DEF ExampleUpdate, WholeInv, ReadInv, MustInv, TagInv, CallersOK
  <2>4. w \in WriteType
    BY <2>2, <2>3 DEF WriteType
  <2>5. PICK q : q = Request(c, calls[c], w, seen[c].tag, NoHow)
    OBVIOUS
  <2>6. q \in requests' /\ q.caller = c /\ q.call = calls[c]
    BY <2>2, <2>5 DEF Request
  <2>7. calls' = calls
    BY <1>4 DEF ExampleUpdate
  <2>8. write' \in [Callers -> WriteType]
    BY <2>2, <2>4, WholeTypes
  <2>9. Expects(c)'
    BY <2>6, <2>7 DEF Expects
  <2> QED BY <1>1, <1>2, <2>7, <2>8, <2>9, WholeTypes DEF Bounded
<1>5. CASE GiveUp(c) \/ FindQuery(c)
  <2>1. calls' = calls /\ write' = write /\ pc'[c] = "idle"
    BY <1>5, WholeTypes DEF GiveUp, FindQuery
  <2> QED BY <1>1, <1>2, <2>1, WholeTypes DEF Bounded, Expects
<1>6. CASE ExampleFindOne(c) \/ FindCount(c) \/ AnyRead(c) \/ ReadFails(c)
  <2>1. PICK f, a : Begin(c, f, NoWrite, a)
    BY <1>6 DEF ExampleFindOne, FindCount, AnyRead, Count, FindOne, FindCursor, Distinct, Aggregate,
         ReadAll, ReadOnce, ReadFails
  <2>2. pc'[c] # "waiting"
    BY <1>6, WholeTypes DEF ExampleFindOne, FindCount, AnyRead, Count, FindOne, FindCursor, Distinct,
         Aggregate, ReadAll, ReadOnce, ReadFails
  <2>3. calls' \in [Callers -> 0 .. MaxCalls] /\ write' \in [Callers -> WriteType]
    <3>1. NoWrite \in WriteType
      BY DEF WriteType
    <3> HIDE DEF Begin
    <3> QED BY <2>1, <3>1, BoundedBegins
  <2> QED BY <1>1, <1>2, <2>2, <2>3 DEF Bounded, Expects
<1> QED BY <1>3, <1>4, <1>5, <1>6 DEF CallerNext, AnyRead

LEMMA BoundedServes ==
  ASSUME WholeInv, Serve
  PROVE  Bounded'
<1>1. PICK r \in requests : \E i \in r.todo : ServeHit(r, i) \/ ServeMiss(r, i)
  BY DEF Serve
<1>2. PICK i \in r.todo : ServeHit(r, i) \/ ServeMiss(r, i)
  BY <1>1
<1>3. r \in Requests
  BY WholeTypes
<1>4. UNCHANGED <<pc, calls, write, faults>>
  BY DEF Serve
<1>5. PICK s : Keep(r, s) /\ s.caller = r.caller /\ s.call = r.call
  <2>1. CASE ServeHit(r, i)
    <3> DEFINE s == [r EXCEPT !.todo = IF r.many THEN @ \ {i} ELSE {},
                              !.hits = @ + 1, !.at = Len(log) + 1,
                              !.doc = IF r.op = "findAndUpdate" THEN Found(r, i) ELSE @]
    <3>1. s.caller = r.caller /\ s.call = r.call
      BY <1>3 DEF Requests
    <3>2. Keep(r, s)
      BY <2>1 DEF ServeHit
    <3> QED BY <3>1, <3>2
  <2>2. CASE ServeMiss(r, i)
    <3> DEFINE s == [r EXCEPT !.todo = IF r.op \in {"insert", "findAndUpdate"} THEN {} ELSE @ \ {i},
                              !.failed = @ \/ r.op = "insert", !.at = Len(log)]
    <3>1. s.caller = r.caller /\ s.call = r.call
      BY <1>3 DEF Requests
    <3>2. Keep(r, s)
      BY <2>2 DEF ServeMiss
    <3> QED BY <3>1, <3>2
  <2> QED BY <1>2, <2>1, <2>2
<1>6. ASSUME NEW u \in Callers PROVE Expects(u)'
  <2>1. CASE pc[u] = "waiting"
    <3>1. PICK q \in requests : q.caller = u /\ q.call = calls[u]
      BY <2>1 DEF WholeInv, Bounded, Expects
    <3>2. CASE q # r
      <4>1. q \in requests'
        BY <1>5, <3>2 DEF Keep
      <4> QED BY <1>4, <3>1, <4>1 DEF Expects
    <3>3. CASE q = r
      <4>1. s \in requests'
        BY <1>5, <2>1, <3>1, <3>3 DEF Keep, Waiting
      <4> QED BY <1>4, <1>5, <3>1, <3>3, <4>1 DEF Expects
    <3> QED BY <3>2, <3>3
  <2>2. CASE pc[u] # "waiting"
    BY <1>4, <2>2 DEF Expects
  <2> QED BY <2>1, <2>2
<1> QED BY <1>4, <1>6, WholeTypes DEF Bounded

LEMMA WholeStep ==
  ASSUME WholeInv, [Next]_vars
  PROVE  WholeInv'
<1> SUFFICES Bounded'
  BY ReadStep, StayStep DEF WholeInv
<1>1. CASE \E c \in Callers : CallerNext(c)
  BY <1>1, BoundedCaller
<1>2. CASE Serve
  BY <1>2, BoundedServes
<1>3. CASE Answer
  <2>1. PICK r \in requests : pc' = [pc EXCEPT ![r.caller] = "idle"] /\ requests' = requests \ {r}
    BY <1>3 DEF Answer, Return, Goto
  <2>2. PICK c \in Callers : c = r.caller
    BY WholeTypes DEF Requests
  <2>3. UNCHANGED <<calls, write, faults>>
    BY <1>3 DEF Answer
  <2>4. ASSUME NEW u \in Callers \ {c} PROVE Expects(u)'
    <3>1. pc'[u] = pc[u]
      BY <2>1, <2>2, WholeTypes
    <3> QED BY <2>1, <2>2, <2>3, <3>1, ExpectsKept DEF WholeInv, Bounded
  <2>5. Expects(c)'
    BY <2>1, <2>2, WholeTypes DEF Expects
  <2> QED BY <2>3, <2>4, <2>5, WholeTypes DEF Bounded
<1>4. CASE Failover
  <2>1. /\ UNCHANGED <<calls, write>> /\ Fault
        /\ pc' = [c \in Callers |-> IF pc[c] = "waiting" THEN "idle" ELSE pc[c]]
    BY <1>4 DEF Failover
  <2>2. \A u \in Callers : Expects(u)'
    BY <2>1 DEF Expects
  <2> QED BY <2>1, <2>2, FaultCounts, WholeTypes DEF Bounded
<1>5. CASE ReplicaSetNext \/ UNCHANGED vars
  <2>1. UNCHANGED <<requests, pc, calls, write, faults>>
    BY <1>5 DEF ReplicaSetNext, vars, caller
  <2> QED BY <2>1, ExpectsKept, WholeTypes DEF WholeInv, Bounded
<1> QED BY <1>1, <1>2, <1>3, <1>4, <1>5 DEF Next

(* Every variable keeps its type, the bounds hold, no ETag is used before   *)
(* it is calculated, and a caller that waits has a request that is still to *)
(* be served or answered.                                                   *)
THEOREM WholeInvariant == Spec => []IInv
<1>1. Init => WholeInv
  <2> SUFFICES ASSUME Init PROVE WholeInv
    OBVIOUS
  <2>1. /\ calls = [c \in Callers |-> 0] /\ write = [c \in Callers |-> NoWrite] /\ faults = 0
        /\ pc = [c \in Callers |-> "idle"] /\ requests = {} /\ done = [c \in Callers |-> {}]
    BY DEF Init
  <2>2. Bounded
    BY <2>1, CollectionAssumption DEF Bounded, Expects, WriteType
  <2>3. StayInv
    BY <2>1, MustInit DEF StayInv, StayOf
  <2> QED BY <2>2, <2>3, ReadInit DEF WholeInv
<1>2. WholeInv /\ [Next]_vars => WholeInv'
  BY WholeStep
<1>3. WholeInv => IInv
  <2> SUFFICES ASSUME WholeInv PROVE IInv
    OBVIOUS
  <2>1. TypeOK
    <3>1. /\ ReplicaSetTypeOK /\ seen \in [Callers -> Documents] /\ done \in [Callers -> SUBSET Ids]
          /\ etag \in 0 .. MaxWrites /\ base \in [1 .. MaxWrites -> Nat] /\ find \in [Callers -> FindType]
      BY DEF WholeInv, ReadInv, MustInv, MustTypes, TagInv, CallersOK
    <3>2. \A c \in Callers : /\ find[c].kind \in Kinds \cup {"none", "exampleUpdate"}
                              /\ find[c].total \in Nat /\ find[c].found \subseteq Ids
      BY <3>1 DEF FindType
    <3> QED BY <3>1, <3>2, WholeTypes DEF TypeOK, WriteType, ExampleWrite
  <2> QED BY <2>1 DEF IInv, WholeInv, ReadInv, MustInv, TagInv, StayInv, Bounded, Expects
<1> QED BY <1>1, <1>2, <1>3, PTL DEF Spec
=============================================================================
