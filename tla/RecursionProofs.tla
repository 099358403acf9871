--------------------------- MODULE RecursionProofs ---------------------------
(***************************************************************************)
(* The lemmas about natural numbers and functions that are defined by      *)
(* recursion on them that the proofs of other modules rest on.  They are   *)
(* about sets and functions, not operators: a proof by induction takes the *)
(* set of the numbers where a fact fails and looks at its least element.   *)
(***************************************************************************)
EXTENDS Integers, TLAPS, WellFoundedInduction

(* Every set of natural numbers that is not empty has a least one.          *)
LEMMA LeastNat ==
  ASSUME NEW T, T \subseteq Nat, T # {}
  PROVE  \E m \in T : \A k \in T : m <= k
<1> DEFINE less == {p \in Nat \X Nat : p[1] < p[2]}
<1>1. IsWellFoundedOn(less, Nat)
  BY NatLessThanWellFounded DEF OpToRel
<1> HIDE DEF less
<1>2. PICK m \in T : \A k \in T : <<k, m>> \notin less
  BY <1>1, WFMin
<1>3. ASSUME NEW k \in T PROVE m <= k
  <2>1. <<k, m>> \notin less /\ k \in Nat /\ m \in Nat
    BY <1>2
  <2>2. ~(k < m)
    BY <2>1 DEF less
  <2> QED BY <2>1, <2>2
<1> QED BY <1>3

(* A set of natural numbers that has 0 and, with a number below n, the next *)
(* has every number up to n.                                                *)
LEMMA UpTo ==
  ASSUME NEW n \in Nat, NEW S, 0 \in S, \A m \in 0 .. n - 1 : m \in S => m + 1 \in S
  PROVE  0 .. n \subseteq S
<1> DEFINE T == {m \in 0 .. n : m \notin S}
<1> SUFFICES ASSUME T # {} PROVE FALSE
  OBVIOUS
<1>1. T \subseteq Nat
  OBVIOUS
<1> HIDE DEF T
<1>2. PICK m \in T : \A k \in T : m <= k
  BY <1>1, LeastNat
<1>3. m \in 0 .. n /\ m \notin S /\ m # 0
  BY DEF T
<1>4. m - 1 \in 0 .. n - 1 /\ m - 1 \notin T /\ (m - 1) + 1 = m
  BY <1>2, <1>3
<1>5. m - 1 \in S
  BY <1>4 DEF T
<1> QED BY <1>3, <1>4, <1>5

(* What makes a value in V of one in V, at each of 1 .. N.                  *)
Steps(N, V) == [1 .. N -> [V -> V]]

(* The functions that start with first and go on by step.                   *)
Recursions(N, V, first, step) ==
  {f \in [0 .. N -> V] : f[0] = first /\ \A n \in 1 .. N : f[n] = step[n][f[n - 1]]}

(* A function that is defined by recursion from its value at 0 exists.      *)
LEMMA Recurs ==
  \A N \in Nat : \A V : \A first \in V : \A step \in Steps(N, V) :
    Recursions(N, V, first, step) # {}
<1> SUFFICES ASSUME NEW N \in Nat, NEW V, NEW first \in V, NEW step \in Steps(N, V)
             PROVE  Recursions(N, V, first, step) # {}
  OBVIOUS
<1> step \in [1 .. N -> [V -> V]]
  BY DEF Steps
<1> DEFINE Good(m, f) == \A n \in 0 .. m : f[n] = IF n = 0 THEN first ELSE step[n][f[n - 1]]
           S == {m \in 0 .. N : \E f \in [0 .. m -> V] : Good(m, f)}
<1>1. 0 \in S
  <2> DEFINE f == [n \in 0 .. 0 |-> first]
  <2>1. f \in [0 .. 0 -> V] /\ Good(0, f)
    OBVIOUS
  <2>2. 0 \in 0 .. N
    OBVIOUS
  <2> HIDE DEF f, Good
  <2> QED BY <2>1, <2>2
<1>2. ASSUME NEW m \in 0 .. N - 1, m \in S
      PROVE  m + 1 \in S
  <2>1. PICK g \in [0 .. m -> V] : Good(m, g)
    BY <1>2
  <2>2. m \in 0 .. m /\ m + 1 \in 1 .. N /\ m + 1 \in 0 .. N
    OBVIOUS
  <2>3. g[m] \in V
    BY <2>2
  <2>4. step[m + 1] \in [V -> V]
    BY <2>2
  <2> DEFINE next == step[m + 1][g[m]]
             f == [n \in 0 .. m + 1 |-> IF n = m + 1 THEN next ELSE g[n]]
  <2>5. next \in V
    BY <2>3, <2>4
  <2>6. \A n \in 0 .. m + 1 : n # m + 1 => n \in 0 .. m
    OBVIOUS
  <2>7. f[m + 1] = next /\ \A n \in 0 .. m : f[n] = g[n]
    OBVIOUS
  <2>8. f \in [0 .. m + 1 -> V]
    <3> HIDE DEF next
    <3> QED BY <2>5, <2>6
  <2> HIDE DEF f
  <2>9. ASSUME NEW n \in 0 .. m + 1
        PROVE  f[n] = IF n = 0 THEN first ELSE step[n][f[n - 1]]
    <3>1. CASE n = m + 1
      <4>1. n - 1 = m /\ n # 0
        BY <3>1
      <4>2. f[n - 1] = g[m]
        BY <2>2, <2>7, <4>1
      <4> QED BY <2>7, <3>1, <4>1, <4>2
    <3>2. CASE n # m + 1 /\ n # 0
      <4>1. n \in 0 .. m /\ n - 1 \in 0 .. m
        BY <3>2
      <4>2. f[n] = g[n] /\ f[n - 1] = g[n - 1]
        BY <2>7, <4>1
      <4>3. g[n] = step[n][g[n - 1]]
        BY <2>1, <3>2, <4>1
      <4> QED BY <3>2, <4>2, <4>3
    <3>3. CASE n = 0
      <4>1. 0 \in 0 .. m
        OBVIOUS
      <4>2. g[0] = first /\ f[0] = g[0]
        BY <2>1, <2>7, <4>1
      <4> QED BY <3>3, <4>2
    <3> QED BY <3>1, <3>2, <3>3
  <2>10. Good(m + 1, f)
    BY <2>9
  <2> HIDE DEF Good
  <2> QED BY <2>2, <2>8, <2>10
<1>3. 0 .. N \subseteq S
  <2> HIDE DEF S
  <2> QED BY <1>1, <1>2, UpTo
<1>4. PICK f \in [0 .. N -> V] : Good(N, f)
  BY <1>3
<1>5. 0 \in 0 .. N /\ \A n \in 1 .. N : n \in 0 .. N /\ n # 0
  OBVIOUS
<1>6. f[0] = first /\ \A n \in 1 .. N : f[n] = step[n][f[n - 1]]
  BY <1>4, <1>5
<1>7. f \in Recursions(N, V, first, step)
  BY <1>6 DEF Recursions
<1> QED BY <1>7
=============================================================================
