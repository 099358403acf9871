------------------------- MODULE LeaseRegistryProofs --------------------------
(***************************************************************************)
(* What the registry of leases gives its users, for any set of leases.     *)
(***************************************************************************)
EXTENDS LeaseRegistry, TLAPS

(* Two holders of a resource, both within their TTL, are one: what a user   *)
(* of dplock relies on, said of the abstract registry (dplock.go:119).      *)
THEOREM LeasesExclude == Spec => []Exclusive
<1> USE DEF Inv, TypeOK
<1>1. Init => Inv
  BY DEF Init
<1>2. ASSUME Inv, [Next]_vars PROVE Inv'
  <2>1. ASSUME NEW d \in Leases, Grant(d) PROVE Inv'
    BY <1>2, <2>1 DEF Grant
  <2>2. ASSUME NEW d \in Leases, Remove(d) PROVE Inv'
    BY <1>2, <2>2 DEF Remove
  <2>3. ASSUME NEW d \in Leases, Lapse(d) PROVE Inv'
    BY <1>2, <2>3 DEF Lapse
  <2>4. ASSUME NEW S \in SUBSET holders, Yield(S) PROVE Inv'
    BY <1>2, <2>4 DEF Yield
  <2>5. CASE UNCHANGED vars
    BY <1>2, <2>5 DEF vars
  <2> QED BY <1>2, <2>1, <2>2, <2>3, <2>4, <2>5 DEF Next
<1>3. Inv => Exclusive
  BY DEF Exclusive
<1> QED BY <1>1, <1>2, <1>3, PTL DEF Spec
=============================================================================
