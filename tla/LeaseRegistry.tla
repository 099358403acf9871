---------------------------- MODULE LeaseRegistry ----------------------------
(***************************************************************************)
(* What dplock promises, without requests, purgers or retries: leases on   *)
(* resources are granted one at a time, and only the end of a lease frees  *)
(* its resource: its holder gives it up, or its TTL elapses.               *)
(***************************************************************************)
CONSTANT Leases  \* records with a field res, the resource

VARIABLES
  registry, \* leases on record
  holders,  \* leases whose holder was told it has the lock and has not begun to unlock
  lapsed    \* leases whose TTL has elapsed

vars == <<registry, holders, lapsed>>

TypeOK ==
  /\ registry \in SUBSET Leases
  /\ holders \in SUBSET Leases
  /\ lapsed \in SUBSET Leases

Init == registry = {} /\ holders = {} /\ lapsed = {}

(* A lease is granted on a free resource, to a holder or to one that was    *)
(* never told.                                                              *)
Grant(d) ==
  /\ d \notin holders
  /\ \A e \in registry : e.res # d.res
  /\ registry' = registry \cup {d}
  /\ holders' \in {holders, holders \cup {d}}
  /\ UNCHANGED lapsed

(* Holders give their leases up; the records go now or are left behind.     *)
Yield(S) ==
  /\ S \subseteq holders
  /\ holders' = holders \ S
  /\ registry' \in {registry, registry \ S}
  /\ UNCHANGED lapsed

(* A record goes only if nobody holds it or its TTL has elapsed.            *)
Remove(d) ==
  /\ d \in registry
  /\ d \in lapsed \/ d \notin holders
  /\ registry' = registry \ {d}
  /\ UNCHANGED <<holders, lapsed>>

Lapse(d) ==
  /\ d \in registry
  /\ lapsed' = lapsed \cup {d}
  /\ UNCHANGED <<registry, holders>>

Next ==
  \/ \E d \in Leases : Grant(d) \/ Remove(d) \/ Lapse(d)
  \/ \E S \in SUBSET holders : Yield(S)

Spec == Init /\ [][Next]_vars

-----------------------------------------------------------------------------
(* Two holders of one resource, both within their TTL, are one.             *)
Exclusive ==
  \A d, e \in holders \ lapsed : d.res = e.res => d = e

Inv ==
  /\ TypeOK
  /\ holders \ lapsed \subseteq registry
  /\ \A d, e \in registry : d.res = e.res => d = e
=============================================================================
