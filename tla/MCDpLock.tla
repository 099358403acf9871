------------------------------ MODULE MCDpLock ------------------------------
(***************************************************************************)
(* DpLock for TLC: two processes that share a lock collection, the first   *)
(* with one or two goroutines.                                             *)
(***************************************************************************)
EXTENDS DpLock, TLC

CONSTANTS l1, l2, c1, c2

MCLockOfOne == c1 :> l1 @@ c2 :> l1
MCLockOf1 == c1 :> l1 @@ c2 :> l2

(* Both processes have one goroutine: they may change places, with it.     *)
BothSwapped == {c1 :> c2 @@ c2 :> c1 @@ l1 :> l2 @@ l2 :> l1}

(* Instants that MaxCalls calls can reach.                                  *)
MCLeases == [res : Ids, stamp : 0 .. MaxCalls * (AcquireMaxRetries + 1)]

(* dplock implements the registry of leases: grants only on free resources, *)
(* records of current holders never removed by anybody else (dplock.go:119),*)
(* in every step that ends with the index in place and no lockID reused.    *)
Registry == INSTANCE LeaseRegistry WITH
  Leases <- MCLeases, registry <- docs, holders <- Holders, lapsed <- expired

ImplementsRegistry ==
  /\ Registry!Init
  /\ [][uniqueIndex /\ ~reused' => [Registry!Next]_(Registry!vars)]_vars
=============================================================================
