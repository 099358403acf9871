------------------------------ MODULE LockStore ------------------------------
(***************************************************************************)
(* The lock collection in MongoDB and the two requests dplock sends to it  *)
(* through the mongo-lock client (the interfaces Client and Purger of      *)
(* dplock/dplock.go).  mongo-lock and the server are outside src/: they    *)
(* are modelled from how dplock.go calls them.                             *)
(*                                                                         *)
(* A lease is one attempt to lock a resource: the resource and the instant *)
(* of the attempt.  The instants only order the attempts; what the store   *)
(* sees of an instant is the lockID that dplock.Lock derives from it.      *)
(***************************************************************************)
EXTENDS Integers

CONSTANTS
  Ids,                  \* the resource ids that callers pass to Lock and Acquire
  NanosPerSecond,       \* time.Now().Nanosecond() wraps at this value (10^9 in Go)
  CreateIndexesMayFail, \* can CreateIndexes fail for a reason of its own
  MaxFaults             \* bound: requests and processes that fail

ASSUME StoreAssumption ==
  /\ NanosPerSecond \in Nat \ {0}
  /\ CreateIndexesMayFail \in BOOLEAN
  /\ MaxFaults \in Nat

VARIABLES
  docs,        \* the leases recorded in the collection
  uniqueIndex, \* does the collection have its unique index on the resource
  lateLocks,   \* XLock requests that answered with an error and may yet be applied
  lateUnlocks, \* lockIDs of Unlock requests that answered with an error, likewise
  faults,      \* failures so far
  clock,       \* the instant of the next attempt
  expired      \* leases older than the TTL (callers cannot see it)

storeVars == <<docs, uniqueIndex, lateLocks, lateUnlocks, faults, clock, expired>>

Leases == [res : Ids, stamp : Nat]

(* time.Now().Nanosecond() is the offset within the second. *)
GenerateTimeID(t) == t % NanosPerSecond

(* Sprintf("%s-%s-%d", l.Resource, resourceID, GenerateTimeID()), over one  *)
(* l.Resource: the resource and the number are all that tells two apart.    *)
LockID(d) == <<d.res, GenerateTimeID(d.stamp)>>

LockIDs == Ids \X (0 .. NanosPerSecond - 1)

NewLease(id) == [res |-> id, stamp |-> clock]

StoreTypeOK ==
  /\ docs \in SUBSET Leases
  /\ uniqueIndex \in BOOLEAN
  /\ lateLocks \in SUBSET Leases
  /\ lateUnlocks \in SUBSET LockIDs
  /\ faults \in Nat
  /\ clock \in Nat
  /\ expired \in SUBSET Leases

StoreInit ==
  /\ docs = {}
  /\ uniqueIndex = FALSE
  /\ lateLocks = {}
  /\ lateUnlocks = {}
  /\ faults = 0
  /\ clock = 0
  /\ expired = {}

-----------------------------------------------------------------------------
(* XLock upserts a document for the resource.  It is the unique index that  *)
(* refuses a second one, whether or not the first has outlived its TTL.     *)

Duplicated == \E d, e \in docs : d # e /\ d.res = e.res

Refused(d) == uniqueIndex /\ \E e \in docs : e.res = d.res

(* An attempt with lease d, and its three answers: nil, ErrAlreadyLocked and *)
(* any other error.  Each attempt has an instant of its own.                *)
XLocked(d) ==
  /\ ~Refused(d)
  /\ docs' = docs \cup {d}
  /\ clock' = clock + 1
  /\ UNCHANGED <<uniqueIndex, lateLocks, lateUnlocks, faults, expired>>

XLockRefused(d) ==
  /\ Refused(d)
  /\ clock' = clock + 1
  /\ UNCHANGED <<docs, uniqueIndex, lateLocks, lateUnlocks, faults, expired>>

(* The request may have been applied already, may be applied later          *)
(* (LateXLock) or never.                                                    *)
XLockFailed(d) ==
  /\ faults < MaxFaults
  /\ faults' = faults + 1
  /\ lateLocks' = lateLocks \cup {d}
  /\ clock' = clock + 1
  /\ UNCHANGED <<docs, uniqueIndex, lateUnlocks, expired>>

(* Unlock removes by lockID.  It is no error to find nothing.               *)
Unlocked(id) ==
  /\ docs' = {d \in docs : LockID(d) # id}
  /\ UNCHANGED <<uniqueIndex, lateLocks, lateUnlocks, faults, clock, expired>>

UnlockFailed(id) ==
  /\ faults < MaxFaults
  /\ faults' = faults + 1
  /\ lateUnlocks' = lateUnlocks \cup {id}
  /\ UNCHANGED <<docs, uniqueIndex, lateLocks, clock, expired>>

LateXLock(d) ==
  /\ d \in lateLocks
  /\ lateLocks' = lateLocks \ {d}
  /\ docs' = IF Refused(d) THEN docs ELSE docs \cup {d}
  /\ UNCHANGED <<uniqueIndex, lateUnlocks, faults, clock, expired>>

LateUnlock(id) ==
  /\ id \in lateUnlocks
  /\ lateUnlocks' = lateUnlocks \ {id}
  /\ docs' = {d \in docs : LockID(d) # id}
  /\ UNCHANGED <<uniqueIndex, lateLocks, faults, clock, expired>>

(* The TTL of a recorded lease elapses; the record stays until it is purged. *)
Expire(d) ==
  /\ d \in docs \ expired
  /\ expired' = expired \cup {d}
  /\ UNCHANGED <<docs, uniqueIndex, lateLocks, lateUnlocks, faults, clock>>

(* A unique index cannot be built over duplicates.                          *)
CreateIndexes ==
  /\ \/ ~Duplicated /\ uniqueIndex' = TRUE
     \/ (Duplicated \/ CreateIndexesMayFail) /\ UNCHANGED uniqueIndex
  /\ UNCHANGED <<docs, lateLocks, lateUnlocks, faults, clock, expired>>
=============================================================================
