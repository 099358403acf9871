------------------------------- MODULE DpLock -------------------------------
(***************************************************************************)
(* dplock/dplock.go: Lock objects (one per process here), the goroutines   *)
(* that call Lock, Acquire and Unlock on them, and each object's purger    *)
(* goroutine, all over one lock collection (LockStore).                    *)
(*                                                                         *)
(* A step runs a goroutine up to the answer of its next request or to its  *)
(* next select; the timers of the selects may fire at any time.            *)
(***************************************************************************)
EXTENDS LockStore

CONSTANTS
  Locks,             \* the *Lock objects
  Callers,           \* goroutines that use them
  LockOf,            \* the object each caller uses
  AcquireMaxRetries,
  UnlockMaxRetries,
  MaxCalls,          \* bound: calls of Lock, Acquire and Unlock
  NoLease            \* the empty lockID

ASSUME LockAssumption ==
  /\ LockOf \in [Callers -> Locks]
  /\ AcquireMaxRetries \in Nat
  /\ UnlockMaxRetries \in Nat
  /\ MaxCalls \in Nat
  /\ NoLease \notin Leases

VARIABLES
  life,    \* of a Lock object: does its process run, has Close begun, returned
  purger,  \* where the purger goroutine stands
  doomed,  \* lockIDs its Purge has listed and not yet removed
  pc,      \* where a caller stands
  lease,   \* the lease whose lockID the caller has
  retries, \* the local variable of Acquire and Unlock
  calls,   \* calls made so far
  reused   \* has an attempt taken a lockID that was still in use (history)

lockVars == <<life, purger, doomed>>
callerVars == <<pc, lease, retries, calls, reused>>
vars == <<storeVars, lockVars, callerVars>>

TypeOK ==
  /\ StoreTypeOK
  /\ life \in [Locks -> {"down", "open", "closing", "closed"}]
  /\ purger \in [Locks -> {"purge", "remove", "select", "done"}]
  /\ doomed \in [Locks -> SUBSET LockIDs]
  /\ pc \in [Callers -> {"idle", "backoff", "holding", "unlocking"}]
  /\ lease \in [Callers -> Leases \cup {NoLease}]
  /\ retries \in [Callers -> 0 .. AcquireMaxRetries + UnlockMaxRetries + 1]
  /\ calls \in Nat
  /\ reused \in BOOLEAN

Init ==
  /\ StoreInit
  /\ life = [l \in Locks |-> "down"]
  /\ purger = [l \in Locks |-> "done"]
  /\ doomed = [l \in Locks |-> {}]
  /\ pc = [c \in Callers |-> "idle"]
  /\ lease = [c \in Callers |-> NoLease]
  /\ retries = [c \in Callers |-> 0]
  /\ calls = 0
  /\ reused = FALSE

-----------------------------------------------------------------------------
(* Lock objects.                                                            *)

(* The error of CreateIndexes is ignored; Init starts the purger.           *)
New(l) ==
  /\ life[l] = "down"
  /\ CreateIndexes
  /\ life' = [life EXCEPT ![l] = "open"]
  /\ purger' = [purger EXCEPT ![l] = "purge"]
  /\ UNCHANGED <<doomed, callerVars>>

(* The process of l ends, and with it every goroutine it runs.              *)
Die(l) ==
  /\ life' = [life EXCEPT ![l] = "down"]
  /\ purger' = [purger EXCEPT ![l] = "done"]
  /\ doomed' = [doomed EXCEPT ![l] = {}]
  /\ pc' = [c \in Callers |-> IF LockOf[c] = l THEN "idle" ELSE pc[c]]
  /\ lease' = [c \in Callers |-> IF LockOf[c] = l THEN NoLease ELSE lease[c]]
  /\ retries' = [c \in Callers |-> IF LockOf[c] = l THEN 0 ELSE retries[c]]
  /\ UNCHANGED <<docs, uniqueIndex, lateLocks, lateUnlocks, clock, expired,
                 calls, reused>>

Crash(l) ==
  /\ life[l] # "down"
  /\ faults < MaxFaults
  /\ faults' = faults + 1
  /\ Die(l)

Closing(l) == life[l] \in {"closing", "closed"}

(* close(l.CloserChannel): closing it a second time panics.                 *)
Close(l) ==
  \/ /\ life[l] = "open"
     /\ life' = [life EXCEPT ![l] = "closing"]
     /\ UNCHANGED <<storeVars, purger, doomed, callerVars>>
  \/ /\ Closing(l)
     /\ Die(l)
     /\ UNCHANGED faults

(* l.WaitGroup counts the purger only.                                      *)
CloseReturn(l) ==
  /\ life[l] = "closing"
  /\ purger[l] = "done"
  /\ life' = [life EXCEPT ![l] = "closed"]
  /\ UNCHANGED <<storeVars, purger, doomed, callerVars>>

-----------------------------------------------------------------------------
(* The purger.  Purge lists the expired records and removes each by its     *)
(* lockID; its result and its error are dropped by the loop.                *)

(* Mutant: a purge that does not look at the TTL.                           *)
PurgeListAll(l) ==
  /\ purger[l] = "purge"
  /\ doomed' = [doomed EXCEPT ![l] = {LockID(d) : d \in docs}]
  /\ purger' = [purger EXCEPT ![l] = "remove"]
  /\ UNCHANGED <<storeVars, life, callerVars>>

PurgeList(l) ==
  /\ purger[l] = "purge"
  /\ doomed' = [doomed EXCEPT ![l] = {LockID(d) : d \in docs \cap expired}]
  /\ purger' = [purger EXCEPT ![l] = "remove"]
  /\ UNCHANGED <<storeVars, life, callerVars>>

PurgeRemove(l) ==
  /\ purger[l] = "remove"
  /\ \E id \in doomed[l] :
       /\ Unlocked(id)
       /\ doomed' = [doomed EXCEPT ![l] = @ \ {id}]
  /\ UNCHANGED <<purger, life, callerVars>>

PurgeEnd(l) ==
  /\ purger[l] = "remove"
  /\ doomed[l] = {}
  /\ purger' = [purger EXCEPT ![l] = "select"]
  /\ UNCHANGED <<storeVars, life, doomed, callerVars>>

(* Mutant: the loop returns on the error of a purge.                        *)
PurgeFailedLeaves(l) ==
  /\ purger[l] = "purge"
  /\ faults < MaxFaults
  /\ faults' = faults + 1
  /\ purger' = [purger EXCEPT ![l] = "done"]
  /\ UNCHANGED <<docs, uniqueIndex, lateLocks, lateUnlocks, clock, expired,
                 life, doomed, callerVars>>

(* The listing or one of the removals fails.                                *)
PurgeFailed(l) ==
  /\ \/ /\ purger[l] = "purge"
        /\ faults < MaxFaults
        /\ faults' = faults + 1
        /\ UNCHANGED <<docs, uniqueIndex, lateLocks, lateUnlocks, clock, expired>>
     \/ /\ purger[l] = "remove"
        /\ \E id \in doomed[l] : UnlockFailed(id)
  /\ purger' = [purger EXCEPT ![l] = "select"]
  /\ doomed' = [doomed EXCEPT ![l] = {}]
  /\ UNCHANGED <<life, callerVars>>

(* The select of the loop.  When the timer has fired and the channel is     *)
(* closed, Go picks either.                                                 *)
PurgeTimer(l) ==
  /\ purger[l] = "select"
  /\ purger' = [purger EXCEPT ![l] = "purge"]
  /\ UNCHANGED <<storeVars, life, doomed, callerVars>>

(* Mutant: the purger waits for Close, which waits for the purger.          *)
PurgeClosedLate(l) ==
  /\ purger[l] = "select"
  /\ life[l] = "closed"
  /\ purger' = [purger EXCEPT ![l] = "done"]
  /\ UNCHANGED <<storeVars, life, doomed, callerVars>>

PurgeClosed(l) ==
  /\ purger[l] = "select"
  /\ Closing(l)
  /\ purger' = [purger EXCEPT ![l] = "done"]
  /\ UNCHANGED <<storeVars, life, doomed, callerVars>>

-----------------------------------------------------------------------------
(* Callers.                                                                 *)

Running(c) == life[LockOf[c]] # "down"

Call(c) ==
  /\ Running(c)
  /\ calls < MaxCalls
  /\ calls' = calls + 1

CallersLeases == {lease[c] : c \in Callers} \ {NoLease}

InUse == docs \cup lateLocks \cup CallersLeases

LockIDsInUse ==
  {LockID(d) : d \in InUse} \cup lateUnlocks \cup UNION {doomed[l] : l \in Locks}

(* An attempt of Lock for id takes a new lockID, answered nil, refused or   *)
(* with another error.                                                      *)
Take(d) == reused' = (reused \/ LockID(d) \in LockIDsInUse)

Goto(c, label, d, n) ==
  /\ pc' = [pc EXCEPT ![c] = label]
  /\ lease' = [lease EXCEPT ![c] = d]
  /\ retries' = [retries EXCEPT ![c] = n]

Return(c, d) == Goto(c, "idle", d, 0)

Granted(c, d) ==
  /\ XLocked(d)
  /\ Take(d)
  /\ Goto(c, "holding", d, 0)

(* Mutant: the error is dropped.                                            *)
LockUnchecked(c, id) ==
  /\ pc[c] = "idle"
  /\ Call(c)
  /\ LET d == NewLease(id) IN
       \/ Granted(c, d)
       \/ (XLockRefused(d) \/ XLockFailed(d)) /\ Take(d) /\ Goto(c, "holding", d, 0)
  /\ UNCHANGED lockVars

(* Lock returns the lockID whatever the answer.                             *)
Lock(c, id) ==
  /\ pc[c] = "idle"
  /\ Call(c)
  /\ LET d == NewLease(id) IN
       \/ Granted(c, d)
       \/ (XLockRefused(d) \/ XLockFailed(d)) /\ Take(d) /\ Return(c, d)
  /\ UNCHANGED lockVars

(* Mutant: the limit returned as a success.                                 *)
AcquireAttemptUnchecked(c, d, n) ==
  /\ \/ Granted(c, d)
     \/ XLockFailed(d) /\ Take(d) /\ Return(c, d)
     \/ /\ XLockRefused(d)
        /\ Take(d)
        /\ IF n >= AcquireMaxRetries
           THEN Goto(c, "holding", d, 0)
           ELSE Goto(c, "backoff", d, n + 1)
  /\ UNCHANGED lockVars

(* The loop of Acquire up to its select.  Only ErrAlreadyLocked is retried, *)
(* with a new lockID each time; the last refusal returns the empty lockID.  *)
AcquireAttempt(c, d, n) ==
  /\ \/ Granted(c, d)
     \/ XLockFailed(d) /\ Take(d) /\ Return(c, d)
     \/ /\ XLockRefused(d)
        /\ Take(d)
        /\ IF n >= AcquireMaxRetries
           THEN Return(c, NoLease)
           ELSE Goto(c, "backoff", d, n + 1)
  /\ UNCHANGED lockVars

Acquire(c, id) ==
  /\ pc[c] = "idle"
  /\ Call(c)
  /\ AcquireAttempt(c, NewLease(id), 0)

AcquireRetry(c) ==
  /\ pc[c] = "backoff"
  /\ AcquireAttempt(c, NewLease(lease[c].res), retries[c])
  /\ UNCHANGED calls

AcquireAbort(c) ==
  /\ pc[c] = "backoff"
  /\ Closing(LockOf[c])
  /\ Return(c, NoLease)
  /\ UNCHANGED <<storeVars, lockVars, calls, reused>>

(* Mutant: a caller goes on as holder after an Unlock that gave up.         *)
UnlockAttemptHeld(c, n) ==
  /\ \/ Unlocked(LockID(lease[c])) /\ Return(c, lease[c])
     \/ /\ UnlockFailed(LockID(lease[c]))
        /\ IF n >= UnlockMaxRetries
           THEN Goto(c, pc[c], lease[c], 0)
           ELSE Goto(c, "holding", lease[c], n + 1)
  /\ UNCHANGED <<lockVars, reused>>

(* The loop of Unlock up to its select.  Unlock has no result: the caller   *)
(* cannot tell a removal from giving up.                                    *)
UnlockAttempt(c, n) ==
  /\ \/ Unlocked(LockID(lease[c])) /\ Return(c, lease[c])
     \/ /\ UnlockFailed(LockID(lease[c]))
        /\ IF n >= UnlockMaxRetries
           THEN Return(c, lease[c])
           ELSE Goto(c, "unlocking", lease[c], n + 1)
  /\ UNCHANGED <<lockVars, reused>>

(* A caller may unlock any lockID it was given, also one that came with an  *)
(* error and one it has unlocked before.                                    *)
Unlock(c) ==
  /\ pc[c] \in {"idle", "holding"}
  /\ lease[c] # NoLease
  /\ Call(c)
  /\ UnlockAttempt(c, 0)

(* Mutant: the timer of the retry stops when Close begins.                  *)
UnlockRetryWhileOpen(c) ==
  /\ pc[c] = "unlocking"
  /\ life[LockOf[c]] = "open"
  /\ UnlockAttempt(c, retries[c])
  /\ UNCHANGED calls

UnlockRetry(c) ==
  /\ pc[c] = "unlocking"
  /\ UnlockAttempt(c, retries[c])
  /\ UNCHANGED calls

UnlockAbort(c) ==
  /\ pc[c] = "unlocking"
  /\ Closing(LockOf[c])
  /\ Return(c, lease[c])
  /\ UNCHANGED <<storeVars, lockVars, calls, reused>>

-----------------------------------------------------------------------------
Purging(l) ==
  PurgeList(l) \/ PurgeRemove(l) \/ PurgeEnd(l) \/ PurgeFailed(l)

LockNext(l) ==
  \/ New(l) \/ Crash(l) \/ Close(l) \/ CloseReturn(l)
  \/ Purging(l) \/ PurgeTimer(l) \/ PurgeClosed(l)

CallerNext(c) ==
  \/ \E id \in Ids : Lock(c, id) \/ Acquire(c, id)
  \/ AcquireRetry(c) \/ AcquireAbort(c)
  \/ Unlock(c) \/ UnlockRetry(c) \/ UnlockAbort(c)

StoreNext ==
  /\ \/ \E d \in lateLocks : LateXLock(d)
     \/ \E id \in lateUnlocks : LateUnlock(id)
     \/ \E d \in docs : Expire(d)
  /\ UNCHANGED <<lockVars, callerVars>>

Next ==
  \/ \E l \in Locks : LockNext(l)
  \/ \E c \in Callers : CallerNext(c)
  \/ StoreNext

Spec == Init /\ [][Next]_vars

-----------------------------------------------------------------------------
(* Safety.                                                                  *)

Holding(c) == pc[c] = "holding"

Current(c) == Holding(c) /\ lease[c] \notin expired

(* Two callers that hold a lock on one resource, both within its TTL, are   *)
(* one (dplock.go:119, "acquires an exclusive mongoDB lock").               *)
MutualExclusion ==
  \A c, e \in Callers :
    Current(c) /\ Current(e) /\ lease[c].res = lease[e].res => c = e

(* The same, wherever the unique index exists and no lockID has been taken  *)
(* again while a record, a request, a purger or a caller still had it: the  *)
(* two conditions Lock relies on without checking them (dplock.go:75, 122). *)
GuardedExclusion == uniqueIndex /\ ~reused => MutualExclusion

(* No caller loses its record within its TTL: whatever late Unlock, purge   *)
(* or repeated Unlock removes a record, it is not one of a current holder   *)
(* (dplock.go:101, 164).                                                    *)
HoldersBacked ==
  ~reused => \A c \in Callers : Current(c) => lease[c] \in docs

(* An Unlock still on its way, from a caller or from a purger, is for no    *)
(* current holder: giving up in Unlock, aborting it while closing and a     *)
(* purge cut short leave only such requests behind (dplock.go:101,172,181). *)
LateUnlocksSpent ==
  ~reused => \A c \in Callers : Current(c) => LockID(lease[c]) \notin lateUnlocks

(* The list of a purger, however old when it removes, has no lockID of a    *)
(* current holder (dplock.go:101).                                          *)
DoomedSpent ==
  ~reused => \A c \in Callers, l \in Locks :
               Current(c) => LockID(lease[c]) \notin doomed[l]

(* What these need to be inductive: a new lease is new, callers share none, *)
(* whoever waits or holds has a lease, lockIDs in use tell leases apart and *)
(* the index, once there, keeps the records apart.                          *)
StampsPast == \A d \in InUse \cup expired : d.stamp < clock

CallersApart ==
  \A c, e \in Callers : lease[c] = lease[e] /\ lease[c] # NoLease => c = e

HoldersHaveLease == \A c \in Callers : pc[c] # "idle" => lease[c] # NoLease

LockIDsApart ==
  ~reused => \A d, e \in InUse : LockID(d) = LockID(e) => d = e

IndexKept == uniqueIndex => ~Duplicated

IInv ==
  /\ TypeOK
  /\ StampsPast
  /\ CallersApart
  /\ HoldersHaveLease
  /\ LockIDsApart
  /\ IndexKept
  /\ HoldersBacked
  /\ LateUnlocksSpent
  /\ DoomedSpent

(* "If the resource is already locked, this function will block until the   *)
(* existing lock is released, at which point we acquire the lock and        *)
(* return" (dplock.go:131): a waiting Acquire ends without the lock only    *)
(* where the Lock is closing, its process ends or its request fails.        *)
AcquireBlocks ==
  [][\A c \in Callers :
       pc[c] = "backoff" /\ pc'[c] = "idle"
         => Closing(LockOf[c]) \/ faults' # faults]_vars

(* The leases whose holders were told so and have not begun to unlock.      *)
Holders == {lease[c] : c \in {e \in Callers : Holding(e)}}

-----------------------------------------------------------------------------
(* Liveness.  Goroutines that can run do; requests that fail without bound  *)
(* are excluded by MaxFaults; TTLs elapse.  A purger that finds the channel *)
(* closed each time it selects leaves in the end, although Go may pick the  *)
(* timer when both are ready.  Nothing makes a caller call, a late request  *)
(* arrive or a process crash or close.                                      *)
Fairness ==
  /\ \A l \in Locks :
       /\ WF_vars(Purging(l))
       /\ WF_vars(PurgeTimer(l))
       /\ SF_vars(PurgeClosed(l))
       /\ WF_vars(CloseReturn(l))
  /\ \A c \in Callers : WF_vars(AcquireRetry(c)) /\ WF_vars(UnlockRetry(c))
  /\ WF_vars(\E d \in docs : Expire(d) /\ UNCHANGED <<lockVars, callerVars>>)

FairSpec == Spec /\ Fairness

(* Unlock returns even if MongoDB never answers (dplock.go:172).            *)
UnlockReturns == \A c \in Callers : pc[c] = "unlocking" ~> pc[c] # "unlocking"

(* Close returns: the purger it waits for comes back to its select and      *)
(* leaves (dplock.go:94-117,196).                                           *)
CloseReturns == \A l \in Locks : life[l] = "closing" ~> life[l] # "closing"

(* A lock nobody unlocks (its holder crashed, gave up, or was never told)   *)
(* goes in the end while some Lock object stays open, so the resource can   *)
(* be locked again (dplock.go:94, "removes expired locks").                 *)
StaleLocksPurged ==
  \A l \in Locks : []<>(life[l] # "open" \/ docs = {})
=============================================================================
