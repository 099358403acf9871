---------------------------- MODULE DpLockProofs ----------------------------
(***************************************************************************)
(* Theorems about DpLock, for every set of Lock objects, callers and       *)
(* resources and every value of the bounds, and that dplock implements     *)
(* LeaseRegistry.                                                          *)
(***************************************************************************)
EXTENDS DpLock, TLAPS

(* A lockID is one of finitely many per resource.                           *)
LEMMA LockIDType == \A d \in Leases : LockID(d) \in LockIDs
<1>1. \A t \in Nat : GenerateTimeID(t) \in 0 .. NanosPerSecond - 1
  BY StoreAssumption DEF GenerateTimeID
<1> QED BY <1>1 DEF LockID, LockIDs, Leases

LEMMA NewLeaseType ==
  ASSUME clock \in Nat, NEW id \in Ids
  PROVE  NewLease(id) \in Leases
BY DEF NewLease, Leases

LEMMA InitIInv == Init => IInv
<1> SUFFICES ASSUME Init PROVE IInv
  OBVIOUS
<1>1. TypeOK
  <2>1. StoreTypeOK
    BY DEF Init, StoreInit, StoreTypeOK
  <2>2. retries \in [Callers -> 0 .. AcquireMaxRetries + UnlockMaxRetries + 1]
    BY LockAssumption DEF Init
  <2> QED BY <2>1, <2>2 DEF Init, TypeOK
<1> QED BY <1>1 DEF Init, StoreInit, IInv, StampsPast, CallersApart, HoldersHaveLease, LockIDsApart, IndexKept,
  HoldersBacked, LateUnlocksSpent, DoomedSpent, InUse, CallersLeases, Duplicated, Current, Holding

-----------------------------------------------------------------------------
(* What the helpers of DpLock leave behind.                                 *)

LEMMA XLockType ==
  ASSUME StoreTypeOK, NEW d \in Leases,
         XLocked(d) \/ XLockRefused(d) \/ XLockFailed(d)
  PROVE  StoreTypeOK'
BY DEF StoreTypeOK, XLocked, XLockRefused, XLockFailed

LEMMA UnlockType ==
  ASSUME StoreTypeOK, NEW id \in LockIDs, Unlocked(id) \/ UnlockFailed(id)
  PROVE  StoreTypeOK'
BY DEF StoreTypeOK, Unlocked, UnlockFailed

CallersTypeOK ==
  /\ pc \in [Callers -> {"idle", "backoff", "holding", "unlocking"}]
  /\ lease \in [Callers -> Leases \cup {NoLease}]
  /\ retries \in [Callers -> 0 .. AcquireMaxRetries + UnlockMaxRetries + 1]

LEMMA GotoType ==
  ASSUME CallersTypeOK, NEW c, NEW d \in Leases \cup {NoLease},
         NEW n \in 0 .. AcquireMaxRetries + UnlockMaxRetries + 1,
         NEW label \in {"idle", "backoff", "holding", "unlocking"}, Goto(c, label, d, n)
  PROVE  CallersTypeOK'
BY DEF CallersTypeOK, Goto

LEMMA TakeType ==
  ASSUME reused \in BOOLEAN, NEW d, Take(d)
  PROVE  reused' \in BOOLEAN
<1>1. CASE reused \/ LockID(d) \in LockIDsInUse
  BY <1>1 DEF Take
<1>2. CASE ~(reused \/ LockID(d) \in LockIDsInUse)
  BY <1>2 DEF Take
<1> QED BY <1>1, <1>2

LEMMA AcquireAttemptType ==
  ASSUME StoreTypeOK, CallersTypeOK, NEW c \in Callers, NEW d \in Leases,
         NEW n \in 0 .. AcquireMaxRetries + UnlockMaxRetries + 1, AcquireAttempt(c, d, n)
  PROVE  StoreTypeOK' /\ CallersTypeOK'
<1>1. StoreTypeOK'
  BY XLockType DEF AcquireAttempt, Granted
<1>2. CASE n < AcquireMaxRetries
  <2>1. n + 1 \in 0 .. AcquireMaxRetries + UnlockMaxRetries + 1
    BY <1>2, LockAssumption
  <2> QED BY <1>1, <1>2, <2>1, GotoType, LockAssumption DEF AcquireAttempt, Granted, Return
<1>3. CASE ~(n < AcquireMaxRetries)
  BY <1>1, <1>3, GotoType, LockAssumption DEF AcquireAttempt, Granted, Return
<1> QED BY <1>2, <1>3

LEMMA UnlockAttemptType ==
  ASSUME StoreTypeOK, CallersTypeOK, NEW c \in Callers, lease[c] \in Leases,
         NEW n \in 0 .. AcquireMaxRetries + UnlockMaxRetries + 1, UnlockAttempt(c, n)
  PROVE  StoreTypeOK' /\ CallersTypeOK'
<1>1. StoreTypeOK'
  BY UnlockType, LockIDType DEF UnlockAttempt
<1>2. CASE n < UnlockMaxRetries
  <2>1. n + 1 \in 0 .. AcquireMaxRetries + UnlockMaxRetries + 1
    BY <1>2, LockAssumption
  <2> QED BY <1>1, <1>2, <2>1, GotoType, LockAssumption DEF UnlockAttempt, Return
<1>3. CASE ~(n < UnlockMaxRetries)
  BY <1>1, <1>3, GotoType, LockAssumption DEF UnlockAttempt, Return
<1> QED BY <1>2, <1>3

LEMMA DieType ==
  ASSUME TypeOK, NEW l \in Locks, Die(l), faults' \in Nat
  PROVE  TypeOK'
<1>1. StoreTypeOK'
  BY DEF TypeOK, StoreTypeOK, Die
<1>2. life' \in [Locks -> {"down", "open", "closing", "closed"}] /\
      purger' \in [Locks -> {"purge", "remove", "select", "done"}] /\
      doomed' \in [Locks -> SUBSET LockIDs]
  BY DEF TypeOK, Die
<1>3. CallersTypeOK'
  BY LockAssumption DEF TypeOK, CallersTypeOK, Die
<1> QED BY <1>1, <1>2, <1>3 DEF TypeOK, CallersTypeOK, Die

-----------------------------------------------------------------------------
(* Every step keeps the types.                                              *)

LEMMA NextType ==
  ASSUME TypeOK, HoldersHaveLease, [Next]_vars
  PROVE  TypeOK'
<1> USE DEF lockVars, callerVars
<1>0. StoreTypeOK /\ CallersTypeOK
  BY DEF TypeOK, CallersTypeOK
<1>1. ASSUME NEW l \in Locks, New(l) PROVE TypeOK'
  BY <1>1 DEF New, CreateIndexes, TypeOK, StoreTypeOK
<1>2. ASSUME NEW l \in Locks, Crash(l) PROVE TypeOK'
  BY <1>2, DieType DEF Crash, TypeOK, StoreTypeOK
<1>3. ASSUME NEW l \in Locks, Close(l) PROVE TypeOK'
  <2>1. CASE life[l] = "open"
    BY <1>3, <2>1 DEF Close, Closing, TypeOK, StoreTypeOK, storeVars
  <2>2. CASE Die(l) /\ UNCHANGED faults
    BY <2>2, DieType DEF TypeOK, StoreTypeOK
  <2> QED BY <1>3, <2>1, <2>2 DEF Close
<1>4. ASSUME NEW l \in Locks, CloseReturn(l) PROVE TypeOK'
  BY <1>4 DEF CloseReturn, TypeOK, StoreTypeOK, storeVars
<1>5. ASSUME NEW l \in Locks, PurgeList(l) PROVE TypeOK'
  <2>1. {LockID(d) : d \in docs \cap expired} \in SUBSET LockIDs
    BY LockIDType DEF TypeOK, StoreTypeOK
  <2> QED BY <1>5, <2>1 DEF PurgeList, TypeOK, StoreTypeOK, storeVars
<1>6. ASSUME NEW l \in Locks, PurgeRemove(l) PROVE TypeOK'
  BY <1>6, <1>0, UnlockType DEF PurgeRemove, TypeOK
<1>7. ASSUME NEW l \in Locks, PurgeEnd(l) \/ PurgeTimer(l) \/ PurgeClosed(l)
      PROVE TypeOK'
  BY <1>7 DEF PurgeEnd, PurgeTimer, PurgeClosed, TypeOK, StoreTypeOK, storeVars
<1>8. ASSUME NEW l \in Locks, PurgeFailed(l) PROVE TypeOK'
  <2>1. StoreTypeOK'
    BY <1>8, <1>0, UnlockType DEF PurgeFailed, TypeOK, StoreTypeOK
  <2> QED BY <1>8, <2>1 DEF PurgeFailed, TypeOK
<1>9. ASSUME NEW c \in Callers, NEW id \in Ids, Lock(c, id) PROVE TypeOK'
  <2>1. NewLease(id) \in Leases
    BY NewLeaseType DEF TypeOK, StoreTypeOK
  <2>2. StoreTypeOK'
    BY <1>9, <1>0, <2>1, XLockType DEF Lock, Granted
  <2>3. CallersTypeOK'
    BY <1>9, <1>0, <2>1, GotoType, LockAssumption DEF Lock, Granted, Return
  <2> QED BY <1>9, <2>2, <2>3, TakeType DEF Lock, Granted, Call, TypeOK, CallersTypeOK
<1>10. ASSUME NEW c \in Callers, NEW id \in Ids, Acquire(c, id) PROVE TypeOK'
  <2>1. NewLease(id) \in Leases
    BY NewLeaseType DEF TypeOK, StoreTypeOK
  <2>2. StoreTypeOK' /\ CallersTypeOK'
    BY <1>10, <1>0, <2>1, AcquireAttemptType, LockAssumption DEF Acquire
  <2> QED BY <1>10, <2>2, TakeType DEF Acquire, AcquireAttempt, Granted, Call, TypeOK, CallersTypeOK
<1>11. ASSUME NEW c \in Callers, AcquireRetry(c) PROVE TypeOK'
  <2>1. lease[c] \in Leases
    BY <1>11 DEF AcquireRetry, HoldersHaveLease, TypeOK
  <2>2. NewLease(lease[c].res) \in Leases
    BY <2>1, NewLeaseType DEF TypeOK, StoreTypeOK, Leases
  <2>3. StoreTypeOK' /\ CallersTypeOK'
    BY <1>11, <1>0, <2>2, AcquireAttemptType DEF AcquireRetry, CallersTypeOK
  <2> QED BY <1>11, <2>3, TakeType DEF AcquireRetry, AcquireAttempt, Granted, TypeOK, CallersTypeOK
<1>12. ASSUME NEW c \in Callers, AcquireAbort(c) \/ UnlockAbort(c) PROVE TypeOK'
  <2>1. StoreTypeOK'
    BY <1>12, <1>0 DEF AcquireAbort, UnlockAbort, StoreTypeOK, storeVars
  <2>2. lease[c] \in Leases \cup {NoLease}
    BY DEF TypeOK
  <2>3. CallersTypeOK'
    BY <1>12, <1>0, <2>2, GotoType, LockAssumption DEF AcquireAbort, UnlockAbort, Return
  <2> QED BY <1>12, <2>1, <2>3 DEF AcquireAbort, UnlockAbort, TypeOK, CallersTypeOK
<1>13. ASSUME NEW c \in Callers, Unlock(c) PROVE TypeOK'
  <2>1. lease[c] \in Leases
    BY <1>13 DEF Unlock, TypeOK
  <2>2. StoreTypeOK' /\ CallersTypeOK'
    BY <1>13, <1>0, <2>1, UnlockAttemptType, LockAssumption DEF Unlock
  <2> QED BY <1>13, <2>2 DEF Unlock, UnlockAttempt, Call, TypeOK, CallersTypeOK
<1>14. ASSUME NEW c \in Callers, UnlockRetry(c) PROVE TypeOK'
  <2>1. lease[c] \in Leases
    BY <1>14 DEF UnlockRetry, HoldersHaveLease, TypeOK
  <2>2. StoreTypeOK' /\ CallersTypeOK'
    BY <1>14, <1>0, <2>1, UnlockAttemptType DEF UnlockRetry, CallersTypeOK
  <2> QED BY <1>14, <2>2 DEF UnlockRetry, UnlockAttempt, TypeOK, CallersTypeOK
<1>15. ASSUME StoreNext PROVE TypeOK'
  <2>1. StoreTypeOK'
    BY <1>15, <1>0 DEF StoreNext, LateXLock, LateUnlock, Expire, StoreTypeOK
  <2> QED BY <1>15, <2>1 DEF StoreNext, TypeOK
<1>16. ASSUME UNCHANGED vars PROVE TypeOK'
  BY <1>16 DEF vars, storeVars, TypeOK, StoreTypeOK
<1> QED
  BY <1>1, <1>2, <1>3, <1>4, <1>5, <1>6, <1>7, <1>8, <1>9, <1>10, <1>11, <1>12, <1>13, <1>14, <1>15, <1>16
  DEF Next, LockNext, Purging, CallerNext

-----------------------------------------------------------------------------
(* Every step keeps IInv.  The parts of IInv besides the types, and what    *)
(* they say of one caller.                                                  *)
Safe ==
  /\ StampsPast
  /\ CallersApart
  /\ HoldersHaveLease
  /\ LockIDsApart
  /\ IndexKept
  /\ HoldersBacked
  /\ LateUnlocksSpent
  /\ DoomedSpent

LEMMA IInvSafe == IInv <=> TypeOK /\ Safe
BY DEF IInv, Safe

(* A caller that runs Lock or the loop of Acquire: a new lease, with a      *)
(* lockID that is in nobody's hands unless reused becomes TRUE.             *)
LEMMA AttemptSafe ==
  ASSUME TypeOK, Safe, NEW c \in Callers, NEW id \in Ids,
         NEW d, d = NewLease(id), NEW f, f \in {d, NoLease}, NEW label, NEW n,
         \/ XLocked(d) /\ label = "holding" /\ f = d
         \/ XLockRefused(d) /\ label \in {"idle", "backoff"} /\ (label = "backoff" => f = d)
         \/ XLockFailed(d) /\ label = "idle",
         Take(d), Goto(c, label, f, n), UNCHANGED lockVars
  PROVE  Safe'
<1> USE DEF Current, Holding
<1>1. d \in Leases /\ d.stamp = clock /\ clock \in Nat /\ clock' = clock + 1
  BY NewLeaseType DEF TypeOK, StoreTypeOK, NewLease, XLocked, XLockRefused, XLockFailed
<1>2. /\ pc' = [pc EXCEPT ![c] = label]
      /\ lease' = [lease EXCEPT ![c] = f]
      /\ pc \in [Callers -> {"idle", "backoff", "holding", "unlocking"}]
      /\ lease \in [Callers -> Leases \cup {NoLease}]
      /\ expired' = expired /\ lateUnlocks' = lateUnlocks /\ doomed' = doomed
      /\ uniqueIndex' = uniqueIndex
  BY DEF Goto, TypeOK, XLocked, XLockRefused, XLockFailed, lockVars
<1>3. docs' \subseteq docs \cup {d} /\ lateLocks' \subseteq lateLocks \cup {d}
  BY DEF XLocked, XLockRefused, XLockFailed
<1>4. InUse' \subseteq InUse \cup {d}
  BY <1>2, <1>3 DEF InUse, CallersLeases
<1>5. d \notin InUse /\ d \notin expired
  <2>1. \A e \in InUse \cup expired : e.stamp < clock /\ e \in Leases
    BY DEF Safe, StampsPast, InUse, CallersLeases, TypeOK, StoreTypeOK
  <2> QED BY <1>1, <2>1 DEF Leases
<1>6. StampsPast'
  <2> SUFFICES ASSUME NEW e \in InUse' \cup expired' PROVE e.stamp < clock'
    BY DEF StampsPast
  <2>1. CASE e = d
    BY <1>1, <2>1
  <2>2. CASE e \in InUse \cup expired
    <3>1. e.stamp < clock /\ e.stamp \in Nat
      BY <2>2 DEF Safe, StampsPast, InUse, CallersLeases, TypeOK, StoreTypeOK, Leases
    <3> QED BY <1>1, <3>1
  <2> QED BY <1>2, <1>4, <2>1, <2>2
<1>7. CallersApart'
  <2>1. \A e \in Callers : lease[e] # d
    BY <1>1, <1>5, LockAssumption DEF InUse, CallersLeases
  <2> QED BY <1>2, <2>1 DEF CallersApart, Safe
<1>8. HoldersHaveLease'
  <2>1. label # "idle" => f = d
    OBVIOUS
  <2> QED BY <1>1, <1>2, <2>1, LockAssumption DEF HoldersHaveLease, Safe
<1>9. ~reused' => ~reused /\ LockID(d) \notin LockIDsInUse
  BY DEF Take
<1>10. LockIDsApart'
  <2> SUFFICES ASSUME ~reused', NEW e \in InUse', NEW g \in InUse', LockID(e) = LockID(g)
               PROVE  e = g
    BY DEF LockIDsApart, LockID
  <2>1. \A h \in InUse : LockID(h) # LockID(d)
    BY <1>9 DEF LockIDsInUse
  <2> QED BY <1>4, <1>9, <2>1 DEF LockIDsApart, Safe
<1>11. IndexKept'
  <2>1. CASE docs' = docs
    BY <1>2, <2>1 DEF IndexKept, Safe, Duplicated
  <2>2. CASE docs' = docs \cup {d} /\ ~Refused(d)
    BY <1>2, <2>2 DEF IndexKept, Safe, Duplicated, Refused
  <2> QED BY <2>1, <2>2 DEF XLocked, XLockRefused, XLockFailed
<1>12. docs \subseteq docs' /\ (label = "holding" => d \in docs')
  BY DEF XLocked, XLockRefused, XLockFailed
<1>13. HoldersBacked'
  <2> SUFFICES ASSUME ~reused', NEW e \in Callers, Current(e)' PROVE lease'[e] \in docs'
    BY DEF HoldersBacked
  <2>1. CASE e = c
    BY <1>2, <1>12, <2>1
  <2>2. CASE e # c
    BY <1>2, <1>9, <1>12, <2>2 DEF HoldersBacked, Safe
  <2> QED BY <2>1, <2>2
<1>14. ASSUME ~reused', NEW e \in Callers, Current(e)'
       PROVE  \/ e # c /\ Current(e) /\ lease'[e] = lease[e]
              \/ lease'[e] = d
  BY <1>2, <1>14
<1>15. LateUnlocksSpent'
  <2> SUFFICES ASSUME ~reused', NEW e \in Callers, Current(e)'
               PROVE  LockID(lease[e])' \notin lateUnlocks'
    BY DEF LateUnlocksSpent
  <2>1. LockID(lease[e])' = LockID(lease'[e])
    BY DEF LockID, GenerateTimeID
  <2> QED BY <1>2, <1>9, <1>14, <2>1 DEF LateUnlocksSpent, Safe, LockIDsInUse
<1>16. DoomedSpent'
  <2> SUFFICES ASSUME ~reused', NEW e \in Callers, NEW l \in Locks, Current(e)'
               PROVE  LockID(lease[e])' \notin doomed'[l]
    BY DEF DoomedSpent
  <2>1. LockID(lease[e])' = LockID(lease'[e])
    BY DEF LockID, GenerateTimeID
  <2> QED BY <1>2, <1>9, <1>14, <2>1 DEF DoomedSpent, Safe, LockIDsInUse
<1> QED BY <1>6, <1>7, <1>8, <1>10, <1>11, <1>13, <1>15, <1>16 DEF Safe

(* A step that takes no lease and leaves every current holder its record:   *)
(* records may go, callers may stop holding or forget their leases, and     *)
(* what purgers and late requests have in hand is of no current holder.     *)
LEMMA ShrinkSafe ==
  ASSUME TypeOK, Safe, reused' = reused, clock' = clock, expired \subseteq expired',
         docs' \subseteq docs \cup lateLocks, lateLocks' \subseteq lateLocks,
         expired' \subseteq expired \cup docs,
         IndexKept', HoldersHaveLease',
         \A c \in Callers :
           /\ lease'[c] \in {lease[c], NoLease}
           /\ Current(c)' => Current(c)
           /\ Current(c)' /\ ~reused =>
                /\ lease[c] \in docs => lease[c] \in docs'
                /\ LockID(lease[c]) \notin lateUnlocks'
                /\ \A l \in Locks : LockID(lease[c]) \notin doomed'[l]
  PROVE  Safe'
<1> USE DEF Current, Holding
<1>1. InUse' \subseteq InUse
  BY DEF InUse, CallersLeases
<1>2. StampsPast'
  BY <1>1 DEF Safe, StampsPast, InUse
<1>3. CallersApart'
  BY DEF Safe, CallersApart
<1>4. LockIDsApart'
  <2> SUFFICES ASSUME ~reused', NEW e \in InUse', NEW g \in InUse', LockID(e) = LockID(g)
               PROVE  e = g
    BY DEF LockIDsApart, LockID
  <2> QED BY <1>1 DEF Safe, LockIDsApart
<1>5. ASSUME NEW c \in Callers, Current(c)'
      PROVE  lease'[c] = lease[c] /\ LockID(lease[c])' = LockID(lease[c])
  <2>1. lease'[c] # NoLease
    BY <1>5 DEF HoldersHaveLease
  <2> QED BY <2>1 DEF LockID, GenerateTimeID
<1>6. HoldersBacked'
  BY <1>5 DEF Safe, HoldersBacked
<1>7. LateUnlocksSpent'
  BY <1>5 DEF Safe, LateUnlocksSpent
<1>8. DoomedSpent'
  BY <1>5 DEF Safe, DoomedSpent
<1> QED BY <1>2, <1>3, <1>4, <1>6, <1>7, <1>8 DEF Safe

(* The index stays good when records only go.                               *)
LEMMA FewerDocs ==
  ASSUME Safe, docs' \subseteq docs, uniqueIndex' = uniqueIndex
  PROVE  IndexKept'
BY DEF Safe, IndexKept, Duplicated

(* A removal by a lockID that no current holder has.                        *)
LEMMA RemovalKeeps ==
  ASSUME NEW i, NEW c \in Callers, LockID(lease[c]) # i, docs' = {d \in docs : LockID(d) # i}
  PROVE  lease[c] \in docs => lease[c] \in docs'
OBVIOUS

(* A caller in Unlock: nobody else has the lockID, and it no longer holds.  *)
LEMMA UnlockSafe ==
  ASSUME TypeOK, Safe, NEW c \in Callers, lease[c] # NoLease,
         NEW n, UnlockAttempt(c, n)
  PROVE  Safe'
<1> DEFINE i == LockID(lease[c])
<1>1. /\ reused' = reused /\ clock' = clock /\ expired' = expired
      /\ lateLocks' = lateLocks /\ uniqueIndex' = uniqueIndex /\ doomed' = doomed
      /\ docs' \in {docs, {d \in docs : LockID(d) # i}}
      /\ lateUnlocks' \subseteq lateUnlocks \cup {i}
  BY DEF UnlockAttempt, Unlocked, UnlockFailed, lockVars
<1>2. \E label \in {"idle", "unlocking"} : \E m : Goto(c, label, lease[c], m)
  BY DEF UnlockAttempt, Return
<1>3. lease' = lease /\ pc'[c] \in {"idle", "unlocking"} /\ \A e \in Callers \ {c} : pc'[e] = pc[e]
  BY <1>2 DEF Goto, TypeOK
<1>4. IndexKept'
  BY <1>1, FewerDocs
<1>5. HoldersHaveLease'
  BY <1>3 DEF Safe, HoldersHaveLease
<1>6. ASSUME NEW e \in Callers, Current(e)'
      PROVE  /\ Current(e)
             /\ reused \/ LockID(lease[e]) # i
  <2>1. e # c /\ Current(e)
    BY <1>1, <1>3, <1>6 DEF Current, Holding
  <2>2. lease[e] # NoLease
    BY <2>1 DEF Current, Holding, Safe, HoldersHaveLease
  <2>3. lease[e] # lease[c] /\ lease[e] \in InUse /\ lease[c] \in InUse
    BY <2>1, <2>2 DEF Safe, CallersApart, InUse, CallersLeases
  <2> QED BY <2>1, <2>3 DEF Safe, LockIDsApart
<1>7. ASSUME NEW e \in Callers, Current(e)', ~reused
      PROVE  /\ lease[e] \in docs => lease[e] \in docs'
             /\ LockID(lease[e]) \notin lateUnlocks'
             /\ \A l \in Locks : LockID(lease[e]) \notin doomed'[l]
  BY <1>1, <1>6, <1>7 DEF Safe, LateUnlocksSpent, DoomedSpent
<1>8. \A e \in Callers : Current(e)' => Current(e)
  BY <1>6
<1> QED BY <1>1, <1>3, <1>4, <1>5, <1>7, <1>8, ShrinkSafe

(* The end of a process: its callers hold nothing any more.                 *)
LEMMA DieSafe ==
  ASSUME TypeOK, Safe, NEW l \in Locks, Die(l)
  PROVE  Safe'
<1>1. \A c \in Callers : \/ pc'[c] = "idle" /\ lease'[c] = NoLease
                         \/ pc'[c] = pc[c] /\ lease'[c] = lease[c]
  BY DEF Die
<1>2. HoldersHaveLease'
  BY <1>1 DEF Safe, HoldersHaveLease
<1>3. IndexKept'
  BY FewerDocs DEF Die
<1>4. \A k \in Locks : doomed'[k] \subseteq doomed[k]
  BY DEF Die, TypeOK
<1>5. \A c \in Callers : Current(c)' => Current(c)
  BY <1>1 DEF Current, Holding, Die
<1>6. ASSUME NEW c \in Callers, Current(c)', ~reused
      PROVE  /\ LockID(lease[c]) \notin lateUnlocks'
             /\ \A k \in Locks : LockID(lease[c]) \notin doomed'[k]
  BY <1>4, <1>5, <1>6 DEF Safe, LateUnlocksSpent, DoomedSpent, Die
<1> QED BY <1>1, <1>2, <1>3, <1>5, <1>6, ShrinkSafe DEF Die

(* Steps of Lock objects, purgers and the store: callers stay where they    *)
(* are, records of current holders stay too.                                *)
LEMMA StoreStepSafe ==
  ASSUME TypeOK, Safe, UNCHANGED callerVars, clock' = clock, expired \subseteq expired',
         docs' \subseteq docs \cup lateLocks, lateLocks' \subseteq lateLocks,
         expired' \subseteq expired \cup docs, IndexKept',
         \A c \in Callers : Current(c) /\ ~reused =>
           /\ lease[c] \in docs => lease[c] \in docs'
           /\ LockID(lease[c]) \notin lateUnlocks'
           /\ \A l \in Locks : LockID(lease[c]) \notin doomed'[l]
  PROVE  Safe'
<1>1. \A c \in Callers : Current(c)' => Current(c)
  BY DEF Current, Holding, callerVars
<1>2. HoldersHaveLease'
  BY DEF Safe, HoldersHaveLease, callerVars
<1> QED BY <1>1, <1>2, ShrinkSafe DEF callerVars

LEMMA SpentNow ==
  ASSUME Safe
  PROVE  \A c \in Callers : Current(c) /\ ~reused =>
           /\ LockID(lease[c]) \notin lateUnlocks
           /\ \A l \in Locks : LockID(lease[c]) \notin doomed[l]
BY DEF Safe, LateUnlocksSpent, DoomedSpent

(* A purge lists no lockID of a current holder: the holder's record is not  *)
(* expired, and no other record in use has its lockID.                      *)
LEMMA ListedSpent ==
  ASSUME TypeOK, Safe, NEW c \in Callers, Current(c), ~reused
  PROVE  LockID(lease[c]) \notin {LockID(d) : d \in docs \cap expired}
<1>1. lease[c] \in InUse /\ lease[c] \notin expired
  BY DEF Current, Holding, Safe, HoldersHaveLease, InUse, CallersLeases
<1>2. \A d \in docs : LockID(d) = LockID(lease[c]) => d = lease[c]
  BY <1>1 DEF Safe, LockIDsApart, InUse
<1> QED BY <1>1, <1>2

LEMMA NextSafe ==
  ASSUME TypeOK, Safe, [Next]_vars
  PROVE  Safe'
<1> USE DEF lockVars
<1>1. ASSUME NEW l \in Locks, New(l) PROVE Safe'
  <2>1. IndexKept'
    BY <1>1 DEF New, CreateIndexes, IndexKept, Duplicated, Safe
  <2> QED BY <1>1, <2>1, SpentNow, StoreStepSafe DEF New, CreateIndexes
<1>2. ASSUME NEW l \in Locks, Crash(l) PROVE Safe'
  BY <1>2, DieSafe DEF Crash
<1>3. ASSUME NEW l \in Locks, Close(l) PROVE Safe'
  <2>1. CASE UNCHANGED <<storeVars, purger, doomed, callerVars>>
    BY <2>1, SpentNow, FewerDocs, StoreStepSafe DEF storeVars
  <2> QED BY <1>3, <2>1, DieSafe DEF Close
<1>4. ASSUME NEW l \in Locks, CloseReturn(l) \/ PurgeEnd(l) \/ PurgeTimer(l) \/ PurgeClosed(l)
      PROVE Safe'
  <2>1. UNCHANGED <<storeVars, doomed, callerVars>>
    BY <1>4 DEF CloseReturn, PurgeEnd, PurgeTimer, PurgeClosed
  <2> QED BY <2>1, SpentNow, FewerDocs, StoreStepSafe DEF storeVars
<1>5. ASSUME NEW l \in Locks, PurgeList(l) PROVE Safe'
  <2>1. UNCHANGED <<storeVars, callerVars>> /\ doomed \in [Locks -> SUBSET LockIDs] /\
        doomed' = [doomed EXCEPT ![l] = {LockID(d) : d \in docs \cap expired}]
    BY <1>5 DEF PurgeList, TypeOK
  <2>2. ASSUME NEW c \in Callers, Current(c), ~reused
        PROVE  \A k \in Locks : LockID(lease[c]) \notin doomed'[k]
    <3> TAKE k \in Locks
    <3>1. CASE k = l
      BY <2>1, <2>2, <3>1, ListedSpent
    <3>2. CASE k # l
      BY <2>1, <2>2, <3>2, SpentNow
    <3> QED BY <3>1, <3>2
  <2> QED BY <2>1, <2>2, SpentNow, FewerDocs, StoreStepSafe DEF storeVars
<1>6. ASSUME NEW l \in Locks, PurgeRemove(l) PROVE Safe'
  <2>1. PICK i \in doomed[l] : Unlocked(i) /\ doomed' = [doomed EXCEPT ![l] = @ \ {i}]
    BY <1>6 DEF PurgeRemove
  <2>2. \A c \in Callers : Current(c) /\ ~reused => LockID(lease[c]) # i
    BY <2>1, SpentNow
  <2>3. IndexKept'
    BY <2>1, FewerDocs DEF Unlocked
  <2>4. \A k \in Locks : doomed'[k] \subseteq doomed[k]
    BY <2>1 DEF TypeOK
  <2> QED BY <1>6, <2>1, <2>2, <2>3, <2>4, SpentNow, StoreStepSafe DEF PurgeRemove, Unlocked
<1>7. ASSUME NEW l \in Locks, PurgeFailed(l) PROVE Safe'
  <2>1. /\ docs' = docs /\ uniqueIndex' = uniqueIndex /\ lateLocks' = lateLocks
        /\ clock' = clock /\ expired' = expired /\ UNCHANGED callerVars
        /\ lateUnlocks' \subseteq lateUnlocks \cup doomed[l]
        /\ doomed' = [doomed EXCEPT ![l] = {}]
    BY <1>7 DEF PurgeFailed, UnlockFailed
  <2>2. \A k \in Locks : doomed'[k] \subseteq doomed[k]
    BY <2>1 DEF TypeOK
  <2> QED BY <2>1, <2>2, SpentNow, FewerDocs, StoreStepSafe
<1>8. ASSUME NEW c \in Callers, NEW id \in Ids, Lock(c, id) PROVE Safe'
  <2>1. Take(NewLease(id)) /\ UNCHANGED lockVars
    BY <1>8 DEF Lock, Granted
  <2>2. CASE Granted(c, NewLease(id))
    BY <2>1, <2>2, AttemptSafe DEF Granted
  <2>3. CASE (XLockRefused(NewLease(id)) \/ XLockFailed(NewLease(id))) /\ Return(c, NewLease(id))
    BY <2>1, <2>3, AttemptSafe DEF Return
  <2> QED BY <1>8, <2>2, <2>3 DEF Lock
<1>9. ASSUME NEW c \in Callers, NEW id \in Ids, NEW n, AcquireAttempt(c, NewLease(id), n)
      PROVE  Safe'
  <2>1. Take(NewLease(id)) /\ UNCHANGED lockVars
    BY <1>9 DEF AcquireAttempt, Granted
  <2>2. CASE Granted(c, NewLease(id))
    BY <2>1, <2>2, AttemptSafe DEF Granted
  <2>3. CASE XLockFailed(NewLease(id)) /\ Return(c, NewLease(id))
    BY <2>1, <2>3, AttemptSafe DEF Return
  <2>4. CASE XLockRefused(NewLease(id)) /\ Return(c, NoLease)
    BY <2>1, <2>4, AttemptSafe DEF Return
  <2>5. CASE XLockRefused(NewLease(id)) /\ Goto(c, "backoff", NewLease(id), n + 1)
    BY <2>1, <2>5, AttemptSafe
  <2> QED BY <1>9, <2>2, <2>3, <2>4, <2>5 DEF AcquireAttempt
<1>10. ASSUME NEW c \in Callers, NEW id \in Ids, Acquire(c, id) PROVE Safe'
  BY <1>9, <1>10 DEF Acquire
<1>11. ASSUME NEW c \in Callers, AcquireRetry(c) PROVE Safe'
  <2>1. lease[c] \in Leases
    BY <1>11 DEF AcquireRetry, Safe, HoldersHaveLease, TypeOK
  <2> QED BY <1>9, <1>11, <2>1 DEF AcquireRetry, Leases
<1>12. ASSUME NEW c \in Callers, AcquireAbort(c) \/ UnlockAbort(c) PROVE Safe'
  <2>1. UNCHANGED <<storeVars, lockVars, reused>>
    BY <1>12 DEF AcquireAbort, UnlockAbort
  <2>2. \A e \in Callers : \/ pc'[e] = "idle" /\ lease'[e] \in {lease[e], NoLease}
                           \/ pc'[e] = pc[e] /\ lease'[e] = lease[e]
    BY <1>12 DEF AcquireAbort, UnlockAbort, Return, Goto, TypeOK
  <2>3. HoldersHaveLease'
    BY <2>2 DEF Safe, HoldersHaveLease
  <2>4. \A e \in Callers : Current(e)' => Current(e)
    BY <2>1, <2>2 DEF Current, Holding, storeVars
  <2> QED BY <2>1, <2>2, <2>3, <2>4, SpentNow, FewerDocs, ShrinkSafe DEF storeVars
<1>13. ASSUME NEW c \in Callers, Unlock(c) PROVE Safe'
  BY <1>13, UnlockSafe DEF Unlock
<1>14. ASSUME NEW c \in Callers, UnlockRetry(c) PROVE Safe'
  <2>1. lease[c] # NoLease
    BY <1>14 DEF UnlockRetry, Safe, HoldersHaveLease
  <2> QED BY <1>14, <2>1, UnlockSafe DEF UnlockRetry
<1>15. ASSUME NEW d \in lateLocks, LateXLock(d), UNCHANGED <<lockVars, callerVars>> PROVE Safe'
  <2>1. IndexKept'
    BY <1>15 DEF LateXLock, IndexKept, Duplicated, Refused, Safe
  <2> QED BY <1>15, <2>1, SpentNow, StoreStepSafe DEF LateXLock
<1>16. ASSUME NEW i \in lateUnlocks, LateUnlock(i), UNCHANGED <<lockVars, callerVars>> PROVE Safe'
  <2>1. \A c \in Callers : Current(c) /\ ~reused => LockID(lease[c]) # i
    BY SpentNow
  <2>2. IndexKept'
    BY <1>16, FewerDocs DEF LateUnlock
  <2> QED BY <1>16, <2>1, <2>2, SpentNow, StoreStepSafe DEF LateUnlock
<1>17. ASSUME NEW d \in docs, Expire(d), UNCHANGED <<lockVars, callerVars>> PROVE Safe'
  BY <1>17, SpentNow, FewerDocs, StoreStepSafe DEF Expire
<1>18. ASSUME UNCHANGED vars PROVE Safe'
  BY <1>18, SpentNow, FewerDocs, StoreStepSafe DEF vars, storeVars
<1> QED
  BY <1>1, <1>2, <1>3, <1>4, <1>5, <1>6, <1>7, <1>8, <1>10, <1>11, <1>12, <1>13, <1>14, <1>15,
     <1>16, <1>17, <1>18
  DEF Next, LockNext, Purging, CallerNext, StoreNext

-----------------------------------------------------------------------------
LEMMA IInvStep ==
  ASSUME IInv, [Next]_vars
  PROVE  IInv'
<1>1. TypeOK /\ Safe /\ HoldersHaveLease
  BY IInvSafe DEF Safe
<1>2. TypeOK'
  BY <1>1, NextType
<1>3. Safe'
  BY <1>1, NextSafe
<1> QED BY <1>2, <1>3 DEF IInv, Safe

(* The inductive invariant, for any number of processes, goroutines,        *)
(* resources, calls and faults and whatever the wrap of the time id.        *)
THEOREM Inductive == Spec => []IInv
<1>1. IInv /\ [Next]_vars => IInv'
  BY IInvStep
<1> QED BY <1>1, InitIInv, PTL DEF Spec

(* Every variable keeps its type (dplock.go:58-197).                        *)
THEOREM TypeCorrect == Spec => []TypeOK
<1>1. IInv => TypeOK
  BY DEF IInv
<1> QED BY <1>1, Inductive, PTL

(* The lock excludes: with the unique index in place and no lockID taken    *)
(* twice while in use, two holders of a resource within their TTLs are the  *)
(* same caller, whatever fails, arrives late or is purged (dplock.go:119).  *)
THEOREM Exclusion == Spec => []GuardedExclusion
<1>1. IInv => GuardedExclusion
  <2> SUFFICES ASSUME IInv, uniqueIndex, ~reused, NEW c \in Callers, NEW e \in Callers,
                      Current(c), Current(e), lease[c].res = lease[e].res
               PROVE  c = e
    BY DEF GuardedExclusion, MutualExclusion
  <2>1. lease[c] \in docs /\ lease[e] \in docs
    BY DEF IInv, HoldersBacked
  <2>2. lease[c] = lease[e]
    BY <2>1 DEF IInv, IndexKept, Duplicated
  <2>3. lease[c] # NoLease
    BY DEF Current, Holding, IInv, HoldersHaveLease
  <2> QED BY <2>2, <2>3 DEF IInv, CallersApart
<1> QED BY <1>1, Inductive, PTL

(* A request to unlock that is still on its way concerns no current holder  *)
(* (dplock.go:164).                                                         *)
THEOREM LateRequestsHarmless == Spec => []LateUnlocksSpent
<1>1. IInv => LateUnlocksSpent
  BY DEF IInv
<1> QED BY <1>1, Inductive, PTL

(* The list a purger is working through, however old, concerns no current   *)
(* holder (dplock.go:101).                                                  *)
THEOREM PurgesHarmless == Spec => []DoomedSpent
<1>1. IInv => DoomedSpent
  BY DEF IInv
<1> QED BY <1>1, Inductive, PTL

-----------------------------------------------------------------------------
(* The two conditions of GuardedExclusion, where they hold by themselves.   *)

(* Nothing is locked before the first Lock object has made the index.       *)
IndexFirst ==
  uniqueIndex \/
    /\ docs = {} /\ lateLocks = {}
    /\ \A l \in Locks : life[l] = "down"
    /\ \A c \in Callers : pc[c] = "idle"

LEMMA IndexFirstStep ==
  ASSUME ~CreateIndexesMayFail, IndexFirst, [Next]_vars
  PROVE  IndexFirst'
<1>1. CASE uniqueIndex
  <2> USE <1>1 DEF IndexFirst
  <2>1. ASSUME NEW l \in Locks, LockNext(l) PROVE uniqueIndex'
    BY <2>1 DEF LockNext, New, CreateIndexes, Crash, Close, Die, CloseReturn, Purging, PurgeList,
      PurgeRemove, PurgeEnd, PurgeFailed, PurgeTimer, PurgeClosed, Unlocked, UnlockFailed, storeVars
  <2>2. ASSUME NEW c \in Callers, CallerNext(c) PROVE uniqueIndex'
    BY <2>2 DEF CallerNext, Lock, Acquire, AcquireRetry, AcquireAttempt, Granted, XLocked, XLockRefused,
      XLockFailed, AcquireAbort, Unlock, UnlockRetry, UnlockAttempt, UnlockAbort, Unlocked, UnlockFailed, storeVars
  <2>3. ASSUME StoreNext \/ UNCHANGED vars PROVE uniqueIndex'
    BY <2>3 DEF StoreNext, LateXLock, LateUnlock, Expire, vars, storeVars
  <2> QED BY <2>1, <2>2, <2>3 DEF Next
<1>2. CASE ~uniqueIndex
  <2>0. /\ docs = {} /\ lateLocks = {}
        /\ \A l \in Locks : life[l] = "down"
        /\ \A c \in Callers : pc[c] = "idle"
    BY <1>2 DEF IndexFirst
  <2>1. ASSUME NEW l \in Locks, New(l) PROVE uniqueIndex'
    BY <2>0, <2>1 DEF New, CreateIndexes, Duplicated
  <2>2. ASSUME NEW l \in Locks, LockNext(l), ~New(l) PROVE IndexFirst'
    <3>1. /\ UNCHANGED <<docs, lateLocks>>
          /\ life' = life /\ pc' = pc
      BY <2>0, <2>2 DEF LockNext, Crash, Close, Closing, CloseReturn, Purging, PurgeList,
        PurgeRemove, PurgeEnd, PurgeFailed, PurgeTimer, PurgeClosed, Unlocked, UnlockFailed,
        storeVars, callerVars
    <3> QED BY <2>0, <3>1 DEF IndexFirst
  <2>3. ASSUME NEW c \in Callers, CallerNext(c) PROVE FALSE
    BY <2>0, <2>3, LockAssumption DEF CallerNext, Lock, Acquire, AcquireRetry, AcquireAbort, Unlock, UnlockRetry,
      UnlockAbort, Call, Running
  <2>4. ASSUME StoreNext \/ UNCHANGED vars PROVE IndexFirst'
    BY <2>0, <2>4 DEF StoreNext, LateXLock, LateUnlock, Expire, vars, storeVars, lockVars, callerVars, IndexFirst
  <2> QED BY <2>1, <2>2, <2>3, <2>4 DEF Next, IndexFirst
<1> QED BY <1>1, <1>2

(* The nanosecond within the second tells instants of one second apart.     *)
LEMMA SameSecond ==
  ASSUME NEW d \in Leases, d.stamp < NanosPerSecond
  PROVE  LockID(d) = <<d.res, d.stamp>>
<1>1. d.stamp \in Nat /\ NanosPerSecond \in Nat \ {0}
  BY StoreAssumption DEF Leases
<1>2. d.stamp % NanosPerSecond = d.stamp
  BY <1>1
<1> QED BY <1>2 DEF LockID, GenerateTimeID

(* Up to the wrap of the time id every lockID in use is of an earlier       *)
(* instant, and none has been taken again.                                  *)
IDsPast ==
  clock <= NanosPerSecond =>
    /\ ~reused
    /\ \A i \in lateUnlocks \cup UNION {doomed[l] : l \in Locks} : i[2] < clock

LEMMA InUsePast ==
  ASSUME IInv, IDsPast, clock <= NanosPerSecond
  PROVE  \A i \in LockIDsInUse : i[2] < clock
<1>1. ASSUME NEW d \in InUse PROVE LockID(d)[2] < clock
  <2>1. d.stamp < clock /\ d \in Leases /\ clock \in Nat /\ NanosPerSecond \in Nat
    BY StoreAssumption DEF IInv, StampsPast, InUse, CallersLeases, TypeOK, StoreTypeOK
  <2>2. d.stamp < NanosPerSecond
    BY <2>1 DEF Leases
  <2> QED BY <2>1, <2>2, SameSecond
<1> QED BY <1>1 DEF LockIDsInUse, IDsPast

(* A step takes a new lockID or puts lockIDs that are in use elsewhere.     *)
LEMMA IDsOfStep ==
  ASSUME IInv, [Next]_vars
  PROVE  \/ \E id \in Ids : /\ Take(NewLease(id)) /\ clock' = clock + 1
                            /\ UNCHANGED <<lateUnlocks, doomed>>
         \/ /\ UNCHANGED <<clock, reused>>
            /\ lateUnlocks' \cup UNION {doomed'[l] : l \in Locks} \subseteq LockIDsInUse
<1> DEFINE Taken == \E id \in Ids : /\ Take(NewLease(id)) /\ clock' = clock + 1
                                    /\ UNCHANGED <<lateUnlocks, doomed>>
           Kept == /\ UNCHANGED <<clock, reused>>
                   /\ \A i \in lateUnlocks' : i \in LockIDsInUse
                   /\ \A l \in Locks : \A i \in doomed'[l] : i \in LockIDsInUse
<1>0. /\ \A i \in lateUnlocks : i \in LockIDsInUse
      /\ \A l \in Locks : \A i \in doomed[l] : i \in LockIDsInUse
      /\ \A d \in docs : LockID(d) \in LockIDsInUse
      /\ \A c \in Callers : lease[c] # NoLease => LockID(lease[c]) \in LockIDsInUse
      /\ doomed \in [Locks -> SUBSET LockIDs] /\ lease \in [Callers -> Leases \cup {NoLease}]
      /\ HoldersHaveLease
  BY DEF LockIDsInUse, InUse, CallersLeases, IInv, TypeOK
<1>1. ASSUME NEW l \in Locks, LockNext(l) PROVE Kept
  <2>1. UNCHANGED <<clock, reused>>
    BY <1>1 DEF LockNext, New, CreateIndexes, Crash, Close, Die, CloseReturn, Purging, PurgeList, PurgeRemove,
      PurgeEnd, PurgeFailed, PurgeTimer, PurgeClosed, Unlocked, UnlockFailed, storeVars, callerVars
  <2>2. lateUnlocks' \subseteq lateUnlocks \cup doomed[l]
    BY <1>1 DEF LockNext, New, CreateIndexes, Crash, Close, Die, CloseReturn, Purging, PurgeList, PurgeRemove,
      PurgeEnd, PurgeFailed, PurgeTimer, PurgeClosed, Unlocked, UnlockFailed, storeVars
  <2>3. \A k \in Locks : doomed'[k] \subseteq doomed[k] \cup {LockID(d) : d \in docs}
    <3>1. \/ doomed' = doomed
          \/ \E S : /\ S \subseteq doomed[l] \cup {LockID(d) : d \in docs}
                   /\ doomed' = [doomed EXCEPT ![l] = S]
      <4>1. CASE PurgeList(l)
        BY <4>1 DEF PurgeList
      <4>2. CASE PurgeRemove(l)
        BY <4>2 DEF PurgeRemove
      <4>3. CASE Crash(l) \/ Close(l) \/ PurgeFailed(l)
        BY <4>3 DEF Crash, Close, Die, PurgeFailed
      <4> QED BY <1>1, <4>1, <4>2, <4>3 DEF LockNext, New, CloseReturn, Purging, PurgeEnd, PurgeTimer, PurgeClosed
    <3> QED BY <1>0, <3>1
  <2> QED BY <1>0, <2>1, <2>2, <2>3
<1>2. ASSUME NEW c \in Callers, CallerNext(c) PROVE Taken \/ Kept
  <2> USE DEF Granted, XLocked, XLockRefused, XLockFailed, lockVars
  <2>1. ASSUME NEW id \in Ids, NEW n, Lock(c, id) \/ AcquireAttempt(c, NewLease(id), n) PROVE Taken
    <3>1. Take(NewLease(id))
      BY <2>1 DEF Lock, AcquireAttempt
    <3>2. clock' = clock + 1 /\ UNCHANGED <<lateUnlocks, doomed>>
      BY <2>1 DEF Lock, AcquireAttempt
    <3> QED BY <3>1, <3>2
  <2>2. ASSUME AcquireRetry(c) PROVE Taken
    <3>1. lease[c] \in Leases
      BY <1>0, <2>2 DEF AcquireRetry, HoldersHaveLease
    <3> QED BY <2>1, <2>2, <3>1 DEF AcquireRetry, Leases
  <2>3. ASSUME AcquireAbort(c) \/ UnlockAbort(c) PROVE Kept
    BY <1>0, <2>3 DEF AcquireAbort, UnlockAbort, storeVars
  <2>4. ASSUME NEW n, UnlockAttempt(c, n), lease[c] # NoLease PROVE Kept
    BY <1>0, <2>4 DEF UnlockAttempt, Unlocked, UnlockFailed
  <2>5. ASSUME UnlockRetry(c) \/ Unlock(c) PROVE lease[c] # NoLease
    BY <1>0, <2>5 DEF UnlockRetry, Unlock, HoldersHaveLease
  <2> HIDE DEF Taken, Kept
  <2> QED BY <1>2, <2>1, <2>2, <2>3, <2>4, <2>5 DEF CallerNext, Acquire, Unlock, UnlockRetry
<1>3. ASSUME StoreNext PROVE Kept
  BY <1>0, <1>3 DEF StoreNext, LateXLock, LateUnlock, Expire, lockVars, callerVars
<1>4. ASSUME UNCHANGED vars PROVE Kept
  BY <1>0, <1>4 DEF vars, storeVars, lockVars, callerVars
<1>5. Taken \/ Kept
  <2> HIDE DEF Taken, Kept
  <2> QED BY <1>1, <1>2, <1>3, <1>4 DEF Next
<1>6. CASE Kept
  BY <1>6
<1> QED BY <1>5, <1>6

LEMMA IDsPastStep ==
  ASSUME IInv, IDsPast, [Next]_vars
  PROVE  IDsPast'
<1> SUFFICES ASSUME clock' <= NanosPerSecond
             PROVE  /\ ~reused'
                    /\ \A i \in lateUnlocks' \cup UNION {doomed'[l] : l \in Locks} : i[2] < clock'
  BY DEF IDsPast
<1>0. clock \in Nat /\ NanosPerSecond \in Nat /\ LockIDsInUse \subseteq LockIDs
  <2>1. InUse \subseteq Leases
    BY DEF IInv, TypeOK, StoreTypeOK, InUse, CallersLeases
  <2> QED BY <2>1, LockIDType, StoreAssumption DEF IInv, TypeOK, StoreTypeOK, LockIDsInUse
<1>1. ASSUME NEW id \in Ids, Take(NewLease(id)), clock' = clock + 1, UNCHANGED <<lateUnlocks, doomed>>
      PROVE  /\ ~reused'
             /\ \A i \in lateUnlocks' \cup UNION {doomed'[l] : l \in Locks} : i[2] < clock'
  <2>1. clock <= NanosPerSecond /\ clock < NanosPerSecond
    BY <1>0, <1>1
  <2>2. /\ ~reused /\ \A i \in LockIDsInUse : i[2] < clock
    BY <2>1, InUsePast DEF IDsPast
  <2>3. LockID(NewLease(id)) = <<id, clock>>
    BY <1>0, <2>1, SameSecond, NewLeaseType DEF NewLease
  <2>4. LockID(NewLease(id)) \notin LockIDsInUse
    BY <1>0, <2>2, <2>3
  <2>5. \A i \in LockIDsInUse : i[2] < clock'
    BY <1>0, <1>1, <2>2 DEF LockIDs
  <2>6. lateUnlocks' \cup UNION {doomed'[l] : l \in Locks} \subseteq LockIDsInUse
    BY <1>1 DEF LockIDsInUse
  <2> QED BY <1>1, <2>2, <2>4, <2>5, <2>6 DEF Take
<1>2. ASSUME UNCHANGED <<clock, reused>>,
             lateUnlocks' \cup UNION {doomed'[l] : l \in Locks} \subseteq LockIDsInUse
      PROVE  /\ ~reused'
             /\ \A i \in lateUnlocks' \cup UNION {doomed'[l] : l \in Locks} : i[2] < clock'
  BY <1>2, InUsePast DEF IDsPast
<1> QED BY <1>1, <1>2, IDsOfStep

(* Two callers that hold one resource within their TTLs are one, for every  *)
(* number of processes, callers, calls and faults, as long as the index can *)
(* be made and the attempts have not come round to the nanosecond of an     *)
(* earlier one: the two things dplock counts on (dplock.go:69, 75, 119).    *)
THEOREM Excludes ==
  ASSUME ~CreateIndexesMayFail
  PROVE  Spec => [](clock <= NanosPerSecond => MutualExclusion)
<1>1. Init => IInv /\ IndexFirst /\ IDsPast
  BY InitIInv DEF Init, StoreInit, IndexFirst, IDsPast
<1>2. IInv /\ IndexFirst /\ IDsPast /\ [Next]_vars => IInv' /\ IndexFirst' /\ IDsPast'
  BY IInvStep, IndexFirstStep, IDsPastStep
<1>3. IInv /\ GuardedExclusion /\ IndexFirst /\ IDsPast => (clock <= NanosPerSecond => MutualExclusion)
  BY DEF GuardedExclusion, MutualExclusion, IndexFirst, IDsPast, Current, Holding
<1> QED BY <1>1, <1>2, <1>3, Exclusion, PTL DEF Spec

-----------------------------------------------------------------------------
(* dplock implements LeaseRegistry, for any number of processes, callers    *)
(* and resources, as long as the unique index exists and no lockID is taken *)
(* again while it is in use.                                                *)

Registry == INSTANCE LeaseRegistry WITH registry <- docs, holders <- Holders, lapsed <- expired

(* A request to lock that answered with an error has made nobody a holder.  *)
NoneTold == \A c \in Callers : Holding(c) => lease[c] \notin lateLocks

RInv == IInv /\ NoneTold

(* The part of the registry that callers decide.                            *)
LEMMA SameHolders ==
  ASSUME \A c \in Callers : \/ Holding(c) /\ Holding(c)' /\ lease'[c] = lease[c]
                            \/ ~Holding(c) /\ ~Holding(c)'
  PROVE  Holders' = Holders
BY DEF Holders

LEMMA FewerHolders ==
  ASSUME CallersApart, HoldersHaveLease, NEW U \in SUBSET Callers,
         \A c \in Callers \ U : \/ Holding(c) /\ Holding(c)' /\ lease'[c] = lease[c]
                                \/ ~Holding(c) /\ ~Holding(c)',
         \A c \in U : Holding(c) /\ ~Holding(c)'
  PROVE  Holders' = Holders \ {lease[c] : c \in U} /\ {lease[c] : c \in U} \subseteq Holders
<1>1. \A c \in Callers \ U, e \in U : Holding(c) => lease[c] # lease[e]
  BY DEF CallersApart, HoldersHaveLease, Holding
<1> QED BY <1>1 DEF Holders

LEMMA OneMoreHolder ==
  ASSUME NEW c \in Callers, ~Holding(c), Holding(c)',
         \A e \in Callers \ {c} : \/ Holding(e) /\ Holding(e)' /\ lease'[e] = lease[e]
                                  \/ ~Holding(e) /\ ~Holding(e)'
  PROVE  Holders' = Holders \cup {lease'[c]}
BY DEF Holders

(* Where lockIDs tell leases apart, a lockID is removed with one lease.     *)
LEMMA RemovesOne ==
  ASSUME LockIDsApart, ~reused, NEW d \in InUse, Unlocked(LockID(d)) \/ docs' = {e \in docs : LockID(e) # LockID(d)}
  PROVE  docs' = docs \ {d}
BY DEF LockIDsApart, InUse, Unlocked

(* A lockID nobody holds is removed, by an Unlock or by a purger.           *)
LEMMA SpentRemoval ==
  ASSUME IInv, ~reused, NEW id, docs' = {d \in docs : LockID(d) # id}, Holders' = Holders, expired' = expired,
         \A c \in Callers : Current(c) => LockID(lease[c]) # id
  PROVE  [Registry!Next]_(Registry!vars)
<1>1. CASE docs' = docs
  BY <1>1 DEF Registry!vars
<1>2. CASE docs' # docs
  <2>1. PICK d \in docs : LockID(d) = id
    BY <1>2
  <2>2. docs' = docs \ {d} /\ d \in Leases
    BY <2>1, RemovesOne DEF IInv, InUse, TypeOK, StoreTypeOK
  <2>3. d \in expired \/ d \notin Holders
    BY <2>1 DEF Holders, Current
  <2> QED BY <2>1, <2>2, <2>3 DEF Registry!Next, Registry!Remove
<1> QED BY <1>1, <1>2

(* One attempt to lock.                                                     *)
LEMMA AttemptImplements ==
  ASSUME RInv, NEW c \in Callers, NEW id \in Ids, ~Holding(c),
         \/ Granted(c, NewLease(id))
         \/ /\ XLockRefused(NewLease(id)) \/ XLockFailed(NewLease(id))
            /\ \E label \in {"idle", "backoff"} : \E d, n : Goto(c, label, d, n)
  PROVE  NoneTold' /\ (uniqueIndex => [Registry!Next]_(Registry!vars))
<1> DEFINE d == NewLease(id)
<1>1. d \in Leases /\ d.stamp = clock /\ clock \in Nat
  BY NewLeaseType DEF RInv, IInv, TypeOK, StoreTypeOK, NewLease
<1>2. d \notin InUse
  BY <1>1 DEF RInv, IInv, StampsPast
<1>3. \A e \in Callers : Holding(e) => lease[e] \in InUse
  BY DEF Holding, InUse, CallersLeases, RInv, IInv, HoldersHaveLease
<1>4. d \notin Holders /\ d \notin lateLocks
  BY <1>2, <1>3 DEF Holders, InUse
<1>5. pc \in [Callers -> {"idle", "backoff", "holding", "unlocking"}]
      /\ lease \in [Callers -> Leases \cup {NoLease}]
  BY DEF RInv, IInv, TypeOK
<1> HIDE DEF d
<1>6. CASE Granted(c, d)
  <2>1. ~Refused(d) /\ docs' = docs \cup {d} /\ expired' = expired /\ lateLocks' = lateLocks
    BY <1>6 DEF Granted, XLocked
  <2>2. Holding(c)' /\ lease'[c] = d /\ \A e \in Callers \ {c} : pc'[e] = pc[e] /\ lease'[e] = lease[e]
    BY <1>5, <1>6 DEF Granted, Goto, Holding
  <2>3. Holders' = Holders \cup {d}
    BY <2>2, OneMoreHolder DEF Holding
  <2>4. uniqueIndex => Registry!Grant(d)
    BY <1>1, <1>4, <2>1, <2>3 DEF Registry!Grant, Refused
  <2>5. NoneTold'
    BY <1>4, <2>1, <2>2 DEF NoneTold, RInv, Holding
  <2> QED BY <1>1, <2>4, <2>5 DEF Registry!Next
<1>7. CASE /\ XLockRefused(d) \/ XLockFailed(d)
           /\ \E label \in {"idle", "backoff"} : \E e, n : Goto(c, label, e, n)
  <2>1. docs' = docs /\ expired' = expired /\ lateLocks' \subseteq lateLocks \cup {d}
    BY <1>7 DEF XLockRefused, XLockFailed
  <2>2. ~Holding(c)' /\ \A e \in Callers \ {c} : pc'[e] = pc[e] /\ lease'[e] = lease[e]
    BY <1>5, <1>7 DEF Goto, Holding
  <2>3. Holders' = Holders
    BY <2>2, SameHolders DEF Holding
  <2>4. NoneTold'
    BY <1>2, <1>3, <2>1, <2>2 DEF NoneTold, RInv, Holding
  <2> QED BY <2>1, <2>3, <2>4 DEF Registry!vars
<1> QED BY <1>6, <1>7 DEF d

(* One attempt to unlock: of a holder, or of a caller that has no lock, no  *)
(* longer, or was never told.                                               *)
LEMMA UnlockImplements ==
  ASSUME RInv, ~reused, NEW c \in Callers, NEW n, lease[c] # NoLease, pc[c] # "backoff", UnlockAttempt(c, n)
  PROVE  [Registry!Next]_(Registry!vars)
<1> DEFINE d == lease[c]
<1>1. pc \in [Callers -> {"idle", "backoff", "holding", "unlocking"}]
      /\ lease \in [Callers -> Leases \cup {NoLease}] /\ CallersApart /\ HoldersHaveLease /\ LockIDsApart
  BY DEF RInv, IInv, TypeOK
<1>2. d \in InUse
  BY DEF InUse, CallersLeases
<1>3. expired' = expired /\ docs' \in {docs, docs \ {d}}
  <2>1. CASE Unlocked(LockID(d))
    BY <1>1, <1>2, <2>1, RemovesOne DEF Unlocked
  <2>2. CASE UnlockFailed(LockID(d))
    BY <2>2 DEF UnlockFailed
  <2> QED BY <2>1, <2>2 DEF UnlockAttempt
<1>4. ~Holding(c)' /\ \A e \in Callers \ {c} : pc'[e] = pc[e] /\ lease'[e] = lease[e]
  BY <1>1 DEF UnlockAttempt, Return, Goto, Holding
<1>5. CASE Holding(c)
  <2>1. Holders' = Holders \ {d} /\ {d} \subseteq Holders
    <3>1. {lease[e] : e \in {c}} = {d}
      OBVIOUS
    <3>2. {c} \in SUBSET Callers
      OBVIOUS
    <3>3. \A e \in {c} : Holding(e) /\ ~Holding(e)'
      BY <1>4, <1>5
    <3>4. \A e \in Callers \ {c} : \/ Holding(e) /\ Holding(e)' /\ lease'[e] = lease[e]
                                   \/ ~Holding(e) /\ ~Holding(e)'
      BY <1>4 DEF Holding
    <3> HIDE DEF d
    <3> QED BY <1>1, <3>1, <3>2, <3>3, <3>4, FewerHolders
  <2>2. Registry!Yield({d})
    BY <1>3, <2>1 DEF Registry!Yield
  <2> QED BY <2>1, <2>2 DEF Registry!Next
<1>6. CASE ~Holding(c)
  <2>1. Holders' = Holders
    BY <1>4, <1>6, SameHolders DEF Holding
  <2>2. d \notin Holders
    BY <1>1, <1>6 DEF Holders, CallersApart
  <2>3. CASE docs' = docs
    BY <1>3, <2>1, <2>3 DEF Registry!vars
  <2>4. CASE docs' # docs
    <3>1. d \in docs /\ docs' = docs \ {d} /\ d \in Leases
      BY <1>1, <1>3, <2>4
    <3> QED BY <1>3, <2>1, <2>2, <3>1 DEF Registry!Next, Registry!Remove
  <2> QED BY <2>3, <2>4
<1> QED BY <1>5, <1>6

(* What ends a process ends what its callers hold.                          *)
LEMMA DieImplements ==
  ASSUME RInv, NEW l \in Locks, Die(l)
  PROVE  [Registry!Next]_(Registry!vars) /\ NoneTold'
<1> DEFINE U == {c \in Callers : LockOf[c] = l /\ Holding(c)}
           S == {lease[c] : c \in U}
<1>1. pc' = [c \in Callers |-> IF LockOf[c] = l THEN "idle" ELSE pc[c]]
      /\ lease' = [c \in Callers |-> IF LockOf[c] = l THEN NoLease ELSE lease[c]]
      /\ docs' = docs /\ expired' = expired /\ lateLocks' = lateLocks
  BY DEF Die
<1>2. Holders' = Holders \ S /\ S \subseteq Holders
  <2>1. U \in SUBSET Callers /\ \A c \in U : Holding(c) /\ ~Holding(c)'
    BY <1>1 DEF Holding
  <2>2. \A c \in Callers \ U : \/ Holding(c) /\ Holding(c)' /\ lease'[c] = lease[c]
                               \/ ~Holding(c) /\ ~Holding(c)'
    BY <1>1 DEF Holding
  <2>3. CallersApart /\ HoldersHaveLease
    BY DEF RInv, IInv
  <2> HIDE DEF U
  <2> QED BY <2>1, <2>2, <2>3, FewerHolders
<1> HIDE DEF S
<1>3. Registry!Yield(S)
  BY <1>1, <1>2 DEF Registry!Yield
<1>4. NoneTold'
  BY <1>1 DEF NoneTold, RInv, Holding
<1> QED BY <1>2, <1>3, <1>4 DEF Registry!Next

(* What neither locks, unlocks nor removes.                                 *)
LEMMA Stutters ==
  ASSUME RInv, docs' = docs, expired' = expired, lateLocks' \subseteq lateLocks,
         \A c \in Callers : \/ pc'[c] = pc[c] /\ lease'[c] = lease[c]
                            \/ ~Holding(c) /\ ~Holding(c)'
  PROVE  [Registry!Next]_(Registry!vars) /\ NoneTold'
<1>1. Holders' = Holders
  BY SameHolders DEF Holding
<1>2. NoneTold'
  BY DEF NoneTold, RInv, Holding
<1> QED BY <1>1, <1>2 DEF Registry!vars

-----------------------------------------------------------------------------
LEMMA StepImplements ==
  ASSUME RInv, [Next]_vars
  PROVE  NoneTold' /\ (uniqueIndex /\ ~reused' => [Registry!Next]_(Registry!vars))
<1> DEFINE Goal == NoneTold' /\ (uniqueIndex /\ ~reused' => [Registry!Next]_(Registry!vars))
<1> USE DEF lockVars, callerVars, storeVars
<1>0. pc \in [Callers -> {"idle", "backoff", "holding", "unlocking"}]
      /\ lease \in [Callers -> Leases \cup {NoLease}] /\ HoldersHaveLease
  BY DEF RInv, IInv, TypeOK
<1>1. ASSUME NEW l \in Locks,
             New(l) \/ CloseReturn(l) \/ PurgeList(l) \/ PurgeEnd(l) \/ PurgeFailed(l)
               \/ PurgeTimer(l) \/ PurgeClosed(l)
      PROVE  Goal
  <2>1. UNCHANGED <<docs, expired, lateLocks, pc, lease>>
    BY <1>1 DEF New, CreateIndexes, CloseReturn, PurgeList, PurgeEnd, PurgeFailed, UnlockFailed,
                PurgeTimer, PurgeClosed
  <2> QED BY <2>1, Stutters
<1>2. ASSUME NEW l \in Locks, Crash(l) PROVE Goal
  BY <1>2, DieImplements DEF Crash
<1>3. ASSUME NEW l \in Locks, Close(l) PROVE Goal
  <2>1. CASE Die(l)
    BY <2>1, DieImplements
  <2>2. CASE UNCHANGED <<storeVars, callerVars>>
    BY <2>2, Stutters
  <2> QED BY <1>3, <2>1, <2>2 DEF Close
<1>4. ASSUME NEW l \in Locks, PurgeRemove(l) PROVE Goal
  <2>1. PICK id \in doomed[l] : Unlocked(id)
    BY <1>4 DEF PurgeRemove
  <2>2. docs' = {d \in docs : LockID(d) # id} /\ UNCHANGED <<expired, lateLocks, pc, lease, reused>>
    BY <1>4, <2>1 DEF PurgeRemove, Unlocked
  <2>3. Holders' = Holders /\ NoneTold'
    BY <2>2 DEF Holders, Holding, NoneTold, RInv
  <2>4. ~reused => \A c \in Callers : Current(c) => LockID(lease[c]) # id
    BY <2>1 DEF RInv, IInv, DoomedSpent
  <2> QED BY <2>2, <2>3, <2>4, SpentRemoval DEF RInv
<1>5. ASSUME NEW c \in Callers, NEW id \in Ids, Lock(c, id) PROVE Goal
  <2>1. ~Holding(c) /\ uniqueIndex' = uniqueIndex
    BY <1>5 DEF Lock, Holding, Granted, XLocked, XLockRefused, XLockFailed
  <2>2. \/ Granted(c, NewLease(id))
        \/ /\ XLockRefused(NewLease(id)) \/ XLockFailed(NewLease(id))
           /\ \E label \in {"idle", "backoff"} : \E d, n : Goto(c, label, d, n)
    BY <1>5 DEF Lock, Return
  <2> QED BY <2>1, <2>2, AttemptImplements
<1>6. ASSUME NEW c \in Callers, NEW id \in Ids, NEW n, ~Holding(c), AcquireAttempt(c, NewLease(id), n)
      PROVE  Goal
  <2>1. \/ Granted(c, NewLease(id))
        \/ /\ XLockRefused(NewLease(id)) \/ XLockFailed(NewLease(id))
           /\ \E label \in {"idle", "backoff"} : \E d, m : Goto(c, label, d, m)
    BY <1>6 DEF AcquireAttempt, Return
  <2>2. uniqueIndex' = uniqueIndex
    BY <1>6 DEF AcquireAttempt, Granted, XLocked, XLockRefused, XLockFailed
  <2> QED BY <1>6, <2>1, <2>2, AttemptImplements
<1>7. ASSUME NEW c \in Callers, NEW id \in Ids, Acquire(c, id) PROVE Goal
  BY <1>6, <1>7 DEF Acquire, Holding
<1>8. ASSUME NEW c \in Callers, AcquireRetry(c) PROVE Goal
  <2>1. lease[c].res \in Ids /\ ~Holding(c)
    BY <1>0, <1>8 DEF AcquireRetry, HoldersHaveLease, Leases, Holding
  <2> QED BY <1>6, <1>8, <2>1 DEF AcquireRetry
<1>9. ASSUME NEW c \in Callers, AcquireAbort(c) \/ UnlockAbort(c) PROVE Goal
  <2>1. /\ UNCHANGED <<docs, expired, lateLocks>>
        /\ ~Holding(c) /\ ~Holding(c)'
        /\ \A e \in Callers \ {c} : pc'[e] = pc[e] /\ lease'[e] = lease[e]
    BY <1>0, <1>9 DEF AcquireAbort, UnlockAbort, Return, Goto, Holding
  <2> QED BY <2>1, Stutters
<1>10. ASSUME NEW c \in Callers, NEW n, lease[c] # NoLease, pc[c] # "backoff", UnlockAttempt(c, n)
       PROVE  Goal
  <2>1. lateLocks' = lateLocks /\ reused' = reused
    BY <1>10 DEF UnlockAttempt, Unlocked, UnlockFailed
  <2>2. \A e \in Callers : Holding(e)' => Holding(e) /\ lease'[e] = lease[e]
    BY <1>0, <1>10 DEF UnlockAttempt, Return, Goto, Holding
  <2>3. NoneTold'
    BY <2>1, <2>2 DEF NoneTold, RInv
  <2> QED BY <1>10, <2>1, <2>3, UnlockImplements
<1>11. ASSUME NEW c \in Callers, Unlock(c) \/ UnlockRetry(c) PROVE Goal
  <2>1. lease[c] # NoLease /\ pc[c] # "backoff"
    BY <1>0, <1>11 DEF Unlock, UnlockRetry, HoldersHaveLease
  <2> QED BY <1>10, <1>11, <2>1 DEF Unlock, UnlockRetry
<1>12. ASSUME NEW d \in lateLocks, LateXLock(d), UNCHANGED <<lockVars, callerVars>> PROVE Goal
  <2>1. lateLocks' \subseteq lateLocks /\ expired' = expired /\ UNCHANGED <<pc, lease, uniqueIndex>>
    BY <1>12 DEF LateXLock
  <2>2. Holders' = Holders /\ NoneTold'
    BY <2>1 DEF Holders, Holding, NoneTold, RInv
  <2>3. CASE Refused(d)
    BY <1>12, <2>1, <2>2, <2>3 DEF LateXLock, Registry!vars
  <2>4. CASE ~Refused(d)
    <3>1. d \in Leases /\ d \notin Holders
      BY DEF RInv, IInv, TypeOK, StoreTypeOK, NoneTold, Holders
    <3>2. docs' = docs \cup {d}
      BY <1>12, <2>4 DEF LateXLock
    <3>3. uniqueIndex' => Registry!Grant(d)
      BY <2>1, <2>2, <2>4, <3>1, <3>2 DEF Registry!Grant, Refused
    <3> QED BY <2>1, <2>2, <3>1, <3>3 DEF Registry!Next
  <2> QED BY <2>3, <2>4
<1>13. ASSUME NEW id \in lateUnlocks, LateUnlock(id), UNCHANGED <<lockVars, callerVars>> PROVE Goal
  <2>1. docs' = {d \in docs : LockID(d) # id} /\ UNCHANGED <<expired, lateLocks, pc, lease, reused>>
    BY <1>13 DEF LateUnlock
  <2>2. Holders' = Holders /\ NoneTold'
    BY <2>1 DEF Holders, Holding, NoneTold, RInv
  <2>3. ~reused => \A c \in Callers : Current(c) => LockID(lease[c]) # id
    BY DEF RInv, IInv, LateUnlocksSpent
  <2> QED BY <2>1, <2>2, <2>3, SpentRemoval DEF RInv
<1>14. ASSUME NEW d \in docs, Expire(d), UNCHANGED <<lockVars, callerVars>> PROVE Goal
  <2>1. Holders' = Holders /\ NoneTold' /\ d \in Leases
    BY <1>14 DEF Expire, Holders, Holding, NoneTold, RInv, IInv, TypeOK, StoreTypeOK
  <2> QED BY <1>14, <2>1 DEF Expire, Registry!Next, Registry!Lapse
<1>15. CASE UNCHANGED vars
  BY <1>15, Stutters DEF vars
<1> HIDE DEF Goal
<1> QED
  BY <1>1, <1>2, <1>3, <1>4, <1>5, <1>7, <1>8, <1>9, <1>11, <1>12, <1>13, <1>14, <1>15
  DEF Goal, Next, LockNext, Purging, CallerNext, StoreNext

(* dplock implements the registry of leases: it starts as the registry does *)
(* and, from the moment the index exists, while no lockID in use is taken   *)
(* again, every step of a process, a caller, a purger or a late request is  *)
(* a step of the registry or leaves it alone (dplock.go:66-197).            *)
THEOREM Implements ==
  Spec => Registry!Init /\ [][uniqueIndex /\ ~reused' => [Registry!Next]_(Registry!vars)]_vars
<1>1. Init => RInv /\ Registry!Init
  BY InitIInv DEF Init, StoreInit, RInv, NoneTold, Holders, Holding, Registry!Init
<1>2. RInv /\ [Next]_vars => RInv' /\ (uniqueIndex /\ ~reused' => [Registry!Next]_(Registry!vars))
  <2> SUFFICES ASSUME RInv, [Next]_vars
               PROVE  RInv' /\ (uniqueIndex /\ ~reused' => [Registry!Next]_(Registry!vars))
    OBVIOUS
  <2>1. IInv'
    BY IInvStep DEF RInv
  <2> QED BY <2>1, StepImplements DEF RInv
<1> QED BY <1>1, <1>2, PTL DEF Spec

(* Before the index exists there is nothing to lock or to unlock.           *)
LEMMA NothingBefore ==
  ASSUME IndexFirst, ~uniqueIndex, RInv, [Next]_vars
  PROVE  UNCHANGED Registry!vars
<1>0. /\ docs = {} /\ lateLocks = {}
      /\ \A l \in Locks : life[l] = "down"
      /\ \A c \in Callers : pc[c] = "idle"
  BY DEF IndexFirst
<1>1. ASSUME NEW l \in Locks, LockNext(l) PROVE UNCHANGED <<docs, expired, pc>>
  BY <1>0, <1>1 DEF LockNext, New, CreateIndexes, Crash, Close, Closing, CloseReturn, Purging, PurgeList,
    PurgeRemove, PurgeEnd, PurgeFailed, PurgeTimer, PurgeClosed, Unlocked, UnlockFailed, storeVars, callerVars
<1>2. ASSUME NEW c \in Callers, CallerNext(c) PROVE FALSE
  BY <1>0, <1>2, LockAssumption DEF CallerNext, Lock, Acquire, AcquireRetry, AcquireAbort, Unlock, UnlockRetry,
    UnlockAbort, Call, Running
<1>3. ASSUME StoreNext \/ UNCHANGED vars PROVE UNCHANGED <<docs, expired, pc>>
  BY <1>0, <1>3 DEF StoreNext, LateXLock, LateUnlock, Expire, vars, storeVars, lockVars, callerVars
<1>4. UNCHANGED <<docs, expired, pc>>
  BY <1>1, <1>2, <1>3 DEF Next
<1>5. Holders' = Holders
  BY <1>0, <1>4 DEF Holders, Holding
<1> QED BY <1>4, <1>5 DEF Registry!vars

(* The refinement itself: as long as the index can be made and no attempt   *)
(* comes round to the nanosecond of an earlier one, every behaviour of      *)
(* dplock is one of the registry of leases (dplock.go:66-197).              *)
THEOREM ImplementsRegistry ==
  ASSUME ~CreateIndexesMayFail
  PROVE  Spec /\ [](clock <= NanosPerSecond) => Registry!Spec
<1>1. Init => RInv /\ IndexFirst /\ IDsPast /\ Registry!Init
  BY InitIInv DEF Init, StoreInit, RInv, NoneTold, Holders, Holding, Registry!Init, IndexFirst, IDsPast
<1>2. RInv /\ IndexFirst /\ IDsPast /\ [Next]_vars => RInv' /\ IndexFirst' /\ IDsPast'
  BY IInvStep, IndexFirstStep, IDsPastStep, StepImplements DEF RInv
<1>3. RInv /\ IndexFirst /\ IDsPast' /\ [Next]_vars /\ (clock <= NanosPerSecond)'
        => [Registry!Next]_(Registry!vars)
  BY StepImplements, NothingBefore DEF IDsPast
<1> QED BY <1>1, <1>2, <1>3, PTL DEF Spec, Registry!Spec
=============================================================================
