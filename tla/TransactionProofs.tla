-------------------------- MODULE TransactionProofs --------------------------
(***************************************************************************)
(* Theorems about Transaction, for any number of calls, with and without   *)
(* retries, and every value of the bounds.                                 *)
(***************************************************************************)
EXTENDS Transaction, TLAPS

(* A step of call t leaves the other calls alone.                           *)
Others(t) ==
  \A u \in Txns \ {t} :
    /\ srv'[u] = srv[u] /\ held'[u] = held[u] /\ pc'[u] = pc[u]
    /\ seen'[u] = seen[u] /\ runs'[u] = runs[u]
    /\ result'[u] = result[u] /\ commits'[u] = commits[u]

CallInv(t) == RunningInv(t) /\ CommittedInv(t) /\ WrittenInv(t)

LEMMA CallsApart ==
  ASSUME IInv, NEW t \in Txns, Others(t), CallInv(t)'
  PROVE  \A u \in Txns : RunningInv(u)' /\ CommittedInv(u)' /\ WrittenInv(u)'
<1> TAKE u \in Txns
<1>1. CASE u = t
  BY <1>1 DEF CallInv
<1>2. CASE u # t
  <2>1. /\ srv'[u] = srv[u] /\ held'[u] = held[u] /\ pc'[u] = pc[u]
        /\ seen'[u] = seen[u] /\ runs'[u] = runs[u]
        /\ result'[u] = result[u] /\ commits'[u] = commits[u]
    BY <1>2 DEF Others
  <2>2. RunningInv(u)'
    BY <2>1 DEF IInv, RunningInv, Running
  <2>3. CommittedInv(u)'
    BY <2>1 DEF IInv, CommittedInv
  <2>4. WrittenInv(u)'
    BY <2>1 DEF IInv, WrittenInv, Open
  <2> QED BY <2>2, <2>3, <2>4
<1> QED BY <1>1, <1>2

(* What a call holds is not taken over by others, and nobody writes under   *)
(* it: for steps that leave the objects alone and write nothing.            *)
LEMMA SharedKept ==
  ASSUME IInv, NEW t \in Txns, Others(t), UNCHANGED <<store, seen>>,
         held'[t] \subseteq held[t]
  PROVE  SeenInv' /\ HeldApart' /\ FinalWithThird'
<1>1. \A u \in Txns : held'[u] \subseteq held[u]
  BY DEF Others
<1>2. obj' = obj /\ final' = final /\ seen' = seen
  BY DEF store
<1>3. SeenInv'
  BY <1>1, <1>2 DEF IInv, SeenInv
<1>4. HeldApart'
  BY <1>1 DEF IInv, HeldApart
<1>5. FinalWithThird'
  BY <1>2 DEF IInv, FinalWithThird
<1> QED BY <1>3, <1>4, <1>5

(* The effects that the actions are made of.                                *)
LEMMA ApplyEffect ==
  ASSUME TypeOK, NEW t \in Txns, Apply(t)
  PROVE  /\ obj' \in Objects /\ final' \in BOOLEAN
         /\ obj'.state = Successor(seen[t].state) /\ obj'.version = obj.version + 1
         /\ srv' \in [Txns -> {"none", "open", "committed", "aborted"}]
         /\ held' \in [Txns -> SUBSET {"obj", "final"}]
         /\ commits' \in [Txns -> Nat]
         /\ srv'[t] = "committed" /\ held'[t] = {}
         /\ commits[t] = 0 => commits'[t] = 1
         /\ \A u \in Txns \ {t} :
              srv'[u] = srv[u] /\ held'[u] = held[u] /\ commits'[u] = commits[u]
<1>1. Successor(seen[t].state) \in States /\ obj.version + 1 \in Nat
  BY DEF TypeOK, Successor, States, Objects
<1>2. obj' \in Objects /\ obj'.state = Successor(seen[t].state) /\ obj'.version = obj.version + 1
  BY <1>1 DEF Apply, Objects
<1>3. final' \in BOOLEAN
  BY DEF Apply
<1>4. /\ srv' \in [Txns -> {"none", "open", "committed", "aborted"}]
      /\ srv'[t] = "committed" /\ \A u \in Txns \ {t} : srv'[u] = srv[u]
  BY DEF Apply, Server, TypeOK
<1>5. /\ held' \in [Txns -> SUBSET {"obj", "final"}]
      /\ held'[t] = {} /\ \A u \in Txns \ {t} : held'[u] = held[u]
  BY DEF Apply, Server, TypeOK
<1>6. /\ commits' \in [Txns -> Nat]
      /\ commits[t] = 0 => commits'[t] = 1
      /\ \A u \in Txns \ {t} : commits'[u] = commits[u]
  BY DEF Apply, TypeOK
<1> QED BY <1>2, <1>3, <1>4, <1>5, <1>6

LEMMA ApplyShared ==
  ASSUME IInv, NEW t \in Txns, Others(t), Apply(t), "obj" \in held[t], UNCHANGED seen
  PROVE  SeenInv' /\ HeldApart' /\ FinalWithThird'
<1> USE DEF IInv
<1>1. /\ obj'.state = Successor(seen[t].state) /\ obj'.version = obj.version + 1
      /\ held'[t] = {} /\ \A u \in Txns \ {t} : held'[u] = held[u]
  BY ApplyEffect
<1>2. HeldApart'
  BY <1>1 DEF HeldApart
<1>3. SeenInv'
  <2> SUFFICES ASSUME NEW u \in Txns
               PROVE  /\ seen[u].version <= obj'.version
                      /\ seen[u].version # obj'.version
                      /\ "obj" \notin held'[u]
    BY DEF SeenInv
  <2>1. seen[u].version <= obj.version /\ seen[u].version \in Nat /\ obj.version \in Nat
    BY DEF SeenInv, TypeOK, Snapshots, Objects
  <2>2. seen[u].version <= obj'.version /\ seen[u].version # obj'.version
    BY <1>1, <2>1
  <2>3. "obj" \notin held'[u]
    BY <1>1 DEF HeldApart
  <2> QED BY <2>2, <2>3
<1>4. FinalWithThird'
  <2> SUFFICES ASSUME obj'.state = "third" PROVE final'
    BY DEF FinalWithThird
  <2>1. seen[t].state # "third" /\ seen[t].state \in States
    BY DEF WrittenInv, TypeOK, Snapshots
  <2>2. seen[t].state = "second"
    BY <1>1, <2>1 DEF Successor, States
  <2>3. "final" \in held[t]
    BY <2>2 DEF WrittenInv
  <2> QED BY <2>3 DEF Apply
<1> QED BY <1>2, <1>3, <1>4

LEMMA StartEffect ==
  ASSUME TypeOK, NEW t \in Txns, Start(t), runs[t] < MaxRuns
  PROVE  /\ srv' \in [Txns -> {"none", "open", "committed", "aborted"}]
         /\ held' \in [Txns -> SUBSET {"obj", "final"}]
         /\ pc' \in [Txns -> {"idle", "find", "upsert", "update", "commit", "abort", "returned", "crashed"}]
         /\ runs' \in [Txns -> 0 .. MaxRuns]
         /\ fnErr' \in [Txns -> FnErrors \cup {"none"}]
         /\ srv'[t] = "open" /\ held'[t] = {} /\ pc'[t] = "find"
         /\ \A u \in Txns \ {t} :
              srv'[u] = srv[u] /\ held'[u] = held[u] /\ pc'[u] = pc[u] /\ runs'[u] = runs[u]
<1>1. runs[t] + 1 \in 0 .. MaxRuns
  BY TransactionAssumption DEF TypeOK
<1>2. /\ srv' \in [Txns -> {"none", "open", "committed", "aborted"}]
      /\ srv'[t] = "open" /\ \A u \in Txns \ {t} : srv'[u] = srv[u]
  BY DEF Start, Server, TypeOK
<1>3. /\ held' \in [Txns -> SUBSET {"obj", "final"}]
      /\ held'[t] = {} /\ \A u \in Txns \ {t} : held'[u] = held[u]
  BY DEF Start, Server, TypeOK
<1>4. /\ pc' \in [Txns -> {"idle", "find", "upsert", "update", "commit", "abort", "returned", "crashed"}]
      /\ pc'[t] = "find" /\ \A u \in Txns \ {t} : pc'[u] = pc[u]
  BY DEF Start, Goto, TypeOK
<1>5. /\ runs' \in [Txns -> 0 .. MaxRuns]
      /\ \A u \in Txns \ {t} : runs'[u] = runs[u]
  BY <1>1 DEF Start, TypeOK
<1>6. fnErr' \in [Txns -> FnErrors \cup {"none"}]
  BY DEF Start, TypeOK
<1> QED BY <1>2, <1>3, <1>4, <1>5, <1>6

LEMMA ReturnEffect ==
  ASSUME TypeOK, NEW t \in Txns, NEW r \in Results, Return(t, r)
  PROVE  /\ pc' \in [Txns -> {"idle", "find", "upsert", "update", "commit", "abort", "returned", "crashed"}]
         /\ result' \in [Txns -> Results]
         /\ pc'[t] = "returned" /\ result'[t] = r
         /\ \A u \in Txns \ {t} : pc'[u] = pc[u] /\ result'[u] = result[u]
BY DEF Return, Goto, TypeOK

LEMMA ServerEffect ==
  ASSUME TypeOK, NEW t \in Txns, NEW s \in {"none", "open", "committed", "aborted"}, Server(t, s)
  PROVE  /\ srv' \in [Txns -> {"none", "open", "committed", "aborted"}]
         /\ held' \in [Txns -> SUBSET {"obj", "final"}]
         /\ srv'[t] = s /\ held'[t] = {}
         /\ \A u \in Txns \ {t} : srv'[u] = srv[u] /\ held'[u] = held[u]
BY DEF Server, TypeOK

LEMMA FaultType ==
  ASSUME TypeOK, Fault
  PROVE  faults' \in Nat
BY DEF Fault, TypeOK

-----------------------------------------------------------------------------
(* The kinds of step a call makes.                                          *)

(* A run begins, the first or another.                                      *)
LEMMA StartStep ==
  ASSUME IInv, NEW t \in Txns, Start(t), runs[t] < MaxRuns,
         srv[t] # "committed", result[t] = "none",
         UNCHANGED <<store, seen, result, commits, faults>>
  PROVE  IInv'
<1> USE DEF IInv
<1>1. /\ srv'[t] = "open" /\ held'[t] = {} /\ pc'[t] = "find"
      /\ \A u \in Txns \ {t} :
           srv'[u] = srv[u] /\ held'[u] = held[u] /\ pc'[u] = pc[u] /\ runs'[u] = runs[u]
  BY StartEffect
<1>2. UNCHANGED <<obj, final>>
  BY DEF store
<1>3. TypeOK'
  BY <1>2, StartEffect DEF TypeOK
<1>4. Others(t)
  BY <1>1 DEF Others
<1>5. CallInv(t)'
  BY <1>1 DEF CallInv, RunningInv, Running, CommittedInv, WrittenInv, Open
<1>6. SeenInv' /\ HeldApart' /\ FinalWithThird'
  BY <1>1, <1>4, SharedKept
<1> QED BY <1>3, <1>4, <1>5, <1>6, CallsApart DEF CallInv

(* The call returns and leaves the server alone.                            *)
LEMMA ReturnStep ==
  ASSUME IInv, NEW t \in Txns, NEW r \in Results, Return(t, r),
         r = "nil" => srv[t] = "committed",
         srv[t] = "committed" => r \in {"nil", "commit error"},
         Open(t) /\ r = "commit error" => "obj" \in held[t],
         UNCHANGED <<store, srv, held, seen, runs, fnErr, commits>>, faults' \in Nat
  PROVE  IInv'
<1> USE DEF IInv
<1>1. /\ pc'[t] = "returned" /\ result'[t] = r
      /\ \A u \in Txns \ {t} : pc'[u] = pc[u] /\ result'[u] = result[u]
  BY ReturnEffect
<1>2. UNCHANGED <<obj, final>>
  BY DEF store
<1>3. TypeOK'
  BY <1>2, ReturnEffect DEF TypeOK
<1>4. Others(t)
  BY <1>1 DEF Others
<1>5. RunningInv(t)' /\ CommittedInv(t)'
  BY <1>1 DEF RunningInv, Running, CommittedInv
<1>6. WrittenInv(t)'
  BY <1>1 DEF WrittenInv, Open
<1>7. SeenInv' /\ HeldApart' /\ FinalWithThird'
  BY <1>4, SharedKept
<1> QED BY <1>3, <1>4, <1>5, <1>6, <1>7, CallsApart DEF CallInv

(* The call aborts its transaction and returns.                             *)
LEMMA AbortedStep ==
  ASSUME IInv, NEW t \in Txns, NEW r \in Results, r # "nil",
         Return(t, r), Server(t, "aborted"), srv[t] # "committed",
         UNCHANGED <<store, seen, runs, fnErr, commits, faults>>
  PROVE  IInv'
<1> USE DEF IInv
<1>1. /\ pc'[t] = "returned" /\ result'[t] = r
      /\ \A u \in Txns \ {t} : pc'[u] = pc[u] /\ result'[u] = result[u]
  BY ReturnEffect
<1>2. /\ srv'[t] = "aborted" /\ held'[t] = {}
      /\ \A u \in Txns \ {t} : srv'[u] = srv[u] /\ held'[u] = held[u]
  BY ServerEffect
<1>3. UNCHANGED <<obj, final>>
  BY DEF store
<1>4. TypeOK'
  BY <1>3, ReturnEffect, ServerEffect DEF TypeOK
<1>5. Others(t)
  BY <1>1, <1>2 DEF Others
<1>6. CallInv(t)'
  BY <1>1, <1>2 DEF CallInv, RunningInv, Running, CommittedInv, WrittenInv, Open
<1>7. SeenInv' /\ HeldApart' /\ FinalWithThird'
  BY <1>2, <1>5, SharedKept
<1> QED BY <1>4, <1>5, <1>6, <1>7, CallsApart DEF CallInv

(* A commit takes effect, whether its answer is seen or not.                *)
LEMMA CommittedStep ==
  ASSUME IInv, NEW t \in Txns, Open(t), "obj" \in held[t], Apply(t),
         \/ UNCHANGED <<pc, result>> /\ (pc[t] = "commit" \/ result[t] = "commit error")
         \/ \E r \in {"nil", "commit error"} : Return(t, r),
         UNCHANGED <<seen, runs, fnErr>>, faults' \in Nat
  PROVE  IInv'
<1> USE DEF IInv
<1>1. /\ srv'[t] = "committed" /\ held'[t] = {}
      /\ commits[t] = 0 => commits'[t] = 1
      /\ \A u \in Txns \ {t} :
           srv'[u] = srv[u] /\ held'[u] = held[u] /\ commits'[u] = commits[u]
  BY ApplyEffect
<1>2. /\ pc' \in [Txns -> {"idle", "find", "upsert", "update", "commit", "abort", "returned", "crashed"}] /\ result' \in [Txns -> Results]
      /\ \/ pc'[t] = "commit" /\ result'[t] = "none"
         \/ pc'[t] = "returned" /\ result'[t] \in {"nil", "commit error"}
      /\ \A u \in Txns \ {t} : pc'[u] = pc[u] /\ result'[u] = result[u]
  <2>1. CASE UNCHANGED <<pc, result>> /\ (pc[t] = "commit" \/ result[t] = "commit error")
    BY <2>1 DEF TypeOK, RunningInv
  <2>2. CASE \E r \in {"nil", "commit error"} : Return(t, r)
    BY <2>2, ReturnEffect DEF Results
  <2> QED BY <2>1, <2>2
<1>3. TypeOK'
  BY <1>2, ApplyEffect DEF TypeOK
<1>4. Others(t)
  BY <1>1, <1>2 DEF Others
<1>5. CommittedInv(t)'
  <2>1. commits[t] = 0
    BY DEF CommittedInv, Open
  <2> QED BY <1>1, <1>2, <2>1 DEF CommittedInv
<1>6. RunningInv(t)' /\ WrittenInv(t)'
  BY <1>1, <1>2 DEF RunningInv, Running, WrittenInv, Open
<1>7. SeenInv' /\ HeldApart' /\ FinalWithThird'
  BY <1>4, ApplyShared
<1> QED BY <1>3, <1>4, <1>5, <1>6, <1>7, CallsApart DEF CallInv

-----------------------------------------------------------------------------
(* One lemma per action.                                                    *)

LEMMA RunTransactionStep ==
  ASSUME IInv, NEW t \in Txns, RunTransaction(t)
  PROVE  IInv'
<1>1. srv[t] = "none" /\ runs[t] = 0 /\ result[t] = "none"
  BY DEF IInv, RunningInv, RunTransaction
<1>2. CASE Start(t) /\ UNCHANGED <<result, faults>>
  <2>1. runs[t] < MaxRuns
    BY <1>1, TransactionAssumption
  <2>2. UNCHANGED <<store, seen, result, commits, faults>>
    BY <1>2 DEF RunTransaction
  <2> QED BY <1>1, <1>2, <2>1, <2>2, StartStep
<1>3. CASE Fault /\ Return(t, "start error") /\ UNCHANGED <<srv, held, runs, fnErr>>
  <2>1. UNCHANGED <<store, srv, held, seen, runs, fnErr, commits>>
    BY <1>3 DEF RunTransaction
  <2>2. faults' \in Nat
    BY <1>3, FaultType DEF IInv
  <2> HIDE DEF IInv
  <2> QED BY <1>1, <1>3, <2>1, <2>2, ReturnStep DEF Results
<1> QED BY <1>2, <1>3 DEF RunTransaction

LEMMA RequestFailsStep ==
  ASSUME IInv, NEW t \in Txns, RequestFails(t)
  PROVE  IInv'
<1> USE DEF IInv
<1>1. UNCHANGED <<obj, final, srv, held, seen, runs, result, commits>>
  BY DEF RequestFails, store
<1>2. /\ pc' \in [Txns -> {"idle", "find", "upsert", "update", "commit", "abort", "returned", "crashed"}] /\ pc'[t] = "abort"
      /\ \A u \in Txns \ {t} : pc'[u] = pc[u]
  BY DEF RequestFails, FnFails, Goto, TypeOK
<1>3. fnErr' \in [Txns -> FnErrors \cup {"none"}]
  BY DEF RequestFails, FnFails, TypeOK, FnErrors
<1>4. faults' \in Nat
  BY FaultType DEF RequestFails, TypeOK
<1>5. TypeOK'
  BY <1>1, <1>2, <1>3, <1>4 DEF TypeOK
<1>6. Others(t)
  BY <1>1, <1>2 DEF Others
<1>7. pc[t] \in {"find", "upsert", "update"}
  BY DEF RequestFails
<1>8. CallInv(t)'
  BY <1>1, <1>2, <1>7 DEF CallInv, RunningInv, Running, CommittedInv, WrittenInv, Open
<1>9. SeenInv' /\ HeldApart' /\ FinalWithThird'
  BY <1>1, <1>6, SharedKept DEF store
<1> QED BY <1>5, <1>6, <1>8, <1>9, CallsApart DEF CallInv

LEMMA FindOneStep ==
  ASSUME IInv, NEW t \in Txns, FindOne(t)
  PROVE  IInv'
<1> USE DEF IInv
<1>1. UNCHANGED <<obj, final, srv, held, runs, result, commits, faults>>
  BY DEF FindOne, store
<1>2. /\ pc' \in [Txns -> {"idle", "find", "upsert", "update", "commit", "abort", "returned", "crashed"}]
      /\ \/ obj.state = "first" /\ pc'[t] = "update"
         \/ obj.state = "second" /\ pc'[t] = "upsert"
         \/ obj.state = "third" /\ pc'[t] = "abort"
      /\ \A u \in Txns \ {t} : pc'[u] = pc[u]
  BY DEF FindOne, Decide, FnFails, Goto, TypeOK
<1>3. fnErr' \in [Txns -> FnErrors \cup {"none"}]
  BY DEF FindOne, Decide, FnFails, TypeOK, FnErrors
<1>4. /\ seen' \in [Txns -> Snapshots]
      /\ seen'[t].state = obj.state /\ seen'[t].version = obj.version
      /\ \A u \in Txns \ {t} : seen'[u] = seen[u]
  BY DEF FindOne, Snapshot, Snapshots, TypeOK, Objects
<1>5. TypeOK'
  BY <1>1, <1>2, <1>3, <1>4 DEF TypeOK
<1>6. Others(t)
  BY <1>1, <1>2, <1>4 DEF Others
<1>7. pc[t] = "find" /\ Open(t) /\ held[t] = {} /\ result[t] = "none"
  BY DEF FindOne, WrittenInv, RunningInv
<1>8. CallInv(t)'
  BY <1>1, <1>2, <1>4, <1>7 DEF CallInv, RunningInv, Running, CommittedInv, WrittenInv, Open
<1>9. obj.version <= obj.version
  BY DEF TypeOK, Objects
<1>10. SeenInv' /\ HeldApart' /\ FinalWithThird'
  BY <1>1, <1>4, <1>7, <1>9 DEF SeenInv, HeldApart, FinalWithThird
<1> QED BY <1>5, <1>6, <1>8, <1>10, CallsApart DEF CallInv

(* A write of the function.                                                 *)
LEMMA WriteStep ==
  ASSUME IInv, NEW t \in Txns,
         NEW what \in {"obj", "final"}, NEW next \in {"update", "commit"},
         Write(t, what, next),
         \/ pc[t] = "upsert" /\ what = "final" /\ next = "update"
         \/ pc[t] = "update" /\ what = "obj" /\ next = "commit"
  PROVE  IInv'
<1> USE DEF IInv
<1>1. UNCHANGED <<obj, final, seen, runs, result, commits, faults>>
  BY DEF Write, store
<1>2. Open(t) /\ result[t] = "none" /\ seen[t].state # "third"
  BY DEF Write, RunningInv, WrittenInv
<1>3. CASE Conflict(t, what) /\ Server(t, "aborted") /\ FnFails(t, "transient")
  <2>1. /\ srv'[t] = "aborted" /\ held'[t] = {}
        /\ \A u \in Txns \ {t} : srv'[u] = srv[u] /\ held'[u] = held[u]
    BY <1>3, ServerEffect
  <2>2. /\ pc' \in [Txns -> {"idle", "find", "upsert", "update", "commit", "abort", "returned", "crashed"}] /\ pc'[t] = "abort"
        /\ \A u \in Txns \ {t} : pc'[u] = pc[u]
    BY <1>3 DEF FnFails, Goto, TypeOK
  <2>3. fnErr' \in [Txns -> FnErrors \cup {"none"}]
    BY <1>3 DEF FnFails, TypeOK, FnErrors
  <2>4. TypeOK'
    BY <1>1, <1>3, <2>2, <2>3, ServerEffect DEF TypeOK
  <2>5. Others(t)
    BY <1>1, <2>1, <2>2 DEF Others
  <2>6. CallInv(t)'
    BY <1>1, <1>2, <2>1, <2>2 DEF CallInv, RunningInv, Running, CommittedInv, WrittenInv, Open
  <2>7. SeenInv' /\ HeldApart' /\ FinalWithThird'
    BY <1>1, <2>1, <2>5, SharedKept DEF store
  <2> QED BY <2>4, <2>5, <2>6, <2>7, CallsApart DEF CallInv
<1>4. CASE /\ ~Conflict(t, what)
           /\ held' = [held EXCEPT ![t] = @ \cup {what}]
           /\ Goto(t, next)
           /\ UNCHANGED <<srv, fnErr>>
  <2>1. /\ held' \in [Txns -> SUBSET {"obj", "final"}]
        /\ held'[t] = held[t] \cup {what}
        /\ \A u \in Txns \ {t} : held'[u] = held[u]
    BY <1>4 DEF TypeOK
  <2>2. /\ pc' \in [Txns -> {"idle", "find", "upsert", "update", "commit", "abort", "returned", "crashed"}] /\ pc'[t] = next
        /\ \A u \in Txns \ {t} : pc'[u] = pc[u]
    BY <1>4 DEF Goto, TypeOK
  <2>3. TypeOK'
    BY <1>1, <1>4, <2>1, <2>2 DEF TypeOK
  <2>4. Others(t)
    BY <1>1, <1>4, <2>1, <2>2 DEF Others
  <2>5. RunningInv(t)' /\ CommittedInv(t)'
    BY <1>1, <1>2, <1>4, <2>2 DEF RunningInv, Running, CommittedInv, Open
  <2>6. WrittenInv(t)'
    BY <1>1, <1>2, <1>4, <2>1, <2>2 DEF WrittenInv, Open
  <2>7. SeenInv'
    BY <1>1, <1>4, <2>1 DEF SeenInv, Conflict
  <2>8. HeldApart'
    BY <1>4, <2>1 DEF HeldApart, Conflict
  <2>9. FinalWithThird'
    BY <1>1 DEF FinalWithThird
  <2> QED BY <2>3, <2>4, <2>5, <2>6, <2>7, <2>8, <2>9, CallsApart DEF CallInv
<1> QED BY <1>3, <1>4 DEF Write

(* At the commit of an open transaction the object is written.              *)
LEMMA CommitHolds ==
  ASSUME IInv, NEW t \in Txns, pc[t] = "commit"
  PROVE  /\ srv[t] # "none" /\ result[t] = "none"
         /\ Open(t) => "obj" \in held[t]
BY DEF IInv, RunningInv, Running, WrittenInv

LEMMA CommitOKStep ==
  ASSUME IInv, NEW t \in Txns, CommitOK(t)
  PROVE  IInv'
<1>1. pc[t] = "commit" /\ Return(t, "nil") /\ UNCHANGED <<seen, runs, fnErr, faults>>
  BY DEF CommitOK
<1>2. faults' \in Nat
  BY <1>1 DEF IInv, TypeOK
<1>3. CASE Open(t) /\ Apply(t)
  BY <1>1, <1>2, <1>3, CommitHolds, CommittedStep
<1>4. CASE srv[t] = "committed" /\ UNCHANGED <<store, srv, held, commits>>
  BY <1>1, <1>2, <1>4, ReturnStep DEF Results, Open
<1> QED BY <1>3, <1>4 DEF CommitOK

LEMMA CommitUnknownStep ==
  ASSUME IInv, NEW t \in Txns, CommitUnknown(t)
  PROVE  IInv'
<1>1. pc[t] = "commit" /\ UNCHANGED <<seen, runs, fnErr>>
  BY DEF CommitUnknown
<1>2. faults' \in Nat
  BY FaultType DEF CommitUnknown, IInv
<1>3. Return(t, "commit error") \/ UNCHANGED <<pc, result>>
  BY DEF CommitUnknown
<1>4. CASE Open(t) /\ Apply(t)
  BY <1>1, <1>2, <1>3, <1>4, CommitHolds, CommittedStep
<1>5. CASE UNCHANGED <<store, srv, held, commits>>
  <2>1. CASE Return(t, "commit error")
    BY <1>1, <1>2, <1>5, <2>1, CommitHolds, ReturnStep DEF Results
  <2>2. CASE UNCHANGED <<pc, result>>
    <3>1. UNCHANGED <<obj, final, srv, held, pc, seen, runs, fnErr, result, commits>>
      BY <1>1, <1>5, <2>2 DEF store
    <3> QED BY <3>1, <1>2 DEF IInv, TypeOK, RunningInv, Running, CommittedInv, WrittenInv, Open,
                               SeenInv, HeldApart, FinalWithThird
  <2> QED BY <1>3, <2>1, <2>2
<1> QED BY <1>4, <1>5 DEF CommitUnknown

LEMMA CommitTransientStep ==
  ASSUME IInv, NEW t \in Txns, CommitTransient(t)
  PROVE  IInv'
<1>1. pc[t] = "commit" /\ srv[t] = "aborted" /\ UNCHANGED <<store, seen, commits, faults>>
  BY DEF CommitTransient
<1>2. faults' \in Nat
  BY <1>1 DEF IInv, TypeOK
<1>3. CASE runs[t] < MaxRuns /\ Start(t) /\ UNCHANGED result
  BY <1>1, <1>3, CommitHolds, StartStep
<1>4. CASE Return(t, "commit error") /\ UNCHANGED <<srv, held, runs, fnErr>>
  BY <1>1, <1>2, <1>4, ReturnStep DEF Results, Open
<1> QED BY <1>3, <1>4 DEF CommitTransient, Again

LEMMA AbortStep ==
  ASSUME IInv, NEW t \in Txns, Abort(t)
  PROVE  IInv'
<1>1. pc[t] = "abort" /\ UNCHANGED <<store, seen, commits>>
  BY DEF Abort
<1>2. srv[t] # "committed" /\ result[t] = "none"
  BY <1>1 DEF IInv, RunningInv, Running
<1>3. fnErr[t] \in Results /\ fnErr[t] \notin {"nil", "commit error"}
  BY DEF IInv, TypeOK, Results, FnErrors
<1>4. CASE Server(t, "aborted") /\ Return(t, fnErr[t]) /\ UNCHANGED <<runs, fnErr, faults>>
  BY <1>1, <1>2, <1>3, <1>4, AbortedStep
<1>5. CASE /\ Fault
           /\ Return(t, IF t \in WithRetries THEN fnErr[t] ELSE "abort error")
           /\ UNCHANGED <<srv, held, runs, fnErr>>
  <2>1. faults' \in Nat
    BY <1>5, FaultType DEF IInv
  <2>2. CASE Return(t, fnErr[t])
    BY <1>1, <1>2, <1>3, <1>5, <2>1, <2>2, ReturnStep
  <2>3. CASE Return(t, "abort error")
    BY <1>1, <1>2, <1>5, <2>1, <2>3, ReturnStep DEF Results
  <2> QED BY <1>5, <2>2, <2>3
<1>6. CASE runs[t] < MaxRuns /\ Start(t) /\ UNCHANGED <<result, faults>>
  BY <1>1, <1>2, <1>6, StartStep
<1> QED BY <1>4, <1>5, <1>6 DEF Abort

LEMMA ServerRollbackStep ==
  ASSUME IInv, NEW t \in Txns, ServerRollback(t)
  PROVE  IInv'
<1> USE DEF IInv
<1>1. Open(t) /\ Server(t, "aborted") /\ UNCHANGED <<obj, final, pc, seen, runs, fnErr, result, commits>>
  BY DEF ServerRollback, store
<1>2. /\ srv'[t] = "aborted" /\ held'[t] = {}
      /\ \A u \in Txns \ {t} : srv'[u] = srv[u] /\ held'[u] = held[u]
  BY <1>1, ServerEffect
<1>3. faults' \in Nat
  BY FaultType DEF ServerRollback, TypeOK
<1>4. TypeOK'
  BY <1>1, <1>3, ServerEffect DEF TypeOK
<1>5. Others(t)
  BY <1>1, <1>2 DEF Others
<1>6. CallInv(t)'
  BY <1>1, <1>2 DEF CallInv, RunningInv, Running, CommittedInv, WrittenInv, Open
<1>7. SeenInv' /\ HeldApart' /\ FinalWithThird'
  BY <1>1, <1>2, <1>5, SharedKept DEF store
<1> QED BY <1>4, <1>5, <1>6, <1>7, CallsApart DEF CallInv

LEMMA LateCommitStep ==
  ASSUME IInv, NEW t \in Txns, LateCommit(t)
  PROVE  IInv'
<1>1. /\ Open(t) /\ result[t] = "commit error" /\ Apply(t)
      /\ UNCHANGED <<pc, seen, runs, fnErr, result, faults>>
  BY DEF LateCommit
<1>2. "obj" \in held[t] /\ faults' \in Nat
  BY <1>1 DEF IInv, WrittenInv, TypeOK
<1> QED BY <1>1, <1>2, CommittedStep

LEMMA CrashStep ==
  ASSUME IInv, NEW t \in Txns, Crash(t)
  PROVE  IInv'
<1> USE DEF IInv
<1>1. UNCHANGED <<obj, final, srv, held, seen, runs, fnErr, result, commits>>
  BY DEF Crash, store
<1>2. /\ pc' \in [Txns -> {"idle", "find", "upsert", "update", "commit", "abort", "returned", "crashed"}] /\ pc'[t] = "crashed"
      /\ \A u \in Txns \ {t} : pc'[u] = pc[u]
  BY DEF Crash, Goto, TypeOK
<1>3. faults' \in Nat
  BY FaultType DEF Crash
<1>4. TypeOK'
  BY <1>1, <1>2, <1>3 DEF TypeOK
<1>5. Others(t)
  BY <1>1, <1>2 DEF Others
<1>6. pc[t] # "returned"
  BY DEF Crash
<1>7. CallInv(t)'
  BY <1>1, <1>2, <1>6 DEF CallInv, RunningInv, Running, CommittedInv, WrittenInv, Open
<1>8. SeenInv' /\ HeldApart' /\ FinalWithThird'
  BY <1>1, <1>5, SharedKept DEF store
<1> QED BY <1>4, <1>5, <1>7, <1>8, CallsApart DEF CallInv

(* A write without a transaction waits for those that hold the object.      *)
LEMMA OutsideStep ==
  ASSUME IInv, Outside
  PROVE  IInv'
<1> USE DEF IInv
<1>1. UNCHANGED <<final, srv, held, pc, seen, runs, fnErr, result, commits, faults>>
  BY DEF Outside
<1>2. obj' \in Objects /\ obj'.state = "second" /\ obj'.version = obj.version + 1
  BY DEF Outside, TypeOK, Objects, States
<1>3. TypeOK'
  BY <1>1, <1>2 DEF TypeOK
<1>4. \A t \in Txns : RunningInv(t)' /\ CommittedInv(t)' /\ WrittenInv(t)'
  BY <1>1 DEF RunningInv, Running, CommittedInv, WrittenInv, Open
<1>5. SeenInv'
  <2>1. \A t \in Txns : /\ seen[t].version \in Nat /\ obj.version \in Nat
                        /\ seen[t].version <= obj.version /\ "obj" \notin held[t]
    BY DEF TypeOK, Snapshots, Objects, SeenInv, Outside
  <2> QED BY <1>1, <1>2, <2>1 DEF SeenInv
<1>6. HeldApart' /\ FinalWithThird'
  BY <1>1, <1>2 DEF HeldApart, FinalWithThird
<1> QED BY <1>3, <1>4, <1>5, <1>6

-----------------------------------------------------------------------------
LEMMA InitIInv == Init => IInv
<1> SUFFICES ASSUME Init PROVE IInv
  OBVIOUS
<1>1. TypeOK
  <2>1. obj \in Objects /\ final \in BOOLEAN
    <3>1. PICK s \in {"first", "second"} : obj = [state |-> s, version |-> 0]
      BY DEF Init
    <3>2. obj \in Objects
      BY <3>1 DEF Objects, States
    <3> QED BY <3>2 DEF Init
  <2>2. seen \in [Txns -> Snapshots]
    BY <2>1 DEF Init, Snapshot, Snapshots, Objects
  <2>3. 0 \in 0 .. MaxRuns
    BY TransactionAssumption
  <2> QED BY <2>1, <2>2, <2>3 DEF Init, TypeOK, Results
<1>2. \A t \in Txns : RunningInv(t) /\ CommittedInv(t) /\ WrittenInv(t)
  BY DEF Init, RunningInv, Running, CommittedInv, WrittenInv, Open
<1>3. SeenInv
  <2>1. obj.version \in Nat
    BY <1>1 DEF TypeOK, Objects
  <2>2. \A t \in Txns : seen[t].version = obj.version /\ seen[t].state = obj.state /\ held[t] = {}
    BY DEF Init, Snapshot
  <2>3. obj.version <= obj.version
    BY <2>1
  <2> QED BY <2>2, <2>3, Zenon DEF SeenInv
<1>4. HeldApart
  BY DEF Init, HeldApart
<1>5. FinalWithThird
  BY DEF Init, FinalWithThird
<1> QED BY <1>1, <1>2, <1>3, <1>4, <1>5 DEF IInv

LEMMA NextIInv == IInv /\ [Next]_vars => IInv'
<1> SUFFICES ASSUME IInv, [Next]_vars PROVE IInv'
  OBVIOUS
<1>1. CASE UNCHANGED vars
  <2>1. UNCHANGED <<obj, final, srv, held, pc, seen, runs, fnErr, result, commits, faults>>
    BY <1>1 DEF vars, store
  <2> QED BY <2>1 DEF IInv, TypeOK, RunningInv, Running, CommittedInv, WrittenInv, Open,
                      SeenInv, HeldApart, FinalWithThird
<1>2. CASE Outside
  BY <1>2, OutsideStep
<1>3. ASSUME NEW t \in Txns, Step(t) PROVE IInv'
  <2>1. CASE RunTransaction(t)
    BY <2>1, RunTransactionStep
  <2>2. CASE RequestFails(t)
    BY <2>2, RequestFailsStep
  <2>3. CASE FindOne(t)
    BY <2>3, FindOneStep
  <2>4. CASE UpsertOne(t)
    <3>1. pc[t] = "upsert" /\ Write(t, "final", "update")
      BY <2>4 DEF UpsertOne
    <3> QED BY <3>1, WriteStep
  <2>5. CASE UpdateOne(t)
    <3>1. pc[t] = "update" /\ Write(t, "obj", "commit")
      BY <2>5 DEF UpdateOne
    <3> QED BY <3>1, WriteStep
  <2>6. CASE CommitOK(t)
    BY <2>6, CommitOKStep
  <2>7. CASE CommitUnknown(t)
    BY <2>7, CommitUnknownStep
  <2>8. CASE CommitTransient(t)
    BY <2>8, CommitTransientStep
  <2>9. CASE Abort(t)
    BY <2>9, AbortStep
  <2>10. CASE ServerRollback(t)
    BY <2>10, ServerRollbackStep
  <2>11. CASE LateCommit(t)
    BY <2>11, LateCommitStep
  <2>12. CASE Crash(t)
    BY <2>12, CrashStep
  <2> QED BY <1>3, <2>1, <2>2, <2>3, <2>4, <2>5, <2>6, <2>7, <2>8, <2>9, <2>10, <2>11, <2>12 DEF Step
<1> QED BY <1>1, <1>2, <1>3 DEF Next

(* What every reachable state satisfies, for any number of calls of         *)
(* RunTransaction, whatever fails (transaction.go:25-55).                   *)
THEOREM Inductive == Spec => []IInv
BY InitIInv, NextIInv, PTL DEF Spec

(* Every variable keeps its type.                                           *)
THEOREM TypeCorrect == Spec => []TypeOK
<1>1. IInv => TypeOK
  BY DEF IInv
<1> QED BY <1>1, Inductive, PTL

(* RunTransaction commits at most once, and exactly once when it returns    *)
(* nil, however often the function runs and the commit is sent.             *)
THEOREM NilMeansCommittedOnce == Spec => []CommittedOnce
<1>1. IInv => CommittedOnce
  BY DEF IInv, CommittedInv, CommittedOnce
<1> QED BY <1>1, Inductive, PTL

(* RunTransaction leaves nothing behind when it returns the error of its    *)
(* function, of the start or of the abort.                                  *)
THEOREM FunctionErrorLeavesNothing == Spec => []ErrorLeavesNothing
<1>1. IInv => ErrorLeavesNothing
  BY DEF IInv, CommittedInv, ErrorLeavesNothing
<1> QED BY <1>1, Inductive, PTL

(* The two writes of the function are committed together or not at all.     *)
THEOREM WritesTogether == Spec => []FinalWithThird
<1>1. IInv => FinalWithThird
  BY DEF IInv
<1> QED BY <1>1, Inductive, PTL

(* A commit changes the object only from what the function has read.        *)
LEMMA CommitSteps ==
  ASSUME IInv, [Next]_vars, NEW t \in Txns, commits'[t] # commits[t]
  PROVE  <<obj.state, obj'.state>> \in {<<"first", "second">>, <<"second", "third">>}
<1>1. ASSUME NEW u \in Txns, Step(u), commits'[t] # commits[t]
      PROVE  Apply(u) /\ Open(u) /\ (pc[u] = "commit" \/ result[u] = "commit error")
  BY <1>1 DEF Step, RunTransaction, RequestFails, FindOne, UpsertOne, UpdateOne, Write,
              CommitOK, CommitUnknown, CommitTransient, Abort, ServerRollback, LateCommit, Crash
<1>2. PICK u \in Txns : Apply(u) /\ Open(u) /\ (pc[u] = "commit" \/ result[u] = "commit error")
  BY <1>1 DEF Next, Outside, vars
<1>3. "obj" \in held[u]
  BY <1>2 DEF IInv, WrittenInv
<1>4. seen[u].state = obj.state /\ seen[u].state # "third" /\ obj.state \in States
  BY <1>3 DEF IInv, WrittenInv, SeenInv, TypeOK, Objects
<1>5. obj'.state = Successor(seen[u].state)
  BY <1>2, ApplyEffect DEF IInv
<1> QED BY <1>4, <1>5 DEF Successor, States

(* No transaction overwrites what it has not read, however many interleave  *)
(* and whatever is written outside.                                         *)
THEOREM NothingOverwritten == Spec => NoLostUpdate
<1>1. IInv /\ [Next]_vars =>
        [\A t \in Txns : commits'[t] # commits[t] =>
           <<obj.state, obj'.state>> \in {<<"first", "second">>, <<"second", "third">>}]_vars
  BY CommitSteps
<1> QED BY <1>1, Inductive, PTL DEF Spec, NoLostUpdate
=============================================================================
