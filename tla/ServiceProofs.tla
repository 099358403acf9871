---------------------------- MODULE ServiceProofs ----------------------------
(***************************************************************************)
(* Theorems about ConnectionClose, for any number of overlapping calls, and *)
(* about Service, for any number of overlapping checks and calls of Close,  *)
(* and any databases and collections to look for.                           *)
(***************************************************************************)
EXTENDS Service, TLAPS

-----------------------------------------------------------------------------
(* ConnectionClose.                                                         *)
(* A select that finds nothing ready.                                       *)
LEMMA NothingReady ==
  ASSUME NEW c \in Closers, Ready(c) = {}
  PROVE  timer[c] # "fired" /\ shut[c] # "sending" /\ ctx[c] # "done"
<1>1. \A r \in Results : r \in Ready(c) <=>
        \/ r = "timed out" /\ timer[c] = "fired"
        \/ r = "nil" /\ shut[c] = "sending"
        \/ r = "context error" /\ ctx[c] = "done"
  BY DEF Ready
<1> QED BY <1>1 DEF Results

(* What IInv says of one call.                                              *)
CallOK(c) ==
  /\ result[c] = "nil" => shut[c] = "done"
  /\ pc[c] = "parked" => timer[c] # "fired" /\ shut[c] # "sending" /\ ctx[c] # "done"
  /\ (pc[c] = "idle") <=> (shut[c] = "none")
  /\ (pc[c] \in {"returning", "returned"}) <=> (result[c] # "none")

LEMMA IInvCalls == IInv <=> TypeOK /\ PanicOnlyAfterError /\ \A c \in Closers : CallOK(c)
BY DEF IInv, CallOK, NilAfterDisconnect, NothingReadyWhileParked

LEMMA InitIInv == Init => IInv
BY IInvCalls DEF Init, CallOK, TypeOK, Results, PanicOnlyAfterError

LEMMA ReadyType ==
  ASSUME NEW c \in Closers
  PROVE  \A r \in Ready(c) : r \in Results \ {"none"} /\ (r = "nil" => shut[c] = "sending")
BY DEF Ready, Results

(* A step of a call leaves the others alone.                                *)
Untouched(e) ==
  /\ pc'[e] = pc[e] /\ shut'[e] = shut[e] /\ ctx'[e] = ctx[e]
  /\ timer'[e] = timer[e] /\ result'[e] = result[e]

LEMMA StepTypes ==
  ASSUME IInv, NEW c \in Closers,
         \/ Close(c) \/ Select(c) \/ Return(c) \/ TimerFires(c)
         \/ DeadlinePasses(c) \/ ContextDone(c) \/ Disconnect(c) \/ SendOnClosed(c)
  PROVE  TypeOK' /\ \A e \in Closers \ {c} : Untouched(e)
<1> USE DEF IInv, TypeOK, Untouched
<1>1. CASE Close(c)
  BY <1>1 DEF Close
<1>2. CASE Select(c)
  <2>1. CASE pc' = [pc EXCEPT ![c] = "parked"] /\ UNCHANGED <<shut, result>>
    BY <1>2, <2>1 DEF Select
  <2>2. ASSUME NEW r \in Ready(c), Choose(c, r),
               shut' = IF r = "nil" THEN [shut EXCEPT ![c] = "done"] ELSE shut
        PROVE  TypeOK' /\ \A e \in Closers \ {c} : Untouched(e)
    BY <1>2, <2>2, ReadyType DEF Select, Choose
  <2> QED BY <1>2, <2>1, <2>2 DEF Select
<1>3. CASE Return(c)
  BY <1>3 DEF Return
<1>4. CASE TimerFires(c)
  BY <1>4 DEF TimerFires, WakeIfParked, Choose, Results
<1>5. CASE ContextDone(c)
  BY <1>5 DEF ContextDone, WakeIfParked, Choose, Results
<1>6. CASE Disconnect(c)
  BY <1>6 DEF Disconnect, WakeIfParked, Choose, Results
<1>7. CASE SendOnClosed(c)
  BY <1>7 DEF SendOnClosed
<1>8. CASE DeadlinePasses(c)
  BY <1>8 DEF DeadlinePasses
<1> QED BY <1>1, <1>2, <1>3, <1>4, <1>5, <1>6, <1>7, <1>8

LEMMA StepCall ==
  ASSUME IInv, NEW c \in Closers,
         \/ Close(c) \/ Select(c) \/ Return(c) \/ TimerFires(c)
         \/ DeadlinePasses(c) \/ ContextDone(c) \/ Disconnect(c) \/ SendOnClosed(c)
  PROVE  CallOK(c)'
<1>1. CallOK(c) /\ TypeOK
  BY IInvCalls
<1> USE <1>1 DEF CallOK, TypeOK
<1>2. CASE Close(c)
  BY <1>2 DEF Close
<1>3. CASE Select(c)
  <2>1. CASE Ready(c) = {} /\ pc' = [pc EXCEPT ![c] = "parked"] /\ UNCHANGED <<shut, result>>
    BY <1>3, <2>1, NothingReady DEF Select
  <2>2. ASSUME NEW r \in Ready(c), Choose(c, r),
               shut' = IF r = "nil" THEN [shut EXCEPT ![c] = "done"] ELSE shut
        PROVE  CallOK(c)'
    BY <1>3, <2>2, ReadyType DEF Select, Choose
  <2> QED BY <1>3, <2>1, <2>2 DEF Select
<1>4. CASE Return(c)
  BY <1>4 DEF Return
<1>5. CASE TimerFires(c)
  BY <1>5 DEF TimerFires, WakeIfParked, Choose
<1>6. CASE ContextDone(c)
  BY <1>6 DEF ContextDone, WakeIfParked, Choose
<1>7. CASE Disconnect(c)
  BY <1>7 DEF Disconnect, WakeIfParked, Choose
<1>8. CASE SendOnClosed(c)
  BY <1>8 DEF SendOnClosed
<1>9. CASE DeadlinePasses(c)
  BY <1>9 DEF DeadlinePasses
<1> QED BY <1>2, <1>3, <1>4, <1>5, <1>6, <1>7, <1>8, <1>9

LEMMA NextIInv ==
  ASSUME IInv, [Next]_vars
  PROVE  IInv'
<1>1. ASSUME process = "up", NEW c \in Closers,
             \/ Close(c) \/ Select(c) \/ Return(c) \/ TimerFires(c)
             \/ DeadlinePasses(c) \/ ContextDone(c) \/ Disconnect(c) \/ SendOnClosed(c)
      PROVE  IInv'
  <2>1. TypeOK' /\ CallOK(c)' /\ \A e \in Closers \ {c} : Untouched(e)
    BY <1>1, StepTypes, StepCall
  <2>2. \A e \in Closers : CallOK(e)'
    BY <2>1, IInvCalls DEF CallOK, Untouched
  <2>3. PanicOnlyAfterError'
    <3>1. CASE SendOnClosed(c)
      <4>1. result[c] # "none" /\ result[c] # "nil" /\ result[c] \in Results
        BY <3>1, IInvCalls DEF SendOnClosed, CallOK, TypeOK
      <4> QED BY <3>1, <4>1 DEF SendOnClosed, PanicOnlyAfterError, Results
    <3>2. CASE process' = "up"
      BY <3>2 DEF PanicOnlyAfterError
    <3> QED BY <1>1, <3>1, <3>2 DEF Close, Select, Return, TimerFires, DeadlinePasses, ContextDone,
           Disconnect
  <2> QED
    BY <2>1, <2>2, <2>3
    DEF IInv, CallOK, NilAfterDisconnect, NothingReadyWhileParked
<1>2. CASE UNCHANGED vars
  BY <1>2 DEF vars, IInv, TypeOK, NilAfterDisconnect, PanicOnlyAfterError, NothingReadyWhileParked
<1> QED BY <1>1, <1>2 DEF Next

(* The inductive invariant of Close and shutdown.                           *)
THEOREM Inductive == Spec => []IInv
BY InitIInv, NextIInv, PTL DEF Spec

(* nil means that Disconnect has answered and its goroutine is done         *)
(* (graceful.go:18-23).                                                     *)
THEOREM NilMeansAnswered == Spec => []NilAfterDisconnect
<1>1. IInv => NilAfterDisconnect
  BY DEF IInv
<1> QED BY <1>1, Inductive, PTL

(* A panic follows only a Close that returned an error while Disconnect was *)
(* still under way (connection.go:40, graceful.go:23).                      *)
THEOREM PanicNeedsError == Spec => []PanicOnlyAfterError
<1>1. IInv => PanicOnlyAfterError
  BY DEF IInv
<1> QED BY <1>1, Inductive, PTL

-----------------------------------------------------------------------------
(* Health, and its checks while the connection closes.                      *)
LEMMA HealthInitial ==
  ASSUME HealthInit
  PROVE  HealthInv
BY DEF HealthInit, HealthInv, HealthTypeOK, Expected

LEMMA CheckerKeeps ==
  ASSUME HealthInv, NEW k \in Checkers, Checker(k)
  PROVE  HealthInv'
BY DEF HealthInv, HealthTypeOK, Checker, Goto, server

LEMMA RequestFailsKeeps ==
  ASSUME HealthInv, NEW k \in Checkers, RequestFails(k)
  PROVE  HealthInv'
BY DEF HealthInv, HealthTypeOK, RequestFails, Goto, server

LEMMA HealthcheckKeeps ==
  ASSUME HealthInv, NEW k \in Checkers, Healthcheck(k)
  PROVE  HealthInv'
<1>1. CASE RequestFails(k)
  BY <1>1, RequestFailsKeeps
<1>2. CASE /\ client = "connected"
           /\ Goto(k, IF Databases = {} THEN "OK" ELSE "list")
           /\ todo' = [todo EXCEPT ![k] = Databases]
           /\ UNCHANGED <<server, status, history>>
  <2>1. HealthTypeOK'
    BY <1>2 DEF HealthInv, HealthTypeOK, Goto, server, history
  <2>2. never[k] \subseteq Expected /\ ~closed[k]
    BY <1>2 DEF HealthInv, HealthTypeOK
  <2>3. \A p \in never[k] : p[1] \in Databases
    BY <2>2 DEF Expected
  <2>4. check[k] = "ping"
    BY DEF Healthcheck
  <2> QED BY <1>2, <2>1, <2>2, <2>3, <2>4 DEF HealthInv, HealthTypeOK, Goto, server, history
<1> QED BY <1>1, <1>2 DEF Healthcheck

(* What a list has shown has not been missing all the time.                 *)
LEMMA FoundExist ==
  ASSUME NEW d \in Databases, Found(d)
  PROVE  \A p \in Expected : p[1] = d => p \in exist
<1> SUFFICES ASSUME NEW p \in Expected, p[1] = d PROVE p \in exist
  OBVIOUS
<1>1. p = <<d, p[2]>> /\ p[2] \in databaseCollection[d] /\ p[2] \in Collections
  BY DEF Expected
<1> QED BY <1>1 DEF Found, Existing

(* What is there now has not been missing since a check began.              *)
MissingNow == \A k \in Checkers : check[k] # "idle" => never[k] \cap exist = {}

LEMMA CheckCollectionsKeeps ==
  ASSUME HealthInv, MissingNow, NEW k \in Checkers, CheckCollections(k)
  PROVE  HealthInv'
<1>1. CASE RequestFails(k)
  BY <1>1, RequestFailsKeeps
<1>2. ASSUME NEW d \in todo[k], client = "connected", UNCHANGED <<server, status, history>>, Found(d),
             todo' = [todo EXCEPT ![k] = @ \ {d}],
             Goto(k, IF todo[k] = {d} THEN "OK" ELSE "list")
      PROVE  HealthInv'
  <2>1. HealthTypeOK'
    BY <1>2 DEF HealthInv, HealthTypeOK, Goto, server, history
  <2>2. check[k] = "list" /\ ~closed[k] /\ never[k] \subseteq Expected /\ d \in Databases
    BY <1>2 DEF CheckCollections, HealthInv, HealthTypeOK
  <2>3. \A p \in never[k] : p[1] \in todo[k] \ {d}
    <3> SUFFICES ASSUME NEW p \in never[k], p[1] = d PROVE FALSE
      BY <2>2 DEF HealthInv
    <3>1. p \in exist
      BY <1>2, <2>2, FoundExist
    <3> QED BY <2>2, <3>1 DEF MissingNow
  <2>4. todo[k] = {d} => never[k] = {}
    BY <2>3
  <2> QED BY <1>2, <2>1, <2>2, <2>3, <2>4 DEF HealthInv, HealthTypeOK, Goto, server, history
<1>3. ASSUME NEW d \in todo[k], UNCHANGED <<server, status, history>>, ~Found(d),
             Goto(k, "CRITICAL"), UNCHANGED todo
      PROVE  HealthInv'
  <2>1. HealthTypeOK'
    BY <1>3 DEF HealthInv, HealthTypeOK, Goto, server, history
  <2>2. check[k] = "list" /\ ~closed[k] /\ d \in Databases /\ exist \subseteq Expected
    BY <1>3 DEF CheckCollections, HealthInv, HealthTypeOK
  <2>3. PICK c \in databaseCollection[d] : c \notin Existing(d)
    BY <1>3 DEF Found
  <2>4. databaseCollection[d] \subseteq Collections
    BY <2>2, HealthAssumption DEF Databases
  <2>5. <<d, c>> \in Expected \ exist
    BY <2>2, <2>3, <2>4 DEF Expected, Existing
  <2>6. trouble[k]
    BY <2>2, <2>5 DEF HealthInv
  <2> QED BY <1>3, <2>1, <2>6 DEF HealthInv, HealthTypeOK, Goto, server, history
<1> QED BY <1>1, <1>2, <1>3 DEF CheckCollections

LEMMA UpdateKeeps ==
  ASSUME HealthInv, NEW k \in Checkers, Update(k)
  PROVE  HealthInv'
BY DEF HealthInv, HealthTypeOK, Update, Goto, server, history

LEMMA EnvironmentKeeps ==
  ASSUME HealthInv,
         \/ \E p \in Expected : Create(p) \/ Drop(p)
         \/ \E d \in Databases : DropDatabase(d)
         \/ ClientDisconnects
  PROVE  HealthInv'
<1>1. CASE \E p \in Expected : Create(p)
  BY <1>1 DEF HealthInv, HealthTypeOK, Create, progress
<1>2. CASE \E p \in Expected : Drop(p)
  BY <1>2 DEF HealthInv, HealthTypeOK, Drop, Trouble, progress
<1>3. CASE \E d \in Databases : DropDatabase(d)
  BY <1>3 DEF HealthInv, HealthTypeOK, DropDatabase, Trouble, progress
<1>4. CASE ClientDisconnects
  BY <1>4 DEF HealthInv, HealthTypeOK, ClientDisconnects, Trouble, progress
<1> QED BY <1>1, <1>2, <1>3, <1>4

LEMMA MissingNowKept ==
  ASSUME HealthInv, MissingNow, ServiceNext
  PROVE  MissingNow'
<1>1. CASE HealthNext
  BY <1>1 DEF HealthNext, Checker, Healthcheck, CheckCollections, RequestFails, Update, Create, Drop,
     DropDatabase, Goto, MissingNow, HealthInv, HealthTypeOK, server, progress, history
<1>2. CASE UNCHANGED health
  BY <1>2 DEF health, server, progress, history, MissingNow
<1>3. CASE ClientDisconnects
  BY <1>3 DEF ClientDisconnects, progress, MissingNow
<1> QED BY <1>1, <1>2, <1>3 DEF ServiceNext, DisconnectNext, CloseNext, CheckNext

LEMMA ServiceKeeps ==
  ASSUME HealthInv, MissingNow, [ServiceNext]_serviceVars
  PROVE  HealthInv' /\ MissingNow'
<1>1. CASE UNCHANGED health
  BY <1>1 DEF health, server, progress, history, HealthInv, HealthTypeOK, MissingNow
<1>2. CASE ServiceNext /\ ClientDisconnects
  BY <1>2, EnvironmentKeeps, MissingNowKept
<1>3. CASE ServiceNext /\ HealthNext
  <2>1. HealthInv'
    BY <1>3, CheckerKeeps, HealthcheckKeeps, CheckCollectionsKeeps, UpdateKeeps, EnvironmentKeeps
    DEF HealthNext
  <2> QED BY <1>3, <2>1, MissingNowKept
<1> QED BY <1>1, <1>2, <1>3 DEF serviceVars, ServiceNext, DisconnectNext, CloseNext, CheckNext

(* What every reachable state of any number of overlapping checks, while    *)
(* the connection is closed, satisfies (health.go:66-127).                  *)
THEOREM ChecksInductive == ServiceSpec => [](HealthInv /\ MissingNow)
<1>1. ServiceInit => HealthInv /\ MissingNow
  BY HealthInitial DEF ServiceInit, HealthInit, MissingNow
<1>2. HealthInv /\ MissingNow /\ [ServiceNext]_serviceVars => (HealthInv /\ MissingNow)'
  BY ServiceKeeps
<1> QED BY <1>1, <1>2, PTL DEF ServiceSpec

(* A call that reports reports what it had come to.                         *)
LEMMA ReportsOf ==
  ASSUME HealthInv, [ServiceNext]_serviceVars, NEW k \in Checkers, NEW s, Reports(k, s)
  PROVE  check[k] = s
<1>1. check'[k] # check[k]
  BY DEF Reports
<1>2. HealthNext
  BY <1>1 DEF serviceVars, ServiceNext, DisconnectNext, CloseNext, CheckNext, health, progress,
     ClientDisconnects
<1>3. PICK j \in Checkers : Checker(j) \/ Healthcheck(j) \/ CheckCollections(j) \/ Update(j)
  BY <1>1, <1>2 DEF HealthNext, Create, Drop, DropDatabase, progress
<1>4. Update(j) /\ j = k
  BY <1>1, <1>3 DEF Reports, Checker, Healthcheck, CheckCollections, RequestFails, Update, Goto,
     HealthInv, HealthTypeOK
<1> QED BY <1>4 DEF Reports, Update

(* OK is reported only of what was there at some moment of the check, over  *)
(* a client that was connected when it began (health.go:66-127).            *)
THEOREM OKTrue == ServiceSpec => OKIsTrue
<1>1. HealthInv /\ [ServiceNext]_serviceVars =>
        [\A k \in Checkers : Reports(k, "OK") => never[k] = {} /\ ~closed[k]]_health
  BY ReportsOf DEF HealthInv
<1> QED BY <1>1, ChecksInductive, PTL DEF ServiceSpec, OKIsTrue

(* CRITICAL is reported only when something was wrong while the check ran   *)
(* (health.go:108-123).                                                     *)
THEOREM CriticalTrue == ServiceSpec => CriticalIsTrue
<1>1. HealthInv /\ [ServiceNext]_serviceVars =>
        [\A k \in Checkers : Reports(k, "CRITICAL") => trouble[k]]_health
  BY ReportsOf DEF HealthInv
<1> QED BY <1>1, ChecksInductive, PTL DEF ServiceSpec, CriticalIsTrue

(* The calls of Close in a service behave as ConnectionClose says, so that  *)
(* what is proved of them there holds here (connection.go:37-75).           *)
THEOREM ServiceCloses == ServiceSpec => Spec /\ []IInv
<1>1. ServiceInit => Init
  BY DEF ServiceInit
<1>2. [ServiceNext]_serviceVars => [Next]_vars
  BY DEF ServiceNext, DisconnectNext, CloseNext, CheckNext, Next, serviceVars
<1>3. ServiceSpec => Spec
  BY <1>1, <1>2, PTL DEF ServiceSpec, Spec
<1> QED BY <1>3, Inductive, PTL
=============================================================================
