----------------------------- MODULE Transaction -----------------------------
(***************************************************************************)
(* MongoConnection.RunTransaction (mongodb/transaction.go), called at the  *)
(* same time by several goroutines with the function of the repository's   *)
(* example (exampleTransactionFunc, transaction_test.go): it moves an      *)
(* object from "first" to "second" or from "second" to "third", and in the *)
(* latter case writes a final object to a second collection.  An outside   *)
(* writer sets the object to "second" without a transaction, as the        *)
(* example's interleaved write does.                                       *)
(*                                                                         *)
(* The server is outside src/: snapshot isolation, in which a write of an  *)
(* object that changed since the snapshot, or that another open            *)
(* transaction has written, fails with a transient error and ends the      *)
(* transaction.  So is the driver's WithTransaction, which RunTransaction  *)
(* uses when retries are asked for: it runs the function again after a     *)
(* transient error, and sends a commit again whose outcome it does not     *)
(* know, until its patience is over.                                       *)
(***************************************************************************)
EXTENDS Integers

CONSTANTS
  Txns,        \* calls of RunTransaction
  WithRetries, \* those with withRetries
  MaxWrites,   \* bound: versions of the object
  MaxRuns,     \* bound: runs of the function per call (a timeout of the driver)
  MaxFaults    \* bound: requests that fail, processes that end

ASSUME TransactionAssumption ==
  /\ WithRetries \subseteq Txns
  /\ MaxWrites \in Nat /\ MaxRuns \in Nat \ {0} /\ MaxFaults \in Nat

VARIABLES
  obj,     \* the object of collection 1: its state and its version
  final,   \* is the final object in collection 2
  srv,     \* the server's view of a transaction
  held,    \* what the transaction has written and not yet committed
  pc,      \* where a call stands
  seen,    \* both objects as its snapshot has them
  runs,    \* how often the function has run
  fnErr,   \* the error the function returned
  result,  \* what RunTransaction returned
  commits, \* how often the call's writes were committed (history)
  faults

store == <<obj, final>>
vars == <<store, srv, held, pc, seen, runs, fnErr, result, commits, faults>>

States == {"first", "second", "third"}
Objects == [state : States, version : Nat]
Snapshots == [state : States, version : Nat, final : BOOLEAN]
FnErrors == {"bad state", "transient"}
Results == {"none", "nil", "start error", "commit error", "abort error"} \cup FnErrors

TypeOK ==
  /\ obj \in Objects /\ final \in BOOLEAN
  /\ srv \in [Txns -> {"none", "open", "committed", "aborted"}]
  /\ held \in [Txns -> SUBSET {"obj", "final"}]
  /\ pc \in [Txns -> {"idle", "find", "upsert", "update", "commit", "abort", "returned", "crashed"}]
  /\ seen \in [Txns -> Snapshots]
  /\ runs \in [Txns -> 0 .. MaxRuns]
  /\ fnErr \in [Txns -> FnErrors \cup {"none"}]
  /\ result \in [Txns -> Results]
  /\ commits \in [Txns -> Nat]
  /\ faults \in Nat

Snapshot == [state |-> obj.state, version |-> obj.version, final |-> final]

Init ==
  /\ obj \in {[state |-> s, version |-> 0] : s \in {"first", "second"}}
  /\ final = FALSE
  /\ srv = [t \in Txns |-> "none"]
  /\ held = [t \in Txns |-> {}]
  /\ pc = [t \in Txns |-> "idle"]
  /\ seen = [t \in Txns |-> Snapshot]
  /\ runs = [t \in Txns |-> 0]
  /\ fnErr = [t \in Txns |-> "none"]
  /\ result = [t \in Txns |-> "none"]
  /\ commits = [t \in Txns |-> 0]
  /\ faults = 0

-----------------------------------------------------------------------------
Fault == faults < MaxFaults /\ faults' = faults + 1

Goto(t, label) == pc' = [pc EXCEPT ![t] = label]

Return(t, r) == Goto(t, "returned") /\ result' = [result EXCEPT ![t] = r]

Server(t, s) ==
  /\ srv' = [srv EXCEPT ![t] = s]
  /\ held' = [held EXCEPT ![t] = {}]

(* The function returns an error: the server has ended the transaction or   *)
(* not, RunTransaction goes on to abort it.                                 *)
FnFails(t, e) ==
  /\ fnErr' = [fnErr EXCEPT ![t] = e]
  /\ Goto(t, "abort")

(* StartTransaction, and the function from its beginning.                   *)
Start(t) ==
  /\ Server(t, "open")
  /\ runs' = [runs EXCEPT ![t] = @ + 1]
  /\ fnErr' = [fnErr EXCEPT ![t] = "none"]
  /\ Goto(t, "find")

(* A session, then the first run; either may fail to start.                 *)
RunTransaction(t) ==
  /\ pc[t] = "idle"
  /\ \/ Start(t) /\ UNCHANGED <<result, faults>>
     \/ Fault /\ Return(t, "start error") /\ UNCHANGED <<srv, held, runs, fnErr>>
  /\ UNCHANGED <<store, seen, commits>>

-----------------------------------------------------------------------------
(* exampleTransactionFunc, one request at a time.                           *)

Open(t) == srv[t] = "open"

(* A request of the function that fails: the transaction may have timed out *)
(* at the server, or the request is lost.                                   *)
RequestFails(t) ==
  /\ pc[t] \in {"find", "upsert", "update"}
  /\ \/ ~Open(t) /\ UNCHANGED faults
     \/ Open(t) /\ Fault
  /\ FnFails(t, "transient")
  /\ UNCHANGED <<store, srv, held, seen, runs, result, commits>>

Decide(t, state) ==
  \/ state = "first" /\ Goto(t, "update") /\ UNCHANGED fnErr
  \/ state = "second" /\ Goto(t, "upsert") /\ UNCHANGED fnErr
  \/ state = "third" /\ FnFails(t, "bad state")

(* Mutant: what an earlier read returned decides.                           *)
FindOneStale(t) ==
  /\ pc[t] = "find" /\ Open(t)
  /\ seen' = [seen EXCEPT ![t] = [Snapshot EXCEPT !.state = seen[t].state]]
  /\ Decide(t, seen[t].state)
  /\ UNCHANGED <<store, srv, held, runs, result, commits, faults>>

(* The first read of the transaction fixes its snapshot.                    *)
FindOne(t) ==
  /\ pc[t] = "find" /\ Open(t)
  /\ seen' = [seen EXCEPT ![t] = Snapshot]
  /\ Decide(t, obj.state)
  /\ UNCHANGED <<store, srv, held, runs, result, commits, faults>>

(* A write of what is "obj" or "final" in transaction t.                    *)
Conflict(t, what) ==
  \/ what = "obj" /\ obj.version # seen[t].version
  \/ what = "final" /\ final # seen[t].final
  \/ \E u \in Txns \ {t} : what \in held[u]

Write(t, what, next) ==
  /\ Open(t)
  /\ \/ /\ Conflict(t, what)
        /\ Server(t, "aborted")
        /\ FnFails(t, "transient")
     \/ /\ ~Conflict(t, what)
        /\ held' = [held EXCEPT ![t] = @ \cup {what}]
        /\ Goto(t, next)
        /\ UNCHANGED <<srv, fnErr>>
  /\ UNCHANGED <<store, seen, runs, result, commits, faults>>

Successor(state) == IF state = "first" THEN "second" ELSE "third"

UpsertOne(t) == pc[t] = "upsert" /\ Write(t, "final", "update")

(* Mutant: the write does not use the context of the transaction.           *)
UpdateOneOutside(t) ==
  /\ pc[t] = "update" /\ Open(t)
  /\ obj' = [state |-> Successor(seen[t].state), version |-> obj.version + 1]
  /\ Goto(t, "commit")
  /\ UNCHANGED <<final, srv, held, seen, runs, fnErr, result, commits, faults>>

(* Mutant: a write that meets a conflict is tried again in its transaction. *)
UpdateOneAgain(t) ==
  /\ pc[t] = "update" /\ Open(t) /\ ~Conflict(t, "obj")
  /\ Write(t, "obj", "commit")

UpdateOne(t) == pc[t] = "update" /\ Write(t, "obj", "commit")

-----------------------------------------------------------------------------
(* The end of a run.                                                        *)

(* The writes of t become the committed state.                              *)
Apply(t) ==
  /\ obj' = [state |-> Successor(seen[t].state), version |-> obj.version + 1]
  /\ final' = (final \/ "final" \in held[t])
  /\ Server(t, "committed")
  /\ commits' = [commits EXCEPT ![t] = @ + 1]

(* Another run, in a new transaction, or the driver's patience is over.     *)
Again(t, r) ==
  \/ runs[t] < MaxRuns /\ Start(t) /\ UNCHANGED result
  \/ Return(t, r) /\ UNCHANGED <<srv, held, runs, fnErr>>

(* CommitTransaction answers nil; committing again is no second commit.     *)
CommitOK(t) ==
  /\ pc[t] = "commit"
  /\ \/ Open(t) /\ Apply(t)
     \/ srv[t] = "committed" /\ UNCHANGED <<store, srv, held, commits>>
  /\ Return(t, "nil")
  /\ UNCHANGED <<seen, runs, fnErr, faults>>

(* Mutant: the run starts again whatever the error of the commit.           *)
CommitUnknownAgain(t) ==
  /\ pc[t] = "commit" /\ Open(t)
  /\ Fault
  /\ obj' = [state |-> Successor(seen[t].state), version |-> obj.version + 1]
  /\ final' = (final \/ "final" \in held[t])
  /\ commits' = [commits EXCEPT ![t] = @ + 1]
  /\ runs[t] < MaxRuns /\ Start(t)
  /\ UNCHANGED <<seen, result>>

(* The answer is lost, the commit made or not.                              *)
CommitUnknown(t) ==
  /\ pc[t] = "commit"
  /\ Fault
  /\ \/ Open(t) /\ Apply(t)
     \/ UNCHANGED <<store, srv, held, commits>>
  /\ \/ Return(t, "commit error")
     \/ t \in WithRetries /\ UNCHANGED <<pc, result>>
  /\ UNCHANGED <<seen, runs, fnErr>>

(* The server has ended the transaction: a transient error.                 *)
CommitTransient(t) ==
  /\ pc[t] = "commit" /\ srv[t] = "aborted"
  /\ \/ t \in WithRetries /\ Again(t, "commit error")
     \/ t \notin WithRetries /\ Return(t, "commit error") /\ UNCHANGED <<srv, held, runs, fnErr>>
  /\ UNCHANGED <<store, seen, commits, faults>>

(* Mutant: an error of the function is committed.                           *)
AbortCommits(t) ==
  /\ pc[t] = "abort"
  /\ Open(t)
  /\ Apply(t)
  /\ Return(t, fnErr[t])
  /\ UNCHANGED <<seen, runs, fnErr, faults>>

(* Mutant: every error is retried, whatever time has passed.                *)
AbortForever(t) ==
  /\ pc[t] = "abort"
  /\ Server(t, "open")
  /\ Goto(t, "find")
  /\ UNCHANGED <<store, seen, runs, fnErr, result, commits, faults>>

(* The function failed.  Without retries the error of the abort, if there   *)
(* is one, is returned in place of the function's.  With retries it is      *)
(* dropped, and the function runs again if its error was transient.         *)
Abort(t) ==
  /\ pc[t] = "abort"
  /\ \/ Server(t, "aborted") /\ Return(t, fnErr[t]) /\ UNCHANGED <<runs, fnErr, faults>>
     \/ /\ Fault
        /\ Return(t, IF t \in WithRetries THEN fnErr[t] ELSE "abort error")
        /\ UNCHANGED <<srv, held, runs, fnErr>>
     \/ /\ t \in WithRetries /\ fnErr[t] = "transient"
        /\ runs[t] < MaxRuns /\ Start(t)
        /\ UNCHANGED <<result, faults>>
  /\ UNCHANGED <<store, seen, commits>>

-----------------------------------------------------------------------------
(* The server, and the end of a process.                                    *)

Left(t) == pc[t] \in {"returned", "crashed"}

(* The server ends a transaction whose client has gone or never aborted it; *)
(* it may end any other that takes too long.                                *)
ServerRollback(t) ==
  /\ Open(t)
  /\ \/ Left(t) /\ UNCHANGED faults
     \/ ~Left(t) /\ Fault
  /\ Server(t, "aborted")
  /\ UNCHANGED <<store, pc, seen, runs, fnErr, result, commits>>

(* A commit that was thought lost arrives.                                  *)
LateCommit(t) ==
  /\ Open(t) /\ result[t] = "commit error"
  /\ Apply(t)
  /\ UNCHANGED <<pc, seen, runs, fnErr, result, faults>>

Crash(t) ==
  /\ pc[t] \notin {"idle", "returned", "crashed"}
  /\ Fault
  /\ Goto(t, "crashed")
  /\ UNCHANGED <<store, srv, held, seen, runs, fnErr, result, commits>>

(* A write without a transaction waits for open ones that wrote the object. *)
Outside ==
  /\ obj.version < MaxWrites
  /\ \A t \in Txns : "obj" \notin held[t]
  /\ obj' = [state |-> "second", version |-> obj.version + 1]
  /\ UNCHANGED <<final, srv, held, pc, seen, runs, fnErr, result, commits, faults>>

Step(t) ==
  \/ RunTransaction(t) \/ RequestFails(t)
  \/ FindOne(t) \/ UpsertOne(t) \/ UpdateOne(t)
  \/ CommitOK(t) \/ CommitUnknown(t) \/ CommitTransient(t) \/ Abort(t)
  \/ ServerRollback(t) \/ LateCommit(t) \/ Crash(t)

Next == Outside \/ \E t \in Txns : Step(t)

Spec == Init /\ [][Next]_vars

(* Fairness: a call goes on until it returns, and the server ends what has  *)
(* been left open.  Nobody needs to call, no fault needs to happen.         *)
Proceed(t) ==
  \/ RequestFails(t) \/ FindOne(t) \/ UpsertOne(t) \/ UpdateOne(t)
  \/ CommitOK(t) \/ CommitTransient(t) \/ Abort(t)

FairSpec == Spec /\ \A t \in Txns : WF_vars(Proceed(t)) /\ WF_vars(ServerRollback(t) /\ Left(t))

-----------------------------------------------------------------------------
(* Safety.                                                                  *)

(* The two writes of the function are seen together: nobody finds the       *)
(* object in "third" without the final object (transaction_test.go:72-98).  *)
FinalWithThird == obj.state = "third" => final

(* What every reachable state satisfies, first of one call.  While its      *)
(* function runs a call has a transaction, or the server has ended it, and  *)
(* has returned nothing.                                                    *)
Running(t) == pc[t] \in {"find", "upsert", "update", "commit", "abort"}

RunningInv(t) ==
  /\ pc[t] = "idle" => srv[t] = "none" /\ runs[t] = 0
  /\ pc[t] # "returned" => result[t] = "none"
  /\ Running(t) => srv[t] # "none"
  /\ Running(t) /\ pc[t] # "commit" => srv[t] # "committed"

(* Committed means committed once, and is never reported as not done.       *)
CommittedInv(t) ==
  /\ commits[t] = IF srv[t] = "committed" THEN 1 ELSE 0
  /\ result[t] = "nil" => srv[t] = "committed"
  /\ srv[t] = "committed" => result[t] \in {"none", "nil", "commit error"}

(* What is written follows from what was read; what is ready to be          *)
(* committed is written.                                                    *)
WrittenInv(t) ==
  /\ held[t] # {} => Open(t)
  /\ pc[t] = "find" => held[t] = {}
  /\ pc[t] = "upsert" => seen[t].state = "second"
  /\ pc[t] = "update" \/ held[t] # {} => seen[t].state # "third"
  /\ Open(t) /\ (pc[t] = "commit" \/ result[t] = "commit error") => "obj" \in held[t]
  /\ Open(t) /\ seen[t].state = "second" /\ (pc[t] = "update" \/ "obj" \in held[t])
       => "final" \in held[t]

(* Of the objects: a version tells a state, a snapshot is not of the        *)
(* future, and who has written the object has seen it as it is.             *)
SeenInv ==
  \A t \in Txns :
    /\ seen[t].version <= obj.version
    /\ seen[t].version = obj.version => seen[t].state = obj.state
    /\ "obj" \in held[t] => seen[t].version = obj.version

HeldApart == \A t, u \in Txns : t # u => held[t] \cap held[u] = {}

IInv ==
  /\ TypeOK
  /\ \A t \in Txns : RunningInv(t) /\ CommittedInv(t) /\ WrittenInv(t)
  /\ SeenInv
  /\ HeldApart
  /\ FinalWithThird

(* A call whose error is nil has had its writes committed, and no call has  *)
(* them committed twice, however often it ran its function or sent its      *)
(* commit (transaction.go:35-55).                                           *)
CommittedOnce ==
  \A t \in Txns : commits[t] \in {0, 1} /\ (result[t] = "nil" => commits[t] = 1)

(* A call that returns the error of its function, of the abort or of the    *)
(* start has left nothing behind, then and later: "Returning an error from  *)
(* the function indicates the transaction is to be aborted"                 *)
(* (transaction.go:16).                                                     *)
ErrorLeavesNothing ==
  \A t \in Txns : result[t] \notin {"none", "nil", "commit error"} => commits[t] = 0

(* A transaction moves the object one step from the state it is in when the *)
(* commit is made, however the reads and writes of several interleave.      *)
NoLostUpdate ==
  [][\A t \in Txns : commits'[t] # commits[t] =>
       <<obj.state, obj'.state>> \in {<<"first", "second">>, <<"second", "third">>}]_vars

(* Liveness.  RunTransaction returns, whatever conflicts its function meets *)
(* and however often it is run.                                             *)
CallsReturn ==
  \A t \in Txns : pc[t] = "find" ~> Left(t)

(* What a call leaves open, because it lost its commit or its abort, or its *)
(* process ended, does not keep the objects it wrote from other writers     *)
(* (the session of transaction.go:30 is never ended).                       *)
WritesReleased ==
  \A t \in Txns : held[t] # {} ~> held[t] = {}
=============================================================================
