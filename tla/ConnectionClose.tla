--------------------------- MODULE ConnectionClose ---------------------------
(***************************************************************************)
(* MongoConnection.Close (mongodb/connection.go) and the goroutine it      *)
(* starts for graceful.shutdown (mongodb/graceful.go): an unbuffered       *)
(* channel that the goroutine sends on and Close closes when it returns, a *)
(* timer, the caller's context, and a select over the three.               *)
(*                                                                         *)
(* A select that finds cases ready picks one of them at random; one that   *)
(* finds none parks, and ends with the first to become ready.              *)
(***************************************************************************)
CONSTANTS
  Closers,  \* calls of Close, which may overlap
  Deadlines \* those whose context has a deadline

ASSUME CloseAssumption == Deadlines \subseteq Closers

VARIABLES
  process, \* a panic in any goroutine ends the process
  pc,      \* where a call stands
  shut,    \* where its shutdown goroutine stands
  ctx,     \* its context
  due,     \* the calls whose deadline has passed
  timer,   \* its timer
  result   \* what it returns

vars == <<process, pc, shut, ctx, due, timer, result>>

Results == {"none", "nil", "timed out", "context error"}

TypeOK ==
  /\ process \in {"up", "panicked"}
  /\ pc \in [Closers -> {"idle", "select", "parked", "returning", "returned"}]
  /\ shut \in [Closers -> {"none", "disconnecting", "sending", "done"}]
  /\ ctx \in [Closers -> {"live", "done"}]
  /\ due \subseteq Deadlines
  /\ timer \in [Closers -> {"off", "armed", "fired"}]
  /\ result \in [Closers -> Results]

Init ==
  /\ process = "up"
  /\ pc = [c \in Closers |-> "idle"]
  /\ shut = [c \in Closers |-> "none"]
  /\ ctx = [c \in Closers |-> "live"]
  /\ due = {}
  /\ timer = [c \in Closers |-> "off"]
  /\ result = [c \in Closers |-> "none"]

-----------------------------------------------------------------------------
(* Up to the select: the channel, the goroutine and the timer.              *)
Close(c) ==
  /\ pc[c] = "idle"
  /\ pc' = [pc EXCEPT ![c] = "select"]
  /\ shut' = [shut EXCEPT ![c] = "disconnecting"]
  /\ timer' = [timer EXCEPT ![c] = "armed"]
  /\ UNCHANGED <<process, ctx, due, result>>

(* The select has a winner.                                                 *)
Choose(c, r) ==
  /\ pc' = [pc EXCEPT ![c] = "returning"]
  /\ result' = [result EXCEPT ![c] = r]

WakeIfParked(c, r) ==
  IF pc[c] = "parked" THEN Choose(c, r) ELSE UNCHANGED <<pc, result>>

Ready(c) ==
  {r \in Results :
     \/ r = "timed out" /\ timer[c] = "fired"
     \/ r = "nil" /\ shut[c] = "sending"
     \/ r = "context error" /\ ctx[c] = "done"}

Select(c) ==
  /\ pc[c] = "select"
  /\ \/ /\ \E r \in Ready(c) :
             /\ Choose(c, r)
             /\ shut' = IF r = "nil" THEN [shut EXCEPT ![c] = "done"] ELSE shut
     \/ /\ Ready(c) = {}
        /\ pc' = [pc EXCEPT ![c] = "parked"]
        /\ UNCHANGED <<shut, result>>
  /\ UNCHANGED <<process, ctx, due, timer>>

(* Mutant: Close returns without waiting for any of the three.              *)
ReturnEarly(c) ==
  /\ pc[c] \in {"parked", "returning"}
  /\ pc' = [pc EXCEPT ![c] = "returned"]
  /\ timer' = [timer EXCEPT ![c] = "off"]
  /\ UNCHANGED <<process, shut, ctx, due, result>>

(* The deferred close of the channel, and the return: the timer is stopped. *)
(* A sender that still waits on the channel panics (SendOnClosed).          *)
Return(c) ==
  /\ pc[c] = "returning"
  /\ pc' = [pc EXCEPT ![c] = "returned"]
  /\ timer' = [timer EXCEPT ![c] = "off"]
  /\ UNCHANGED <<process, shut, ctx, due, result>>

-----------------------------------------------------------------------------
(* What timer and context do concerns nobody once the select has a winner;  *)
(* what a context did before the call, it does here before the select.      *)
Heeded(c) == pc[c] \in {"select", "parked"}

(* Mutant: the timer is used for contexts with a deadline only.             *)
TimerFiresDeadlines(c) ==
  /\ Heeded(c)
  /\ c \in due
  /\ timer[c] = "armed"
  /\ timer' = [timer EXCEPT ![c] = "fired"]
  /\ WakeIfParked(c, "timed out")
  /\ UNCHANGED <<process, shut, ctx, due>>

(* timeLeft, or 10ms after the deadline of the context, whether or not the  *)
(* runtime has ended the context by then.                                   *)
TimerFires(c) ==
  /\ Heeded(c)
  /\ timer[c] = "armed"
  /\ c \in Deadlines => c \in due
  /\ timer' = [timer EXCEPT ![c] = "fired"]
  /\ WakeIfParked(c, "timed out")
  /\ UNCHANGED <<process, shut, ctx, due>>

(* The instant of the deadline.                                             *)
DeadlinePasses(c) ==
  /\ Heeded(c)
  /\ c \in Deadlines \ due
  /\ due' = due \cup {c}
  /\ UNCHANGED <<process, pc, shut, ctx, timer, result>>

(* The context ends: it is cancelled, or its deadline has passed.           *)
ContextDone(c) ==
  /\ Heeded(c)
  /\ ctx[c] = "live"
  /\ ctx' = [ctx EXCEPT ![c] = "done"]
  /\ WakeIfParked(c, "context error")
  /\ UNCHANGED <<process, shut, due, timer>>

-----------------------------------------------------------------------------
(* shutdown.                                                                *)

(* Mutant: the send comes first.                                            *)
DisconnectLater(c) ==
  /\ shut[c] = "disconnecting"
  /\ IF pc[c] = "parked"
     THEN Choose(c, "nil")
     ELSE UNCHANGED <<pc, result>>
  /\ UNCHANGED <<process, shut, ctx, due, timer>>

(* Mutant: the goroutine sends again after it was heard.                    *)
DisconnectTwice(c) ==
  /\ shut[c] \in {"disconnecting", "done"}
  /\ shut' = [shut EXCEPT ![c] = IF pc[c] = "parked" THEN "done" ELSE "sending"]
  /\ WakeIfParked(c, "nil")
  /\ UNCHANGED <<process, ctx, due, timer>>

(* Disconnect answers, nil or an error that is only logged; it may take as  *)
(* long as it likes.  The send that follows is received at once by a parked *)
(* select and otherwise waits for one.                                      *)
Disconnect(c) ==
  /\ shut[c] = "disconnecting"
  /\ shut' = [shut EXCEPT ![c] = IF pc[c] = "parked" THEN "done" ELSE "sending"]
  /\ WakeIfParked(c, "nil")
  /\ UNCHANGED <<process, ctx, due, timer>>

(* A send on the channel that Close has closed.                             *)
SendOnClosed(c) ==
  /\ shut[c] = "sending"
  /\ pc[c] = "returned"
  /\ process' = "panicked"
  /\ UNCHANGED <<pc, shut, ctx, due, timer, result>>

-----------------------------------------------------------------------------
Next ==
  /\ process = "up"
  /\ \E c \in Closers :
       \/ Close(c) \/ Select(c) \/ Return(c)
       \/ TimerFires(c) \/ DeadlinePasses(c) \/ ContextDone(c)
       \/ Disconnect(c) \/ SendOnClosed(c)

Spec == Init /\ [][Next]_vars

(* Close and its timer go on, a deadline passes and then ends its context;  *)
(* nothing makes Disconnect answer or a context without a deadline end.     *)
Fairness ==
  \A c \in Closers :
    /\ WF_vars(process = "up" /\ (Select(c) \/ Return(c)))
    /\ WF_vars(process = "up" /\ TimerFires(c))
    /\ WF_vars(process = "up" /\ (DeadlinePasses(c) \/ (c \in due /\ ContextDone(c))))

FairSpec == Spec /\ Fairness

-----------------------------------------------------------------------------
(* nil is returned only when Disconnect has answered and nobody is left     *)
(* that would send on the closed channel (graceful.go:18-23).               *)
NilAfterDisconnect ==
  \A c \in Closers : result[c] = "nil" => shut[c] = "done"

(* The process panics only when some Close had already returned an error    *)
(* before its Disconnect answered (connection.go:40, graceful.go:23).       *)
PanicOnlyAfterError ==
  process = "panicked" =>
    \E c \in Closers :
      pc[c] = "returned" /\ result[c] \in {"timed out", "context error"} /\ shut[c] = "sending"

(* No wakeup is lost: a select that waits has no case that is ready         *)
(* (connection.go:57-74).                                                   *)
NothingReadyWhileParked ==
  \A c \in Closers :
    pc[c] = "parked" => timer[c] # "fired" /\ shut[c] # "sending" /\ ctx[c] # "done"

(* These are inductive together with what a call has done so far.           *)
IInv ==
  /\ TypeOK
  /\ NilAfterDisconnect
  /\ PanicOnlyAfterError
  /\ NothingReadyWhileParked
  /\ \A c \in Closers :
       /\ (pc[c] = "idle") <=> (shut[c] = "none")
       /\ (pc[c] \in {"returning", "returned"}) <=> (result[c] # "none")

(* Close returns within its timer even if Disconnect never answers          *)
(* (connection.go:56-59).                                                   *)
CloseReturns ==
  \A c \in Closers : pc[c] = "select" ~> pc[c] = "returned" \/ process = "panicked"

-----------------------------------------------------------------------------
(* "Close represents mongo session closing within the context deadline"     *)
(* (connection.go:37), with an error where that is not possible: it does    *)
(* not end the process.                                                     *)
NoPanic == process # "panicked"

(* "This is so the context error is returned over hardcoded error"          *)
(* (connection.go:45-47): a Close whose context with a deadline has ended   *)
(* by the time its select picks a case does not return the timer's error.   *)
ContextErrorOverHardcoded ==
  [][\A c \in Deadlines :
       ctx[c] = "done" /\ result'[c] # result[c] => result'[c] # "timed out"]_vars
=============================================================================
