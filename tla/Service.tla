------------------------------- MODULE Service -------------------------------
(***************************************************************************)
(* A service that shuts down: the calls of ConnectionClose and of Health on *)
(* one MongoConnection.  Only Disconnect concerns both: the client of the   *)
(* connection is disconnected, whether or not Close waits for it any more,  *)
(* and stays so.                                                            *)
(***************************************************************************)
EXTENDS ConnectionClose, Health

serviceVars == <<vars, health>>

ServiceInit == Init /\ HealthInit

(* Disconnect may fail, and the client stay connected.                      *)
DisconnectNext ==
  /\ process = "up"
  /\ \E c \in Closers : Disconnect(c)
  /\ ClientDisconnects \/ UNCHANGED health

CloseNext ==
  /\ process = "up"
  /\ \E c \in Closers :
       \/ Close(c) \/ Select(c) \/ Return(c)
       \/ TimerFires(c) \/ DeadlinePasses(c) \/ ContextDone(c) \/ SendOnClosed(c)
  /\ UNCHANGED health

CheckNext == process = "up" /\ HealthNext /\ UNCHANGED vars

ServiceNext == DisconnectNext \/ CloseNext \/ CheckNext

ServiceSpec == ServiceInit /\ [][ServiceNext]_serviceVars

(* Checker is called on an interval, and its requests end: the ping's after *)
(* its five seconds, the lists with the deadline of the context.            *)
HealthFairness ==
  /\ \A k \in Checkers :
       WF_serviceVars(CheckNext /\ (Checker(k) \/ Healthcheck(k) \/ Update(k)))
  /\ \A k \in Timed : WF_serviceVars(CheckNext /\ CheckCollections(k))

FairServiceSpec == ServiceSpec /\ Fairness /\ HealthFairness

-----------------------------------------------------------------------------
(* A check whose context has a deadline reports, whether or not the server  *)
(* answers and the client is disconnected while it runs (health.go:97-127). *)
ChecksReport ==
  \A k \in Timed : check[k] = "ping" ~> check[k] = "idle" \/ process = "panicked"

(* A service that has lost its client to a Close says so, from some time    *)
(* on, to whoever asks: no check that was under way has the last word       *)
(* (health.go:108-127, graceful.go:18).                                     *)
DisconnectShows ==
  <>(client = "disconnected") => <>[](status = "CRITICAL" \/ process = "panicked")
=============================================================================
