------------------------------- MODULE Health --------------------------------
(***************************************************************************)
(* Checker of a CheckMongoClient (health/health.go) with the Ping and the   *)
(* ListCollectionsFor of its MongoConnection (mongodb/connection.go), while *)
(* collections come and go and the client is disconnected.  Calls of        *)
(* Checker may overlap; they report to one CheckState.                      *)
(***************************************************************************)
CONSTANTS
  Checkers,          \* calls of Checker, each made again and again
  Timed,             \* those whose context has a deadline
  Collections,
  databaseCollection \* the collections to look for, by database

ASSUME HealthAssumption ==
  /\ Timed \subseteq Checkers
  /\ databaseCollection \in [DOMAIN databaseCollection -> SUBSET Collections]

Databases == DOMAIN databaseCollection

(* The collections to look for, each with its database.                     *)
Expected == {p \in Databases \X Collections : p[2] \in databaseCollection[p[1]]}

VARIABLES
  client,  \* of the MongoConnection
  exist,   \* which of the expected collections there are
  check,   \* where a call stands, or what it is about to report
  todo,    \* the databases it has still to list
  status,  \* of the CheckState
  never,   \* what has been missing ever since it began (history)
  closed,  \* whether it began on a disconnected client (history)
  trouble  \* whether anything has been wrong since it began (history)

server == <<client, exist>>
progress == <<check, todo, status>>
history == <<never, closed, trouble>>
health == <<server, progress, history>>

HealthTypeOK ==
  /\ client \in {"connected", "disconnected"}
  /\ exist \subseteq Expected
  /\ check \in [Checkers -> {"idle", "ping", "list", "OK", "CRITICAL"}]
  /\ todo \in [Checkers -> SUBSET Databases]
  /\ status \in {"none", "OK", "CRITICAL"}
  /\ never \in [Checkers -> SUBSET Expected]
  /\ closed \in [Checkers -> BOOLEAN]
  /\ trouble \in [Checkers -> BOOLEAN]

HealthInit ==
  /\ client = "connected"
  /\ exist \in SUBSET Expected
  /\ check = [k \in Checkers |-> "idle"]
  /\ todo = [k \in Checkers |-> {}]
  /\ status = "none"
  /\ never = [k \in Checkers |-> {}]
  /\ closed = [k \in Checkers |-> FALSE]
  /\ trouble = [k \in Checkers |-> FALSE]

-----------------------------------------------------------------------------
Goto(k, label) == check' = [check EXCEPT ![k] = label]

Checker(k) ==
  /\ check[k] = "idle"
  /\ Goto(k, "ping")
  /\ never' = [never EXCEPT ![k] = Expected \ exist]
  /\ closed' = [closed EXCEPT ![k] = client = "disconnected"]
  /\ trouble' = [trouble EXCEPT ![k] = client = "disconnected" \/ exist # Expected]
  /\ UNCHANGED <<server, todo, status>>

(* A request fails: the server does not answer in time, or the connection   *)
(* breaks, or the client is disconnected.                                   *)
RequestFails(k) ==
  /\ Goto(k, "CRITICAL")
  /\ trouble' = [trouble EXCEPT ![k] = TRUE]
  /\ UNCHANGED <<server, todo, status, never, closed>>

(* Mutant: the ping waits for its answer however long it takes.             *)
HealthcheckUntimed(k) ==
  /\ check[k] = "ping"
  /\ client = "connected"
  /\ Goto(k, IF Databases = {} THEN "OK" ELSE "list")
  /\ todo' = [todo EXCEPT ![k] = Databases]
  /\ UNCHANGED <<server, status, history>>

(* healthcheck: Ping, which ends within five seconds.                       *)
Healthcheck(k) ==
  /\ check[k] = "ping"
  /\ \/ /\ client = "connected"
        /\ Goto(k, IF Databases = {} THEN "OK" ELSE "list")
        /\ todo' = [todo EXCEPT ![k] = Databases]
        /\ UNCHANGED <<server, status, history>>
     \/ RequestFails(k)

Existing(d) == {c \in Collections : <<d, c>> \in exist}

(* Mutant: the collections of all databases are looked for in each.         *)
FoundEverywhere(d) ==
  UNION {databaseCollection[e] : e \in Databases} \subseteq Existing(d)

(* find, for all that are expected of a database.                           *)
Found(d) == databaseCollection[d] \subseteq Existing(d)

(* Mutant: the first database that lacks nothing ends it, too.              *)
CheckCollectionsFirst(k) ==
  /\ check[k] = "list"
  /\ \/ /\ client = "connected"
        /\ \E d \in todo[k] : Goto(k, IF Found(d) THEN "OK" ELSE "CRITICAL")
        /\ UNCHANGED <<server, todo, status, history>>
     \/ RequestFails(k)

(* checkCollections: one database after the other, in the order in which    *)
(* Go takes the keys of the map; the first that lacks anything ends it.     *)
CheckCollections(k) ==
  /\ check[k] = "list"
  /\ \/ /\ client = "connected"
        /\ \E d \in todo[k] :
             IF Found(d)
             THEN /\ todo' = [todo EXCEPT ![k] = @ \ {d}]
                  /\ Goto(k, IF todo[k] = {d} THEN "OK" ELSE "list")
             ELSE Goto(k, "CRITICAL") /\ UNCHANGED todo
        /\ UNCHANGED <<server, status, history>>
     \/ RequestFails(k)

(* Mutant: an error ends the check before anything is reported.             *)
UpdateOK(k) ==
  /\ check[k] \in {"OK", "CRITICAL"}
  /\ status' = IF check[k] = "OK" THEN "OK" ELSE status
  /\ Goto(k, "idle")
  /\ todo' = [todo EXCEPT ![k] = {}]
  /\ UNCHANGED <<server, history>>

(* state.Update.                                                            *)
Update(k) ==
  /\ check[k] \in {"OK", "CRITICAL"}
  /\ status' = check[k]
  /\ Goto(k, "idle")
  /\ todo' = [todo EXCEPT ![k] = {}]
  /\ UNCHANGED <<server, history>>

-----------------------------------------------------------------------------
Create(p) ==
  /\ p \in Expected \ exist
  /\ exist' = exist \cup {p}
  /\ never' = [k \in Checkers |-> never[k] \ {p}]
  /\ UNCHANGED <<client, progress, closed, trouble>>

Trouble == trouble' = [k \in Checkers |-> TRUE]

Drop(p) ==
  /\ p \in exist
  /\ exist' = exist \ {p}
  /\ Trouble
  /\ UNCHANGED <<client, progress, never, closed>>

(* DropDatabase of the MongoConnection.                                     *)
DropDatabase(d) ==
  /\ client = "connected"
  /\ \E p \in exist : p[1] = d
  /\ exist' = {p \in exist : p[1] # d}
  /\ Trouble
  /\ UNCHANGED <<client, progress, never, closed>>

ClientDisconnects ==
  /\ client' = "disconnected"
  /\ Trouble
  /\ UNCHANGED <<exist, progress, never, closed>>

HealthNext ==
  \/ \E k \in Checkers :
       Checker(k) \/ Healthcheck(k) \/ CheckCollections(k) \/ Update(k)
  \/ \E p \in Expected : Create(p) \/ Drop(p)
  \/ \E d \in Databases : DropDatabase(d)

-----------------------------------------------------------------------------
(* What a call knows of the moments since it began.                         *)
HealthInv ==
  /\ HealthTypeOK
  /\ \A k \in Checkers :
       /\ closed[k] => client = "disconnected"
       /\ check[k] \in {"list", "OK"} => ~closed[k]
       /\ check[k] = "list" => \A p \in never[k] : p[1] \in todo[k]
       /\ check[k] = "OK" => never[k] = {}
       /\ check[k] \in {"ping", "list", "OK"} /\ ~trouble[k] =>
            client = "connected" /\ exist = Expected
       /\ check[k] = "CRITICAL" => trouble[k]

Reports(k, s) == check[k] # "idle" /\ check'[k] = "idle" /\ status' = s

(* OK is reported by a call only if no expected collection was missing all  *)
(* the time it ran, and not of a client that was disconnected before it     *)
(* began, whatever came and went between its requests (health.go:66-127).   *)
OKIsTrue ==
  [][\A k \in Checkers : Reports(k, "OK") => never[k] = {} /\ ~closed[k]]_health

(* CRITICAL is reported by a call only if while it ran a request of it      *)
(* failed, a collection was missing or the client was disconnected          *)
(* (health.go:108-123).                                                     *)
CriticalIsTrue == [][\A k \in Checkers : Reports(k, "CRITICAL") => trouble[k]]_health
=============================================================================
