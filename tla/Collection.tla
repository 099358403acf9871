----------------------------- MODULE Collection ------------------------------
(***************************************************************************)
(* Callers of one Collection and of its Must (mongodb/collection.go,       *)
(* mongodb/must.go), at the same time and from several processes:          *)
(*   - the writes, FindOneAndUpdate among them, as requests to the server  *)
(*     that serves them one document after the other, may answer late, not *)
(*     at all, or after the caller has given up (Open sets                 *)
(*     SetRetryWrites(false));                                             *)
(*   - exampleUpdate of CONVERT.md, the optimistic update by ETag: FindOne, *)
(*     then Update with the ETag that was found in its selector;           *)
(*   - the reads: Find, which counts first and queries afterwards, Count,  *)
(*     FindOne, FindCursor, Distinct and Aggregate.                        *)
(***************************************************************************)
EXTENDS ReplicaSet, FindOptions, Errors

CONSTANTS
  Writes,     \* the writes they make: op, ids (of the selector), many, must
  MustForms,  \* whether exampleUpdate updates through Must
  Readers,      \* bound: the callers that read, as nobody meets a read
  OptionLists,  \* the FindOptions of a call
  DriverErrors, \* what the driver returns for a request that fails
  MaxWrites,  \* bound: ETags
  MaxCalls,   \* bound: calls of one caller
  MaxFaults   \* bound: requests or answers lost, failovers

Ops == {"insert", "upsert", "update", "delete", "findAndUpdate"}

ASSUME CollectionAssumption ==
  /\ Writes \subseteq [op : Ops, ids : (SUBSET Ids) \ {{}}, many : BOOLEAN, must : BOOLEAN]
  /\ \A w \in Writes :
       /\ w.must => w.op \in {"update", "delete"}
       /\ w.many => w.op \notin {"upsert", "findAndUpdate"}
  /\ MustForms \subseteq BOOLEAN /\ Readers \subseteq Callers
  /\ OptionLists \subseteq Seq(FindOption)
  /\ DriverErrors \subseteq Seq(STRING)
  /\ \A e \in DriverErrors : e # Nil /\ ~Is(e, ErrNoDocumentFound) /\ e[1] # "Error"
  /\ MaxWrites \in Nat /\ MaxId <= MaxWrites
  /\ MaxCalls \in Nat /\ MaxFaults \in Nat

VARIABLES
  requests, \* what the server has to serve or to answer
  pc, calls,
  write,    \* the write of the last call
  seen,     \* what FindOne of exampleUpdate, or FindOneAndUpdate, returned
  find,     \* a read: its options, what it counted, what it returned
  asked,    \* what the options of the last call ask for (history)
  result,   \* what the last call returned
  done,     \* the documents the server changed or matched for it (history)
  etag,     \* the last ETag anybody has calculated
  base,     \* of which ETag it was calculated, 0 if of none (history)
  faults

caller == <<pc, calls, write, seen, find, asked, result, done>>
tags == <<etag, base>>
vars == <<replicaSet, requests, caller, tags, faults>>

AnyTag == 0

(* The options a call may have, with what they ask for.                     *)
Options == {[fo |-> newFindOptions(opts), asked |-> Asked(opts)] : opts \in OptionLists}

NoHow == asDriverFindOneAndUpdateOption(NoOptions)

Hows == {NoHow} \cup {asDriverFindOneAndUpdateOption(o.fo) : o \in Options}

Documents == [id : Ids \cup {0}, tag : Nat]

NoDocument == [id |-> 0, tag |-> 0]

Requests ==
  [caller : Callers, call : Nat, op : Ops, todo : SUBSET Ids, tag : Nat,
   many : BOOLEAN, must : BOOLEAN, how : Hows, hits : Nat, doc : Documents,
   failed : BOOLEAN, at : Nat]

NoResult == <<"none">>

BadObjectVersion == <<"bad object version">>

DuplicateKey == <<"write exception">>

NoWrite == [op |-> "none", ids |-> {}, many |-> FALSE, must |-> FALSE]

Kinds == {"Find", "Count", "FindOne", "FindCursor", "Distinct", "Aggregate"}

Reading(kind, fo, ids) ==
  [kind |-> kind, fo |-> fo, counted |-> ids, queried |-> ids, total |-> 0, found |-> {}]

NoFind == Reading("none", NoOptions, {})

TypeOK ==
  /\ ReplicaSetTypeOK
  /\ requests \subseteq Requests
  /\ pc \in [Callers -> {"idle", "waiting", "found", "counted"}]
  /\ calls \in [Callers -> 0 .. MaxCalls]
  /\ write \in [Callers -> Writes \cup {NoWrite} \cup
       {[op |-> "update", ids |-> {i}, many |-> FALSE, must |-> m] : i \in Ids, m \in MustForms}]
  /\ seen \in [Callers -> Documents]
  /\ \A c \in Callers : find[c].kind \in Kinds \cup {"none", "exampleUpdate"}
  /\ \A c \in Callers : find[c].total \in Nat /\ find[c].found \subseteq Ids
  /\ done \in [Callers -> SUBSET Ids]
  /\ etag \in 0 .. MaxWrites
  /\ base \in [1 .. MaxWrites -> Nat]
  /\ faults \in 0 .. MaxFaults

(* Some documents exist, each with an ETag of its own.                      *)
Init ==
  /\ \E present \in SUBSET Ids :
       log = <<[docs |-> [i \in Ids |-> IF i \in present THEN i ELSE 0], by |-> <<>>]>>
  /\ commit = 1
  /\ requests = {}
  /\ pc = [c \in Callers |-> "idle"]
  /\ calls = [c \in Callers |-> 0]
  /\ write = [c \in Callers |-> NoWrite]
  /\ seen = [c \in Callers |-> NoDocument]
  /\ find = [c \in Callers |-> NoFind]
  /\ asked = [c \in Callers |-> Asked(<<>>)]
  /\ result = [c \in Callers |-> NoResult]
  /\ done = [c \in Callers |-> {}]
  /\ etag = MaxId
  /\ base = [v \in 1 .. MaxWrites |-> 0]
  /\ faults = 0

-----------------------------------------------------------------------------
Fault == faults < MaxFaults /\ faults' = faults + 1

Goto(c, label) == pc' = [pc EXCEPT ![c] = label]

Return(c, r) == Goto(c, "idle") /\ result' = [result EXCEPT ![c] = r]

(* exampleUpdate wraps the errors it is given once more (fmt.Errorf).       *)
Example(err) == <<"exampleUpdate">> \o err

(* What a call returns where the library returned err.                      *)
Failure(c, err) ==
  IF find[c].kind = "exampleUpdate" /\ err # Nil THEN Example(err) ELSE err

(* A call begins, to read or to write: what is kept of the last one goes.   *)
Begin(c, f, w, a) ==
  /\ pc[c] = "idle"
  /\ calls[c] < MaxCalls
  /\ calls' = [calls EXCEPT ![c] = @ + 1]
  /\ done' = [done EXCEPT ![c] = {}]
  /\ find' = [find EXCEPT ![c] = f]
  /\ write' = [write EXCEPT ![c] = w]
  /\ asked' = [asked EXCEPT ![c] = a]

Request(c, n, w, tag, how) ==
  [caller |-> c, call |-> n, op |-> w.op, todo |-> w.ids, tag |-> tag,
   many |-> w.many, must |-> w.must, how |-> how, hits |-> 0, doc |-> NoDocument,
   failed |-> FALSE, at |-> 0]

Send(c, w, how, a) ==
  /\ Begin(c, NoFind, w, a)
  /\ requests' = requests \cup {Request(c, calls'[c], w, AnyTag, how)}
  /\ Goto(c, "waiting")
  /\ result' = [result EXCEPT ![c] = NoResult]
  /\ UNCHANGED <<replicaSet, seen, tags, faults>>

(* InsertOne and InsertMany, UpsertOne, UpdateOne and UpdateMany, DeleteOne *)
(* and DeleteMany, and their deprecated names: each is one request.         *)
WriteCall(c) ==
  \E w \in Writes : w.op # "findAndUpdate" /\ Send(c, w, NoHow, Asked(<<>>))

(* Of its options it heeds the sort and the ReturnDocument.                 *)
FindOneAndUpdate(c) ==
  \E w \in Writes, o \in Options :
    /\ w.op = "findAndUpdate"
    /\ Send(c, w, asDriverFindOneAndUpdateOption(o.fo),
            [Asked(<<>>) EXCEPT !.sort = o.asked.sort, !.returnDocument = o.asked.returnDocument])

(* exampleUpdate: FindOne, and the ETag compared with the object's, which   *)
(* the program has from an earlier read.                                    *)
ExampleFindOne(c) ==
  /\ Begin(c, [NoFind EXCEPT !.kind = "exampleUpdate"], NoWrite, Asked(<<>>))
  /\ \/ \E i \in Ids, k \in Readable, objETag \in 1 .. etag :
          /\ \/ View(k)[i] = 0 /\ Return(c, Example(ErrNoDocumentFound)) /\ UNCHANGED seen
             \/ View(k)[i] \notin {0, objETag} /\ Return(c, BadObjectVersion) /\ UNCHANGED seen
             \/ /\ View(k)[i] = objETag
                /\ seen' = [seen EXCEPT ![c] = [id |-> i, tag |-> objETag]]
                /\ Goto(c, "found")
                /\ result' = [result EXCEPT ![c] = NoResult]
          /\ UNCHANGED faults
     \/ /\ Fault
        /\ \E e \in DriverErrors : Return(c, Example(wrapMongoError(e)))
        /\ UNCHANGED seen
  /\ UNCHANGED <<replicaSet, requests, tags>>

(* exampleUpdate: Update, with the ETag that was found in the selector.     *)
ExampleUpdate(c) ==
  /\ pc[c] = "found"
  /\ \E must \in MustForms :
       LET w == [op |-> "update", ids |-> {seen[c].id}, many |-> FALSE, must |-> must]
       IN  /\ requests' = requests \cup {Request(c, calls[c], w, seen[c].tag, NoHow)}
           /\ write' = [write EXCEPT ![c] = w]
  /\ Goto(c, "waiting")
  /\ UNCHANGED <<replicaSet, calls, seen, find, asked, result, done, tags, faults>>

-----------------------------------------------------------------------------
(* The server.                                                              *)

Waiting(r) == pc[r.caller] = "waiting" /\ calls[r.caller] = r.call

(* Mutant: the ETag of the selector is left out.                            *)
MatchesAnyTag(r, i) == Primary[i] # 0

Matches(r, i) == Primary[i] # 0 /\ r.tag \in {AnyTag, Primary[i]}

NewTag(r) ==
  /\ etag < MaxWrites
  /\ etag' = etag + 1
  /\ base' = [base EXCEPT ![etag + 1] = r.tag]

(* The write of document i, a hit when it matched or was inserted.          *)
Hit(r, i) ==
  \/ /\ r.op \in {"insert", "upsert"} /\ Primary[i] = 0
     /\ NewTag(r)
     /\ Write([Primary EXCEPT ![i] = etag'], <<r.caller, r.call>>)
  \/ /\ r.op \in {"upsert", "update", "findAndUpdate"} /\ Matches(r, i)
     /\ NewTag(r)
     /\ Write([Primary EXCEPT ![i] = etag'], <<r.caller, r.call>>)
  \/ /\ r.op = "delete" /\ Matches(r, i)
     /\ Write([Primary EXCEPT ![i] = 0], <<r.caller, r.call>>)
     /\ UNCHANGED tags

(* What is left of a request that nobody waits for is forgotten.            *)
Keep(r, s) ==
  requests' = (requests \ {r}) \cup (IF Waiting(r) \/ s.todo # {} THEN {s} ELSE {})

(* The document of a FindOneAndUpdate, before or after the update.          *)
Found(r, i) ==
  [id |-> i, tag |-> IF r.how.returnDocument = "before" THEN Primary[i] ELSE etag']

ServeHit(r, i) ==
  /\ Hit(r, i)
  /\ Keep(r, [r EXCEPT !.todo = IF r.many THEN @ \ {i} ELSE {},
                       !.hits = @ + 1, !.at = Len(log) + 1,
                       !.doc = IF r.op = "findAndUpdate" THEN Found(r, i) ELSE @])
  /\ done' = IF Waiting(r) THEN [done EXCEPT ![r.caller] = @ \cup {i}] ELSE done

(* No match, of any document where the first is asked for, or, for an       *)
(* insert, a duplicate key, which ends the request.                         *)
ServeMiss(r, i) ==
  /\ \/ r.op \in {"update", "delete", "findAndUpdate"} /\ ~Matches(r, i)
     \/ r.op = "insert" /\ Primary[i] # 0
  /\ Keep(r, [r EXCEPT !.todo = IF r.op \in {"insert", "findAndUpdate"} THEN {} ELSE @ \ {i},
                       !.failed = @ \/ r.op = "insert", !.at = Len(log)])
  /\ UNCHANGED <<log, tags, done>>

(* InsertMany inserts in order; FindOneAndUpdate takes the first by its     *)
(* sort of the documents there are; every other write has the server's.     *)
InOrder(r, i) ==
  CASE r.op = "insert" -> \A j \in r.todo : i <= j
    [] r.op = "findAndUpdate" ->
         LET there == {j \in r.todo : Matches(r, j)}
         IN  there # {} => i \in asDriverFindOneOption([NoOptions EXCEPT !.sort = r.how.sort], there)
    [] OTHER -> TRUE

Serve ==
  /\ \E r \in requests : \E i \in r.todo :
       InOrder(r, i) /\ (ServeHit(r, i) \/ ServeMiss(r, i))
  /\ UNCHANGED <<commit, pc, calls, write, seen, find, asked, result, faults>>

(* Mutant: a request that matched nothing is answered like one that did.    *)
OutcomeOfCollection(r) == IF r.failed THEN wrapMongoError(DuplicateKey) ELSE Nil

(* updateRecord and the other writes, then Must: an error loses the counts, *)
(* nothing matched is an error for Must and for FindOneAndUpdate only.      *)
Outcome(r) ==
  IF r.failed THEN wrapMongoError(DuplicateKey)
  ELSE IF (r.must \/ r.op = "findAndUpdate") /\ r.hits = 0 THEN wrapMongoError(ErrNoDocumentFound)
  ELSE Nil

(* Mutant: Must takes no match for no answer, and waits on.                 *)
AnswerAwaitsMatch ==
  /\ \E r \in requests :
       /\ Waiting(r) /\ r.todo = {}
       /\ Acknowledged(r.at)
       /\ IF r.must /\ r.hits = 0 THEN UNCHANGED <<pc, result>>
          ELSE Return(r.caller, Failure(r.caller, Outcome(r)))
       /\ seen' = IF r.op = "findAndUpdate" THEN [seen EXCEPT ![r.caller] = r.doc] ELSE seen
       /\ requests' = requests \ {r}
  /\ UNCHANGED <<replicaSet, calls, write, find, asked, done, tags, faults>>

Answer ==
  /\ \E r \in requests :
       /\ Waiting(r) /\ r.todo = {}
       /\ Acknowledged(r.at)
       /\ Return(r.caller, Failure(r.caller, Outcome(r)))
       /\ seen' = IF r.op = "findAndUpdate" THEN [seen EXCEPT ![r.caller] = r.doc] ELSE seen
       /\ requests' = requests \ {r}
  /\ UNCHANGED <<replicaSet, calls, write, find, asked, done, tags, faults>>

(* The caller's context ends or its connection does: an error, whatever the *)
(* server has done or will do with the request.                             *)
GiveUp(c) ==
  /\ pc[c] \in {"waiting", "found", "counted"}
  /\ Fault
  /\ \E e \in DriverErrors : Return(c, Failure(c, wrapMongoError(e)))
  /\ requests' = {r \in requests : r.caller = c /\ r.call = calls[c] => r.todo # {}}
  /\ UNCHANGED <<replicaSet, calls, write, seen, find, asked, done, tags>>

(* A new primary: connections end, with the requests on them.               *)
Failover ==
  /\ Fault
  /\ CutOff
  /\ requests' = {}
  /\ pc' = [c \in Callers |-> IF pc[c] = "waiting" THEN "idle" ELSE pc[c]]
  /\ \E e \in DriverErrors : result' = [c \in Callers |->
       IF pc[c] = "waiting" THEN Failure(c, wrapMongoError(e)) ELSE result[c]]
  /\ UNCHANGED <<calls, write, seen, find, asked, done, tags>>

ReplicaSetNext ==
  /\ Replicate
  /\ UNCHANGED <<requests, caller, tags, faults>>

-----------------------------------------------------------------------------
(* The reads.                                                               *)

(* Nothing to query for.                                                    *)
CountsOnly(fo, tc) ==
  \/ tc = 0
  \/ fo.limit < 0 \/ fo.skip >= tc
  \/ fo.limit = 0 /\ fo.obeyZeroLimit

FindCount(c) ==
  /\ \E o \in Options, k \in Readable :
       LET ids == Existing(View(k))
           tc == Cardinality(ids)
           over == CountsOnly(o.fo, tc)
       IN  /\ Begin(c, [Reading("Find", o.fo, ids) EXCEPT !.total = tc], NoWrite, o.asked)
           /\ \/ over /\ Return(c, Nil)
              \/ ~over /\ Goto(c, "counted") /\ result' = [result EXCEPT ![c] = NoResult]
  /\ UNCHANGED <<replicaSet, requests, seen, tags, faults>>

FindQuery(c) ==
  /\ pc[c] = "counted"
  /\ \E k \in Readable :
       LET ids == Existing(View(k))
       IN  find' = [find EXCEPT ![c].queried = ids,
                                ![c].found = asDriverFindOption(find[c].fo, ids),
                                ![c].fo = NoOptions]
  /\ Return(c, Nil)
  /\ UNCHANGED <<replicaSet, requests, calls, write, seen, asked, done, tags, faults>>

(* A read that is one request.                                              *)
ReadOnce(c, f, o, err) ==
  /\ Begin(c, f, NoWrite, o.asked)
  /\ Return(c, err)
  /\ UNCHANGED <<replicaSet, requests, seen, tags, faults>>

Count(c) ==
  \E o \in Options, k \in Readable :
    LET ids == Existing(View(k))
        total == asDriverCountOption(o.fo, Cardinality(ids))
    IN  ReadOnce(c, [Reading("Count", NoOptions, ids) EXCEPT !.total = total], o, Nil)

FindOne(c) ==
  \E o \in Options, k \in Readable :
    LET ids == Existing(View(k))
        may == asDriverFindOneOption(o.fo, ids)
        read == Reading("FindOne", NoOptions, ids)
    IN  \/ \E i \in may : ReadOnce(c, [read EXCEPT !.found = {i}], o, Nil)
        \/ may = {} /\ ReadOnce(c, read, o, wrapMongoError(ErrNoDocumentFound))

FindCursor(c) ==
  \E o \in Options, k \in Readable :
    LET ids == Existing(View(k))
        found == asDriverFindOption(o.fo, ids)
    IN  ReadOnce(c, [Reading("FindCursor", NoOptions, ids) EXCEPT !.found = found], o, Nil)

(* Without options: all that a filter or a pipeline selects.                *)
ReadAll(c, kind) ==
  \E k \in Readable :
    LET ids == Existing(View(k))
    IN  ReadOnce(c, [Reading(kind, NoOptions, ids) EXCEPT !.found = ids], [asked |-> Asked(<<>>)], Nil)

Distinct(c) == ReadAll(c, "Distinct")

Aggregate(c) == ReadAll(c, "Aggregate")

(* The request fails; the error of the count of Find is not wrapped.        *)
ReadFails(c) ==
  /\ Fault
  /\ \E kind \in Kinds, e \in DriverErrors :
       /\ Begin(c, Reading(kind, NoOptions, {}), NoWrite, Asked(<<>>))
       /\ Return(c, IF kind = "Find" THEN e ELSE wrapMongoError(e))
  /\ UNCHANGED <<replicaSet, requests, seen, tags>>

-----------------------------------------------------------------------------
MayCall(c) == pc[c] = "idle" /\ calls[c] < MaxCalls

CallerNext(c) ==
  \/ WriteCall(c) \/ ExampleFindOne(c) \/ ExampleUpdate(c)
  \/ GiveUp(c) \/ FindQuery(c)
  \/ MayCall(c) /\ FindOneAndUpdate(c)
  \/ /\ MayCall(c) /\ c \in Readers
     /\ \/ FindCount(c) \/ Count(c) \/ FindOne(c) \/ FindCursor(c)
        \/ Distinct(c) \/ Aggregate(c) \/ ReadFails(c)

Next ==
  \/ \E c \in Callers : CallerNext(c)
  \/ Serve \/ Answer \/ Failover \/ ReplicaSetNext

Spec == Init /\ [][Next]_vars

-----------------------------------------------------------------------------
Returned(c, r) == pc[c] = "idle" /\ result[c] = r

(* No document has an ETag that is still to be calculated.                  *)
TagsInv == \A k \in DOMAIN log : \A i \in Ids : View(k)[i] <= etag

(* Nobody waits in vain: the request of a caller that waits is still to be  *)
(* served or answered, and what it wrote is in the log.                     *)
IInv ==
  /\ TypeOK
  /\ \A c \in Callers : pc[c] = "waiting" =>
       \E r \in requests : r.caller = c /\ r.call = calls[c]
  /\ \A r \in requests : r.at \in 0 .. Len(log)
  /\ TagsInv

(* With IsWriteConcernMajorityEnabled what a call returned nil for is never *)
(* lost, whatever primary fails when (driver.go:162-166).                   *)
AcknowledgedWritesStay ==
  \A c \in Callers : Returned(c, Nil) /\ done[c] # {} =>
    \E k \in DOMAIN log : log[k].by = <<c, calls[c]>>

(* What Must returns is true of the documents: nil when some were changed,  *)
(* ErrNoDocumentFound when none was, and none will be by a request that is  *)
(* still on its way (must.go:40-127).                                       *)
MustToldTrue ==
  \A c \in Callers : write[c].must =>
    /\ Returned(c, Nil) => done[c] # {}
    /\ pc[c] = "idle" /\ Is(result[c], ErrNoDocumentFound) =>
         done[c] = {} /\ \A r \in requests : r.caller = c => r.call # calls[c]

(* In the log every ETag that exampleUpdate calculated replaces the one it  *)
(* was calculated of: no update is lost, with stale reads, other writers,   *)
(* late requests and failovers (CONVERT.md:351-377).                        *)
NoLostUpdate ==
  \A k \in 2 .. Len(log) : \A i \in Ids :
    LET old == View(k - 1)[i]
        new == View(k)[i]
    IN  new # old /\ new # 0 => base[new] \in {0, old}

(* A read delivers what its options ask for, in whatever order they are     *)
(* given. Find asks twice and others may write between: its total is the    *)
(* number of all documents when it counted, and the documents are the page  *)
(* of those there were when it queried, or, without a query, of those it    *)
(* counted (collection.go:77-167, options.go:5-61).                         *)
ReadsExact ==
  \A c \in Callers :
    LET f == find[c]
        expected == Expected(f.kind, asked[c], f.queried)
    IN  f.kind \in Kinds /\ Returned(c, Nil) =>
          /\ f.kind = "Find" => f.total = Cardinality(f.counted)
          /\ f.kind = "Count" => f.total = Cardinality(expected)
          /\ f.kind \notin {"Count", "FindOne"} => f.found = expected
          /\ f.kind = "FindOne" => f.found # {} /\ f.found \subseteq expected

(* FindOneAndUpdate reads and writes in one step, whoever else writes: the  *)
(* document it returned is the first that there was by its sort, as its own *)
(* write replaced it or, asked for After, left it, and that write stays     *)
(* (collection.go:134-149, options.go:50-52).                               *)
UpdatedAtomically ==
  \A c \in Callers : Returned(c, Nil) /\ write[c].op = "findAndUpdate" =>
    \E k \in 2 .. Len(log) :
      LET i == seen[c].id
          there == Existing(View(k - 1)) \cap write[c].ids
          returned == IF asked[c].returnDocument = "before" THEN k - 1 ELSE k
      IN  /\ log[k].by = <<c, calls[c]>>
          /\ i \in Expected("FindOne", asked[c], there)
          /\ seen[c].tag = View(returned)[i]
          /\ View(k)[i] # View(k - 1)[i]

(* A caller can tell every error it is given: it is ErrDisconnect or        *)
(* ErrNoDocumentFound, or IsTimeout or IsServerErr knows it, and one of     *)
(* these only.  Two are known to none of the predicates: the error of the   *)
(* count of Find (collection.go:99), and one that exampleUpdate has wrapped *)
(* (CONVERT.md:361, 373), as both look at the outermost layer alone.        *)
ErrorsRecognised ==
  \A c \in Callers : pc[c] = "idle" /\ result[c] \notin {NoResult, Nil, BadObjectVersion} =>
    LET err == result[c]
        tells == <<Is(err, ErrDisconnect), Is(err, ErrNoDocumentFound), IsTimeout(err), IsServerErr(err)>>
        known == Cardinality({n \in 1 .. 4 : tells[n]})
        outside == find[c].kind = "exampleUpdate" \/ (find[c].kind = "Find" /\ find[c].total = 0)
    IN  /\ outside => ~IsTimeout(err) /\ ~IsServerErr(err)
        /\ ~outside => known = 1

(* exampleUpdate returns an error when it could not write the object, nil   *)
(* when it has (CONVERT.md:369-376).                                        *)
NilMeansWritten ==
  \A c \in Callers : Returned(c, Nil) /\ write[c].op = "update" => done[c] # {}
=============================================================================
