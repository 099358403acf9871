# TLA+ models and proofs for dp-mongodb

dp-mongodb is a Go library: a wrapper of the MongoDB driver (`mongodb/`), a
distributed lock on top of it (`dplock/`) and a health check (`health/`). It has
no server of its own. What can go wrong in it happens between goroutines,
processes and a database that answers late, twice or not at all; that is what the
modules here model.

## Inventory

| Part | State it keeps | Operations | Interacts with |
|---|---|---|---|
| `dplock.Lock` | closer channel, wait group, client and purger; per call: lockID, retries | `New`, `Init`, `Lock`, `Acquire`, `Unlock`, `Close`, the purger goroutine | mongo-lock over a collection shared by all processes; callers' goroutines |
| `MongoConnection.Close`, `graceful.shutdown` | a channel, a timer, a goroutine per call | `Close` | the context of the caller, the driver's `Disconnect`, the health checks on the same client |
| health checker (`health/`) | databases and collections to check; the status it reports to | `Checker` | `Ping` and `ListCollectionsFor` of the connection; collections that come and go |
| `MongoConnection.RunTransaction` | a session, a transaction | start, run the function, commit or abort, re-run | the driver, other writers of the same documents |
| `Collection`, `Must`, `findOptions` | none (the documents are MongoDB's) | find, count, distinct, aggregate, insert, update, upsert, delete, find-and-update, and the `Must` forms | MongoDB, other writers, `error.go` |
| errors (`error.go`) | none | `wrapMongoError`, `IsTimeout`, `IsServerErr` | all of the above |
| timestamps (`timestamp_utils.go`) | none (they change the caller's document) | add `$currentDate` entries, add timestamps to a query | update documents and what shares their maps |
| `MongoDriverConfig`, `Open` (`driver.go`) | configuration | build the URI and TLS configuration, connect, ping | the driver |

What makes each part correct, and what makes that hard:

- **Lock.** Two callers never hold one resource within its TTL; no caller loses its
  record within its TTL; calls return; abandoned records go. Hard because a lock
  request that answered with an error may still be applied, an `Unlock` may arrive
  after its caller gave up, the purger removes from a list that has aged, `New` drops
  the error of the index creation, and the lockID is made of the nanosecond within the
  second, which comes back.
- **Close.** It returns, with nil only when `Disconnect` has answered (perhaps with an error,
  which is only logged). Hard because a timer, a context and a channel are selected over, and
  the shutdown goroutine outlives the call whose channel it sends on.
- **Health.** OK and CRITICAL are true of some moment of the check, and a service that has
  lost its client says so. Hard because a check is several requests at several
  moments, and because `Close` disconnects the client under it.
- **RunTransaction.** All or nothing, once, and the result says which. Hard because
  functions are re-run, commits are sent again, and answers are lost.
- **Collection.** An update with an ETag never overwrites what it did not read; `Must`
  tells the truth; a read delivers what its options ask for; what was acknowledged
  stays; an error can be told from the others. Hard because of stale reads, weak write
  concern, late requests and failovers, and because errors are wrapped on some paths only.
- **Timestamps.** No timestamp that was asked for is forgotten, nothing the caller put in a
  `bson.M` is lost, no document changes that shares nothing. Hard because `$currentDate` maps are changed in place and shared.

The `hazards` of PROJECT.json list these one by one, with the line each bites at and the
properties that would catch it, or the reason why none does.

## Modules

Each module for TLC is named `MC...`, the modules of proofs `...Proofs`.
Operators whose comment begins "Mutant" are broken variants of the definition below them. No
module uses them: put in place of the definition, a run must find its property violated.

```
LockStore <- DpLock <- DpLockProofs -> LeaseRegistry <- LeaseRegistryProofs
ConnectionClose, Health <- Service <- ServiceProofs          Transaction <- TransactionProofs
ReplicaSet, FindOptions, Errors <- Collection <- CollectionProofs <- CollectionReadsProofs
Timestamps <- TimestampsProofs
RecursionProofs: used by TimestampsProofs and CollectionReadsProofs
```

### The lock: LockStore, DpLock, LeaseRegistry

`LockStore` is mongo-lock and its collection, external, as `dplock.go` uses them: a set
of records (`docs`), the unique index, requests that answered with an error but are still
on their way (`lateLocks`, `lateUnlocks`), the TTL (`expired`). An `XLock` is granted,
refused (`ErrAlreadyLocked`) or fails, applied at once, later or never. Time is a counter
of attempts, and `GenerateTimeID` is that counter modulo `NanosPerSecond`: the code takes
`time.Now().Nanosecond()`, the offset within the second.

`DpLock` (extends LockStore) is `dplock.go`. A `Lock` object per process, with its purger
goroutine (`purger`: purging, removing what it listed, in its select, done) and `life` (down, open,
closing, closed); callers with a program counter, the lease they were given and their
`retries`. One action runs a goroutine up to the answer of its next request or its next
select: `Lock`, `Acquire`, `AcquireRetry`, `AcquireAbort`, `Unlock`, `UnlockRetry`,
`UnlockAbort`, `Purge...`, `New`, `Close` (whose second call panics: the process dies),
`CloseReturn`, `Crash`. Timers may fire at any time.

`LeaseRegistry` is what a user of the lock is promised: leases granted one at a time on free
resources, removed by nobody while their holder has them and their TTL runs. `MCDpLock` and
`DpLockProofs` map `docs`, the leases of callers that hold, and `expired` to it.

### ConnectionClose, Health, Service

`ConnectionClose` is `connection.go:37-75` and `graceful.go`. Each call of `Close` has its
channel, timer, context and shutdown goroutine. The select is `Select` (some case is ready: any
of those, else the call parks) and, for a call that has parked, the wake-up by the step that makes
a case ready. A deadline passes (`DeadlinePasses`, the calls in `due`); from then on the timer may
fire and the context may end, in either order, and several cases may be ready before the
call comes to its select. What timer and context do is followed only as long as the call heeds them
(`Heeded`). A send on the closed channel ends the process.

`Health` is `health.go` with `Ping` and `ListCollectionsFor`: each call of `Checker` is a
ping, the list of each database in any order (Go's order of map keys) until one lacks a collection,
and the update of the shared status. A request succeeds only on a connected client and may
fail at any time. Collections are created, dropped one by one and with their database
meanwhile. The history variables `never`, `closed` and `trouble` say what was true all the
time, or at some time, since a call began.

`Service` composes the two on one `MongoConnection`: when `Disconnect` answers, with or
without anybody still waiting for it, the client is disconnected, unless it failed. `ChecksReport`
and `DisconnectShows` are about both.

### Transaction

`RunTransaction` with the function of the repository's example
(`exampleTransactionFunc`, `transaction_test.go:66-103`): one read, one or two writes,
each a step. `WithRetries` are the calls that go through the driver's `WithTransaction`.
The server (snapshots, write conflicts, expiry of transactions that were left open) and the
driver's retry loop are external. An outside writer stands for the test's interleaved
write.

### ReplicaSet, FindOptions, Errors, Collection

`ReplicaSet` is the cluster behind a collection, external, as `Open` configures the client:
a log of collection states, of which a prefix is held by a majority; `Readable` follows
`IsStrongReadConcernEnabled`, `Acknowledged` follows `IsWriteConcernMajorityEnabled`, a
failover cuts off what no majority holds. A document is its ETag; every write gives a new
one, and `base` remembers which ETag it was calculated of.

`FindOptions` is `options.go`: the options as data, `Apply` as what each function does
to a `findOptions`, `newFindOptions` as the fold over a list, and the `asDriver...`
conversions with what the driver makes of them. `Expected` is the reference: what a list asks of
each read, said without applying it in order. A list is of `FindOption`s: what the package can make,
without the negative offsets that the server refuses.

`Errors` is `error.go`: a Go error as the sequence of its layers, `wrapMongoError`, and the
two predicates, which look at the outermost layer only.

`Collection` (extends all three): every write of `Collection` and `Must`, and
`FindOneAndUpdate`, is one request (`WriteCall`, `FindOneAndUpdate`), which the server serves
document by document (`Serve`), answers (`Answer`, with `Outcome` for what `updateRecord` and
`Must` make of it) or never answers; the caller may have given up (`GiveUp`), and the request is
still served. `Find` is two requests, `FindCount` and `FindQuery`; `Count`, `FindOne`,
`FindCursor`, `Distinct` and `Aggregate` are one each (`ReadOnce`); `ReadFails` is a read whose
request fails. `ExampleFindOne` and `ExampleUpdate` are the ETag pattern that CONVERT.md:351-377
tells users to write in place of a lock.

### Timestamps

`timestamp_utils.go`: `withCurrentDate` on documents whose `$currentDate` is absent, a
`bson.M` or something else, a `bson.M` being a reference (`Maps`) that shallow copies of a document
share; the public functions as lists of keys for it (`KeysFor`); the query form, which binds
timestamps to prefixes in turn and panics at the first that is missing. A panic leaves what was
bound in the caller's document.

## Runs

| Run | Question | Distinct states |
|---|---|---|
| `lock_hostile` | Does the inductive invariant hold, and do exclusion and the refinement of `LeaseRegistry` where the index exists and no lockID came back, when requests, index and lockIDs may fail? | 1.4 M |
| `lock_live` | Is a lock exclusive, where index and lockIDs are sound? Do `Unlock` and `Close` return, and do abandoned records go, also those of a process that is gone? | 139 K |
| `lock_gives_up` | violated: `Acquire` blocks until the existing lock is released | |
| `lock_id_wrap` | violated: exclusion, when a lockID comes back | |
| `lock_no_index` | violated: exclusion, when `CreateIndexes` failed | |
| `service` | What do nil, an error and a panic of `Close` mean, and OK and CRITICAL of a check on the same client? Do both return, and does a lost client show? | 277 K |
| `close_panics` | violated: `Close` never ends the process | |
| `close_context` | violated: the error of a context that has ended comes before that of the timer | |
| `transaction` | What is committed, how often, and what does each result say of it? Do calls return, is what they leave open released? | 42 K |
| `collection` | Is no update by ETag lost, what was acknowledged kept, `Must` truthful, every read exact for every list of up to three options, `FindOneAndUpdate` one step, every error recognised? | 1.1 M |
| `etag_unmatched` | violated: nil from the ETag pattern means written | |
| `timestamps` | What is lost of what was asked for, and what changes when documents share a map? | 83 K |

Every property of a passing run has a mutant: a change a plausible bug would make to the
mapped code, under which the same run finds the property violated.

**Bounds.** `MaxCalls`, `MaxRuns`, `MaxWrites` and `MaxFaults` count calls, re-runs, versions
and faults; all guard actions and none is in the code. Two processes and one resource are what
every hazard of the lock needs: the records of different resources do not meet (lockIDs begin
with the resource). Three calls let one caller lock, lose its record and lock again; four
are needed to see a lockID come back. `NanosPerSecond` is 2 or 3, fewer than the attempts, in
`lock_id_wrap` and `lock_hostile`, where lockIDs come back in some behaviours and not in others, and larger
than the number of attempts where the wrap is not the question. In `lock_live` each of two
processes has one caller, and there are two faults to spend, so that the records of a process that
has died, or has lost its requests, are purged by the other. `lock_gives_up` has no faults and one process:
nothing but the retries can end `Acquire` there. Retry limits are 1 in place of
10 and 100: an attempt that may be repeated and the last; the proofs have any. Two documents let a request of many be cut short
between them; two callers and `MaxWrites = 5` give an update, one that overtakes it, and a late
one. `Readers` is the one caller that reads in `collection`: a read changes nothing that
another caller could meet, and the other caller writes meanwhile. `OptionLists` has every list
of at most three of seven options (limits -1, 0, 1 and 2, an offset, a sort, `IgnoreZeroLimit`);
`DriverErrors` has one error of each class that `error.go` tells apart. In `transaction` two calls,
one of each kind, and an outside writer conflict in every order, each with two runs and two faults
between them. `service` has a Close with a deadline and one without, and one check of two
databases, one of which expects a collection: it can come or go before, between and after the
two lists. One check is made again and again; for overlapping checks the safety properties are
proved, but that they report and that a lost client shows (`ChecksReport`, `DisconnectShows`) is checked of one
only: several share one status, and one that began before the client was lost may be the last to
update it. `collection` has write concern majority and weak read concern: reads go to any
state of the log, lagging or cut off later. That `NoLostUpdate` and `MustToldTrue` hold with any
combination of the two concerns is proved. In `timestamps` two documents, two namespaces, lists of up to two (`MaxPrefixes`) and two timestamps
(`MaxStamp`) let a prefix be named twice, timestamps run out, and a document share or not; of the
callers' own entries (`OwnKeys`) there are two, with keys of timestamps, that come in a `bson.M` or otherwise.

**Deadlock** is not checked: in each module every actor may stop, its bound reached.

**Fairness.** Weak fairness of the steps a goroutine can take alone, with requests that answer:
retries after a timer (`AcquireRetry`, `UnlockRetry`, `PurgeTimer`), the steps of a purge,
`Select` and `Return` of `Close`, its timer, a deadline that passes (`DeadlinePasses`) and the
context it ends, the steps of a transaction. A Go timer fires, a context with a deadline ends, and the driver's requests
end with their timeouts. `PurgeClosed` has strong fairness: the select of
`dplock.go:102` picks at random among its ready cases, so a purger that comes to it
again and again with the channel closed takes that case some time. TTLs elapse. The server ends a
transaction that has been left open. `Checker` is called on an interval by the health check library;
its ping ends within the five seconds `Ping` gives it, and its lists with the deadline of its
context, for the callers that have one (`Timed`): without one a list may take for ever. No
fairness is assumed of calls, crashes, faults, late requests or `Disconnect`.

## What the runs found

- `lock_id_wrap` (dplock.go:69): a lockID comes back within a TTL, the older holder's
  `Unlock` removes the newer one's record, and a third caller enters.
- `lock_no_index` (dplock.go:75): `New` drops the error of `CreateIndexes`; two callers lock
  one resource.
- `lock_gives_up` (dplock.go:140): `Acquire` returns `ErrAcquireMaxRetries` while the lock is
  held, where its comment (dplock.go:131) says that it blocks until the lock is released.
- `close_context` (connection.go:57): timer and context of a `Close` are both ready when its select
  picks, and it picks the timer's hardcoded error, which the comment above the timer
  (connection.go:45-47) means to rule out.
- `close_panics` (graceful.go:23): `Close` gave up and closed its channel; `Disconnect`
  answers, and the send panics.
- `etag_unmatched` (collection.go:261): an update whose ETag is outdated matches nothing, and
  `UpdateOne` returns nil: the pattern of CONVERT.md reports a write that was not made.
  With `Must` it does not (`MustToldTrue`).

Others are visible in the modules and have no run of their own:

- The answer to a commit may be lost: the error of `RunTransaction` does not mean that nothing was
  done (transaction.go:54).
- The documents `Find` returns can be more than the total it returns (collection.go:96 and 110).
- The error of the count of `Find` is returned without `wrapMongoError` (collection.go:99), and the
  pattern of CONVERT.md:361 wraps what it is given once more: neither `IsTimeout` nor `IsServerErr`
  knows either error. `ErrorsRecognised` says that all others are recognised.
- `FindOneAndUpdate` heeds `Sort`, `Projection` and `ReturnDocument` and ignores limits and
  offsets; `FindCursor` does not obey a zero limit as `Find` does (collection.go:139-167).
- `WithNamespacedUniqueTimestampQuery` panics with fewer timestamps than prefixes, after it has
  changed the query (timestamp_utils.go:98-104); with a nil query document it panics too, which is
  not modelled.
- A `$currentDate` that is not a `bson.M` (a `bson.D`, a `map[string]interface{}`) is replaced and what
  the caller had put in it is lost, where the comment says "creates or adds"
  (timestamp_utils.go:24-30). `OnlyForeignLost` says that nothing else is.

## Proofs

Checked by TLAPS for every value of the constants that the `ASSUME`s allow: any number of
processes, callers, resources, documents, databases and calls.

**DpLockProofs.** `Inductive` proves `Spec => []IInv`. Exclusion is not inductive: it
follows from the current holders having their records (`HoldersBacked`) and the index keeping records
of one resource apart (`IndexKept`). The former survives an Unlock or a purge only if nothing
on its way names a current holder's lockID (`LateUnlocksSpent`, `DoomedSpent`), and this
only while lockIDs tell leases apart (`LockIDsApart`), which holds until an attempt takes
one that is in use (`reused`). `TypeCorrect`, `Exclusion` (`GuardedExclusion`),
`LateRequestsHarmless` and `PurgesHarmless` follow. The proof has a lemma per action.

`Excludes` says it without the history: if `CreateIndexes` does not fail and no more attempts are
made than the clock has values, `MutualExclusion` holds. Nobody has a lock before the index is made
(`IndexFirst`), and every unlock that is on its way is of an attempt that lies behind (`IDsPast`).

**LeaseRegistryProofs, and the refinement in DpLockProofs.** `LeasesExclude`: in the registry of
leases, two holders of a resource within their TTLs are one. `Implements`: `DpLock` starts as the
registry does, and each of its steps that ends with the unique index in place and no lockID in use
taken again is a step of the registry, mapped, or leaves it alone. Besides `IInv` this needs
`NoneTold`: a lock request that is still on its way has no holder, so that its late arrival is the
grant of a lease to nobody. An Unlock maps to a `Yield` of its holder, with or without the record;
the death of a process to a `Yield` of all it held, the records left behind; a purge and a late Unlock
to a `Remove`, of a lease that nobody holds or whose TTL has elapsed. `ImplementsRegistry` is the
refinement of specifications (`Registry!Spec`) under the conditions of `Excludes`; `lock_hostile` checks the steps
as `Implements` states them.

**ServiceProofs.** `IInv` of `ConnectionClose` says what a parked call, its timer, its context
and its goroutine know of each other. From it: nil means that `Disconnect` answered
(`NilMeansAnswered`), and a panic follows only an error of `Close` (`PanicNeedsError`). `ServiceCloses`: the composition implements `ConnectionClose`,
so what is proved of `Close` holds with any checks beside it. `ChecksInductive` proves `HealthInv`
with `MissingNow` (nothing that is there now has been missing since a check began), which a
list that finds its collections needs: what it found leaves `never`, database by database, until
none is left. `OKTrue` and `CriticalTrue` follow.

**TransactionProofs.** `IInv` has a part for each call (`RunningInv`, `CommittedInv`,
`WrittenInv`) and one for the objects they share (`SeenInv`: a snapshot of the current version
is the current state; `HeldApart`: no two open transactions have written one object).
From it: `NilMeansCommittedOnce`, `FunctionErrorLeavesNothing`, `WritesTogether`,
`NothingOverwritten`.

**CollectionProofs.** `OptimisticUpdatesKept` proves `Spec => []NoLostUpdate` for every
configuration and set of writes. `TagInv` adds that no document has an ETag yet to be
calculated, so a new one has no history, and that inserts and upserts carry no ETag; a
failover keeps a prefix of the log, and a prefix of a log without a lost update has none.
`MustTellsTheTruth` (`MustToldTrue`) rests on `MustInv`: the hits of a request and what is
in `done` for its caller agree as long as the caller waits, a call has one request, and when it was
told that nothing was found this request is gone. `AcknowledgedKept` (`AcknowledgedWritesStay`, with
`IsWriteConcernMajorityEnabled`) rests on `StayInv`: what a waiting request has written is in the log up
to the place it remembers, an answer waits until the majority has come to that place, and a failover cuts
off behind it.

**RecursionProofs.** Three loops of the code are recursive functions of the models:
`newFindOptions` applies a list of options one by one, the query form of the timestamps binds prefixes
one by one, and `Update` puts in its keys one by one. The library's induction theorems take an operator,
which the provers cannot instantiate, so induction is stated here of sets: a non-empty set
of naturals has a least element (`LeastNat`, from the well-foundedness of `<`), a set that
contains 0 and with each number the next contains all (`UpTo`), and the recursion of any first value
and any step has a function (`Recurs`). What a loop computes is proved, for a list of any length, by
showing that the places up to which it has computed the right thing are such a set.

**TimestampsProofs.** `LosesOnlyForeign` (`OnlyForeignLost`), for all documents, maps and
namespaces: `withCurrentDate` adds to what a document asks for and removes nothing that was in a
`bson.M`, and the map it makes for a document that has none is one no document refers to, which there
is because there are as many maps as documents; what was elsewhere is in `foreign` until it is
asked for again. `PairsInOrder` (`QueryPairs`): a query that returns has, for each prefix, the
timestamp at its last place, and the call panics just when a timestamp is missing. `SharersAlone`
(`OnlySharersChange`) uses the same invariant.

**CollectionReadsProofs.** Four results, each with an inductive invariant that has a part per caller.

- `ReadsDeliver` (`ReadsExact`). Lemmas on `FindOptions`: after each option, each field of
  `newFindOptions` is that of the last option of its kind so far, or of the zero limit it obeys
  (`SettledBy`, `ZeroAt`); so the page of the fold is the page of `Expected`, sorted (`KeyOf`), skipped
  and cut off, whatever the list. `ReadOf`: between its count and its query `Find` knows the number it
  counted and its options, so its query returns the page they ask for of what there is by then. The
  number and the page may be of different moments.
- `UpdatesAtomic` (`UpdatedAtomically`, with `IsWriteConcernMajorityEnabled`). `UpdatedOf` follows one
  `FindOneAndUpdate` from call to answer: its request is the one that was sent (`SentBy`), is served
  whole in one step of the log (`UpdatedAt`), and that step is below the place its answer waits
  for, so that no failover takes it away. With a weaker write concern a failover may take it,
  which is why the condition is stated.
- `ErrorsTold` (`ErrorsRecognised`). `ErrorOf` says of every error a call has returned that just one
  of the predicates knows it, or that it is of the two paths left outside (the count of `Find`,
  `exampleUpdate`) and its outermost layer is not the package's `Error`, so that no predicate for
  errors of the server does.
- `WholeInvariant` (`IInv`). `Bounded` (calls, faults and versions keep to their bounds, and a caller that
  waits has its request) with `ReadInv` for the types of totals and `StayInv` for the log.

What the proofs assume of constants is what the code gives: options are those of the package
(`FindOption`); an error of the driver is not nil, not `ErrNoDocumentFound` and none of the package's
own `Error` type; documents and maps are finite, and no map is a set of keys.

**Only model-checked.** Liveness under fairness, which needs ENABLED: `UnlockReturns`,
`CloseReturns` and `StaleLocksPurged` of the lock, `CallsReturn` and `WritesReleased` of
transactions, `CloseReturns`, `ChecksReport` and `DisconnectShows` of the service. Every safety invariant and
every action property of the passing runs is stated by a theorem. That the violated
properties are violated is shown by their runs.

## Not modelled

- `GetConnectionURI`, `GetTLSConfig` and the rest of `Open`: formatting, certificates and I/O; the
  read and write concern it sets are constants of ReplicaSet. That `Open` leaves the client
  connected when its ping fails is listed as a hazard.
- `RunCommand` and the handles of `MongoConnection` (`Collection`, `d`, `NewLockClient`): a request
  or a value passed on.
- The order of the documents of a read: what is returned is a set, so of a sort the models see
  which documents come within the limit, not how they are arranged.
- `cursor.All` is one step, where a result of several batches is several. What results carry
  besides documents, totals and errors (counts, inserted `_id`s) is left out.
- `withCurrentDate`'s error: it needs a document type that no function of the package passes.
- Panics other than those of `Close` and of the timestamp query; logging, tracing, the generated
  mock and the component tests.

## Plan

Done, in this order: the lock, its abstract registry and its proofs; Close; transactions;
collections over a replica set; health checks composed with Close; timestamps; errors; the remaining
operations of collections; the proofs of the refinement, of `Must`, of acknowledged
writes and of the composition; the proofs of reads, of `FindOneAndUpdate`, of errors and of timestamps. Left:

1. Which paths of `RunTransaction` wrap what they return (transaction.go:38-60), listed as a hazard:
   Transaction tells errors apart by where they come from, and with `Errors` it could say what callers
   can tell of them.
2. Several batches of a cursor as several steps, over a log that grows meanwhile.
