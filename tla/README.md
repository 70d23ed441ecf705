# Verification of the modular monolith

TLA+ models of the item service, its event bus, its sessions and its two processes,
checked with TLC, and proofs of their safety properties for instances of any size,
checked with TLAPS.

The repository is a Go template for a modular monolith with one bounded context,
*item*. Two processes run it: `cmd/api` serves HTTP, writes PostgreSQL and
forwards events; `cmd/worker` consumes events and warms a Redis cache. What can
go wrong here goes wrong between processes, statements and goroutines: an event
without its row, a message acknowledged too early, a cache entry that outlives
its item, a shutdown that pulls the connection away from a running handler.

## Inventory

| component | state it keeps | operations | talks to |
|---|---|---|---|
| item repository (`.../postgres/item_repository.go`) | `item.items` rows | Save, GetByID, FindByOrgID, Update, Delete, Exists | PostgreSQL; Save publishes through the EventBus in its own transaction |
| EventBus (`pkg/events/watermill.go`) | queue and topic tables with one offset per consumer group; in the process: subscriber, forwarder, WaitGroup, error channels | StartForwarder, NewTxPublisher, Publish, Subscribe, Close, Ping | watermill, watermill-sql (external) |
| item service (`item_service.go`) | none | Create, GetByID, List, Delete; a goroutine per cache miss | repository, item cache |
| item cache (`pkg/cache/item_cache.go`) | Redis hash `item:{org}:{id}` with a TTL | Get, Set (HSET, EXPIRE), Delete | Redis |
| worker (`cmd/worker/main.go`) | none | the `item.created` handler, the error reader, shutdown | EventBus, item cache |
| API (`cmd/api/main.go`) | none | start-up, routes, shutdown | everything |
| sessions (`pkg/auth`) | Redis key `session:{id}`, cookie | New, Save, RequireAuth | Redis |
| request pipeline (`pkg/httpx`, `pkg/validator`, `pkg/errhttp`, `post_item.go`) | none | decode, validate, create, map errors to statuses | item service |
| health (`pkg/httpx/health.go`) | none | three pings under one deadline | database, Redis, EventBus |
| config, telemetry, logger, migrator, Temporal client | – | start-up and observability | – |

How they interact. `Save` inserts the row and, through `NewTxPublisher`, the
event into `_forwarder_queue` in one transaction. The Forwarder of an API
process moves queued events to the topic `item.created`, at least once. The
subscriber of a worker hands each to the handler, which writes the cache.
`GetByID` reads the cache, falls through to PostgreSQL, and leaves a goroutine
behind that writes the cache; `Delete` deletes the row and then the key.

Hard behaviours: crashes between publish and commit, redelivery of whole batches,
deliveries that outlive the lock of their batch, two writers
and a deleter racing on a cache key, cancelled backoffs, a full error channel, a
bounded wait at shutdown, closing steps that fail or come in the wrong order,
overlapping requests of one session, pages read while rows come and go, deadlines
that pass between an answer and its delivery. `PROJECT.json` lists each as a hazard
with its line and the properties that cover it.

What makes each component correct:

- write path: row and event together or neither; replies true; nothing
  acknowledged before its work is done; older events behind newer ones only as
  copies; at-least-once in the end;
- EventBus: offsets only pass handled messages; Close drains or times out and
  always returns; unread errors never stop a subscription;
- read path: tenants never see each other's items; invalidation works unless it
  failed or a writer was late; keys have a TTL; staleness ends;
- sessions: no browser gets another's values; a logged out session stays logged out;
  one request after the other loses nothing;
- item table: a caller who pages while others write misses and repeats nothing he
  should not; page and total belong together;
- request pipeline: stored if and only if legal; every status true; an answer in time
  or none;
- processes: what a job uses is open while it runs; everything that was opened is
  closed; a signal ends the process;
- health: 503 blames nobody without a cause, and an answer always comes.

## Modules

| module | models | correspondence |
|---|---|---|
| `ReliableEvents` | the abstract promise of the outbox | `Commit(e)`: change and event in one step; `Deliver(e)`: a consumer has processed it. Fairness: every committed event is delivered |
| `ConsumerGroup` | the abstract promise of a reader of a message table | `Work`, `Acknowledge`: `front` moves over a message only after its work was done in this delivery; `Return`: at the end of a batch the committed `offset` follows, or `front` falls back to it |
| `ItemOutbox` | Save to handler, across processes | `pc[r]` is where a Save call stands in `WithTx`; `rows` is `item.items`; `outbox`/`outboxAcked` the queue table and the offset of `forwarder-consumer`; `topic`/`topicAcked` those of `item.created`; `fwdHolder`, `subHolder` who holds the lock on an offset row, `fwdAt` and `fwdLast` (`subAt`, `subLast`) how far the batch is acknowledged and where it ends, `fwdLate`, `subLate` the deliveries that go on without the lock |
| `EventBus` | the goroutines of one bus | `loop[s]` is the program counter of the goroutine that `Subscribe` starts (`range`, `handle`, `backoff`, `ack`, `nack`, `report`, `exited`), `attempt` and `delay` the locals of `retryWithBackoff`, `held` the message in hand; `last`, `acked` and `offset` are the library's: the end of the batch, its acknowledged part, and the committed offset; `main` the main goroutine inside `StartForwarder` or `Close` |
| `ItemService` | GetByID, Delete, cache writers | `at[c]` is the next statement of a call, `writing[w]` the next Redis command of a `Set`, `cache[k]` a key that is absent, has a TTL (`expiring`) or has none (`eternal`) |
| `ItemTable` | the SQL statements of the item table, and List called page after page | `state[i]`, `item[i]` are the rows; `at` is where a List stands between its two SELECTs, `offset`, `limit` the caller's `QueryOpts`, `Int32` the conversion of `FindByOrgID`, `Sorted` every order that `ORDER BY created_at DESC` allows |
| `SessionStore` | `RedisStore.New`, `Save`, `RequireAuth` | `store` is Redis, `jar` the browsers' cookies; `at[r]` is the next Redis command of a request, `sid[r]` and `vals[r]` its `session.ID` and `session.Values`. A value is represented by the request that put it there |
| `PostItem` | one `POST /api/item` through the middleware stack | `at` walks from the rate limiter through decoding, validation, Create, the statements of Save (`save`, `publish`, `commit`), the answer and the way back out (`unwind`, `log`, `recover`, `flush`); `wrote` is the status net/http keeps, `noted` the one the logger's `responseWriter` keeps, `got` what the client sees; `late` and `expired` say that the server's write deadline and, started a moment later, the handler's own have passed |
| `Lifecycle` | `main` of both processes | `pending` holds the remaining steps of start-up in the order of the source, `todo` the deferred calls, `open` what is open, `job[j]` a request or event handler under way |
| `Health` | `HealthHandler` and the three pings | `at` is the dependency whose turn it is, `resp` and `status` the answer, `cond` what the dependencies are like at this moment |
| `<module>Proofs` | theorems about `ItemOutbox`, `EventBus`, `ItemService`, `ItemTable`, `SessionStore`, `PostItem`, `Lifecycle`, `Health` | – |
| `MC*` | TLC instances: symmetry sets, and the names that `PostItem` is tried with | – |

Composition. `ItemOutbox` implements `ReliableEvents` (`KeepsPromise`, and the theorem
`ImplementsPromise`). `ItemService` abstracts the write path to what follows from
`ItemOutbox`: a Create makes its item and the event one step (`AtomicOutbox`), and the
worker takes events of created items only (`NoPhantomDelivery`), at any time and any
number of times. `EventBus` details the subscriber of `ItemOutbox`: both implement
`ConsumerGroup`, the goroutine with its batches, retries, cancelled waits and Close
(`SubscriptionsAreGroups`) and the subscriber that may crash and is restarted
(`SubscribersAreOneGroup`), and so does the forwarder (`ForwardersAreOneGroup`). The
retries of one delivery are one `HandlerSucceeds` or `HandlerExhausted` of `ItemOutbox`; a
closing bus, a deadline of the library and a lost connection are `SubscriberLapses`.
`Lifecycle` takes from `EventBus` that Close waits for handlers and for how long, and puts
it among the other closing steps of `main`. `PostItem` has the Save of `ItemOutbox` for
one request, with the context that each of its statements has or lacks.

Operators that no action uses (`AckAndGoOn`, `GiveUp`, ...) stand before the
definition they would replace. Each is a plausible mistake; substituting it must
break the property that `PROJECT.json` pairs it with.

### Abstractions

- Identifiers, names and payloads are members of small sets; an item is immutable
  after Create because no service operation calls `Update`.
- PostgreSQL, watermill, Redis and `pkg/database` (which the repository does not
  contain) are external and modelled from their use: a transaction is atomic and
  isolated, a unique key makes the second INSERT wait, a message that is not acknowledged
  comes back. That the subscribers of `DefaultPostgreSQLSchema{}` lock their group's
  offset, read up to 100 messages, hand them out one at a time and commit the offset once
  per batch is watermill-sql's behaviour, which the repository relies on by leaving
  `SubscribeBatchSize` unset.
- Batches of 100 are scaled to `BatchSize = 2`; the proofs hold for every size.
- Who loses the lock on an offset need not know: a publish or a handler under way goes on
  (`LatePublish`, `LateHandler`), alone if the library stopped waiting for it, with the
  rest of the batch if the connection is lost. `LateHandler` allows more than the loop
  does, which would finish a late message before it begins another. In `EventBus` the bus
  is the only member of its groups.
- The queue is ordered by commit. PostgreSQL orders by transaction id among
  transactions that have ended; the properties only need that the order in which
  the forwarder reads is one fixed order.
- A crash and the restart after it are one step. A graceful shutdown that
  leaves a message unacknowledged looks the same to the database.
- Time does not pass in seconds: a deadline may strike at any moment at which it
  is being waited for. Only `delay` counts seconds, because two properties ask.
- Numbers that only matter at a boundary are scaled: an int32 has `2 * Half = 16`
  values, a name has 3 to 4 characters instead of 3 to 255. A name is a sequence of
  six kinds of runes: letters of one byte and of several, blanks, no-break spaces
  (white, two bytes), tabs (white and control) and NULs (control).
- CORS and security headers, the texts of responses and log lines, and the inside of
  the rate limiter (it may answer 429 to anybody) are left out.

## Runs

Every bound is a constant of the `.cfg`. Deadlock is not checked anywhere: all
calls may have been made, and a closed bus or an ended process stops.

| run | asks | bounds |
|---|---|---|
| `ItemOutbox` | rows, events, replies and offsets stay consistent; order from the queue to the handler; at-least-once; refinement of `ReliableEvents` | 2 calls of one key (so that they collide, or follow each other when the first item is deleted), 2 API processes, 1 worker, batches of 2 (so that one fault repeats two events), 1 crash, lapse, nack or exhausted delivery. The proofs cover the safety half for any number |
| `EventBus_safety` | acknowledgements and shutdown | 2 subscriptions of 3 messages in batches of 2, forwarder, 3 attempts as in the code, 3 faults (failed handler, lapse, lost commit): exactly one exhausted delivery, error channel of 1 |
| `EventBus_liveness` | Close and StartForwarder return; redelivery; unread errors | 1 subscription of 3 messages in batches of 2, forwarder, 6 faults: two exhausted deliveries fill and overflow the error channel |
| `EventBus_backoff` | a comment the code does not keep | 1 subscription, 4 faults |
| `ItemService` | isolation, invalidation, TTL; staleness ends | 3 calls (a getter against two deleters, or two against one), 2 orgs, 1 item, 1 fault. Items share nothing but the worker, so one is enough |
| `ItemService_delete_final` | a comment the code does not keep | 3 calls, no fault |
| `ItemTable` | paging while others write; page and total | 3 rows of 2 orgs, 3 creation times (so that ties occur and can be avoided), limits 1 and 2 and one (12) that is negative as int32, offsets 0 and one (16) that is 0 as int32 |
| `SessionStore` | isolation, logout, cookies | 4 requests of 2 browsers, 3 IDs, 2 faults; production keys of 15 (refused by main), 20 (accepted by main, refused by AES) and 32 bytes |
| `SessionStore_failed_load` | a comment the code does not keep | 1 browser, 2 requests, 1 fault |
| `PostItem` | validation, statuses, logging, deadlines | every name of up to 4 runes and those of letters with 5 (one too many), five kinds of bodies, any outcome of each statement of Save, a panic at any step |
| `Lifecycle` | opening, closing, exits | both processes, 3 jobs, every step of start-up and closing may fail, a signal at any moment |
| `Health` | blame, and an answer | the 3 dependencies, each of 3 conditions, 2 changes of them |

What the failing runs show:

- `EventBus_backoff`: three calls, two retries, waits of 1 s and 2 s; the comment
  of Subscribe promises three retries after 1 s, 2 s and 4 s.
- `ItemService_delete_final`: a getter misses the cache, reads the row, a Delete
  runs to its end, the getter's goroutine writes the cache, and a new GetByID finds
  the deleted item. `InvalidationWorks` and `StaleFadesOut` say what does hold.
- `SessionStore_failed_load`: `New` takes every error of `load` for a missing key
  but keeps the ID, so after a GET that failed the next Save replaces the stored
  values by the one request's.

The passing properties are stated so that they are true of the code; their exceptions
are the places where it does less than one might read into its comments:

- `DrainedOrTimedOut`: after 30 s Close returns over running handlers. Close's own
  comment says so; Subscribe's says that all complete before Close returns.
- `FirstCopiesInOrder`: the topic keeps the queue's order only for the first copies. A
  forwarder that dies after publishing e1 and e2 and before its batch is committed leaves
  e1, e2, e1, e2; one that publishes late, e1, e2, e1. No property counts the copies: one
  fault may repeat a whole batch, and the handler is idempotent.
- `HonestReply`: `NewItem` draws a fresh UUID, so "exists" takes a collision of UUIDs (or
  another caller of the repository).
- `EternalOnlyIfTorn`: HSET and EXPIRE go through `Pipeline()`, which is no
  transaction, so a key without a TTL is visible between them and stays if the
  pipeline is cut; Set's comment says "atomically".
- `DeletedForGood`: two Deletes that overlap can both answer nil.
- `SweepIsExact` assumes different creation times: `ORDER BY created_at` alone
  leaves the order of equal ones to PostgreSQL, so that consecutive pages may repeat
  one row and miss another even if nobody writes.
- `ListIsConsistent`: an offset of 2^32 becomes 0 in the conversion to int32 and skips
  nothing, and the total may be smaller than what the page shows.
- `CleanLogoutIsFinal` assumes that DEL succeeds (its error is dropped) and that no
  other request has a copy of the session, whose Save would bring it back.
- `CookieHasSession` is all that is left of a session under a key that main accepts
  but AES does not (`ValidateForProduction` asks for 16 bytes or more; the default
  key for development has 29): every Save stores and then fails.
- `ValidatorsAgree`: the upper limit of a name is the smaller of one in characters
  and one in bytes. A request that was parsed and whose name or owner is illegal gets its
  422 (as far as the handler is concerned; if it is late the client sees nothing) unless
  the rate limiter answers first or something panics.
- `EveryRequestEnds`: `publishCreated` gives its message no context, so a database that
  hangs at the INSERT of the event holds the request, and the row its transaction has
  inserted, for as long as it hangs. Every other statement of Save ends with the request's
  deadline.
- `HonestStatus` only says that no 4xx hides a stored item; a body over the limit is
  answered 400, where the middleware's comment asks for 413.
- `AnswersComeInTime`: WriteTimeout and the handler's deadline are both 30 s, so the
  504 of the Timeout middleware never reaches a client.
- `LogIsTrueInTime`: a request whose deadline has passed is logged as 504 whatever was
  written, and one that panics is not logged at all.
- `ShutdownSpoilsLittle` is about what `main` spoils. The worker closes Redis before the
  bus, so an event that is handled in between is acknowledged without having warmed the
  cache (`cold`). The same happens whenever Redis fails, as the handler logs and drops
  every error of Set (`missed`): warming is best effort.
- `CleanExitClosesAll`: a deferred call that closes several things stops at the first
  error (`EventBus.Close`, the shutdown function of telemetry).
- `BlameHasCause`: a slow dependency uses up the deadline of those behind it, which
  are then reported unreachable without having been asked.

### Fairness

`ItemOutbox`: weak fairness of taking, publishing, handling and acknowledging, as
both daemons poll for as long as their process runs and crashed processes come
back; none of calling Save, failing or crashing. A handler that is called returns:
`handleItemCreated` only unmarshals and makes one Redis call with timeouts.
`EventBus`: weak fairness of the library, the runtime and the bus's own code;
none of the handler (so Close is checked with a handler that hangs), and none of
reading errors or of calling Close. `LoopComesBack` and `EveryMessageHandled` assume
`HandlersReturn` in addition and say so. `ItemService`: calls and writers that run go
on and Redis expires keys; none of starting a call. `PostItem`: the process runs and
time passes; the database may never answer a statement of Save. `Lifecycle`: `main` goes
on and its time limits pass; requests and handlers may hang, and no signal has to come.
`Health`: the handler goes on and time passes; only a dependency that is up has to
answer a ping. `ItemTable` and `SessionStore` have safety properties only. Faults are
finite (`MaxFaults`): no liveness property could hold of a system that fails for ever.

## Proofs

Every safety invariant that a run checks is also a theorem, for every value of the
constants: any number of calls, orgs, items, processes, subscriptions, messages, rows,
browsers, jobs and faults, any limits of a name, any width of an int. The module
`<module>Proofs` holds the theorems of `<module>`.

| module | theorems | states |
|---|---|---|
| `ItemOutbox` | `TypeCorrect`, `OutboxIsAtomic`, `RepliesAreHonest`, `NothingIsSkipped`, `FirstCopiesKeepOrder`, `HandlersKeepOrder` | the invariants of run `ItemOutbox` |
| | `NoPhantoms` | handlers see committed items only |
| | `ImplementsPromise` | `SafeSpec => Promise!SafeSpec`: the mechanism implements `ReliableEvents` |
| | `ForwardersAreOneGroup`, `SubscribersAreOneGroup` | both readers implement `ConsumerGroup`, batch by batch, whoever crashes or lapses |
| `EventBus` | `TypeCorrect`, `NothingSkipped`, `CloseDrains` | the invariants of run `EventBus_safety` |
| | `OffsetMovesOverHandled` | an action property: a committed offset never goes back and moves on by a batch at most, over messages that were handled before the step |
| | `BackoffIsShort` | what is kept of Subscribe's comment |
| | `SubscriptionsAreGroups` | the goroutine of Subscribe implements `ConsumerGroup` |
| `ItemService` | `TypeCorrect`, `TenantsAreIsolated`, `DeleteInvalidates`, `OnlyTornKeysStay`, `DeletedOnce` | the invariants of run `ItemService` |
| | `GhostsAreExplained`, `StaleAnswersAreExplained` | what is kept of Delete's comment |
| `ItemTable` | `TypeCorrect`, `SweepsAreExact`, `ListsAreConsistent` | the invariants of run `ItemTable` |
| `SessionStore` | `TypeCorrect`, `SessionsAreSeparate`, `CookiesHaveSessions`, `LogoutsAreFinal`, `NothingIsLost` | the invariants of run `SessionStore` |
| | `LossesAreExplained`, `UselessKeysLockOut` | what is kept of New's comment; what a key does that main accepts and AES refuses |
| `PostItem` | `NamesAreJudgedOnce`, `StatusIsHonest`, `NobodySees504`, `LogIsTrue` | the invariants of run `PostItem` |
| `Lifecycle` | `JobsAreServed`, `ShutdownIsMild`, `CleanExit` | the invariants of run `Lifecycle` |
| `Health` | `StatusCanBeTrusted`, `BlameIsFair` | the invariants of run `Health` |

Each module has the theorem `Invariance`, `Spec => []IInv` (of `SafeSpec` where there is
one), and a lemma per action or per part of `IInv`; the other theorems follow from it.
TLC checked every `IInv` on the instance of its run before it was proved, and so it did
the properties that are theorems without being in a run (`NoPhantomDelivery`,
`GhostsHaveCause`, `StaleAnswersHaveCause`, `BackoffUsesUpRetries`,
`LossHasCause`, `UselessKeyLocksOut`) and their strengthenings.

### What the code keeps of three comments

For each comment that a run refutes there is a theorem of what the code does keep, so
that nobody has to guess from one counterexample how far the comment can be trusted.

| comment, and the run that refutes it | what is proved instead |
|---|---|
| Subscribe: three retries after 1 s, 2 s and 4 s (`EventBus_backoff`) | `BackoffUsesUpRetries`: unless the context is cancelled a message is given up after exactly `maxRetries` calls; with three that is two retries, after 1 s and 2 s |
| Delete: removes the item (`ItemService_delete_final`) | `GhostsHaveCause`: a GetByID that begins after a Delete has answered nil finds the item only under a key whose DEL failed or never came, or that a writer (of an earlier GetByID, or the worker) set when the row was gone. `StaleAnswersHaveCause`: the same of any GetByID, except while a Delete has yet to send its DEL |
| New: only a missing or expired key makes a new session (`SessionStore_failed_load`) | `LossHasCause`: a save takes values from a stored session only if the load of its own request failed, or if its browser has had several requests under way at once |

### Assumptions

The theorems rest on the named `ASSUME` of their module, which TLC evaluates in every
run: bounds are natural numbers; `None` and `Worker` are nothing they stand beside (in
`SessionStore` also no set of requests, because Redis holds either); the sets of the
table's columns are not empty and there are finitely many IDs (`ItemTable` counts rows);
names are sequences of the six kinds of runes; `MinName` is not 0.
`EventBusProofs!TypeCorrect` has one more hypothesis, that powers of two double: the
provers know no law of exponentiation, and the delay is `2 ^ (attempt - 1)`. The rest of
EventBus' types is part of `Invariance` and needs no such thing.

### Inductive invariants

Hardly any of the properties is inductive. What `IInv` adds is why they hold:

- `ItemOutbox`. `CallInv`: a call in `stored` has committed, one that is about to is not
  in `stored` yet (hence uniqueness), and the row that refuses an INSERT belongs to a
  stored call with the same key. `ForwarderInv`: the topic holds only queue entries, and
  whoever is to publish one, with the lock or without, finds all that were queued before it on the
  topic already; so only a copy can come late. `SubscriberInv`: whoever is to handle a
  message, with the lock or without, comes after all those before it on the topic have been
  handled. With `FirstCopiesInOrder` that makes what is handled a beginning of the queue.
- `EventBus`. `BatchInv`: offset, acknowledged part and end of a batch follow each other
  within `BatchSize`. `LoopInv`: all messages before the one in hand have been handled, even
  if it comes from a batch that was taken back, and the library waits only for the first
  message that is not acknowledged, so that a late Ack finds nobody waiting.
  `DrainedOrTimedOut` needs only the types: once `main` is closing nothing
  starts any more. `BackoffInv` counts out the first three delays, so that
  `BackoffIsShort` needs no law of exponentiation.
- `ItemService`. `CallInv`: past Exists a call's item belongs to its org, at DEL the row
  is gone; `LateInv`: a Delete that began after another's success is stopped by Exists;
  `KeyInv`: keys are those of created items under their owners. `InvalidationWorks` and
  `EternalOnlyIfTorn` are inductive with these. `GoneInv`: once a Delete has answered nil
  its item is only cached under a key marked as uncertain.
- `ItemTable`. If no two items are equally old, an item's place in every page order is
  its rank, the number of rows not older. `NoRepeat`: without inserts ranks only fall, so
  whoever has been shown stays before the offset. `NoLoss`: without deletes ranks only
  rise, so whoever has not been shown stays behind it. The lemmas on `Int32` say that a
  full page keeps the next offset the same after the cut to int32 or makes it negative,
  which PostgreSQL refuses; this is where a sweep could silently start again. `CountInv`:
  the drift is what makes page and total agree.
- `SessionStore`. `OwnerInv`: an ID is only carried by requests of one browser;
  `ValueInv`: a value is stored only under the ID of the request that put it there;
  `CookieInv`: a session is stored before its cookie is encoded; `CleanInv`: the one
  active request of a browser without overlap, fault, expiry or logout has exactly what
  is saved. `OverlapInv`: two requests of a browser under way have been noted; `CopyInv`: a
  request past its load has all that is stored under its ID, unless its load failed or its
  browser overlaps; `LockInv`: under a key AES refuses nothing is loaded, so every session
  is empty when its handler begins.
- `PostItem`. `DownInv`: what is known of a request on its way down; `StatusInv`: what a
  status says is so when it is written; `TimeInv`, `LogInv`: what the server and the
  logger note. Lemma `RulesAgree`, that the tags, `NewItemName` and `ValidateName`
  together are `LegalName`, is proved for names of any length; TLC tries those of up to
  five runes.
- `Lifecycle`. `BootInv`: the steps of main that are left and the closing steps that are
  deferred are ends of two fixed sequences, so their lengths say what is open; `CloseInv`:
  what is open is still to be closed or has an excuse, and past the wait of EventBus.Close
  nobody is under way unless it has given up.
- `Health`. `TurnInv`, `BlameInv`: what can be said of a dependency before, in and after
  its turn.

What the proofs taught about the models: `ItemService`'s `writes` had no type; a logout
is the only request that reaches DEL, which `LogoutsAreFinal` needs and nothing said; the
sets of values in `SessionStore` have to differ from `None`; and `Lifecycle!CloseFails`
removed the rest of a deferred call with the recursive `SelectSeq`, of which nothing can
be proved: it now cuts the sequence at the end of that call, which is the same thing.
With batches, the position of a consumer group could no longer stand for its offset:
`ConsumerGroup` has had to tell the two apart.

### Only model-checked

- All liveness (`EveryCommitHandled`, the fairness half of `KeepsPromise`, `CallsReturn`,
  `LoopComesBack`, `EveryMessageHandled`, `StaleFadesOut`, `EveryRequestEnds`,
  `SignalEndsProcess`, `HealthAnswers`): it needs ENABLED, which is out of the provers'
  reach.
- That three comments are not kept: TLC finds a counterexample. What is kept instead is
  proved.
- That the mutants of `PROJECT.json` break their properties.

## Not modelled

- Migrations: the files are handed to goose, an external tool, once per deployment.
- The Temporal client: every use of it is commented out.
- `pkg/database` is not in the repository; `WithTx` is modelled from its use in Save.
- Configuration other than the rule for the encryption key: read once, at start-up.
- What is written to logs, traces and metrics, apart from the request logger's status.
- `EventBus.Publish` outside a transaction and trace propagation: nobody calls the
  former, and the latter changes no state.
- Idempotency of POST: the API has no idempotency key and promises none, so a client
  whose answer is lost and who posts again stores two items.

## Plan

1. The modules above – done.
2. A theorem for every safety invariant, and the refinements of `ReliableEvents` and
   `ConsumerGroup` – done.
3. What the code keeps of the three comments, as action properties and invariants with
   theorems; order from the queue to the handler – done.
4. Left: a specification of an orderly close that `EventBus` and `Lifecycle` both refine
   (today `Lifecycle` takes over the closing steps of `EventBus` by definition), and several
   buses in one consumer group of `EventBus`, as `ItemOutbox` has them.
