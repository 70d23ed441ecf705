------------------------------ MODULE ItemOutbox ------------------------------
(***************************************************************************)
(* The write path of the item service, from ItemRepository.Save to the     *)
(* handler of the item.created event:                                      *)
(*                                                                         *)
(*   Save (API process): one transaction inserts the row and, through a    *)
(*     publisher bound to the same *sql.Tx, the event into the forwarder's *)
(*     queue;                                                              *)
(*   the Forwarder daemon (API process) moves queued events to the topic;  *)
(*   the subscriber (worker process) feeds them to the handler.            *)
(*                                                                         *)
(* Queue and topic are PostgreSQL tables, so they are immutable logs.  The *)
(* readers of a consumer group share an offset; whoever reads a batch      *)
(* locks its row, works the messages off one by one and commits the offset *)
(* once, at the end of the batch.  A reader that loses its lock in between *)
(* does not know it at once: what it has started may still happen, when    *)
(* another reader has long gone on from the committed offset.  A process   *)
(* may crash between any two steps.                                        *)
(***************************************************************************)
EXTENDS Naturals, Sequences

CONSTANTS
    Requests,   \* calls of Save; an event is named after the call it reports
    Ids,        \* primary keys of item.items
    Apis,       \* cmd/api processes
    Workers,    \* cmd/worker processes
    None,
    BatchSize,  \* messages a reader takes at once (the library's default is 100)
    MaxFaults   \* bound: crashes, lapses and failed deliveries in a behaviour

ASSUME OutboxAssumption ==
    /\ None \notin Requests \cup Apis \cup Workers \cup Ids
    /\ BatchSize \in Nat \ {0}
    /\ MaxFaults \in Nat

VARIABLES
    pc,          \* where each Save call is
    api,         \* the process that serves the call
    id,          \* the id of the item it saves
    reply,       \* what its caller was told
    rows,        \* item.items, committed: id -> the call that wrote the row
    stored,      \* history: calls whose transaction has committed
    outbox,      \* committed messages of the _forwarder_queue table
    outboxAcked, \* committed offset of the group forwarder-consumer
    fwdHolder,   \* the API process whose forwarder holds a batch
    fwdAt,       \* the last message of it that has been acknowledged
    fwdLast,     \* the last message of it
    fwdSent,     \* has the next message been published to the target topic?
    fwdLate,     \* deliveries that go on without the lock
    topic,       \* committed messages of the item.created table
    topicAcked,  \* committed offset of the group <service>-consumer
    subHolder,   \* the worker whose subscriber holds a batch
    subAt,       \* the last message of it that has been acknowledged
    subLast,     \* the last message of it
    subDone,     \* has the handler returned nil for the next one?
    subLate,     \* deliveries that go on without the lock
    handled,     \* events whose handler has returned nil at least once
    faults       \* faults so far

saveVars == <<pc, api, id, reply>>
fwdVars  == <<outboxAcked, fwdHolder, fwdAt, fwdLast, fwdSent, fwdLate>>
subVars  == <<topicAcked, subHolder, subAt, subLast, subDone, subLate, handled>>
dbVars   == <<rows, stored>>
vars     == <<saveVars, dbVars, outbox, fwdVars, topic, subVars, faults>>

\* A call holds an open transaction between its INSERT and COMMIT or ROLLBACK.
InTx == {"inserted", "published"}

InLog(log, e) == \E k \in 1 .. Len(log) : log[k] = e

Init ==
    /\ pc = [r \in Requests |-> "idle"]
    /\ api = [r \in Requests |-> None]
    /\ id = [r \in Requests |-> None]
    /\ reply = [r \in Requests |-> "none"]
    /\ rows = [i \in Ids |-> None]
    /\ stored = {}
    /\ outbox = <<>> /\ outboxAcked = 0
    /\ fwdHolder = None /\ fwdAt = 0 /\ fwdLast = 0 /\ fwdSent = FALSE /\ fwdLate = {}
    /\ topic = <<>> /\ topicAcked = 0
    /\ subHolder = None /\ subAt = 0 /\ subLast = 0 /\ subDone = FALSE /\ subLate = {}
    /\ handled = {}
    /\ faults = 0

Fault == faults < MaxFaults /\ faults' = faults + 1
-------------------------------------------------------------------------------
(* Batches of the watermill-sql subscriber, the forwarder's and the worker's. *)

\* SELECT ... LIMIT: the end of the batch behind an offset.
BatchEnd(offset, log) ==
    IF offset + BatchSize < Len(log) THEN offset + BatchSize ELSE Len(log)

\* Without its lock, process p still works on the messages first .. last, in order:
\* on one message when the library has stopped waiting for it, on the rest of the
\* batch when it has yet to notice that its connection is lost.
Late(p, first, last) ==
    {[by |-> p, fault |-> faults', at |-> n, last |-> last] : n \in {first} \cap (1 .. last)}

GoesOn(s) == {[s EXCEPT !.at = n] : n \in {s.at + 1} \cap (1 .. s.last)}
-------------------------------------------------------------------------------
(* ItemRepository.Save inside WithTx.                                        *)

\* WithTx opens a transaction for a call that arrived at process a.
Begin(r, a, i) ==
    /\ pc[r] = "idle"
    /\ pc' = [pc EXCEPT ![r] = "tx"]
    /\ api' = [api EXCEPT ![r] = a]
    /\ id' = [id EXCEPT ![r] = i]
    /\ UNCHANGED <<reply, dbVars, outbox, fwdVars, topic, subVars, faults>>

\* The call is over and its caller is told the outcome.
Finish(r, outcome) ==
    /\ pc' = [pc EXCEPT ![r] = "done"]
    /\ reply' = [reply EXCEPT ![r] = outcome]

\* An INSERT of a key that another open transaction has inserted waits for it.
WaitsForKey(r) == \E q \in Requests : id[q] = id[r] /\ pc[q] \in InTx

\* q.InsertItem: SQLSTATE 23505 rolls back and becomes ErrItemAlreadyExists.
InsertItem(r) ==
    /\ pc[r] = "tx"
    /\ ~WaitsForKey(r)
    /\ \/ /\ rows[id[r]] = None
          /\ pc' = [pc EXCEPT ![r] = "inserted"]
          /\ UNCHANGED reply
       \/ /\ rows[id[r]] # None
          /\ Finish(r, "exists")
    /\ UNCHANGED <<api, id, dbVars, outbox, fwdVars, topic, subVars, faults>>

PublishOutsideTx(r) ==
    /\ pc[r] = "inserted"
    /\ pc' = [pc EXCEPT ![r] = "published"]
    /\ outbox' = Append(outbox, r)
    /\ UNCHANGED <<api, id, reply, dbVars, fwdVars, topic, subVars, faults>>

\* publishCreated: the event becomes a message row of the same transaction, so
\* nobody sees it before the commit.
PublishCreated(r) ==
    /\ pc[r] = "inserted"
    /\ pc' = [pc EXCEPT ![r] = "published"]
    /\ UNCHANGED <<api, id, reply, dbVars, outbox, fwdVars, topic, subVars, faults>>

\* BEGIN, the INSERT, the publisher or COMMIT fails: the transaction rolls back.
SaveFails(r) ==
    /\ pc[r] \in {"tx"} \cup InTx
    /\ Finish(r, "error")
    /\ UNCHANGED <<api, id, dbVars, outbox, fwdVars, topic, subVars, faults>>

\* COMMIT makes the row and its message visible in one step.
CommitTx(r) ==
    /\ pc[r] = "published"
    /\ pc' = [pc EXCEPT ![r] = "committed"]
    /\ rows' = [rows EXCEPT ![id[r]] = r]
    /\ stored' = stored \cup {r}
    /\ outbox' = Append(outbox, r)
    /\ UNCHANGED <<api, id, reply, fwdVars, topic, subVars, faults>>

ReplyBeforeCommit(r) ==
    /\ pc[r] \in {"published", "committed"}
    /\ Finish(r, "created") \/ Finish(r, "error")
    /\ UNCHANGED <<api, id, dbVars, outbox, fwdVars, topic, subVars, faults>>

\* The caller learns of the commit, or the acknowledgement of COMMIT is lost
\* and an item that exists is reported as an error.
Respond(r) ==
    /\ pc[r] = "committed"
    /\ Finish(r, "created") \/ Finish(r, "error")
    /\ UNCHANGED <<api, id, dbVars, outbox, fwdVars, topic, subVars, faults>>

\* ItemRepository.Delete, a statement of its own; deletions publish no event.
DeleteItem(i) ==
    /\ rows[i] # None
    /\ rows' = [rows EXCEPT ![i] = None]
    /\ UNCHANGED <<saveVars, stored, outbox, fwdVars, topic, subVars, faults>>

SaveStep(r) ==
    \/ \E a \in Apis, i \in Ids : Begin(r, a, i)
    \/ InsertItem(r)
    \/ PublishCreated(r)
    \/ SaveFails(r)
    \/ CommitTx(r)
    \/ Respond(r)
-------------------------------------------------------------------------------
(* The Forwarder daemon that StartForwarder runs in every API process.       *)

\* One of them locks the offset and reads a batch.
ForwarderTake(a) ==
    /\ fwdHolder = None
    /\ outboxAcked < Len(outbox)
    /\ fwdHolder' = a
    /\ fwdLast' = BatchEnd(outboxAcked, outbox)
    /\ UNCHANGED <<saveVars, dbVars, outbox, outboxAcked, fwdAt, fwdSent, fwdLate, topic,
                   subVars, faults>>

\* Its router has the next message of the batch, and has not published it yet.
Forwards(a) == fwdHolder = a /\ fwdAt < fwdLast /\ ~fwdSent

SwallowPublishError(a) ==
    /\ Forwards(a)
    /\ fwdSent' = TRUE
    /\ \/ topic' = Append(topic, outbox[fwdAt + 1])
       \/ faults < MaxFaults /\ UNCHANGED topic
    /\ UNCHANGED <<saveVars, dbVars, outbox, outboxAcked, fwdHolder, fwdAt, fwdLast, fwdLate,
                   subVars, faults>>

ForwardAnyQueued(a) ==
    /\ Forwards(a)
    /\ fwdSent' = TRUE
    /\ \E k \in fwdAt + 1 .. fwdLast : topic' = Append(topic, outbox[k])
    /\ UNCHANGED <<saveVars, dbVars, outbox, outboxAcked, fwdHolder, fwdAt, fwdLast, fwdLate,
                   subVars, faults>>

\* The envelope is opened and its message published to the topic it names, in a
\* transaction of its own; if that fails without effect, the message is sent again.
ForwarderPublish(a) ==
    /\ Forwards(a)
    /\ fwdSent' = TRUE
    /\ topic' = Append(topic, outbox[fwdAt + 1])
    /\ UNCHANGED <<saveVars, dbVars, outbox, outboxAcked, fwdHolder, fwdAt, fwdLast, fwdLate,
                   subVars, faults>>

\* The publish takes effect but reports an error (a lost COMMIT): the message is nacked
\* and sent again in the same batch.
ForwarderNacks(a) ==
    /\ Forwards(a)
    /\ Fault
    /\ topic' = Append(topic, outbox[fwdAt + 1])
    /\ UNCHANGED <<saveVars, dbVars, outbox, fwdVars, subVars>>

\* The message is acknowledged once it has been published, and the next one is sent.
ForwarderAck(a) ==
    /\ fwdHolder = a
    /\ fwdSent
    /\ fwdAt' = fwdAt + 1
    /\ fwdSent' = FALSE
    /\ UNCHANGED <<saveVars, dbVars, outbox, outboxAcked, fwdHolder, fwdLast, fwdLate, topic,
                   subVars, faults>>

\* The lock is given up; what follows the committed offset will be read again.
ForwarderReleases ==
    /\ fwdHolder' = None
    /\ fwdAt' = outboxAcked' /\ fwdLast' = outboxAcked'
    /\ fwdSent' = FALSE

\* The whole batch is acknowledged: its transaction moves the offset and commits.
ForwarderCommit(a) ==
    /\ fwdHolder = a
    /\ fwdAt = fwdLast
    /\ outboxAcked' = fwdAt
    /\ ForwarderReleases
    /\ UNCHANGED <<saveVars, dbVars, outbox, fwdLate, topic, subVars, faults>>

\* The first message that is not on the topic yet, and the one that is out.
fwdNext == IF fwdSent THEN fwdAt + 2 ELSE fwdAt + 1
fwdOut  == IF fwdAt < fwdLast THEN fwdAt + 1 ELSE fwdAt

\* The library stops waiting for an acknowledgement (deadline, Close) and commits what
\* has been acknowledged; or the connection is lost and with it every acknowledgement of
\* the batch, COMMIT included.  The process lives, and so does what it has started.
ForwarderLapses(a) ==
    /\ fwdHolder = a
    /\ Fault
    /\ \/ outboxAcked' = fwdAt /\ fwdLate' = fwdLate \cup Late(a, fwdNext, fwdOut)
       \/ outboxAcked' = outboxAcked /\ fwdLate' = fwdLate \cup Late(a, fwdNext, fwdLast)
    /\ ForwarderReleases
    /\ UNCHANGED <<saveVars, dbVars, outbox, topic, subVars>>

\* A delivery without the lock publishes its message nevertheless.
LatePublish(s) ==
    /\ topic' = Append(topic, outbox[s.at])
    /\ fwdLate' = (fwdLate \ {s}) \cup GoesOn(s)
    /\ UNCHANGED <<saveVars, dbVars, outbox, outboxAcked, fwdHolder, fwdAt, fwdLast, fwdSent,
                   subVars, faults>>

\* An API process dies and is started again.  Its open transactions roll back, and
\* callers that have no reply yet never get one.  Its batch is released without a
\* commit; only an INSERT it has sent to the database may still take effect.
ApiCrash(a) ==
    /\ Fault
    /\ pc' = [r \in Requests |-> IF api[r] = a THEN "done" ELSE pc[r]]
    /\ fwdLate' = {IF s.by = a THEN [s EXCEPT !.last = s.at] ELSE s : s \in fwdLate}
                      \cup (IF fwdHolder = a THEN Late(a, fwdNext, fwdOut) ELSE {})
    /\ outboxAcked' = outboxAcked
    /\ IF fwdHolder = a
       THEN ForwarderReleases
       ELSE UNCHANGED <<fwdHolder, fwdAt, fwdLast, fwdSent>>
    /\ UNCHANGED <<api, id, reply, dbVars, outbox, topic, subVars>>

ApiStep(a) ==
    \/ ForwarderTake(a)
    \/ ForwarderPublish(a)
    \/ ForwarderNacks(a)
    \/ ForwarderAck(a)
    \/ ForwarderCommit(a)
    \/ ForwarderLapses(a)
    \/ ApiCrash(a)
-------------------------------------------------------------------------------
(* EventBus.Subscribe in a worker process; EventBus.tla details its loop.    *)

SubscriberTake(w) ==
    /\ subHolder = None
    /\ topicAcked < Len(topic)
    /\ subHolder' = w
    /\ subLast' = BatchEnd(topicAcked, topic)
    /\ UNCHANGED <<saveVars, dbVars, outbox, fwdVars, topic, topicAcked, subAt, subDone, subLate,
                   handled, faults>>

\* The loop has the next message of the batch, and no call of the handler for it has
\* returned nil yet.
Handles(w) == subHolder = w /\ subAt < subLast /\ ~subDone

\* One of the calls that retryWithBackoff makes returns nil.
HandlerSucceeds(w) ==
    /\ Handles(w)
    /\ subDone' = TRUE
    /\ handled' = handled \cup {topic[subAt + 1]}
    /\ UNCHANGED <<saveVars, dbVars, outbox, fwdVars, topic, topicAcked, subHolder, subAt,
                   subLast, subLate, faults>>

GiveUp(w) ==
    /\ Handles(w)
    /\ Fault
    /\ subAt' = subAt + 1
    /\ UNCHANGED <<saveVars, dbVars, outbox, fwdVars, topic, topicAcked, subHolder, subLast,
                   subDone, subLate, handled>>

\* All calls fail: the message is nacked and sent again in the same batch.
HandlerExhausted(w) ==
    /\ Handles(w)
    /\ Fault
    /\ UNCHANGED <<saveVars, dbVars, outbox, fwdVars, topic, subVars>>

AckBeforeHandler(w) ==
    /\ subHolder = w
    /\ subAt < subLast
    /\ subAt' = subAt + 1
    /\ subDone' = FALSE
    /\ UNCHANGED <<saveVars, dbVars, outbox, fwdVars, topic, topicAcked, subHolder, subLast,
                   subLate, handled, faults>>

AckAndGoOn(w) ==
    /\ subHolder = w
    /\ subDone
    /\ subAt' = subAt + 1
    /\ UNCHANGED <<saveVars, dbVars, outbox, fwdVars, topic, topicAcked, subHolder, subLast,
                   subDone, subLate, handled, faults>>

\* msg.Ack() after the handler returned nil; the next message of the batch is sent.
SubscriberAck(w) ==
    /\ subHolder = w
    /\ subDone
    /\ subAt' = subAt + 1
    /\ subDone' = FALSE
    /\ UNCHANGED <<saveVars, dbVars, outbox, fwdVars, topic, topicAcked, subHolder, subLast,
                   subLate, handled, faults>>

SubscriberReleases ==
    /\ subHolder' = None
    /\ subAt' = topicAcked' /\ subLast' = topicAcked'
    /\ subDone' = FALSE

SubscriberCommit(w) ==
    /\ subHolder = w
    /\ subAt = subLast
    /\ topicAcked' = subAt
    /\ SubscriberReleases
    /\ UNCHANGED <<saveVars, dbVars, outbox, fwdVars, topic, subLate, handled, faults>>

subNext == IF subDone THEN subAt + 2 ELSE subAt + 1
subOut  == IF subAt < subLast THEN subAt + 1 ELSE subAt

\* As ForwarderLapses: a batch is committed in part or rolled back, and the loop goes on
\* with what it was given.
SubscriberLapses(w) ==
    /\ subHolder = w
    /\ Fault
    /\ \/ topicAcked' = subAt /\ subLate' = subLate \cup Late(w, subNext, subOut)
       \/ topicAcked' = topicAcked /\ subLate' = subLate \cup Late(w, subNext, subLast)
    /\ SubscriberReleases
    /\ UNCHANGED <<saveVars, dbVars, outbox, fwdVars, topic, handled>>

\* A handler returns nil though another worker may have its message by now.  That the
\* loop would finish it before it begins another one is not required here.
LateHandler(s) ==
    /\ handled' = handled \cup {topic[s.at]}
    /\ subLate' = (subLate \ {s}) \cup GoesOn(s)
    /\ UNCHANGED <<saveVars, dbVars, outbox, fwdVars, topic, topicAcked, subHolder, subAt,
                   subLast, subDone, faults>>

\* A worker dies, whatever its handlers have done; nothing of its batch is committed.
WorkerCrash(w) ==
    /\ subHolder = w \/ \E s \in subLate : s.by = w
    /\ Fault
    /\ subLate' = {s \in subLate : s.by # w}
    /\ topicAcked' = topicAcked
    /\ IF subHolder = w
       THEN SubscriberReleases
       ELSE UNCHANGED <<subHolder, subAt, subLast, subDone>>
    /\ UNCHANGED <<saveVars, dbVars, outbox, fwdVars, topic, handled>>

WorkerStep(w) ==
    \/ SubscriberTake(w)
    \/ HandlerSucceeds(w)
    \/ HandlerExhausted(w)
    \/ SubscriberAck(w)
    \/ SubscriberCommit(w)
    \/ SubscriberLapses(w)
    \/ WorkerCrash(w)

Next ==
    \/ \E r \in Requests : SaveStep(r)
    \/ \E i \in Ids : DeleteItem(i)
    \/ \E a \in Apis : ApiStep(a)
    \/ \E s \in fwdLate : LatePublish(s)
    \/ \E w \in Workers : WorkerStep(w)
    \/ \E s \in subLate : LateHandler(s)

SafeSpec == Init /\ [][Next]_vars

\* Both daemons poll for as long as their process runs, and a handler that is
\* called returns.  Nobody is obliged to call Save, to crash or to fail.
Fairness ==
    /\ WF_vars(\E a \in Apis : ForwarderTake(a))
    /\ \A a \in Apis : WF_vars(ForwarderPublish(a) \/ ForwarderAck(a) \/ ForwarderCommit(a))
    /\ WF_vars(\E w \in Workers : SubscriberTake(w))
    /\ \A w \in Workers : WF_vars(HandlerSucceeds(w) \/ SubscriberAck(w) \/ SubscriberCommit(w))

Spec == SafeSpec /\ Fairness
-------------------------------------------------------------------------------
(* Properties.                                                               *)

\* Deliveries of the processes in P that go on without the lock, of messages of log.
Deliveries(P, log) ==
    {s \in [by : P, fault : 1 .. MaxFaults, at : 1 .. Len(log), last : 1 .. Len(log)] :
        s.at <= s.last}

\* Types; an offset never runs past the batch being worked off, nor a batch past its
\* log, and who holds no batch has none to go on with.
TypeOK ==
    /\ pc \in [Requests -> {"idle", "tx", "inserted", "published", "committed", "done"}]
    /\ api \in [Requests -> Apis \cup {None}]
    /\ id \in [Requests -> Ids \cup {None}]
    /\ reply \in [Requests -> {"none", "created", "exists", "error"}]
    /\ rows \in [Ids -> Requests \cup {None}]
    /\ stored \in SUBSET Requests
    /\ outbox \in Seq(Requests) /\ topic \in Seq(Requests)
    /\ fwdHolder \in Apis \cup {None}
    /\ fwdLast \in 0 .. Len(outbox) /\ fwdAt \in 0 .. fwdLast /\ outboxAcked \in 0 .. fwdAt
    /\ fwdHolder = None => fwdLast = outboxAcked
    /\ fwdSent \in BOOLEAN /\ (fwdSent => fwdAt < fwdLast)
    /\ fwdLate \subseteq Deliveries(Apis, outbox)
    /\ subHolder \in Workers \cup {None}
    /\ subLast \in 0 .. Len(topic) /\ subAt \in 0 .. subLast /\ topicAcked \in 0 .. subAt
    /\ subHolder = None => subLast = topicAcked
    /\ subDone \in BOOLEAN /\ (subDone => subAt < subLast)
    /\ subLate \subseteq Deliveries(Workers, topic)
    /\ handled \in SUBSET Requests
    /\ faults \in 0 .. MaxFaults

\* "Atomic save data + publish event" (NewTxPublisher): whatever crashes, fails
\* or collides on a key, the queue holds exactly one event of every call that
\* wrote a row and none of a call that wrote none.
AtomicOutbox ==
    /\ \A r \in Requests : InLog(outbox, r) <=> r \in stored
    /\ \A j, k \in 1 .. Len(outbox) : outbox[j] = outbox[k] => j = k

\* Save answers nil only after its item was stored together with its event, and
\* ErrItemAlreadyExists only if this call stored nothing, queued nothing, and
\* another call had stored an item under the same key.
HonestReply ==
    \A r \in Requests :
        /\ reply[r] = "created" => r \in stored /\ InLog(outbox, r)
        /\ reply[r] = "exists" => /\ r \notin stored /\ ~InLog(outbox, r)
                                  /\ \E q \in stored : id[q] = id[r]

\* Offsets are only moved past work that is done: a queue message whose batch is
\* committed, or that is acknowledged in the batch under way, has reached the topic, and
\* such a topic message has been handled.  So a crash can repeat events, even a whole
\* batch of them, but never loses one.
NothingSkipped ==
    /\ \A k \in 1 .. outboxAcked \cup 1 .. fwdAt : InLog(topic, outbox[k])
    /\ \A k \in 1 .. topicAcked \cup 1 .. subAt : topic[k] \in handled

\* No consumer ever acts on an item that was never committed.
NoPhantomDelivery == handled \subseteq stored

\* Redelivery of a batch and publishes that come late put older events behind newer
\* ones, but only as copies: the first copy of an event stands behind those of all
\* events that were queued before it, whichever API process forwards.
FirstCopiesInOrder ==
    \A n \in 1 .. Len(topic), y \in 1 .. Len(outbox) : topic[n] = outbox[y] =>
        \A x \in 1 .. y : \E m \in 1 .. n : topic[m] = outbox[x]

\* End to end, too: no event is handled before all those that were queued before it
\* have been, whichever processes crash, forward again or deliver again.
HandledInOrder ==
    \A x, y \in 1 .. Len(outbox) : x <= y /\ outbox[y] \in handled => outbox[x] \in handled

\* At-least-once: once a call has committed, its event is eventually handled.
EveryCommitHandled ==
    \A r \in Requests : r \in stored ~> r \in handled

\* The mechanism implements the promise: an event is committed with its row
\* and delivered when a handler has returned nil for it.
Promise == INSTANCE ReliableEvents WITH
    Events    <- Requests,
    committed <- stored,
    delivered <- handled

KeepsPromise == Promise!Spec
===============================================================================
