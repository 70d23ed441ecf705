------------------------------- MODULE EventBus -------------------------------
(***************************************************************************)
(* One EventBus inside one process (pkg/events/watermill.go): the goroutine*)
(* that each Subscribe starts, with its retries, acknowledgements and error*)
(* channel; the Forwarder goroutine; and the main goroutine, which starts  *)
(* the forwarder, subscribes and in the end calls Close.                   *)
(*                                                                         *)
(* Watermill is external: a subscription reads a batch of messages in a    *)
(* transaction, hands them over one at a time, each again until it is      *)
(* acknowledged, and commits the group's offset at the end of the batch.   *)
(* It may give up waiting for an acknowledgement (deadline) and lose its   *)
(* connection, and it closes its Go channel once the subscriber is closed  *)
(* or the context cancelled.  The bus is the only member of its group here;*)
(* ItemOutbox has several.                                                 *)
(***************************************************************************)
EXTENDS Naturals, FiniteSets

CONSTANTS
    Subs,         \* calls of Subscribe, one topic each
    Backlog,      \* bound: messages on each topic
    BatchSize,    \* messages read at once (the library's default is 100)
    MaxRetries,   \* const maxRetries
    ErrCap,       \* capacity of the error channel, 100 in the code
    UseForwarder, \* NewEventBusWithForwarder?
    MaxFaults     \* bound: failed handler calls, lapsed messages and lost commits

ASSUME BusAssumption ==
    /\ {Backlog, MaxFaults} \subseteq Nat
    /\ {MaxRetries, ErrCap, BatchSize} \subseteq Nat \ {0}
    /\ UseForwarder \in BOOLEAN

VARIABLES
    main,      \* what the main goroutine is doing
    ctxDone,   \* is the context of Subscribe and StartForwarder cancelled?
    fwd,       \* the goroutine that runs the forwarder
    timedOut,  \* did Close give up waiting for the WaitGroup?
    loop,      \* where the goroutine of each subscription is
    chClosed,  \* has the library closed the message channel?
    held,      \* the message the goroutine has, 0 before the first
    live,      \* does the library still wait for its acknowledgement?
    offset,    \* the consumer group's committed offset
    acked,     \* the last message that is acknowledged, in the batch under way too
    last,      \* the end of the batch under way
    attempt, delay,  \* the locals of retryWithBackoff, in seconds
    queued,    \* errors in the error channel
    ok,        \* history: messages for which a handler call returned nil
    faults

busVars == <<main, ctxDone, fwd, timedOut>>
groupVars == <<offset, acked, last>>
loopVars  == <<loop, chClosed, held, live, attempt, delay, queued, ok>>
subVars == <<loopVars, groupVars>>
vars    == <<busVars, subVars, faults>>

\* Close has returned, nil or early with an error; it has at least begun.
Returned == {"closed", "failed"}
Shutting == {"closeSub", "closeFwd", "wait", "closePub", "closeDb"} \cup Returned

Init ==
    /\ main = "up" /\ ctxDone = FALSE /\ fwd = "off" /\ timedOut = FALSE
    /\ loop = [s \in Subs |-> "none"]
    /\ chClosed = [s \in Subs |-> FALSE]
    /\ held = [s \in Subs |-> 0]
    /\ live = [s \in Subs |-> FALSE]
    /\ offset = [s \in Subs |-> 0] /\ acked = offset /\ last = offset
    /\ attempt = [s \in Subs |-> 1]
    /\ delay = [s \in Subs |-> 1]
    /\ queued = [s \in Subs |-> 0]
    /\ ok = [s \in Subs |-> {}]
    /\ faults = 0

\* Subscription s moves from one place in its loop to another.
Go(s, from, to) == loop[s] = from /\ loop' = [loop EXCEPT ![s] = to]
-------------------------------------------------------------------------------
(* The library's side of a subscription.                                     *)

\* SELECT ... LIMIT, behind the offset.
ReadBatch(s) ==
    /\ loop[s] # "none" /\ ~chClosed[s]
    /\ main \notin Shutting /\ ~ctxDone
    /\ last[s] = offset[s] /\ offset[s] < Backlog
    /\ last' = [last EXCEPT ![s] = IF @ + BatchSize < Backlog THEN @ + BatchSize ELSE Backlog]
    /\ UNCHANGED <<busVars, loopVars, offset, acked, faults>>

\* The goroutine, waiting at the channel, receives the next message of the batch.
Deliver(s) ==
    /\ Go(s, "range", "handle")
    /\ main \notin Shutting /\ ~ctxDone /\ ~chClosed[s]
    /\ acked[s] < last[s]
    /\ held' = [held EXCEPT ![s] = acked[s] + 1]
    /\ live' = [live EXCEPT ![s] = TRUE]
    /\ attempt' = [attempt EXCEPT ![s] = 1]
    /\ delay' = [delay EXCEPT ![s] = 1]
    /\ UNCHANGED <<busVars, chClosed, groupVars, queued, ok, faults>>

\* A batch is over, and the next one begins behind offset o.
EndBatch(s, o) ==
    /\ offset' = [offset EXCEPT ![s] = o]
    /\ acked' = [acked EXCEPT ![s] = o]
    /\ last' = [last EXCEPT ![s] = o]

Fault == faults < MaxFaults /\ faults' = faults + 1

\* The transaction of a batch that is acknowledged to its end commits, or turns out to
\* have lost its connection, and with it every acknowledgement.
CommitBatch(s) ==
    /\ acked[s] = last[s] /\ offset[s] < last[s]
    /\ \/ EndBatch(s, acked[s]) /\ UNCHANGED faults
       \/ EndBatch(s, offset[s]) /\ Fault
    /\ UNCHANGED <<busVars, loopVars>>

\* The library stops waiting for an acknowledgement and ends the batch there; it will
\* deliver the message again.
Lapse(s) ==
    /\ live[s]
    /\ Fault
    /\ EndBatch(s, acked[s]) \/ EndBatch(s, offset[s])
    /\ live' = [live EXCEPT ![s] = FALSE]
    /\ UNCHANGED <<busVars, loop, chClosed, held, attempt, delay, queued, ok>>

\* A closing subscriber commits what is acknowledged, a cancelled context rolls the batch
\* back; either closes the channel and drops the message in flight.
CloseChannel(s) ==
    /\ loop[s] # "none" /\ ~chClosed[s]
    /\ \/ main = "closeSub" /\ EndBatch(s, acked[s])
       \/ ctxDone /\ EndBatch(s, offset[s])
    /\ chClosed' = [chClosed EXCEPT ![s] = TRUE]
    /\ live' = [live EXCEPT ![s] = FALSE]
    /\ UNCHANGED <<busVars, loop, held, attempt, delay, queued, ok, faults>>
-------------------------------------------------------------------------------
(* The goroutine that Subscribe starts, and retryWithBackoff in it.          *)

HandlerSucceeds(s) ==
    /\ Go(s, "handle", "ack")
    /\ ok' = [ok EXCEPT ![s] = @ \cup {held[s]}]
    /\ UNCHANGED <<busVars, chClosed, held, live, groupVars, attempt, delay, queued, faults>>

RetryForever(s) ==
    /\ Go(s, "handle", "backoff")
    /\ Fault
    /\ UNCHANGED <<busVars, chClosed, held, live, groupVars, attempt, delay, queued, ok>>

\* Only the last attempt is not followed by a wait.
HandlerFails(s) ==
    /\ Go(s, "handle", IF attempt[s] < MaxRetries THEN "backoff" ELSE "nack")
    /\ Fault
    /\ UNCHANGED <<busVars, chClosed, held, live, groupVars, attempt, delay, queued, ok>>

BackoffElapses(s) ==
    /\ Go(s, "backoff", "handle")
    /\ attempt' = [attempt EXCEPT ![s] = @ + 1]
    /\ delay' = [delay EXCEPT ![s] = @ * 2]
    /\ UNCHANGED <<busVars, chClosed, held, live, groupVars, queued, ok, faults>>

CancelMeansSuccess(s) ==
    /\ ctxDone
    /\ Go(s, "backoff", "ack")
    /\ UNCHANGED <<busVars, chClosed, held, live, groupVars, attempt, delay, queued, ok, faults>>

\* retryWithBackoff returns ctx.Err() and calls the handler no more.
BackoffCancelled(s) ==
    /\ ctxDone
    /\ Go(s, "backoff", "nack")
    /\ UNCHANGED <<busVars, chClosed, held, live, groupVars, attempt, delay, queued, ok, faults>>

\* msg.Ack() moves the batch on, unless the library has stopped waiting for it.
Ack(s) ==
    /\ Go(s, "ack", "range")
    /\ acked' = [acked EXCEPT ![s] = IF live[s] THEN held[s] ELSE @]
    /\ live' = [live EXCEPT ![s] = FALSE]
    /\ UNCHANGED <<busVars, offset, last, chClosed, held, attempt, delay, queued, ok, faults>>

NackSkips(s) ==
    /\ Go(s, "nack", "report")
    /\ acked' = [acked EXCEPT ![s] = IF live[s] THEN held[s] ELSE @]
    /\ live' = [live EXCEPT ![s] = FALSE]
    /\ UNCHANGED <<busVars, offset, last, chClosed, held, attempt, delay, queued, ok, faults>>

\* msg.Nack(): the library delivers the message of the same batch again.
Nack(s) ==
    /\ Go(s, "nack", "report")
    /\ live' = [live EXCEPT ![s] = FALSE]
    /\ UNCHANGED <<busVars, chClosed, held, groupVars, attempt, delay, queued, ok, faults>>

BlockingReport(s) ==
    /\ Go(s, "report", "range")
    /\ queued[s] < ErrCap
    /\ queued' = [queued EXCEPT ![s] = @ + 1]
    /\ UNCHANGED <<busVars, chClosed, held, live, groupVars, attempt, delay, ok, faults>>

\* The error goes to the channel, or is dropped when that is full.
ReportError(s) ==
    /\ Go(s, "report", "range")
    /\ queued' = [queued EXCEPT ![s] = IF @ < ErrCap THEN @ + 1 ELSE @]
    /\ UNCHANGED <<busVars, chClosed, held, live, groupVars, attempt, delay, ok, faults>>

\* The range over a closed channel ends the goroutine and closes errCh.
LoopExits(s) ==
    /\ chClosed[s]
    /\ Go(s, "range", "exited")
    /\ UNCHANGED <<busVars, chClosed, held, live, groupVars, attempt, delay, queued, ok, faults>>

\* The reader of the error channel, if there is one (cmd/worker/main.go).
DrainError(s) ==
    /\ queued[s] > 0
    /\ queued' = [queued EXCEPT ![s] = @ - 1]
    /\ UNCHANGED <<busVars, loop, chClosed, held, live, groupVars, attempt, delay, ok, faults>>

SubStep(s) ==
    \/ ReadBatch(s) \/ Deliver(s) \/ CommitBatch(s) \/ Lapse(s) \/ CloseChannel(s)
    \/ HandlerSucceeds(s) \/ HandlerFails(s)
    \/ BackoffElapses(s) \/ BackoffCancelled(s)
    \/ Ack(s) \/ Nack(s) \/ ReportError(s) \/ LoopExits(s) \/ DrainError(s)
-------------------------------------------------------------------------------
(* The forwarder, the context and the main goroutine.                        *)

Subscribe(s) ==
    /\ main = "up" /\ ~ctxDone
    /\ Go(s, "none", "range")
    /\ UNCHANGED <<busVars, chClosed, held, live, groupVars, attempt, delay, queued, ok, faults>>

\* StartForwarder, past its guards: the goroutine runs, the caller waits.
StartForwarder ==
    /\ main = "up" /\ UseForwarder /\ fwd = "off"
    /\ fwd' = "launched"
    /\ main' = "starting"
    /\ UNCHANGED <<ctxDone, timedOut, subVars, faults>>

\* fwd.Run gets its router running, or returns an error before that.
ForwarderRuns ==
    /\ fwd = "launched"
    /\ fwd' \in {"running", "failed"}
    /\ UNCHANGED <<main, ctxDone, timedOut, subVars, faults>>

\* fwd.Run returns once the forwarder is closed or its context cancelled.
ForwarderStops ==
    /\ fwd \in {"launched", "running"}
    /\ ctxDone \/ main \in Shutting \ {"closeSub"}
    /\ fwd' = "stopped"
    /\ UNCHANGED <<main, ctxDone, timedOut, subVars, faults>>

\* The select of StartForwarder: Running() or ctx.Done().
ForwarderStarted ==
    /\ main = "starting"
    /\ fwd \in {"running", "stopped"} \/ ctxDone
    /\ main' = "up"
    /\ UNCHANGED <<ctxDone, fwd, timedOut, subVars, faults>>

CancelContext ==
    /\ ~ctxDone
    /\ ctxDone' = TRUE
    /\ UNCHANGED <<main, fwd, timedOut, subVars, faults>>

MainGoes(from, to) ==
    /\ main = from
    /\ main' = to
    /\ UNCHANGED <<ctxDone, fwd, subVars, faults>>

ForwarderNotCounted == {s \in Subs : loop[s] \notin {"none", "exited"}}

\* The goroutines that wg counts: Add comes before go, Done when they return.
InWaitGroup ==
    {s \in Subs : loop[s] \notin {"none", "exited"}}
        \cup (IF fwd \in {"launched", "running"} THEN {"forwarder"} ELSE {})

CloseCalled == MainGoes("up", "closeSub") /\ UNCHANGED timedOut

\* subscriber.Close() returns when all its subscriptions have closed.
SubscriberClosed ==
    /\ \A s \in Subs : loop[s] # "none" => chClosed[s]
    /\ MainGoes("closeSub", IF fwd # "off" THEN "closeFwd" ELSE "wait")
    /\ UNCHANGED timedOut

\* An error of fwd.Close ends Close there.
ForwarderClosed ==
    /\ MainGoes("closeFwd", "wait") \/ MainGoes("closeFwd", "failed")
    /\ UNCHANGED timedOut

WaitForever ==
    /\ MainGoes("wait", "closePub")
    /\ InWaitGroup = {}
    /\ UNCHANGED timedOut

\* wg.Wait(), for shutdownTimeout at most.
WaitEnds ==
    /\ MainGoes("wait", "closePub")
    /\ timedOut' = (InWaitGroup # {})

PublisherClosed ==
    /\ MainGoes("closePub", "closeDb") \/ MainGoes("closePub", "failed")
    /\ UNCHANGED timedOut

DbClosed == MainGoes("closeDb", "closed") /\ UNCHANGED timedOut

CloseStep == SubscriberClosed \/ ForwarderClosed \/ WaitEnds \/ PublisherClosed \/ DbClosed

Next ==
    \/ \E s \in Subs : Subscribe(s) \/ SubStep(s)
    \/ StartForwarder \/ ForwarderRuns \/ ForwarderStops \/ ForwarderStarted
    \/ CancelContext \/ CloseCalled \/ CloseStep

SafeSpec == Init /\ [][Next]_vars

\* The library, the runtime and the code of the bus keep running; a handler may
\* hang for ever, errors may stay unread, and nobody is obliged to call Close.
Fairness ==
    /\ \A s \in Subs :
           /\ WF_vars(ReadBatch(s)) /\ WF_vars(Deliver(s)) /\ WF_vars(CommitBatch(s))
           /\ WF_vars(CloseChannel(s))
           /\ WF_vars(BackoffElapses(s) \/ BackoffCancelled(s))
           /\ WF_vars(Ack(s)) /\ WF_vars(Nack(s)) /\ WF_vars(ReportError(s))
           /\ WF_vars(LoopExits(s))
    /\ WF_vars(ForwarderRuns) /\ WF_vars(ForwarderStops) /\ WF_vars(ForwarderStarted)
    /\ WF_vars(CloseStep)

Spec == SafeSpec /\ Fairness

\* Every call of a handler returns: what some properties assume, beyond Spec.
HandlersReturn ==
    \A s \in Subs : WF_vars(HandlerSucceeds(s) \/ HandlerFails(s))
-------------------------------------------------------------------------------
(* Properties.                                                               *)

\* Types; the delay has doubled with every retry, of which there are not more
\* than maxRetries - 1; a message in hand and an offset are within the batch.
TypeOK ==
    /\ main \in {"up", "starting"} \cup Shutting
    /\ {ctxDone, timedOut} \subseteq BOOLEAN
    /\ fwd \in {"off", "launched", "running", "failed", "stopped"}
    /\ loop \in [Subs -> {"none", "range", "handle", "backoff", "ack", "nack", "report", "exited"}]
    /\ chClosed \in [Subs -> BOOLEAN] /\ live \in [Subs -> BOOLEAN]
    /\ held \in [Subs -> 0 .. Backlog] /\ last \in [Subs -> 0 .. Backlog]
    /\ \A s \in Subs : acked[s] \in 0 .. last[s] /\ offset[s] \in 0 .. acked[s]
    /\ attempt \in [Subs -> 1 .. MaxRetries]
    /\ \A s \in Subs : delay[s] = 2 ^ (attempt[s] - 1)
    /\ queued \in [Subs -> 0 .. ErrCap]
    /\ ok \in [Subs -> SUBSET (1 .. Backlog)]
    /\ faults \in 0 .. MaxFaults

\* At-least-once in order, whatever lapses, fails, rolls back or is cancelled: an
\* acknowledgement, and so the offset, has only passed messages a handler returned nil
\* for, and no handler is done with a message before all its predecessors were.
HandledUpToOffset ==
    \A s \in Subs : 1 .. acked[s] \subseteq ok[s] /\ \A k \in ok[s] : 1 .. k \subseteq ok[s]

\* Close takes the publisher and the connection away from no goroutine that may
\* still use them, unless it has timed out waiting ("wait for in-flight handlers
\* (30 s max) -> close publisher -> close database connection").
DrainedOrTimedOut ==
    main \in {"closePub", "closeDb", "closed"} /\ ~timedOut =>
        /\ \A s \in Subs : loop[s] \in {"none", "exited"}
        /\ fwd \notin {"launched", "running"}

\* Close returns even if a handler hangs and nobody reads the error channel, and
\* StartForwarder returns if the forwarder comes up or the context is cancelled.
\* (It waits for ever if fwd.Run fails first under a context nobody cancels.)
CallsReturn ==
    /\ main = "closeSub" ~> main \in Returned
    /\ main = "starting" /\ (ctxDone \/ fwd = "running") ~> main = "up"

\* The error channel never holds up a subscription: as long as handlers return,
\* its goroutine always comes back for the next message, read or unread errors.
LoopComesBack == HandlersReturn =>
    \A s \in Subs : loop[s] # "none" ~> loop[s] = "exited" \/ loop[s] = "range"

\* A message is redelivered until a handler returns nil for it or the bus stops.
EveryMessageHandled == HandlersReturn =>
    \A s \in Subs : \A k \in 1 .. Backlog :
        loop[s] = "range" ~> k \in ok[s] \/ ctxDone \/ main \in Shutting

\* Subscribe's comment: a failing handler is "retried up to 3x with exponential
\* backoff (1s, 2s, 4s)".  The delay doubles at every wait, so the waits so far
\* add up to delay - 1.
DocumentedBackoff ==
    \A s \in Subs : loop[s] = "nack" /\ ~ctxDone =>
        attempt[s] - 1 = 3 /\ delay[s] - 1 = 1 + 2 + 4

\* What the code does keep: it gives a message up only after all maxRetries calls of the
\* handler, the first included, so with its maxRetries = 3 it waits 1 s and 2 s.
BackoffUsesUpRetries ==
    \A s \in Subs : loop[s] = "nack" /\ ~ctxDone =>
        /\ attempt[s] = MaxRetries
        /\ MaxRetries = 3 => attempt[s] - 1 = 2 /\ delay[s] - 1 = 1 + 2
===============================================================================
