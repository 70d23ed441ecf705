---------------------------- MODULE EventBusProofs ----------------------------
(***************************************************************************)
(* Proofs about EventBus, for any number of subscriptions, messages,       *)
(* retries and faults: type correctness, at-least-once in order, and what  *)
(* Close leaves behind.                                                    *)
(***************************************************************************)
EXTENDS EventBus, TLAPS

\* The goroutine has a message in hand.
Holding == {"handle", "backoff", "ack", "nack"}

\* The types but for the delay, whose powers are beyond the provers.
BusTypes ==
    /\ main \in {"up", "starting"} \cup Shutting
    /\ {ctxDone, timedOut} \subseteq BOOLEAN
    /\ fwd \in {"off", "launched", "running", "failed", "stopped"}
    /\ loop \in [Subs -> {"none", "range", "exited", "report"} \cup Holding]
    /\ chClosed \in [Subs -> BOOLEAN] /\ live \in [Subs -> BOOLEAN]
    /\ held \in [Subs -> 0 .. Backlog] /\ last \in [Subs -> 0 .. Backlog]
    /\ acked \in [Subs -> 0 .. Backlog] /\ offset \in [Subs -> 0 .. Backlog]
    /\ attempt \in [Subs -> 1 .. MaxRetries]
    /\ delay \in [Subs -> Nat]
    /\ queued \in [Subs -> 0 .. ErrCap]
    /\ ok \in [Subs -> SUBSET (1 .. Backlog)]
    /\ faults \in 0 .. MaxFaults

\* The delay has doubled with every retry.
DelayInv == \A s \in Subs : delay[s] = 2 ^ (attempt[s] - 1)

\* The acknowledged messages are a part of the batch, which is not longer than BatchSize.
BatchInv ==
    \A s \in Subs : /\ offset[s] <= acked[s] /\ acked[s] <= last[s]
                    /\ last[s] <= offset[s] + BatchSize

\* All messages before the one in hand have been handled, even if it comes from a batch
\* that was taken back; the library waits only for a goroutine that has the first message
\* that is not acknowledged; a handler has returned nil for a message before its
\* acknowledgement, and a wait is always followed by one more attempt.
LoopInv ==
    \A s \in Subs :
        /\ loop[s] \in Holding => held[s] >= 1 /\ 1 .. held[s] - 1 \subseteq ok[s]
        /\ live[s] => loop[s] \in Holding /\ held[s] = acked[s] + 1 /\ held[s] <= last[s]
        /\ loop[s] = "ack" => held[s] \in ok[s]
        /\ loop[s] = "backoff" => attempt[s] < MaxRetries

\* The first delays, counted out; a message is only given up early for the context.
BackoffInv ==
    \A s \in Subs :
        /\ attempt[s] = 1 => delay[s] = 1
        /\ attempt[s] = 2 => delay[s] = 2
        /\ attempt[s] = 3 => delay[s] = 4
        /\ loop[s] = "nack" => ctxDone \/ attempt[s] = MaxRetries

\* The inductive strengthening of the invariants.
IInv ==
    /\ BusTypes
    /\ BatchInv
    /\ LoopInv
    /\ HandledUpToOffset
    /\ DrainedOrTimedOut
-------------------------------------------------------------------------------
(* Type correctness.                                                         *)

\* A step of the main goroutine, of the forwarder or of the context leaves every
\* subscription alone.
LEMMA BusStepsFacts ==
    ASSUME BusTypes,
           \/ StartForwarder \/ ForwarderRuns \/ ForwarderStops \/ ForwarderStarted
           \/ CancelContext \/ CloseCalled \/ CloseStep
    PROVE  /\ UNCHANGED <<subVars, faults>>
           /\ main' \in {"up", "starting"} \cup Shutting
           /\ {ctxDone', timedOut'} \subseteq BOOLEAN
           /\ fwd' \in {"off", "launched", "running", "failed", "stopped"}
<1> USE DEF BusTypes, Shutting, Returned
<1>1. CASE StartForwarder \/ ForwarderRuns \/ ForwarderStops \/ ForwarderStarted
    BY <1>1 DEF StartForwarder, ForwarderRuns, ForwarderStops, ForwarderStarted
<1>2. CASE CancelContext
    BY <1>2 DEF CancelContext
<1>3. CASE CloseCalled \/ SubscriberClosed \/ ForwarderClosed \/ PublisherClosed \/ DbClosed
    BY <1>3 DEF CloseCalled, SubscriberClosed, ForwarderClosed, PublisherClosed, DbClosed,
                MainGoes
<1>4. CASE WaitEnds
    BY <1>4 DEF WaitEnds, MainGoes
<1> QED BY <1>1, <1>2, <1>3, <1>4 DEF CloseStep

\* A batch that is over leaves the group between two batches, behind offset o.
LEMMA EndBatchFacts ==
    ASSUME BusTypes, NEW s \in Subs, NEW o \in 0 .. Backlog, EndBatch(s, o)
    PROVE  /\ offset' \in [Subs -> 0 .. Backlog] /\ acked' \in [Subs -> 0 .. Backlog]
           /\ last' \in [Subs -> 0 .. Backlog]
           /\ offset'[s] = o /\ acked'[s] = o /\ last'[s] = o
           /\ \A t \in Subs \ {s} :
                  offset'[t] = offset[t] /\ acked'[t] = acked[t] /\ last'[t] = last[t]
BY DEF BusTypes, EndBatch

\* What the steps that end a batch have in common.
LEMMA EndingSteps ==
    ASSUME BusTypes, NEW s \in Subs, CommitBatch(s) \/ Lapse(s) \/ CloseChannel(s)
    PROVE  /\ EndBatch(s, acked[s]) \/ EndBatch(s, offset[s])
           /\ UNCHANGED <<busVars, loop, held, attempt, delay, queued, ok>>
           /\ live' = live \/ live' = [live EXCEPT ![s] = FALSE]
           /\ chClosed' = chClosed \/ chClosed' = [chClosed EXCEPT ![s] = TRUE]
           /\ faults' \in 0 .. MaxFaults
<1>1. ASSUME CommitBatch(s)
      PROVE  /\ EndBatch(s, acked[s]) \/ EndBatch(s, offset[s])
             /\ UNCHANGED <<busVars, loopVars>> /\ faults' \in 0 .. MaxFaults
    BY <1>1, BusAssumption DEF BusTypes, CommitBatch, Fault
<1>2. ASSUME Lapse(s)
      PROVE  /\ EndBatch(s, acked[s]) \/ EndBatch(s, offset[s])
             /\ UNCHANGED <<busVars, loop, chClosed, held, attempt, delay, queued, ok>>
             /\ live' = [live EXCEPT ![s] = FALSE] /\ faults' \in 0 .. MaxFaults
    BY <1>2, BusAssumption DEF BusTypes, Lapse, Fault
<1>3. ASSUME CloseChannel(s)
      PROVE  /\ EndBatch(s, acked[s]) \/ EndBatch(s, offset[s])
             /\ UNCHANGED <<busVars, loop, held, attempt, delay, queued, ok>>
             /\ live' = [live EXCEPT ![s] = FALSE]
             /\ chClosed' = [chClosed EXCEPT ![s] = TRUE]
             /\ faults' \in 0 .. MaxFaults
    BY <1>3 DEF BusTypes, CloseChannel
<1> QED BY <1>1, <1>2, <1>3 DEF loopVars

\* Every step keeps every variable in its type.
LEMMA TypeStep == BusTypes /\ BatchInv /\ LoopInv /\ [Next]_vars => BusTypes'
<1> SUFFICES ASSUME BusTypes, BatchInv, LoopInv, [Next]_vars PROVE BusTypes'
    OBVIOUS
<1> USE BusAssumption DEF busVars, loopVars, groupVars, subVars, Holding
<1>1. ASSUME NEW s \in Subs, Subscribe(s) PROVE BusTypes'
    BY <1>1 DEF BusTypes, Subscribe, Go
<1>2. ASSUME NEW s \in Subs, Deliver(s) PROVE BusTypes'
    <2>1. acked[s] + 1 \in 0 .. Backlog
        BY <1>2 DEF BusTypes, BatchInv, Deliver
    <2> QED BY <1>2, <2>1 DEF BusTypes, Deliver, Go
<1>3. ASSUME NEW s \in Subs, CommitBatch(s) \/ Lapse(s) \/ CloseChannel(s) PROVE BusTypes'
    <2>1. acked[s] \in 0 .. Backlog /\ offset[s] \in 0 .. Backlog
        BY DEF BusTypes
    <2>2. /\ offset' \in [Subs -> 0 .. Backlog] /\ acked' \in [Subs -> 0 .. Backlog]
          /\ last' \in [Subs -> 0 .. Backlog]
        BY <1>3, <2>1, EndingSteps, EndBatchFacts
    <2>3. live' \in [Subs -> BOOLEAN]
        BY <1>3, EndingSteps DEF BusTypes
    <2>4. chClosed' \in [Subs -> BOOLEAN]
        BY <1>3, EndingSteps DEF BusTypes
    <2>5. /\ faults' \in 0 .. MaxFaults
          /\ UNCHANGED <<busVars, loop, held, attempt, delay, queued, ok>>
        BY <1>3, EndingSteps
    <2> QED BY <2>2, <2>3, <2>4, <2>5 DEF BusTypes
<1>4. ASSUME NEW s \in Subs, HandlerSucceeds(s) PROVE BusTypes'
    <2>1. held[s] \in 1 .. Backlog
        BY <1>4 DEF BusTypes, LoopInv, HandlerSucceeds, Go
    <2> QED BY <1>4, <2>1 DEF BusTypes, HandlerSucceeds, Go
<1>5. ASSUME NEW s \in Subs, HandlerFails(s) PROVE BusTypes'
    BY <1>5 DEF BusTypes, HandlerFails, Fault, Go
<1>6. ASSUME NEW s \in Subs, BackoffElapses(s) PROVE BusTypes'
    <2>1. attempt[s] + 1 \in 1 .. MaxRetries /\ delay[s] * 2 \in Nat
        BY <1>6 DEF BusTypes, LoopInv, BackoffElapses, Go
    <2> QED BY <1>6, <2>1 DEF BusTypes, BackoffElapses, Go
<1>7. ASSUME NEW s \in Subs, BackoffCancelled(s) PROVE BusTypes'
    BY <1>7 DEF BusTypes, BackoffCancelled, Go
<1>8. ASSUME NEW s \in Subs, Ack(s) \/ Nack(s) PROVE BusTypes'
    <2>1. acked' \in [Subs -> 0 .. Backlog] /\ live' \in [Subs -> BOOLEAN]
        BY <1>8 DEF BusTypes, Ack, Nack
    <2>2. loop' \in [Subs -> {"none", "range", "exited", "report"} \cup Holding]
        BY <1>8 DEF BusTypes, Ack, Nack, Go
    <2> QED BY <1>8, <2>1, <2>2 DEF BusTypes, Ack, Nack
<1>9. ASSUME NEW s \in Subs, ReportError(s) \/ DrainError(s) PROVE BusTypes'
    <2>1. queued' \in [Subs -> 0 .. ErrCap]
        BY <1>9 DEF BusTypes, ReportError, DrainError
    <2>2. loop' \in [Subs -> {"none", "range", "exited", "report"} \cup Holding]
        BY <1>9 DEF BusTypes, ReportError, DrainError, Go
    <2> QED BY <1>9, <2>1, <2>2 DEF BusTypes, ReportError, DrainError
<1>10. ASSUME NEW s \in Subs, LoopExits(s) PROVE BusTypes'
    BY <1>10 DEF BusTypes, LoopExits, Go
<1>11. CASE \/ StartForwarder \/ ForwarderRuns \/ ForwarderStops \/ ForwarderStarted
            \/ CancelContext \/ CloseCalled \/ CloseStep
    BY <1>11, BusStepsFacts DEF BusTypes
<1>12. ASSUME NEW s \in Subs, ReadBatch(s) PROVE BusTypes'
    BY <1>12 DEF BusTypes, ReadBatch
<1>13. CASE UNCHANGED vars
    BY <1>13 DEF BusTypes, vars
<1> QED
    BY <1>1, <1>2, <1>3, <1>4, <1>5, <1>6, <1>7, <1>8, <1>9, <1>10, <1>11, <1>12, <1>13
    DEF Next, SubStep
-------------------------------------------------------------------------------
(* Subscriptions.                                                            *)

\* The last message that is acknowledged stays within the batch.
LEMMA BatchStep == BusTypes /\ BatchInv /\ LoopInv /\ [Next]_vars => BatchInv'
<1> SUFFICES ASSUME BusTypes, BatchInv, LoopInv, [Next]_vars PROVE BatchInv'
    OBVIOUS
<1> USE BusAssumption DEF busVars, loopVars, groupVars, subVars
<1>1. ASSUME NEW s \in Subs, ReadBatch(s) PROVE BatchInv'
    BY <1>1 DEF BusTypes, BatchInv, ReadBatch
<1>2. ASSUME NEW s \in Subs, CommitBatch(s) \/ Lapse(s) \/ CloseChannel(s) PROVE BatchInv'
    <2>1. acked[s] \in 0 .. Backlog /\ offset[s] \in 0 .. Backlog
        BY DEF BusTypes
    <2>2. \E o \in 0 .. Backlog :
              /\ offset'[s] = o /\ acked'[s] = o /\ last'[s] = o
              /\ \A t \in Subs \ {s} :
                     offset'[t] = offset[t] /\ acked'[t] = acked[t] /\ last'[t] = last[t]
        BY <1>2, <2>1, EndingSteps, EndBatchFacts
    <2> QED BY <2>2 DEF BatchInv
<1>3. ASSUME NEW s \in Subs, Ack(s) PROVE BatchInv'
    BY <1>3 DEF BusTypes, BatchInv, LoopInv, Ack
<1>4. ASSUME UNCHANGED groupVars PROVE BatchInv'
    BY <1>4 DEF BatchInv
<1>5. ASSUME NEW s \in Subs, Subscribe(s) \/ SubStep(s) PROVE BatchInv'
    BY <1>1, <1>2, <1>3, <1>4, <1>5
    DEF SubStep, Subscribe, Deliver, HandlerSucceeds, HandlerFails, BackoffElapses,
        BackoffCancelled, Nack, ReportError, DrainError, LoopExits
<1> QED BY <1>4, <1>5, BusStepsFacts DEF Next, vars

\* A goroutine goes round its loop with one message at a time.
LEMMA LoopStep ==
    BusTypes /\ BatchInv /\ LoopInv /\ HandledUpToOffset /\ [Next]_vars => LoopInv'
<1> SUFFICES ASSUME BusTypes, BatchInv, LoopInv, HandledUpToOffset, [Next]_vars PROVE LoopInv'
    OBVIOUS
<1> USE BusAssumption DEF busVars, loopVars, groupVars, subVars, Holding
<1>1. ASSUME NEW s \in Subs, Subscribe(s) PROVE LoopInv'
    BY <1>1 DEF BusTypes, LoopInv, Subscribe, Go
<1>2. ASSUME NEW s \in Subs, Deliver(s) PROVE LoopInv'
    <2>1. 1 .. acked[s] \subseteq ok[s] /\ acked[s] \in Nat /\ acked[s] + 1 <= last[s]
        BY <1>2 DEF BusTypes, HandledUpToOffset, Deliver
    <2>2. held'[s] = acked[s] + 1 /\ held'[s] - 1 = acked[s]
        BY <1>2, <2>1 DEF BusTypes, Deliver
    <2> QED BY <1>2, <2>1, <2>2 DEF BusTypes, LoopInv, Deliver, Go
<1>9. ASSUME NEW s \in Subs, ReadBatch(s) PROVE LoopInv'
    <2>1. last[s] <= last'[s] /\ \A t \in Subs \ {s} : last'[t] = last[t]
        BY <1>9 DEF BusTypes, ReadBatch
    <2>2. \A t \in Subs : held[t] <= last[t] => held[t] <= last'[t]
        BY <2>1, <1>9 DEF BusTypes, ReadBatch
    <2> QED BY <1>9, <2>2 DEF LoopInv, ReadBatch
<1>3. ASSUME NEW s \in Subs, CommitBatch(s) \/ Lapse(s) \/ CloseChannel(s) PROVE LoopInv'
    <2>1. ~live'[s]
        <3>1. CASE CommitBatch(s)
            BY <3>1 DEF BusTypes, LoopInv, CommitBatch
        <3>2. CASE Lapse(s) \/ CloseChannel(s)
            BY <3>2 DEF BusTypes, Lapse, CloseChannel
        <3> QED BY <1>3, <3>1, <3>2
    <2>2. acked[s] \in 0 .. Backlog /\ offset[s] \in 0 .. Backlog
        BY DEF BusTypes
    <2>3. /\ \A t \in Subs \ {s} : acked'[t] = acked[t] /\ last'[t] = last[t]
          /\ \A t \in Subs \ {s} : live'[t] = live[t]
        <3>1. \A t \in Subs \ {s} : acked'[t] = acked[t] /\ last'[t] = last[t]
            BY <1>3, <2>2, EndingSteps, EndBatchFacts
        <3>2. \A t \in Subs \ {s} : live'[t] = live[t]
            BY <1>3, EndingSteps DEF BusTypes
        <3> QED BY <3>1, <3>2
    <2>4. UNCHANGED <<loop, held, attempt, ok>>
        BY <1>3, EndingSteps
    <2> QED BY <2>1, <2>3, <2>4 DEF LoopInv
<1>4. ASSUME NEW s \in Subs, HandlerSucceeds(s) PROVE LoopInv'
    BY <1>4 DEF BusTypes, LoopInv, HandlerSucceeds, Go
<1>5. ASSUME NEW s \in Subs, HandlerFails(s) PROVE LoopInv'
    BY <1>5 DEF BusTypes, LoopInv, HandlerFails, Go
<1>6. ASSUME NEW s \in Subs, BackoffElapses(s) \/ BackoffCancelled(s) PROVE LoopInv'
    <2>1. CASE BackoffElapses(s)
        BY <2>1 DEF BusTypes, LoopInv, BackoffElapses, Go
    <2>2. CASE BackoffCancelled(s)
        BY <2>2 DEF BusTypes, LoopInv, BackoffCancelled, Go
    <2> QED BY <1>6, <2>1, <2>2
<1>7. ASSUME NEW s \in Subs, Ack(s) \/ Nack(s) PROVE LoopInv'
    BY <1>7 DEF BusTypes, LoopInv, Ack, Nack, Go
<1>8. ASSUME NEW s \in Subs, ReportError(s) \/ DrainError(s) \/ LoopExits(s)
      PROVE  LoopInv'
    BY <1>8 DEF BusTypes, LoopInv, ReportError, DrainError, LoopExits, Go
<1>10. CASE UNCHANGED <<subVars, faults>>
    BY <1>10 DEF LoopInv
<1> QED
    BY <1>1, <1>2, <1>3, <1>4, <1>5, <1>6, <1>7, <1>8, <1>9, <1>10, BusStepsFacts
    DEF Next, SubStep, vars

\* What is acknowledged goes back only to the offset, where the batch began, and moves on
\* by one Ack at a time, over a message whose handler has returned nil.
LEMMA AckedMoves ==
    ASSUME BusTypes, BatchInv, LoopInv, [Next]_vars, NEW s \in Subs
    PROVE  \/ acked'[s] = acked[s]
           \/ acked'[s] = offset[s]
           \/ acked'[s] = acked[s] + 1 /\ acked'[s] \in ok[s]
<1> USE BusAssumption DEF busVars, loopVars, groupVars, subVars, Holding
<1> DEFINE Goal == \/ acked'[s] = acked[s]
                   \/ acked'[s] = offset[s]
                   \/ acked'[s] = acked[s] + 1 /\ acked'[s] \in ok[s]
<1>1. ASSUME NEW t \in Subs, Ack(t) PROVE Goal
    BY <1>1 DEF BusTypes, LoopInv, Ack, Go
<1>2. ASSUME NEW t \in Subs, CommitBatch(t) \/ Lapse(t) \/ CloseChannel(t) PROVE Goal
    <2>1. acked[t] \in 0 .. Backlog /\ offset[t] \in 0 .. Backlog
        BY DEF BusTypes
    <2> QED BY <1>2, <2>1, EndingSteps, EndBatchFacts
<1>3. ASSUME UNCHANGED acked PROVE Goal
    BY <1>3
<1> HIDE DEF Goal
<1>4. Goal
    BY <1>1, <1>2, <1>3, BusStepsFacts
    DEF Next, SubStep, Subscribe, ReadBatch, Deliver, HandlerSucceeds, HandlerFails,
        BackoffElapses, BackoffCancelled, Nack, ReportError, DrainError, LoopExits, vars
<1> QED BY <1>4 DEF Goal

\* A handler's nil adds the message in hand to ok; nothing is ever taken from it.
LEMMA OkGrows ==
    ASSUME BusTypes, LoopInv, [Next]_vars, NEW s \in Subs
    PROVE  \/ ok'[s] = ok[s]
           \/ ok'[s] = ok[s] \cup {held[s]} /\ 1 .. held[s] - 1 \subseteq ok[s]
<1> USE BusAssumption DEF busVars, loopVars, groupVars, subVars, Holding
<1> DEFINE Goal == \/ ok'[s] = ok[s]
                   \/ ok'[s] = ok[s] \cup {held[s]} /\ 1 .. held[s] - 1 \subseteq ok[s]
<1>1. ASSUME NEW t \in Subs, HandlerSucceeds(t) PROVE Goal
    <2>1. 1 .. held[t] - 1 \subseteq ok[t]
        BY <1>1 DEF LoopInv, HandlerSucceeds, Go
    <2> QED BY <1>1, <2>1 DEF BusTypes, HandlerSucceeds
<1>2. ASSUME UNCHANGED ok PROVE Goal
    BY <1>2
<1>4. ASSUME NEW t \in Subs, CommitBatch(t) \/ Lapse(t) \/ CloseChannel(t) PROVE UNCHANGED ok
    BY <1>4, EndingSteps
<1> HIDE DEF Goal
<1>3. Goal
    BY <1>1, <1>2, <1>4, BusStepsFacts
    DEF Next, SubStep, Subscribe, ReadBatch, Deliver, HandlerFails, BackoffElapses,
        BackoffCancelled, Ack, Nack, ReportError, DrainError, LoopExits, vars
<1> QED BY <1>3 DEF Goal

\* Nothing is acknowledged that no handler has returned nil for, and no handler is done
\* with a message before its predecessors were.
LEMMA OffsetStep ==
    BusTypes /\ BatchInv /\ LoopInv /\ HandledUpToOffset /\ [Next]_vars => HandledUpToOffset'
<1> SUFFICES ASSUME BusTypes, BatchInv, LoopInv, HandledUpToOffset, [Next]_vars, NEW s \in Subs
             PROVE  1 .. acked'[s] \subseteq ok'[s] /\ \A k \in ok'[s] : 1 .. k \subseteq ok'[s]
    BY DEF HandledUpToOffset
<1>1. /\ acked[s] \in Nat /\ offset[s] \in Nat /\ offset[s] <= acked[s] /\ held[s] \in Nat
      /\ ok[s] \subseteq Nat
    BY BusAssumption DEF BusTypes, BatchInv
<1>2. 1 .. acked[s] \subseteq ok[s] /\ \A k \in ok[s] : 1 .. k \subseteq ok[s]
    BY DEF HandledUpToOffset
<1>3. 1 .. acked'[s] \subseteq ok[s]
    BY <1>1, <1>2, AckedMoves
<1>4. \A k \in ok'[s] : 1 .. k \subseteq ok'[s]
    BY <1>1, <1>2, OkGrows
<1>5. ok[s] \subseteq ok'[s]
    BY OkGrows
<1> QED BY <1>3, <1>4, <1>5
-------------------------------------------------------------------------------
(* Close.                                                                    *)

\* Once wg.Wait has returned in time nothing runs, and nothing is started again.
LEMMA DrainStep ==
    BusTypes /\ DrainedOrTimedOut /\ [Next]_vars => DrainedOrTimedOut'
<1> SUFFICES ASSUME BusTypes, DrainedOrTimedOut, [Next]_vars,
                    main' \in {"closePub", "closeDb", "closed"}, ~timedOut'
             PROVE  /\ \A s \in Subs : loop'[s] \in {"none", "exited"}
                    /\ fwd' \notin {"launched", "running"}
    BY DEF DrainedOrTimedOut
<1> USE DEF busVars, loopVars, groupVars, subVars
<1> DEFINE Drained == /\ \A s \in Subs : loop[s] \in {"none", "exited"}
                      /\ fwd \notin {"launched", "running"}
<1>1. ASSUME WaitEnds PROVE Drained'
    <2>1. InWaitGroup = {} /\ UNCHANGED <<loop, fwd>>
        BY <1>1 DEF WaitEnds, MainGoes
    <2> QED BY <2>1 DEF InWaitGroup
<1>2. ASSUME main \in {"closePub", "closeDb", "closed"}, ~timedOut PROVE Drained'
    <2>1. Drained
        BY <1>2 DEF DrainedOrTimedOut
    <2>2. ASSUME NEW s \in Subs, SubStep(s) PROVE UNCHANGED <<loop, fwd>>
        BY <2>1, <2>2
        DEF SubStep, ReadBatch, Deliver, CommitBatch, Lapse, CloseChannel,
            HandlerSucceeds, HandlerFails, BackoffElapses, BackoffCancelled, Ack, Nack,
            ReportError, LoopExits, DrainError, Go, BusTypes
    <2>3. ASSUME NEW s \in Subs, Subscribe(s) PROVE FALSE
        BY <1>2, <2>3 DEF Subscribe
    <2>4. CASE StartForwarder \/ ForwarderRuns \/ ForwarderStops \/ ForwarderStarted
        BY <1>2, <2>1, <2>4
        DEF StartForwarder, ForwarderRuns, ForwarderStops, ForwarderStarted
    <2>5. CASE CancelContext \/ CloseCalled \/ CloseStep
        BY <2>1, <2>5
        DEF CancelContext, CloseCalled, CloseStep, SubscriberClosed, ForwarderClosed,
            WaitEnds, PublisherClosed, DbClosed, MainGoes
    <2> HIDE DEF Drained
    <2>6. UNCHANGED <<loop, fwd>> => Drained'
        BY <2>1 DEF Drained
    <2> QED BY <2>2, <2>3, <2>4, <2>5, <2>6 DEF Next, vars
<1>3. WaitEnds \/ (main \in {"closePub", "closeDb", "closed"} /\ ~timedOut)
    BY DEF Next, Subscribe, SubStep, ReadBatch, Deliver, CommitBatch, Lapse, CloseChannel,
           HandlerSucceeds, HandlerFails, BackoffElapses, BackoffCancelled, Ack, Nack,
           ReportError, LoopExits, DrainError, StartForwarder, ForwarderRuns, ForwarderStops,
           ForwarderStarted, CancelContext, CloseCalled, CloseStep, SubscriberClosed,
           ForwarderClosed, PublisherClosed, DbClosed, MainGoes, vars
<1> QED BY <1>1, <1>2, <1>3
-------------------------------------------------------------------------------
(* The delay.                                                                *)

\* The delay doubles with the attempt and both are reset by a delivery.  That
\* powers of two double is a law of arithmetic that the provers do not know.
LEMMA DelayStep ==
    ASSUME \A n \in Nat : 2 ^ (n + 1) = 2 ^ n * 2
    PROVE  BusTypes /\ DelayInv /\ [Next]_vars => DelayInv'
<1> SUFFICES ASSUME BusTypes, DelayInv, [Next]_vars PROVE DelayInv'
    OBVIOUS
<1> USE BusAssumption DEF busVars, loopVars, groupVars, subVars
<1>1. ASSUME NEW s \in Subs, Deliver(s) PROVE DelayInv'
    <2>1. 2 ^ 0 = 1 /\ 1 - 1 = 0
        OBVIOUS
    <2>2. /\ attempt'[s] = 1 /\ delay'[s] = 1
          /\ \A t \in Subs : t # s => attempt'[t] = attempt[t] /\ delay'[t] = delay[t]
        BY <1>1 DEF BusTypes, Deliver
    <2> QED BY <2>1, <2>2 DEF DelayInv
<1>2. ASSUME NEW s \in Subs, BackoffElapses(s) PROVE DelayInv'
    <2>1. attempt[s] \in Nat /\ attempt[s] - 1 \in Nat
        BY DEF BusTypes
    <2>2. 2 ^ ((attempt[s] - 1) + 1) = delay[s] * 2
        BY <2>1 DEF DelayInv
    <2>3. /\ attempt'[s] = attempt[s] + 1 /\ delay'[s] = delay[s] * 2
          /\ \A t \in Subs : t # s => attempt'[t] = attempt[t] /\ delay'[t] = delay[t]
        BY <1>2 DEF BusTypes, BackoffElapses
    <2>4. attempt'[s] - 1 = (attempt[s] - 1) + 1
        BY <2>1, <2>3
    <2> QED BY <2>2, <2>3, <2>4 DEF DelayInv
<1>3. CASE UNCHANGED <<attempt, delay>>
    BY <1>3 DEF DelayInv
<1> QED
    BY <1>1, <1>2, <1>3, BusStepsFacts
    DEF Next, SubStep, Subscribe, ReadBatch, CommitBatch, Lapse, CloseChannel,
        HandlerSucceeds, HandlerFails,
        BackoffCancelled, Ack, Nack, ReportError, DrainError, LoopExits, vars

\* Every wait is twice the last, and only the last attempt is not followed by one.
LEMMA BackoffStep == BusTypes /\ BackoffInv /\ [Next]_vars => BackoffInv'
<1> SUFFICES ASSUME BusTypes, BackoffInv, [Next]_vars PROVE BackoffInv'
    OBVIOUS
<1> USE BusAssumption DEF busVars, loopVars, groupVars, subVars
<1>1. ctxDone => ctxDone'
    BY DEF Next, SubStep, Subscribe, ReadBatch, Deliver, CommitBatch, Lapse, CloseChannel,
           HandlerSucceeds, HandlerFails, BackoffElapses, BackoffCancelled, Ack, Nack,
           ReportError, LoopExits, DrainError, StartForwarder, ForwarderRuns, ForwarderStops,
           ForwarderStarted, CancelContext, CloseCalled, CloseStep, SubscriberClosed,
           ForwarderClosed, WaitEnds, PublisherClosed, DbClosed, MainGoes, vars
<1> DEFINE Kept(s) == /\ attempt'[s] = attempt[s] /\ delay'[s] = delay[s]
                      /\ loop'[s] = "nack" => loop[s] = "nack"
           Right(s) == /\ attempt'[s] = 1 => delay'[s] = 1
                       /\ attempt'[s] = 2 => delay'[s] = 2
                       /\ attempt'[s] = 3 => delay'[s] = 4
                       /\ loop'[s] = "nack" => ctxDone' \/ attempt'[s] = MaxRetries
<1>2. ASSUME NEW s \in Subs, Kept(s) PROVE Right(s)
    BY <1>1, <1>2 DEF BackoffInv
<1>3. ASSUME NEW s \in Subs, Deliver(s) PROVE \A t \in Subs : Kept(t) \/ Right(t)
    BY <1>3 DEF BusTypes, Deliver, Go
<1>4. ASSUME NEW s \in Subs, BackoffElapses(s) PROVE \A t \in Subs : Kept(t) \/ Right(t)
    <2>1. \A t \in Subs \ {s} : Kept(t)
        BY <1>4 DEF BusTypes, BackoffElapses, Go
    <2>2. /\ attempt'[s] = attempt[s] + 1 /\ delay'[s] = delay[s] * 2
          /\ attempt[s] \in Nat \ {0} /\ loop'[s] # "nack"
        BY <1>4 DEF BusTypes, BackoffElapses, Go
    <2>3. CASE attempt[s] = 1
        <3>1. delay[s] = 1
            BY <2>3 DEF BackoffInv
        <3> QED BY <2>1, <2>2, <2>3, <3>1
    <2>4. CASE attempt[s] = 2
        <3>1. delay[s] = 2
            BY <2>4 DEF BackoffInv
        <3> QED BY <2>1, <2>2, <2>4, <3>1
    <2>5. CASE attempt[s] \notin {1, 2}
        BY <2>1, <2>2, <2>5
    <2> QED BY <2>3, <2>4, <2>5
<1>5. ASSUME NEW s \in Subs, HandlerFails(s) PROVE \A t \in Subs : Kept(t) \/ Right(t)
    <2>1. \A t \in Subs \ {s} : Kept(t)
        BY <1>5 DEF BusTypes, HandlerFails, Go
    <2>2. /\ attempt' = attempt /\ delay' = delay
          /\ loop'[s] = "nack" => attempt[s] = MaxRetries
        BY <1>5 DEF BusTypes, HandlerFails, Go
    <2>3. Right(s)
        BY <2>2 DEF BackoffInv
    <2> QED BY <2>1, <2>3
<1>6. ASSUME NEW s \in Subs, BackoffCancelled(s) PROVE \A t \in Subs : Kept(t) \/ Right(t)
    <2>1. \A t \in Subs \ {s} : Kept(t)
        BY <1>6 DEF BusTypes, BackoffCancelled, Go
    <2>2. Right(s)
        BY <1>1, <1>6 DEF BackoffInv, BackoffCancelled
    <2> QED BY <2>1, <2>2
<1>7. ASSUME NEW s \in Subs, NEW from, NEW to, Go(s, from, to), to # "nack",
             UNCHANGED <<attempt, delay>>
      PROVE  \A t \in Subs : Kept(t)
    BY <1>7 DEF BusTypes, Go
<1>8. ASSUME UNCHANGED <<loop, attempt, delay>> PROVE \A t \in Subs : Kept(t)
    BY <1>8
<1> HIDE DEF Kept, Right
<1>9. ASSUME NEW s \in Subs, Subscribe(s) \/ SubStep(s)
      PROVE  \A t \in Subs : Kept(t) \/ Right(t)
    <2>1. ASSUME \/ Subscribe(s) \/ HandlerSucceeds(s) \/ Ack(s) \/ Nack(s)
                 \/ ReportError(s) \/ LoopExits(s)
          PROVE  \A t \in Subs : Kept(t)
        BY <1>7, <2>1 DEF Subscribe, HandlerSucceeds, Ack, Nack, ReportError, LoopExits
    <2>2. ASSUME ReadBatch(s) \/ CommitBatch(s) \/ Lapse(s) \/ CloseChannel(s) \/ DrainError(s)
          PROVE  \A t \in Subs : Kept(t)
        BY <1>8, <2>2 DEF ReadBatch, CommitBatch, Lapse, CloseChannel, DrainError
    <2> QED BY <1>3, <1>4, <1>5, <1>6, <1>9, <2>1, <2>2 DEF SubStep
<1>10. \A t \in Subs : Kept(t) \/ Right(t)
    BY <1>8, <1>9, BusStepsFacts DEF Next, vars
<1>11. \A t \in Subs : Right(t)
    BY <1>2, <1>10
<1> QED BY <1>11 DEF BackoffInv, Right
-------------------------------------------------------------------------------
(* The theorems.                                                             *)

\* The strengthening of the invariants holds in every reachable state.
THEOREM Invariance == SafeSpec => []IInv
<1>1. Init => IInv
    <2> SUFFICES ASSUME Init PROVE IInv
        OBVIOUS
    <2>1. BusTypes
        <3>1. /\ 0 \in 0 .. Backlog /\ 1 \in 1 .. MaxRetries
              /\ 0 \in 0 .. ErrCap /\ 0 \in 0 .. MaxFaults
            BY BusAssumption
        <3> QED BY <3>1 DEF Init, BusTypes
    <2>2. BatchInv /\ LoopInv /\ DrainedOrTimedOut
        BY BusAssumption DEF Init, BatchInv, LoopInv, Holding, DrainedOrTimedOut
    <2>3. HandledUpToOffset
        BY DEF Init, HandledUpToOffset
    <2> QED BY <2>1, <2>2, <2>3 DEF IInv
<1>2. IInv /\ [Next]_vars => IInv'
    BY TypeStep, BatchStep, LoopStep, OffsetStep, DrainStep DEF IInv
<1> QED BY <1>1, <1>2, PTL DEF SafeSpec

\* At-least-once in order, for any backlog: the offset has only passed messages
\* that a handler returned nil for.
THEOREM NothingSkipped == SafeSpec => []HandledUpToOffset
<1>1. IInv => HandledUpToOffset
    BY DEF IInv
<1> QED BY <1>1, Invariance, PTL

\* The offset of a group never goes back, moves on by a batch at most, and passes only
\* messages that a handler has returned nil for before.
MovesOverHandled ==
    \A s \in Subs : /\ offset[s] <= offset'[s] /\ offset'[s] <= offset[s] + BatchSize
                    /\ 1 .. offset'[s] \subseteq ok[s]

THEOREM OffsetMovesOverHandled == SafeSpec => [][MovesOverHandled]_vars
<1>1. IInv /\ [Next]_vars => MovesOverHandled
    <2> SUFFICES ASSUME IInv, [Next]_vars, NEW s \in Subs
                 PROVE  /\ offset[s] <= offset'[s] /\ offset'[s] <= offset[s] + BatchSize
                        /\ 1 .. offset'[s] \subseteq ok[s]
        BY DEF MovesOverHandled
    <2> USE BusAssumption DEF busVars, loopVars, groupVars, subVars
    <2>1. BusTypes /\ BatchInv /\ 1 .. acked[s] \subseteq ok[s]
        BY DEF IInv, HandledUpToOffset
    <2>2. /\ offset[s] \in 0 .. Backlog /\ acked[s] \in 0 .. Backlog /\ offset[s] <= acked[s]
          /\ last[s] \in 0 .. Backlog /\ acked[s] <= offset[s] + BatchSize
        BY <2>1 DEF BusTypes, BatchInv
    <2> DEFINE Goal == offset'[s] \in {offset[s], acked[s]}
    <2>3. ASSUME NEW t \in Subs, CommitBatch(t) \/ Lapse(t) \/ CloseChannel(t) PROVE Goal
        <3>1. acked[t] \in 0 .. Backlog /\ offset[t] \in 0 .. Backlog
            BY <2>1 DEF BusTypes
        <3> QED BY <2>1, <2>3, <3>1, EndingSteps, EndBatchFacts
    <2>4. ASSUME UNCHANGED offset PROVE Goal
        BY <2>4
    <2> HIDE DEF Goal
    <2>5. Goal
        BY <2>1, <2>3, <2>4, BusStepsFacts
        DEF Next, SubStep, Subscribe, ReadBatch, Deliver, HandlerSucceeds, HandlerFails,
            BackoffElapses, BackoffCancelled, Ack, Nack, ReportError, DrainError,
            LoopExits, vars
    <2> QED BY <2>1, <2>2, <2>5 DEF Goal
<1> QED BY <1>1, Invariance, PTL DEF SafeSpec

\* The goroutine of a subscription as a consumer group; its topic has all its
\* messages from the start.
Group(s) == INSTANCE ConsumerGroup WITH
    size <- Backlog, offset <- offset[s], front <- acked[s],
    done <- loop[s] = "ack" /\ live[s]

\* The goroutine that Subscribe starts, with its retries, its cancelled waits, late
\* acknowledgements and whatever Close does around it, is the consumer group that
\* ItemOutbox abstracts it to.
THEOREM SubscriptionsAreGroups == SafeSpec => \A s \in Subs : Group(s)!Spec
<1> SUFFICES ASSUME NEW s \in Subs PROVE SafeSpec => Group(s)!Spec
    OBVIOUS
<1>1. Init => Group(s)!Init
    BY BusAssumption DEF Init, Group!Init
<1>2. IInv /\ [Next]_vars => [Group(s)!Next]_(Group(s)!groupVars)
    <2> SUFFICES ASSUME BusTypes, BatchInv, LoopInv, [Next]_vars
                 PROVE  [Group(s)!Next]_(Group(s)!groupVars)
        BY DEF IInv
    <2> USE DEF busVars, loopVars, groupVars, subVars
    <2> DEFINE done == loop[s] = "ack" /\ live[s]
               Acks == done /\ ~done' /\ acked'[s] = acked[s] + 1 /\ offset'[s] = offset[s]
               Works == /\ done' /\ acked[s] < Backlog
                        /\ acked'[s] = acked[s] /\ offset'[s] = offset[s]
               Returns == /\ ~done' /\ offset'[s] \in {offset[s], acked[s]}
                          /\ acked'[s] = offset'[s]
               Same == /\ done' <=> done
                       /\ acked'[s] = acked[s] /\ offset'[s] = offset[s]
               Goal == Acks \/ Works \/ Returns \/ Same
    <2>1. ASSUME NEW t \in Subs, Ack(t) PROVE Goal
        <3>1. CASE t = s /\ live[s]
            BY <2>1, <3>1 DEF BusTypes, LoopInv, Ack, Go
        <3>2. CASE ~(t = s /\ live[s])
            BY <2>1, <3>2 DEF BusTypes, Ack, Go
        <3> QED BY <3>1, <3>2
    <2>2. ASSUME NEW t \in Subs, HandlerSucceeds(t) PROVE Goal
        <3>1. CASE t = s /\ live[s]
            <4>1. acked[s] < Backlog
                BY <3>1, BusAssumption DEF BusTypes, LoopInv
            <4> QED BY <2>2, <3>1, <4>1 DEF BusTypes, HandlerSucceeds, Go
        <3>2. CASE ~(t = s /\ live[s])
            BY <2>2, <3>2 DEF BusTypes, HandlerSucceeds, Go
        <3> QED BY <3>1, <3>2
    <2>3. ASSUME NEW t \in Subs, CommitBatch(t) \/ Lapse(t) \/ CloseChannel(t) PROVE Goal
        <3>1. acked[t] \in 0 .. Backlog /\ offset[t] \in 0 .. Backlog
            BY DEF BusTypes
        <3>2. CASE t = s
            <4>1. ~live'[s]
                <5>1. CASE CommitBatch(s)
                    BY <5>1, BusAssumption DEF BusTypes, LoopInv, CommitBatch
                <5>2. CASE Lapse(s) \/ CloseChannel(s)
                    BY <5>2 DEF BusTypes, Lapse, CloseChannel
                <5> QED BY <2>3, <3>2, <5>1, <5>2
            <4>2. offset'[s] \in {offset[s], acked[s]} /\ acked'[s] = offset'[s]
                BY <2>3, <3>1, <3>2, EndingSteps, EndBatchFacts
            <4> QED BY <4>1, <4>2
        <3>3. CASE t # s
            <4>1. acked'[s] = acked[s] /\ offset'[s] = offset[s]
                BY <2>3, <3>1, <3>3, EndingSteps, EndBatchFacts
            <4>2. loop' = loop /\ live'[s] = live[s]
                BY <2>3, <3>3, EndingSteps DEF BusTypes
            <4> QED BY <4>1, <4>2
        <3> QED BY <3>2, <3>3
    <2>4. ASSUME NEW t \in Subs, NEW from, NEW to, Go(t, from, to), from # "ack", to # "ack",
                 live' = live \/ \E b : live' = [live EXCEPT ![t] = b],
                 UNCHANGED <<acked, offset>>
          PROVE  Goal
        BY <2>4 DEF BusTypes, Go
    <2>5. ASSUME UNCHANGED <<loop, live, acked, offset>> PROVE Goal
        BY <2>5
    <2> HIDE DEF Goal
    <2>6. ASSUME NEW t \in Subs, Subscribe(t) \/ SubStep(t) PROVE Goal
        <3>1. ASSUME HandlerFails(t) PROVE Goal
            <4>1. (IF attempt[t] < MaxRetries THEN "backoff" ELSE "nack") # "ack"
                OBVIOUS
            <4> QED BY <2>4, <3>1, <4>1 DEF HandlerFails
        <3>2. ASSUME \/ Subscribe(t) \/ BackoffElapses(t) \/ BackoffCancelled(t)
                     \/ ReportError(t) \/ LoopExits(t)
              PROVE  Goal
            BY <2>4, <3>2
            DEF Subscribe, BackoffElapses, BackoffCancelled, ReportError, LoopExits
        <3>3. ASSUME Deliver(t) \/ Nack(t) PROVE Goal
            BY <2>4, <3>3 DEF Deliver, Nack
        <3>4. ASSUME ReadBatch(t) \/ DrainError(t) PROVE Goal
            BY <2>5, <3>4 DEF ReadBatch, DrainError
        <3> QED BY <2>1, <2>2, <2>3, <2>6, <3>1, <3>2, <3>3, <3>4 DEF SubStep
    <2>7. Goal
        BY <2>5, <2>6, BusStepsFacts DEF Next, vars
    <2>8. Acks => Group(s)!Acknowledge
        BY DEF Group!Acknowledge
    <2>9. Works => Group(s)!Work
        BY DEF Group!Work
    <2>10. Returns => Group(s)!Return
        BY DEF Group!Return
    <2>11. Same => UNCHANGED Group(s)!groupVars
        BY DEF Group!groupVars
    <2> QED BY <2>7, <2>8, <2>9, <2>10, <2>11 DEF Goal, Group!Next
<1> QED BY <1>1, <1>2, Invariance, PTL DEF SafeSpec, Group!Spec

\* Close takes the publisher and the database from nobody, unless it timed out.
THEOREM CloseDrains == SafeSpec => []DrainedOrTimedOut
<1>1. IInv => DrainedOrTimedOut
    BY DEF IInv
<1> QED BY <1>1, Invariance, PTL

\* Every variable keeps its type: no goroutine holds a message it may not have, no
\* message is tried more than maxRetries times, and the delay has doubled with
\* every retry (granted that powers of two double).
THEOREM TypeCorrect ==
    ASSUME \A n \in Nat : 2 ^ (n + 1) = 2 ^ n * 2
    PROVE  SafeSpec => []TypeOK
<1>1. Init => DelayInv
    <2>1. 2 ^ 0 = 1 /\ 1 - 1 = 0
        OBVIOUS
    <2> QED BY <2>1 DEF Init, DelayInv
<1>2. IInv /\ DelayInv /\ [Next]_vars => DelayInv'
    BY DelayStep DEF IInv
<1>3. IInv /\ DelayInv => TypeOK
    <2> SUFFICES ASSUME IInv, DelayInv PROVE TypeOK
        OBVIOUS
    <2>1. \A s \in Subs : acked[s] \in 0 .. last[s] /\ offset[s] \in 0 .. acked[s]
        BY BusAssumption DEF IInv, BusTypes, BatchInv
    <2> QED BY <2>1 DEF IInv, DelayInv, BusTypes, TypeOK, Holding
<1> QED BY <1>1, <1>2, <1>3, Invariance, PTL DEF SafeSpec

\* The part of DocumentedBackoff that the code keeps: unless the context is cancelled,
\* a message is given up after exactly maxRetries calls of its handler; with three of
\* them the waits are 1 s and 2 s, and there is no third retry and no wait of 4 s.
THEOREM BackoffIsShort == SafeSpec => []BackoffUsesUpRetries
<1>1. Init => BackoffInv
    BY DEF Init, BackoffInv
<1>2. IInv /\ BackoffInv /\ [Next]_vars => BackoffInv'
    BY BackoffStep DEF IInv
<1>3. BackoffInv => BackoffUsesUpRetries
    BY DEF BackoffInv, BackoffUsesUpRetries
<1> QED BY <1>1, <1>2, <1>3, Invariance, PTL DEF SafeSpec
===============================================================================
