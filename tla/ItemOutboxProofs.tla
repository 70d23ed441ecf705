--------------------------- MODULE ItemOutboxProofs ---------------------------
(***************************************************************************)
(* Proofs about ItemOutbox, for any number of calls, keys, processes and   *)
(* faults: type correctness, the safety invariants, and the safety part of *)
(* the refinement of ReliableEvents.                                       *)
(***************************************************************************)
EXTENDS ItemOutbox, TLAPS

\* How far a call is tells what it has stored and what its caller knows.
CallInv ==
    /\ \A r \in stored : pc[r] \in {"committed", "done"}
    /\ \A r \in Requests : pc[r] = "committed" => r \in stored
    /\ \A r \in Requests : reply[r] # "none" => pc[r] = "done"
    /\ \A r \in Requests : pc[r] \notin {"idle", "done"} => id[r] \in Ids
    /\ \A i \in Ids : rows[i] # None => rows[i] \in stored /\ id[rows[i]] = i

\* The first k messages of the queue are on the topic.
OnTopic(k) == \A j \in 1 .. k : InLog(topic, outbox[j])

\* The topic holds only messages of the queue, and whoever is to publish one, with the
\* lock or without, finds all that were queued before it there.
ForwarderInv ==
    /\ \A m \in 1 .. Len(topic) : InLog(outbox, topic[m])
    /\ OnTopic(fwdAt) /\ (fwdSent => OnTopic(fwdAt + 1))
    /\ \A s \in fwdLate : OnTopic(s.at - 1)

\* The first k messages of the topic have been handled.
HandledTo(k) == \A j \in 1 .. k : topic[j] \in handled

\* Whoever is to handle a message of the topic, with the lock or without, comes after all
\* before it have been handled; so what is handled was in its turn.
SubscriberInv ==
    /\ \A e \in handled : \E k \in 1 .. Len(topic) : topic[k] = e /\ HandledTo(k)
    /\ HandledTo(subAt) /\ (subDone => HandledTo(subAt + 1))
    /\ \A s \in subLate : HandledTo(s.at - 1)

\* The inductive strengthening of the invariants.
IInv ==
    /\ TypeOK
    /\ CallInv
    /\ AtomicOutbox
    /\ HonestReply
    /\ ForwarderInv
    /\ FirstCopiesInOrder
    /\ SubscriberInv
-------------------------------------------------------------------------------
(* Logs.                                                                     *)

\* What appending a message does to a log: it grows by one at its end.
LEMMA AppendFacts ==
    ASSUME NEW S, NEW log \in Seq(S), NEW e \in S
    PROVE  /\ Append(log, e) \in Seq(S)
           /\ Len(Append(log, e)) = Len(log) + 1
           /\ Len(log) \in Nat
           /\ \A k \in 1 .. Len(log) : Append(log, e)[k] = log[k]
           /\ Append(log, e)[Len(log) + 1] = e
    OBVIOUS

\* A log that got e appended holds what it held, and e.
LEMMA InLogAppend ==
    ASSUME NEW S, NEW log \in Seq(S), NEW e \in S
    PROVE  \A x : InLog(Append(log, e), x) <=> InLog(log, x) \/ x = e
<1>1. ASSUME NEW x, InLog(Append(log, e), x)
      PROVE  InLog(log, x) \/ x = e
    BY <1>1, AppendFacts DEF InLog
<1>2. ASSUME NEW x, InLog(log, x)
      PROVE  InLog(Append(log, e), x)
    BY <1>2, AppendFacts DEF InLog
<1>3. InLog(Append(log, e), e)
    <2>1. Len(log) + 1 \in 1 .. Len(Append(log, e))
        BY AppendFacts
    <2> QED BY <2>1, AppendFacts DEF InLog
<1> QED BY <1>1, <1>2, <1>3
-------------------------------------------------------------------------------
(* Who changes what.                                                         *)

\* Calls change only by their own steps, by deletions and with their process.
LEMMA SaveCases ==
    [Next]_vars => \/ \E r \in Requests, a \in Apis, i \in Ids : Begin(r, a, i)
                   \/ \E r \in Requests : \/ InsertItem(r) \/ PublishCreated(r) \/ SaveFails(r)
                                          \/ CommitTx(r) \/ Respond(r)
                   \/ \E i \in Ids : DeleteItem(i)
                   \/ \E a \in Apis : ApiCrash(a)
                   \/ UNCHANGED <<saveVars, dbVars, outbox>>
    BY DEF Next, SaveStep, ApiStep, WorkerStep, ForwarderTake, ForwarderPublish, ForwarderNacks,
           ForwarderAck, ForwarderCommit, ForwarderLapses, LatePublish, SubscriberTake,
           HandlerSucceeds, HandlerExhausted, SubscriberAck, SubscriberCommit, SubscriberLapses,
           LateHandler, WorkerCrash, vars

\* Queue, topic and forwarders change only by COMMIT and by the forwarders' steps.
LEMMA ForwarderCases ==
    [Next]_vars => \/ \E r \in Requests : CommitTx(r)
                   \/ \E a \in Apis : \/ ForwarderTake(a) \/ ForwarderPublish(a)
                                      \/ ForwarderNacks(a) \/ ForwarderAck(a)
                                      \/ ForwarderCommit(a) \/ ForwarderLapses(a) \/ ApiCrash(a)
                   \/ \E s \in fwdLate : LatePublish(s)
                   \/ UNCHANGED <<outbox, fwdVars, topic>>
    BY DEF Next, SaveStep, ApiStep, WorkerStep, Begin, InsertItem, PublishCreated, SaveFails,
           Respond, DeleteItem, SubscriberTake, HandlerSucceeds, HandlerExhausted, SubscriberAck,
           SubscriberCommit, SubscriberLapses, LateHandler, WorkerCrash, vars

\* The subscribers' state changes only by their own steps.
LEMMA SubscriberCases ==
    [Next]_vars => \/ \E w \in Workers : \/ SubscriberTake(w) \/ HandlerSucceeds(w)
                                         \/ SubscriberAck(w) \/ SubscriberCommit(w)
                                         \/ SubscriberLapses(w) \/ WorkerCrash(w)
                   \/ \E s \in subLate : LateHandler(s)
                   \/ UNCHANGED subVars
    BY DEF Next, SaveStep, ApiStep, WorkerStep, Begin, InsertItem, PublishCreated, SaveFails,
           CommitTx, Respond, DeleteItem, ForwarderTake, ForwarderPublish, ForwarderNacks,
           ForwarderAck, ForwarderCommit, ForwarderLapses, LatePublish, ApiCrash,
           HandlerExhausted, vars

\* Faults are only counted up, to their bound.
LEMMA FaultCases ==
    [Next]_vars => Fault \/ faults' = faults
    BY DEF Next, SaveStep, ApiStep, WorkerStep, Begin, InsertItem, PublishCreated, SaveFails,
           CommitTx, Respond, DeleteItem, ForwarderTake, ForwarderPublish, ForwarderNacks,
           ForwarderAck, ForwarderCommit, ForwarderLapses, LatePublish, ApiCrash,
           SubscriberTake, HandlerSucceeds, HandlerExhausted, SubscriberAck, SubscriberCommit,
           SubscriberLapses, LateHandler, WorkerCrash, vars
-------------------------------------------------------------------------------
(* Type correctness, part by part.                                           *)

SaveTypes ==
    /\ pc \in [Requests -> {"idle", "tx", "inserted", "published", "committed", "done"}]
    /\ api \in [Requests -> Apis \cup {None}]
    /\ id \in [Requests -> Ids \cup {None}]
    /\ reply \in [Requests -> {"none", "created", "exists", "error"}]
    /\ rows \in [Ids -> Requests \cup {None}]
    /\ stored \in SUBSET Requests

FwdTypes ==
    /\ outbox \in Seq(Requests)
    /\ fwdHolder \in Apis \cup {None}
    /\ fwdLast \in 0 .. Len(outbox) /\ fwdAt \in 0 .. fwdLast /\ outboxAcked \in 0 .. fwdAt
    /\ fwdHolder = None => fwdLast = outboxAcked
    /\ fwdSent \in BOOLEAN /\ (fwdSent => fwdAt < fwdLast)
    /\ fwdLate \subseteq Deliveries(Apis, outbox)

SubTypes ==
    /\ topic \in Seq(Requests)
    /\ subHolder \in Workers \cup {None}
    /\ subLast \in 0 .. Len(topic) /\ subAt \in 0 .. subLast /\ topicAcked \in 0 .. subAt
    /\ subHolder = None => subLast = topicAcked
    /\ subDone \in BOOLEAN /\ (subDone => subAt < subLast)
    /\ subLate \subseteq Deliveries(Workers, topic)
    /\ handled \in SUBSET Requests

LEMMA TypeParts ==
    /\ TypeOK <=> SaveTypes /\ FwdTypes /\ SubTypes /\ faults \in 0 .. MaxFaults
    /\ TypeOK' <=> SaveTypes' /\ FwdTypes' /\ SubTypes' /\ faults' \in 0 .. MaxFaults
    BY DEF TypeOK, SaveTypes, FwdTypes, SubTypes

\* A batch ends behind its offset, within the log.
LEMMA BatchFacts ==
    ASSUME NEW log, Len(log) \in Nat, NEW offset \in 0 .. Len(log) - 1
    PROVE  BatchEnd(offset, log) \in offset + 1 .. Len(log)
    BY OutboxAssumption DEF BatchEnd

\* A delivery that goes on begins and ends within the log, and starts where it is told.
LEMMA LateFacts ==
    ASSUME NEW P, NEW log, Len(log) \in Nat, NEW p \in P,
           NEW first \in Nat, NEW last \in 0 .. Len(log), faults' \in 1 .. MaxFaults
    PROVE  /\ Late(p, first, last) \subseteq Deliveries(P, log)
           /\ \A s \in Late(p, first, last) : s.at = first
<1> SUFFICES ASSUME NEW s \in Late(p, first, last)
             PROVE  s \in Deliveries(P, log) /\ s.at = first
    OBVIOUS
<1>1. PICK n \in {first} \cap (1 .. last) :
          s = [by |-> p, fault |-> faults', at |-> n, last |-> last]
    BY DEF Late
<1>2. n \in 1 .. Len(log) /\ last \in 1 .. Len(log) /\ n <= last /\ n = first
    BY <1>1
<1> QED BY <1>1, <1>2 DEF Deliveries

\* A delivery that has done one message goes on with the next, if there is one.
LEMMA GoesOnFacts ==
    ASSUME NEW P, NEW log, Len(log) \in Nat, NEW s \in Deliveries(P, log)
    PROVE  /\ s.at \in 1 .. Len(log)
           /\ GoesOn(s) \subseteq Deliveries(P, log)
           /\ \A n \in GoesOn(s) : n.at = s.at + 1
<1>1. /\ s \in [by : P, fault : 1 .. MaxFaults, at : 1 .. Len(log), last : 1 .. Len(log)]
      /\ s.at <= s.last
    BY DEF Deliveries
<1>2. ASSUME NEW n \in GoesOn(s) PROVE n \in Deliveries(P, log) /\ n.at = s.at + 1
    <2>1. s.at + 1 \in 1 .. s.last /\ n = [s EXCEPT !.at = s.at + 1]
        BY <1>2 DEF GoesOn
    <2>2. s.at + 1 \in 1 .. Len(log)
        BY <1>1, <2>1
    <2>3. /\ n \in [by : P, fault : 1 .. MaxFaults, at : 1 .. Len(log), last : 1 .. Len(log)]
          /\ n.at = s.at + 1 /\ n.last = s.last
        BY <1>1, <2>1, <2>2
    <2> QED BY <2>1, <2>3 DEF Deliveries
<1> QED BY <1>1, <1>2

\* What is a delivery of messages of a log stays one when the log grows.
LEMMA DeliveriesGrow ==
    ASSUME NEW P, NEW log, NEW longer, Len(log) \in Nat, Len(longer) \in Nat,
           Len(log) <= Len(longer)
    PROVE  Deliveries(P, log) \subseteq Deliveries(P, longer)
<1>1. 1 .. Len(log) \subseteq 1 .. Len(longer)
    OBVIOUS
<1> QED BY <1>1 DEF Deliveries

\* What is out, with the first message that is not done, is within the batch.
LEMMA FwdOutFacts ==
    ASSUME FwdTypes
    PROVE  /\ Len(outbox) \in Nat
           /\ fwdNext \in Nat /\ fwdOut \in 0 .. Len(outbox) /\ fwdLast \in 0 .. Len(outbox)
    BY DEF FwdTypes, fwdNext, fwdOut

LEMMA SubOutFacts ==
    ASSUME SubTypes
    PROVE  /\ Len(topic) \in Nat
           /\ subNext \in Nat /\ subOut \in 0 .. Len(topic) /\ subLast \in 0 .. Len(topic)
    BY DEF SubTypes, subNext, subOut

\* A fault gets a number of its own.
LEMMA FaultFacts ==
    ASSUME faults \in 0 .. MaxFaults, Fault
    PROVE  faults' \in 1 .. MaxFaults
    BY OutboxAssumption DEF Fault

LEMMA FaultTypeStep == TypeOK /\ [Next]_vars => faults' \in 0 .. MaxFaults
<1> SUFFICES ASSUME TypeOK, [Next]_vars PROVE faults' \in 0 .. MaxFaults
    OBVIOUS
<1>1. faults \in 0 .. MaxFaults
    BY TypeParts
<1>2. CASE Fault
    BY <1>1, <1>2, FaultFacts
<1>3. CASE faults' = faults
    BY <1>1, <1>3
<1> QED BY <1>2, <1>3, FaultCases

LEMMA SaveTypeStep == TypeOK /\ [Next]_vars => SaveTypes'
<1> SUFFICES ASSUME TypeOK, [Next]_vars PROVE SaveTypes'
    OBVIOUS
<1>0. SaveTypes
    BY TypeParts
<1>1. ASSUME NEW r \in Requests, NEW a \in Apis, NEW i \in Ids, Begin(r, a, i)
      PROVE  SaveTypes'
    BY <1>0, <1>1 DEF SaveTypes, Begin, dbVars
<1>2. ASSUME NEW r \in Requests, InsertItem(r) PROVE SaveTypes'
    BY <1>0, <1>2 DEF SaveTypes, InsertItem, Finish, dbVars
<1>3. ASSUME NEW r \in Requests, PublishCreated(r) PROVE SaveTypes'
    BY <1>0, <1>3 DEF SaveTypes, PublishCreated, dbVars
<1>4. ASSUME NEW r \in Requests, SaveFails(r) PROVE SaveTypes'
    BY <1>0, <1>4 DEF SaveTypes, SaveFails, Finish, dbVars
<1>5. ASSUME NEW r \in Requests, CommitTx(r) PROVE SaveTypes'
    BY <1>0, <1>5 DEF SaveTypes, CommitTx
<1>6. ASSUME NEW r \in Requests, Respond(r) PROVE SaveTypes'
    <2>1. PICK outcome \in {"created", "error"} : Finish(r, outcome)
        BY <1>6 DEF Respond
    <2> QED BY <1>0, <1>6, <2>1 DEF SaveTypes, Respond, Finish, dbVars
<1>7. ASSUME NEW i \in Ids, DeleteItem(i) PROVE SaveTypes'
    BY <1>0, <1>7 DEF SaveTypes, DeleteItem, saveVars
<1>8. ASSUME NEW a \in Apis, ApiCrash(a) PROVE SaveTypes'
    BY <1>0, <1>8 DEF SaveTypes, ApiCrash, dbVars
<1>9. CASE UNCHANGED <<saveVars, dbVars, outbox>>
    BY <1>0, <1>9 DEF SaveTypes, saveVars, dbVars
<1> QED BY <1>1, <1>2, <1>3, <1>4, <1>5, <1>6, <1>7, <1>8, <1>9, SaveCases

LEMMA FwdTypeStep == TypeOK /\ [Next]_vars => FwdTypes'
<1> SUFFICES ASSUME TypeOK, [Next]_vars PROVE FwdTypes'
    OBVIOUS
<1> USE OutboxAssumption
<1>0. FwdTypes /\ faults \in 0 .. MaxFaults /\ Len(outbox) \in Nat
    BY TypeParts DEF FwdTypes
<1>1. ASSUME NEW r \in Requests, CommitTx(r) PROVE FwdTypes'
    <2>1. /\ outbox' \in Seq(Requests) /\ Len(outbox') = Len(outbox) + 1
          /\ UNCHANGED fwdVars
        BY <1>0, <1>1, AppendFacts DEF FwdTypes, CommitTx
    <2>2. Deliveries(Apis, outbox) \subseteq Deliveries(Apis, outbox')
        BY <1>0, <2>1, DeliveriesGrow
    <2>3. fwdLast \in 0 .. Len(outbox')
        BY <1>0, <2>1 DEF FwdTypes
    <2> QED BY <1>0, <2>1, <2>2, <2>3 DEF FwdTypes, fwdVars
<1>2. ASSUME NEW a \in Apis, ForwarderTake(a) PROVE FwdTypes'
    <2>1. BatchEnd(outboxAcked, outbox) \in outboxAcked + 1 .. Len(outbox)
        BY <1>0, <1>2, BatchFacts DEF FwdTypes, ForwarderTake
    <2> QED BY <1>0, <1>2, <2>1 DEF FwdTypes, ForwarderTake
<1>3. ASSUME NEW a \in Apis, ForwarderPublish(a) \/ ForwarderNacks(a) PROVE FwdTypes'
    BY <1>0, <1>3 DEF FwdTypes, ForwarderPublish, ForwarderNacks, Forwards, fwdVars
<1>4. ASSUME NEW a \in Apis, ForwarderAck(a) PROVE FwdTypes'
    <2>1. fwdSent' \in BOOLEAN /\ (fwdSent' => fwdAt' < fwdLast')
        BY <1>4 DEF ForwarderAck
    <2>2. fwdAt' \in 0 .. fwdLast /\ outboxAcked \in 0 .. fwdAt'
        BY <1>0, <1>4 DEF FwdTypes, ForwarderAck
    <2> QED BY <1>0, <1>4, <2>1, <2>2 DEF FwdTypes, ForwarderAck
<1>5. ASSUME outboxAcked' \in {outboxAcked, fwdAt}, ForwarderReleases, outbox' = outbox,
             fwdLate' \subseteq Deliveries(Apis, outbox)
      PROVE  FwdTypes'
    <2>1. fwdSent' \in BOOLEAN /\ (fwdSent' => fwdAt' < fwdLast')
        BY <1>5 DEF ForwarderReleases
    <2>2. /\ fwdLast' \in 0 .. Len(outbox) /\ fwdAt' \in 0 .. fwdLast' /\ outboxAcked' \in 0 .. fwdAt'
          /\ fwdHolder' = None /\ fwdLast' = outboxAcked'
        BY <1>0, <1>5 DEF FwdTypes, ForwarderReleases
    <2> QED BY <1>0, <1>5, <2>1, <2>2 DEF FwdTypes
<1>6. ASSUME NEW a \in Apis, ForwarderCommit(a) PROVE FwdTypes'
    BY <1>0, <1>5, <1>6 DEF FwdTypes, ForwarderCommit
<1>7. ASSUME NEW a \in Apis, ForwarderLapses(a) PROVE FwdTypes'
    <2>1. /\ Late(a, fwdNext, fwdOut) \subseteq Deliveries(Apis, outbox)
          /\ Late(a, fwdNext, fwdLast) \subseteq Deliveries(Apis, outbox)
        BY <1>0, <1>7, FaultFacts, FwdOutFacts, LateFacts DEF ForwarderLapses
    <2>2. fwdLate' \subseteq Deliveries(Apis, outbox)
        BY <1>0, <1>7, <2>1 DEF FwdTypes, ForwarderLapses
    <2> QED BY <1>5, <1>7, <2>2 DEF ForwarderLapses
<1>8. ASSUME NEW s \in fwdLate, LatePublish(s) PROVE FwdTypes'
    <2>1. GoesOn(s) \subseteq Deliveries(Apis, outbox)
        BY <1>0, GoesOnFacts DEF FwdTypes
    <2>2. fwdLate' \subseteq Deliveries(Apis, outbox)
        BY <1>0, <1>8, <2>1 DEF FwdTypes, LatePublish
    <2> QED BY <1>0, <1>8, <2>2 DEF FwdTypes, LatePublish
<1>9. ASSUME NEW a \in Apis, ApiCrash(a) PROVE FwdTypes'
    <2>1. Late(a, fwdNext, fwdOut) \subseteq Deliveries(Apis, outbox)
        BY <1>0, <1>9, FaultFacts, FwdOutFacts, LateFacts DEF ApiCrash
    <2>2. ASSUME NEW s \in fwdLate
          PROVE  (IF s.by = a THEN [s EXCEPT !.last = s.at] ELSE s) \in Deliveries(Apis, outbox)
        <3>1. s \in Deliveries(Apis, outbox)
            BY <1>0 DEF FwdTypes
        <3>2. [s EXCEPT !.last = s.at] \in Deliveries(Apis, outbox)
            BY <3>1 DEF Deliveries
        <3> QED BY <3>1, <3>2
    <2>3. fwdLate' \subseteq Deliveries(Apis, outbox)
        BY <1>9, <2>1, <2>2 DEF ApiCrash
    <2>4. CASE fwdHolder = a
        BY <1>5, <1>9, <2>3, <2>4 DEF ApiCrash
    <2>5. CASE fwdHolder # a
        BY <1>0, <1>9, <2>3, <2>5 DEF FwdTypes, ApiCrash
    <2> QED BY <2>4, <2>5
<1>10. CASE UNCHANGED <<outbox, fwdVars, topic>>
    BY <1>0, <1>10 DEF FwdTypes, fwdVars
<1> QED BY <1>1, <1>2, <1>3, <1>4, <1>6, <1>7, <1>8, <1>9, <1>10, ForwarderCases

\* Whoever publishes appends a message of the queue to the topic; nobody else does.
Publishes(k) == topic' = Append(topic, outbox[k]) /\ UNCHANGED <<outbox, subVars>>

LEMMA TopicCases ==
    ASSUME FwdTypes, [Next]_vars
    PROVE  \/ \E k \in 1 .. Len(outbox) :
                  /\ Publishes(k)
                  /\ k = fwdAt + 1 \/ \E s \in fwdLate : k = s.at
           \/ topic' = topic
<1> USE OutboxAssumption
<1>1. ASSUME NEW a \in Apis, ForwarderPublish(a) \/ ForwarderNacks(a)
      PROVE  fwdAt + 1 \in 1 .. Len(outbox) /\ Publishes(fwdAt + 1)
    BY <1>1 DEF FwdTypes, ForwarderPublish, ForwarderNacks, Forwards, Publishes
<1>2. ASSUME NEW s \in fwdLate, LatePublish(s)
      PROVE  s.at \in 1 .. Len(outbox) /\ Publishes(s.at)
    <2>1. Len(outbox) \in Nat /\ s \in Deliveries(Apis, outbox)
        BY DEF FwdTypes
    <2> QED BY <1>2, <2>1, GoesOnFacts DEF LatePublish, Publishes
<1>3. \/ \E a \in Apis : ForwarderPublish(a) \/ ForwarderNacks(a)
      \/ \E s \in fwdLate : LatePublish(s)
      \/ topic' = topic
    BY ForwarderCases DEF CommitTx, ForwarderTake, ForwarderAck, ForwarderCommit,
                          ForwarderLapses, ApiCrash
<1> QED BY <1>1, <1>2, <1>3

LEMMA SubTypeStep == TypeOK /\ [Next]_vars => SubTypes'
<1> SUFFICES ASSUME TypeOK, [Next]_vars PROVE SubTypes'
    OBVIOUS
<1> USE OutboxAssumption
<1>0. SubTypes /\ FwdTypes /\ faults \in 0 .. MaxFaults /\ Len(topic) \in Nat
    BY TypeParts DEF SubTypes
<1>1. ASSUME NEW k \in 1 .. Len(outbox), Publishes(k) PROVE SubTypes'
    <2>1. outbox[k] \in Requests
        BY <1>0 DEF FwdTypes
    <2>2. /\ topic' \in Seq(Requests) /\ Len(topic') = Len(topic) + 1 /\ UNCHANGED subVars
        BY <1>0, <1>1, <2>1, AppendFacts DEF SubTypes, Publishes
    <2>3. Deliveries(Workers, topic) \subseteq Deliveries(Workers, topic')
        BY <1>0, <2>2, DeliveriesGrow
    <2>4. subLast \in 0 .. Len(topic')
        BY <1>0, <2>2 DEF SubTypes
    <2> QED BY <1>0, <2>2, <2>3, <2>4 DEF SubTypes, subVars
<1>2. ASSUME NEW w \in Workers, SubscriberTake(w) PROVE SubTypes'
    <2>1. BatchEnd(topicAcked, topic) \in topicAcked + 1 .. Len(topic)
        BY <1>0, <1>2, BatchFacts DEF SubTypes, SubscriberTake
    <2> QED BY <1>0, <1>2, <2>1 DEF SubTypes, SubscriberTake
<1>3. ASSUME NEW w \in Workers, HandlerSucceeds(w) PROVE SubTypes'
    <2>1. topic[subAt + 1] \in Requests
        BY <1>0, <1>3 DEF SubTypes, HandlerSucceeds, Handles
    <2> QED BY <1>0, <1>3, <2>1 DEF SubTypes, HandlerSucceeds, Handles
<1>4. ASSUME NEW w \in Workers, SubscriberAck(w) PROVE SubTypes'
    <2>1. subDone' \in BOOLEAN /\ (subDone' => subAt' < subLast')
        BY <1>4 DEF SubscriberAck
    <2>2. subAt' \in 0 .. subLast /\ topicAcked \in 0 .. subAt'
        BY <1>0, <1>4 DEF SubTypes, SubscriberAck
    <2> QED BY <1>0, <1>4, <2>1, <2>2 DEF SubTypes, SubscriberAck
<1>5. ASSUME topicAcked' \in {topicAcked, subAt}, SubscriberReleases,
             UNCHANGED <<topic, handled>>, subLate' \subseteq Deliveries(Workers, topic)
      PROVE  SubTypes'
    <2>1. subDone' \in BOOLEAN /\ (subDone' => subAt' < subLast')
        BY <1>5 DEF SubscriberReleases
    <2>2. /\ subLast' \in 0 .. Len(topic) /\ subAt' \in 0 .. subLast' /\ topicAcked' \in 0 .. subAt'
          /\ subHolder' = None /\ subLast' = topicAcked'
        BY <1>0, <1>5 DEF SubTypes, SubscriberReleases
    <2> QED BY <1>0, <1>5, <2>1, <2>2 DEF SubTypes
<1>6. ASSUME NEW w \in Workers, SubscriberCommit(w) PROVE SubTypes'
    BY <1>0, <1>5, <1>6 DEF SubTypes, SubscriberCommit
<1>7. ASSUME NEW w \in Workers, SubscriberLapses(w) PROVE SubTypes'
    <2>1. /\ Late(w, subNext, subOut) \subseteq Deliveries(Workers, topic)
          /\ Late(w, subNext, subLast) \subseteq Deliveries(Workers, topic)
        BY <1>0, <1>7, FaultFacts, SubOutFacts, LateFacts DEF SubscriberLapses
    <2>2. subLate' \subseteq Deliveries(Workers, topic)
        BY <1>0, <1>7, <2>1 DEF SubTypes, SubscriberLapses
    <2> QED BY <1>5, <1>7, <2>2 DEF SubscriberLapses
<1>8. ASSUME NEW s \in subLate, LateHandler(s) PROVE SubTypes'
    <2>1. s.at \in 1 .. Len(topic) /\ GoesOn(s) \subseteq Deliveries(Workers, topic)
        BY <1>0, GoesOnFacts DEF SubTypes
    <2>2. topic[s.at] \in Requests
        BY <1>0, <2>1 DEF SubTypes
    <2>3. subLate' \subseteq Deliveries(Workers, topic) /\ handled' \in SUBSET Requests
        BY <1>0, <1>8, <2>1, <2>2 DEF SubTypes, LateHandler
    <2> QED BY <1>0, <1>8, <2>3 DEF SubTypes, LateHandler
<1>9. ASSUME NEW w \in Workers, WorkerCrash(w) PROVE SubTypes'
    <2>1. subLate' \subseteq Deliveries(Workers, topic)
        BY <1>0, <1>9 DEF SubTypes, WorkerCrash
    <2>2. CASE subHolder = w
        BY <1>5, <1>9, <2>1, <2>2 DEF WorkerCrash
    <2>3. CASE subHolder # w
        BY <1>0, <1>9, <2>1, <2>3 DEF SubTypes, WorkerCrash
    <2> QED BY <2>2, <2>3
<1>10. CASE UNCHANGED <<topic, subVars>>
    BY <1>0, <1>10 DEF SubTypes, subVars
<1>11. \/ \E k \in 1 .. Len(outbox) : Publishes(k)
       \/ topic' = topic
    BY <1>0, TopicCases
<1> QED BY <1>1, <1>2, <1>3, <1>4, <1>6, <1>7, <1>8, <1>9, <1>10, <1>11, SubscriberCases

\* Every step keeps every variable in its type, offsets within their batches.
LEMMA TypeStep == TypeOK /\ [Next]_vars => TypeOK'
    BY TypeParts, SaveTypeStep, FwdTypeStep, SubTypeStep, FaultTypeStep
-------------------------------------------------------------------------------
(* Save: rows, events and replies.                                           *)

\* Only COMMIT adds to stored and to the queue, and it adds a call that was in
\* neither; every other step leaves the two alone.
LEMMA AtomicStep ==
    TypeOK /\ CallInv /\ AtomicOutbox /\ [Next]_vars => AtomicOutbox'
<1> SUFFICES ASSUME TypeOK, CallInv, AtomicOutbox, [Next]_vars PROVE AtomicOutbox'
    OBVIOUS
<1>1. ASSUME NEW r \in Requests, CommitTx(r) PROVE AtomicOutbox'
    <2>1. r \notin stored
        BY <1>1 DEF CallInv, CommitTx
    <2>2. ~InLog(outbox, r)
        BY <2>1 DEF AtomicOutbox
    <2>3. outbox \in Seq(Requests) /\ outbox' = Append(outbox, r)
        BY <1>1 DEF TypeOK, CommitTx
    <2>4. \A q \in Requests : InLog(outbox', q) <=> q \in stored'
        <3>1. \A q \in Requests : InLog(outbox', q) <=> InLog(outbox, q) \/ q = r
            BY <2>3, InLogAppend
        <3> QED BY <1>1, <3>1 DEF AtomicOutbox, CommitTx
    <2>5. \A j, k \in 1 .. Len(outbox') : outbox'[j] = outbox'[k] => j = k
        <3>1. /\ Len(outbox') = Len(outbox) + 1 /\ Len(outbox) \in Nat
              /\ \A k \in 1 .. Len(outbox) : outbox'[k] = outbox[k]
              /\ outbox'[Len(outbox) + 1] = r
            BY <2>3, AppendFacts
        <3>2. \A k \in 1 .. Len(outbox) : outbox'[k] # r
            BY <2>2, <3>1 DEF InLog
        <3> QED BY <3>1, <3>2 DEF AtomicOutbox
    <2> QED BY <2>4, <2>5 DEF AtomicOutbox, InLog
<1>2. CASE UNCHANGED <<outbox, stored>>
    BY <1>2 DEF AtomicOutbox, InLog
<1>3. [Next]_vars => (\E r \in Requests : CommitTx(r)) \/ UNCHANGED <<outbox, stored>>
    BY SaveCases DEF Begin, InsertItem, PublishCreated, SaveFails, Respond, DeleteItem, ApiCrash,
                     dbVars
<1> QED BY <1>1, <1>2, <1>3

\* The steps of a call move it forward, and only a finished one has a reply.
LEMMA CallStep ==
    TypeOK /\ CallInv /\ [Next]_vars => CallInv'
<1> SUFFICES ASSUME TypeOK, CallInv, [Next]_vars PROVE CallInv'
    OBVIOUS
<1> USE OutboxAssumption
<1>t. SaveTypes
    BY TypeParts
<1>1. ASSUME NEW r \in Requests, NEW a \in Apis, NEW i \in Ids, Begin(r, a, i)
      PROVE  CallInv'
    BY <1>t, <1>1 DEF SaveTypes, CallInv, Begin, dbVars
<1>2. ASSUME NEW r \in Requests, InsertItem(r) PROVE CallInv'
    BY <1>t, <1>2 DEF SaveTypes, CallInv, InsertItem, Finish, dbVars
<1>3. ASSUME NEW r \in Requests, PublishCreated(r) PROVE CallInv'
    BY <1>t, <1>3 DEF SaveTypes, CallInv, PublishCreated, dbVars
<1>4. ASSUME NEW r \in Requests, SaveFails(r) PROVE CallInv'
    BY <1>t, <1>4 DEF SaveTypes, CallInv, SaveFails, Finish, dbVars, InTx
<1>5. ASSUME NEW r \in Requests, CommitTx(r) PROVE CallInv'
    BY <1>t, <1>5 DEF SaveTypes, CallInv, CommitTx
<1>6. ASSUME NEW r \in Requests, Respond(r) PROVE CallInv'
    <2>1. PICK outcome \in {"created", "error"} : Finish(r, outcome)
        BY <1>6 DEF Respond
    <2> QED BY <1>t, <1>6, <2>1 DEF SaveTypes, CallInv, Respond, Finish, dbVars
<1>7. ASSUME NEW i \in Ids, DeleteItem(i) PROVE CallInv'
    BY <1>t, <1>7 DEF SaveTypes, CallInv, DeleteItem, saveVars
<1>8. ASSUME NEW a \in Apis, ApiCrash(a) PROVE CallInv'
    BY <1>t, <1>8 DEF SaveTypes, CallInv, ApiCrash, dbVars
<1>9. CASE UNCHANGED <<saveVars, dbVars, outbox>>
    BY <1>9 DEF CallInv, saveVars, dbVars
<1> QED BY <1>1, <1>2, <1>3, <1>4, <1>5, <1>6, <1>7, <1>8, <1>9, SaveCases

\* A reply is given when it is true, and stays true.
LEMMA ReplyStep ==
    TypeOK /\ CallInv /\ AtomicOutbox /\ HonestReply /\ AtomicOutbox' /\ [Next]_vars
        => HonestReply'
<1> SUFFICES ASSUME TypeOK, CallInv, AtomicOutbox, HonestReply, AtomicOutbox', [Next]_vars
             PROVE  HonestReply'
    OBVIOUS
<1> USE OutboxAssumption
\* By AtomicOutbox, the clauses about the queue say what those about stored say.
<1> DEFINE Honest == \A r \in Requests :
                        /\ reply[r] = "created" => r \in stored
                        /\ reply[r] = "exists" => /\ r \notin stored
                                                  /\ \E q \in stored : id[q] = id[r]
<1>0. (HonestReply => Honest) /\ (Honest' => HonestReply')
    BY DEF HonestReply, AtomicOutbox
<1> HIDE DEF Honest
<1> SUFFICES ASSUME Honest PROVE Honest'
    BY <1>0
<1>t. SaveTypes
    BY TypeParts
<1>1. ASSUME NEW r \in Requests, NEW a \in Apis, NEW i \in Ids, Begin(r, a, i)
      PROVE  Honest'
    BY <1>t, <1>1 DEF SaveTypes, CallInv, Honest, Begin, dbVars
<1>2. ASSUME NEW r \in Requests, InsertItem(r) PROVE Honest'
    <2>1. CASE rows[id[r]] = None
        BY <1>2, <2>1 DEF Honest, InsertItem, dbVars
    <2>2. CASE rows[id[r]] # None
        <3>1. r \notin stored /\ id[r] \in Ids
            BY <1>2 DEF CallInv, InsertItem
        <3>2. rows[id[r]] \in stored /\ id[rows[id[r]]] = id[r]
            BY <2>2, <3>1 DEF CallInv
        <3>3. reply' = [reply EXCEPT ![r] = "exists"] /\ UNCHANGED <<id, stored>>
            BY <1>2, <2>2 DEF InsertItem, Finish, dbVars
        <3> QED BY <1>t, <3>1, <3>2, <3>3 DEF SaveTypes, Honest
    <2> QED BY <2>1, <2>2
<1>3. ASSUME NEW r \in Requests, SaveFails(r) PROVE Honest'
    BY <1>t, <1>3 DEF SaveTypes, CallInv, Honest, SaveFails, Finish, dbVars
<1>4. ASSUME NEW r \in Requests, CommitTx(r) PROVE Honest'
    BY <1>t, <1>4 DEF SaveTypes, CallInv, Honest, CommitTx
<1>5. ASSUME NEW r \in Requests, Respond(r) PROVE Honest'
    BY <1>t, <1>5 DEF SaveTypes, CallInv, Honest, Respond, Finish, dbVars
<1>6. CASE UNCHANGED <<id, reply, stored>>
    BY <1>6 DEF Honest
<1> QED
    BY <1>1, <1>2, <1>3, <1>4, <1>5, <1>6, SaveCases
    DEF PublishCreated, DeleteItem, ApiCrash, saveVars, dbVars
-------------------------------------------------------------------------------
-------------------------------------------------------------------------------
(* The forwarder: queue and topic.                                           *)

\* What a growing log does to what has been said of its old messages.
LEMMA TopicGrows ==
    ASSUME TypeOK, NEW k \in 1 .. Len(outbox), Publishes(k)
    PROVE  /\ Len(topic') = Len(topic) + 1 /\ Len(topic) \in Nat
           /\ \A m \in 1 .. Len(topic) : topic'[m] = topic[m]
           /\ topic'[Len(topic) + 1] = outbox[k]
           /\ \A x : InLog(topic', x) <=> InLog(topic, x) \/ x = outbox[k]
           /\ \A n : OnTopic(n) => OnTopic(n)'
           /\ OnTopic(k - 1) => OnTopic(k)'
<1>1. outbox[k] \in Requests /\ topic \in Seq(Requests)
    BY DEF TypeOK
<1>2. topic' = Append(topic, outbox[k]) /\ outbox' = outbox
    BY DEF Publishes
<1>3. \A x : InLog(topic', x) <=> InLog(topic, x) \/ x = outbox[k]
    BY <1>1, <1>2, InLogAppend
<1>4. OnTopic(k - 1) => OnTopic(k)'
    <2>1. \A j \in 1 .. k : j \in 1 .. k - 1 \/ j = k
        OBVIOUS
    <2> QED BY <1>2, <1>3, <2>1 DEF OnTopic
<1> QED BY <1>1, <1>2, <1>3, <1>4, AppendFacts DEF OnTopic

\* Whoever publishes has all that was queued before on the topic already.
LEMMA PublishesNext ==
    ASSUME TypeOK, ForwarderInv, [Next]_vars
    PROVE  (\E k \in 1 .. Len(outbox) : Publishes(k) /\ OnTopic(k - 1)) \/ topic' = topic
<1>1. fwdAt \in Nat /\ FwdTypes
    BY TypeParts DEF TypeOK
<1>2. OnTopic((fwdAt + 1) - 1)
    BY <1>1 DEF ForwarderInv
<1> QED BY <1>1, <1>2, TopicCases DEF ForwarderInv

\* Neither the lock nor its loss lets anybody publish out of turn.
LEMMA ForwarderStep ==
    TypeOK /\ ForwarderInv /\ [Next]_vars => ForwarderInv'
<1> SUFFICES ASSUME TypeOK, ForwarderInv, [Next]_vars PROVE ForwarderInv'
    OBVIOUS
<1> USE OutboxAssumption
<1>0. /\ Len(outbox) \in Nat /\ Len(topic) \in Nat /\ FwdTypes /\ faults \in 0 .. MaxFaults
      /\ fwdLast \in 0 .. Len(outbox) /\ fwdAt \in 0 .. fwdLast /\ outboxAcked \in 0 .. fwdAt
      /\ fwdSent => fwdAt < fwdLast
    BY TypeParts DEF TypeOK
\* The topic itself.
<1>1. \A m \in 1 .. Len(topic') : InLog(outbox', topic'[m])
    <2>1. \A x : InLog(outbox, x) => InLog(outbox', x)
        <3>1. ASSUME NEW r \in Requests, CommitTx(r)
              PROVE  \A x : InLog(outbox, x) => InLog(outbox', x)
            BY <1>0, <3>1, InLogAppend DEF FwdTypes, CommitTx
        <3>2. CASE outbox' = outbox
            BY <3>2
        <3> QED
            BY <3>1, <3>2, ForwarderCases
            DEF ForwarderTake, ForwarderPublish, ForwarderNacks, ForwarderAck, ForwarderCommit,
                ForwarderLapses, ApiCrash, LatePublish
    <2>2. ASSUME NEW k \in 1 .. Len(outbox), Publishes(k)
          PROVE  \A m \in 1 .. Len(topic') : InLog(outbox', topic'[m])
        <3>1. \A m \in 1 .. Len(topic) : InLog(outbox, topic'[m])
            BY <2>2, TopicGrows DEF ForwarderInv
        <3>2. InLog(outbox, topic'[Len(topic) + 1])
            BY <2>2, TopicGrows DEF InLog
        <3>3. \A m \in 1 .. Len(topic') : m \in 1 .. Len(topic) \/ m = Len(topic) + 1
            BY <1>0, <2>2, TopicGrows
        <3> QED BY <2>1, <3>1, <3>2, <3>3
    <2>3. CASE topic' = topic
        BY <2>1, <2>3 DEF ForwarderInv
    <2> QED BY <2>2, <2>3, PublishesNext
\* What is on the topic stays there, and in its place in the queue.
<1> DEFINE Later(n) == \A j \in 1 .. n : InLog(topic', outbox'[j])
<1>2. ASSUME NEW n \in 0 .. Len(outbox), OnTopic(n) PROVE Later(n)
    <2>1. ASSUME NEW r \in Requests, CommitTx(r) PROVE Later(n)
        <3>1. \A j \in 1 .. Len(outbox) : outbox'[j] = outbox[j]
            BY <1>0, <2>1, AppendFacts DEF FwdTypes, CommitTx
        <3>2. topic' = topic
            BY <2>1 DEF CommitTx
        <3> QED BY <1>0, <1>2, <3>1, <3>2 DEF OnTopic
    <2>2. CASE outbox' = outbox /\ topic' = topic
        BY <1>2, <2>2 DEF OnTopic
    <2>3. ASSUME NEW k \in 1 .. Len(outbox), Publishes(k) PROVE Later(n)
        <3>1. \A x : InLog(topic, x) => InLog(topic', x)
            BY <2>3, TopicGrows
        <3> QED BY <1>2, <2>3, <3>1 DEF OnTopic, Publishes
    <2> QED
        BY <2>1, <2>2, <2>3, PublishesNext, ForwarderCases
        DEF ForwarderTake, ForwarderPublish, ForwarderNacks, ForwarderAck, ForwarderCommit,
            ForwarderLapses, ApiCrash, LatePublish
<1>3. ASSUME NEW k \in 1 .. Len(outbox), Publishes(k), OnTopic(k - 1) PROVE Later(k)
    <2>1. \A j \in 1 .. k : j \in 1 .. k - 1 \/ j = k
        OBVIOUS
    <2>2. \A x : InLog(topic', x) <=> InLog(topic, x) \/ x = outbox[k]
        BY <1>3, TopicGrows
    <2> QED BY <1>3, <2>1, <2>2 DEF OnTopic, Publishes
<1>4. SUFFICES /\ Later(fwdAt') /\ (fwdSent' => Later(fwdAt' + 1))
               /\ \A s \in fwdLate' : Later(s.at - 1)
    BY <1>1 DEF ForwarderInv, OnTopic
<1> HIDE DEF Later
\* What the forwarders know of the topic now, they know afterwards.
<1>5. /\ Later(fwdAt) /\ (fwdSent => Later(fwdAt + 1)) /\ Later(outboxAcked)
      /\ \A s \in fwdLate : Later(s.at - 1)
    <2>1. /\ fwdAt \in 0 .. Len(outbox) /\ outboxAcked \in 0 .. Len(outbox)
          /\ fwdSent => fwdAt + 1 \in 0 .. Len(outbox)
        BY <1>0
    <2>2. \A s \in fwdLate : s.at - 1 \in 0 .. Len(outbox)
        <3>1. \A s \in fwdLate : s.at \in 1 .. Len(outbox)
            BY <1>0, GoesOnFacts DEF FwdTypes
        <3> QED BY <1>0, <3>1
    <2>3. OnTopic(outboxAcked)
        BY <1>0 DEF ForwarderInv, OnTopic
    <2> QED BY <1>2, <2>1, <2>2, <2>3 DEF ForwarderInv
<1> DEFINE Goal == /\ Later(fwdAt') /\ (fwdSent' => Later(fwdAt' + 1))
                   /\ \A s \in fwdLate' : Later(s.at - 1)
<1>6. ASSUME NEW a \in Apis, ForwarderPublish(a) PROVE Goal
    <2>1. fwdAt + 1 \in 1 .. Len(outbox) /\ Publishes(fwdAt + 1) /\ OnTopic((fwdAt + 1) - 1)
        BY <1>0, <1>6 DEF ForwarderPublish, Forwards, Publishes, ForwarderInv
    <2>2. Later(fwdAt + 1)
        BY <1>3, <2>1
    <2> QED BY <1>5, <1>6, <2>2 DEF ForwarderPublish
<1>7. ASSUME NEW a \in Apis, ForwarderAck(a) PROVE Goal
    BY <1>5, <1>7 DEF ForwarderAck
\* Without the lock the deliveries go on from the next message.
<1>8. ASSUME NEW a \in Apis, NEW last \in 0 .. Len(outbox), NEW s \in Late(a, fwdNext, last),
             faults' \in 1 .. MaxFaults
      PROVE  Later(s.at - 1)
    <2>1. s.at = fwdNext
        BY <1>8 DEF Late
    <2>2. CASE fwdSent
        BY <1>0, <1>5, <2>1, <2>2 DEF fwdNext
    <2>3. CASE ~fwdSent
        BY <1>0, <1>5, <2>1, <2>3 DEF fwdNext
    <2> QED BY <2>2, <2>3
<1>9. ASSUME NEW a \in Apis, ForwarderCommit(a) PROVE Goal
    BY <1>5, <1>9 DEF ForwarderCommit, ForwarderReleases
<1>10. ASSUME NEW a \in Apis, ForwarderLapses(a) PROVE Goal
    <2>1. faults' \in 1 .. MaxFaults
        BY <1>0, <1>10, FaultFacts DEF ForwarderLapses
    <2>2. \A s \in fwdLate' : Later(s.at - 1)
        BY <1>0, <1>5, <1>8, <1>10, <2>1, FwdOutFacts DEF ForwarderLapses
    <2> QED BY <1>5, <1>10, <2>2 DEF ForwarderLapses, ForwarderReleases
<1>11. ASSUME NEW s \in fwdLate, LatePublish(s) PROVE Goal
    <2>1. s \in Deliveries(Apis, outbox)
        BY <1>0 DEF FwdTypes
    <2>2. /\ s.at \in 1 .. Len(outbox) /\ Publishes(s.at)
          /\ \A n \in GoesOn(s) : n.at = s.at + 1
        BY <1>0, <1>11, <2>1, GoesOnFacts DEF LatePublish, Publishes
    <2>3. Later(s.at)
        BY <1>3, <2>2 DEF ForwarderInv
    <2>4. \A n \in GoesOn(s) : n.at - 1 = s.at
        BY <1>0, <2>2
    <2>5. \A n \in fwdLate' : Later(n.at - 1)
        BY <1>5, <1>11, <2>3, <2>4 DEF LatePublish
    <2> QED BY <1>5, <1>11, <2>5 DEF LatePublish
<1>12. ASSUME NEW a \in Apis, ApiCrash(a) PROVE Goal
    <2>1. faults' \in 1 .. MaxFaults
        BY <1>0, <1>12, FaultFacts DEF ApiCrash
    <2>2. \A s \in Late(a, fwdNext, fwdOut) : Later(s.at - 1)
        BY <1>0, <1>8, <2>1, FwdOutFacts
    <2>3. ASSUME NEW s \in fwdLate
          PROVE  Later((IF s.by = a THEN [s EXCEPT !.last = s.at] ELSE s).at - 1)
        <3>1. s \in Deliveries(Apis, outbox)
            BY <1>0 DEF FwdTypes
        <3>2. [s EXCEPT !.last = s.at].at = s.at
            BY <3>1 DEF Deliveries
        <3> QED BY <1>5, <3>2
    <2>4. \A s \in fwdLate' : Later(s.at - 1)
        BY <1>12, <2>2, <2>3 DEF ApiCrash
    <2> QED BY <1>5, <1>12, <2>4 DEF ApiCrash, ForwarderReleases
<1>13. CASE UNCHANGED <<fwdAt, fwdSent, fwdLate>>
    BY <1>5, <1>13
<1> QED
    BY <1>6, <1>7, <1>9, <1>10, <1>11, <1>12, <1>13, ForwarderCases
    DEF CommitTx, ForwarderTake, ForwarderNacks, fwdVars

\* Publishing puts the first copy of an event behind all that were queued before it.
LEMMA OrderStep ==
    TypeOK /\ CallInv /\ AtomicOutbox /\ ForwarderInv /\ FirstCopiesInOrder /\ [Next]_vars
        => FirstCopiesInOrder'
<1> SUFFICES ASSUME TypeOK, CallInv, AtomicOutbox, ForwarderInv, FirstCopiesInOrder,
                    [Next]_vars
             PROVE  FirstCopiesInOrder'
    OBVIOUS
<1>0. Len(outbox) \in Nat /\ Len(topic) \in Nat
    BY DEF TypeOK
<1>1. ASSUME NEW r \in Requests, CommitTx(r) PROVE FirstCopiesInOrder'
    <2>1. /\ Len(outbox') = Len(outbox) + 1 /\ outbox'[Len(outbox) + 1] = r
          /\ \A k \in 1 .. Len(outbox) : outbox'[k] = outbox[k]
          /\ topic' = topic
        BY <1>1, AppendFacts DEF TypeOK, CommitTx
    \* The new event is not in the queue, hence not on the topic.
    <2>2. \A m \in 1 .. Len(topic) : topic[m] # r
        <3>1. ~InLog(outbox, r)
            BY <1>1 DEF CallInv, CommitTx, AtomicOutbox
        <3> QED BY <3>1 DEF ForwarderInv
    <2>3. ASSUME NEW n \in 1 .. Len(topic), NEW y \in 1 .. Len(outbox'),
                 topic[n] = outbox'[y], NEW x \in 1 .. y
          PROVE  \E m \in 1 .. n : topic[m] = outbox'[x]
        <3>1. y \in 1 .. Len(outbox)
            BY <1>0, <2>1, <2>2, <2>3
        <3>2. x \in 1 .. Len(outbox)
            BY <1>0, <2>3, <3>1
        <3> QED BY <2>1, <2>3, <3>1, <3>2 DEF FirstCopiesInOrder
    <2> QED BY <2>1, <2>3 DEF FirstCopiesInOrder
<1>2. ASSUME NEW k \in 1 .. Len(outbox), Publishes(k), OnTopic(k - 1)
      PROVE  FirstCopiesInOrder'
    <2>1. /\ Len(topic') = Len(topic) + 1
          /\ \A m \in 1 .. Len(topic) : topic'[m] = topic[m]
          /\ topic'[Len(topic) + 1] = outbox[k]
          /\ outbox' = outbox
        BY <1>2, TopicGrows DEF Publishes
    <2>2. ASSUME NEW n \in 1 .. Len(topic'), NEW y \in 1 .. Len(outbox),
                 topic'[n] = outbox[y], NEW x \in 1 .. y
          PROVE  \E m \in 1 .. n : topic'[m] = outbox[x]
        <3>1. CASE n \in 1 .. Len(topic)
            <4>1. topic[n] = outbox[y]
                BY <2>1, <2>2, <3>1
            <4>2. PICK m \in 1 .. n : topic[m] = outbox[x]
                BY <2>2, <3>1, <4>1 DEF FirstCopiesInOrder
            <4>3. m \in 1 .. Len(topic)
                BY <1>0, <3>1
            <4> QED BY <2>1, <4>2, <4>3
        <3>2. CASE n = Len(topic) + 1
            <4>1. y = k
                BY <1>0, <2>1, <2>2, <3>2 DEF AtomicOutbox
            <4>2. CASE x = k
                BY <1>0, <2>1, <3>2, <4>2
            <4>3. CASE x \in 1 .. k - 1
                <5>1. PICK m \in 1 .. Len(topic) : topic[m] = outbox[x]
                    BY <1>2, <4>3 DEF OnTopic, InLog
                <5>2. m \in 1 .. n
                    BY <1>0, <3>2
                <5> QED BY <2>1, <5>1, <5>2
            <4>4. x \in 1 .. k - 1 \/ x = k
                BY <2>2, <4>1
            <4> QED BY <4>2, <4>3, <4>4
        <3>3. n \in 1 .. Len(topic) \/ n = Len(topic) + 1
            BY <1>0, <2>1
        <3> QED BY <3>1, <3>2, <3>3
    <2> QED BY <2>1, <2>2 DEF FirstCopiesInOrder
<1>3. CASE UNCHANGED <<outbox, topic>>
    BY <1>3 DEF FirstCopiesInOrder
<1> QED
    BY <1>1, <1>2, <1>3, PublishesNext, ForwarderCases
    DEF ForwarderTake, ForwarderPublish, ForwarderNacks, ForwarderAck, ForwarderCommit,
        ForwarderLapses, ApiCrash, LatePublish
-------------------------------------------------------------------------------
(* The subscriber: topic and handled events.                                 *)

\* Neither the lock nor its loss lets anybody handle a message out of turn.
LEMMA SubscriberStep ==
    TypeOK /\ ForwarderInv /\ SubscriberInv /\ [Next]_vars => SubscriberInv'
<1> SUFFICES ASSUME TypeOK, ForwarderInv, SubscriberInv, [Next]_vars PROVE SubscriberInv'
    OBVIOUS
<1> USE OutboxAssumption
<1>0. /\ Len(topic) \in Nat /\ SubTypes /\ faults \in 0 .. MaxFaults
      /\ subLast \in 0 .. Len(topic) /\ subAt \in 0 .. subLast /\ topicAcked \in 0 .. subAt
      /\ subDone => subAt < subLast
    BY TypeParts DEF TypeOK
\* The logs only grow, and so does what is handled.
<1> DEFINE Later(n) == \A j \in 1 .. n : topic'[j] \in handled'
<1>1. /\ Len(topic') \in Nat /\ Len(topic) <= Len(topic')
      /\ \A m \in 1 .. Len(topic) : topic'[m] = topic[m]
    BY <1>0, PublishesNext, TopicGrows
<1>2. handled \subseteq handled'
    BY SubscriberCases DEF SubscriberTake, HandlerSucceeds, SubscriberAck, SubscriberCommit,
                           SubscriberLapses, WorkerCrash, LateHandler, subVars
<1>3. ASSUME NEW n \in 0 .. Len(topic), HandledTo(n) PROVE Later(n)
    BY <1>0, <1>1, <1>2, <1>3 DEF HandledTo
<1>4. ASSUME NEW k \in 1 .. Len(topic), HandledTo(k - 1), topic' = topic,
             handled' = handled \cup {topic[k]}
      PROVE  Later(k)
    <2>1. \A j \in 1 .. k : j \in 1 .. k - 1 \/ j = k
        OBVIOUS
    <2> QED BY <1>4, <2>1 DEF HandledTo
<1> DEFINE InTurn(e) == \E k \in 1 .. Len(topic') : topic'[k] = e /\ Later(k)
<1>5. SUFFICES /\ \A e \in handled' : InTurn(e)
               /\ Later(subAt') /\ (subDone' => Later(subAt' + 1))
               /\ \A s \in subLate' : Later(s.at - 1)
    BY DEF SubscriberInv, HandledTo
<1> HIDE DEF Later
<1>6. ASSUME NEW e \in handled PROVE InTurn(e)
    <2>1. PICK k \in 1 .. Len(topic) : topic[k] = e /\ HandledTo(k)
        BY <1>6 DEF SubscriberInv
    <2>2. k \in 1 .. Len(topic') /\ topic'[k] = e
        BY <1>0, <1>1, <2>1
    <2>3. Later(k)
        BY <1>3, <2>1
    <2> QED BY <2>2, <2>3
<1>7. /\ Later(subAt) /\ (subDone => Later(subAt + 1)) /\ Later(topicAcked)
      /\ \A s \in subLate : s.at \in 1 .. Len(topic) /\ Later(s.at - 1)
    <2>1. /\ subAt \in 0 .. Len(topic) /\ topicAcked \in 0 .. Len(topic)
          /\ subDone => subAt + 1 \in 0 .. Len(topic)
        BY <1>0
    <2>2. \A s \in subLate : s.at \in 1 .. Len(topic)
        BY <1>0, GoesOnFacts DEF SubTypes
    <2>3. \A s \in subLate : s.at - 1 \in 0 .. Len(topic)
        BY <1>0, <2>2
    <2>4. HandledTo(topicAcked)
        BY <1>0 DEF SubscriberInv, HandledTo
    <2> QED BY <1>3, <2>1, <2>2, <2>3, <2>4 DEF SubscriberInv
<1> HIDE DEF InTurn
<1> DEFINE Goal == /\ \A e \in handled' : InTurn(e)
                   /\ Later(subAt') /\ (subDone' => Later(subAt' + 1))
                   /\ \A s \in subLate' : Later(s.at - 1)
<1>8. ASSUME NEW w \in Workers, HandlerSucceeds(w) PROVE Goal
    <2>1. subAt + 1 \in 1 .. Len(topic) /\ HandledTo((subAt + 1) - 1)
        BY <1>0, <1>8 DEF HandlerSucceeds, Handles, SubscriberInv
    <2>2. Later(subAt + 1)
        BY <1>4, <1>8, <2>1 DEF HandlerSucceeds
    <2>3. InTurn(topic[subAt + 1])
        BY <1>8, <2>1, <2>2 DEF InTurn, HandlerSucceeds
    <2> QED BY <1>6, <1>7, <1>8, <2>2, <2>3 DEF HandlerSucceeds
<1>9. ASSUME NEW w \in Workers, SubscriberAck(w) PROVE Goal
    BY <1>6, <1>7, <1>9 DEF SubscriberAck
<1>10. ASSUME NEW w \in Workers, SubscriberCommit(w) PROVE Goal
    BY <1>6, <1>7, <1>10 DEF SubscriberCommit, SubscriberReleases
\* Without the lock the loop goes on from the next message.
<1>11. ASSUME NEW w \in Workers, NEW last \in 0 .. Len(topic), NEW s \in Late(w, subNext, last),
              faults' \in 1 .. MaxFaults
       PROVE  Later(s.at - 1)
    <2>1. s.at = subNext
        BY <1>11 DEF Late
    <2>2. CASE subDone
        BY <1>0, <1>7, <2>1, <2>2 DEF subNext
    <2>3. CASE ~subDone
        BY <1>0, <1>7, <2>1, <2>3 DEF subNext
    <2> QED BY <2>2, <2>3
<1>12. ASSUME NEW w \in Workers, SubscriberLapses(w) PROVE Goal
    <2>1. faults' \in 1 .. MaxFaults
        BY <1>0, <1>12, FaultFacts DEF SubscriberLapses
    <2>2. \A s \in subLate' : Later(s.at - 1)
        BY <1>0, <1>7, <1>11, <1>12, <2>1, SubOutFacts DEF SubscriberLapses
    <2> QED BY <1>6, <1>7, <1>12, <2>2 DEF SubscriberLapses, SubscriberReleases
<1>13. ASSUME NEW s \in subLate, LateHandler(s) PROVE Goal
    <2>1. s \in Deliveries(Workers, topic) /\ HandledTo(s.at - 1)
        BY <1>0 DEF SubTypes, SubscriberInv
    <2>2. \A n \in GoesOn(s) : n.at - 1 = s.at
        BY <1>0, <1>7, <2>1, GoesOnFacts
    <2>3. Later(s.at)
        BY <1>4, <1>7, <1>13, <2>1 DEF LateHandler
    <2>4. InTurn(topic[s.at])
        BY <1>7, <1>13, <2>3 DEF InTurn, LateHandler
    <2>5. \A n \in subLate' : Later(n.at - 1)
        BY <1>7, <1>13, <2>2, <2>3 DEF LateHandler
    <2> QED BY <1>6, <1>7, <1>13, <2>4, <2>5 DEF LateHandler
<1>14. ASSUME NEW w \in Workers, WorkerCrash(w) PROVE Goal
    BY <1>6, <1>7, <1>14 DEF WorkerCrash, SubscriberReleases
<1>15. CASE UNCHANGED <<subAt, subDone, subLate, handled>>
    BY <1>6, <1>7, <1>15
<1> QED
    BY <1>8, <1>9, <1>10, <1>12, <1>13, <1>14, <1>15, SubscriberCases
    DEF SubscriberTake, subVars
-------------------------------------------------------------------------------
(* The theorems.                                                             *)

\* Every variable starts in its type.
LEMMA TypeInit == Init => TypeOK
<1>1. <<>> \in Seq(Requests) /\ Len(<<>>) = 0
    OBVIOUS
<1>2. Init => /\ pc \in [Requests -> {"idle", "tx", "inserted", "published", "committed", "done"}]
              /\ api \in [Requests -> Apis \cup {None}]
              /\ id \in [Requests -> Ids \cup {None}]
              /\ reply \in [Requests -> {"none", "created", "exists", "error"}]
              /\ rows \in [Ids -> Requests \cup {None}]
    BY DEF Init
<1>3. Init => /\ outbox \in Seq(Requests) /\ topic \in Seq(Requests)
              /\ fwdLast \in 0 .. Len(outbox) /\ fwdAt \in 0 .. fwdLast
              /\ outboxAcked \in 0 .. fwdAt /\ fwdLast = outboxAcked
              /\ subLast \in 0 .. Len(topic) /\ subAt \in 0 .. subLast
              /\ topicAcked \in 0 .. subAt /\ subLast = topicAcked
              /\ fwdHolder = None /\ subHolder = None
              /\ faults \in 0 .. MaxFaults
    BY <1>1, OutboxAssumption DEF Init
<1>4. Init => /\ fwdSent \in BOOLEAN /\ ~fwdSent /\ fwdLate = {}
              /\ subDone \in BOOLEAN /\ ~subDone /\ subLate = {}
    BY DEF Init
<1>5. Init => stored \in SUBSET Requests /\ handled \in SUBSET Requests
    BY DEF Init
<1> QED BY <1>2, <1>3, <1>4, <1>5 DEF TypeOK

\* Every variable keeps its type, and no offset passes the end of its log.
THEOREM TypeCorrect == SafeSpec => []TypeOK
<1> QED BY TypeInit, TypeStep, PTL DEF SafeSpec

\* The strengthening of the invariants holds in every reachable state.
THEOREM Invariance == SafeSpec => []IInv
<1>1. Init => IInv
    <2> SUFFICES ASSUME Init PROVE IInv
        OBVIOUS
    <2>1. TypeOK
        BY TypeInit
    <2>2. CallInv /\ HonestReply
        BY DEF Init, CallInv, HonestReply
    <2>3. Len(outbox) = 0 /\ Len(topic) = 0
        BY DEF Init
    <2>4. AtomicOutbox /\ ForwarderInv /\ FirstCopiesInOrder /\ SubscriberInv
        BY <2>3 DEF Init, AtomicOutbox, ForwarderInv, FirstCopiesInOrder, SubscriberInv,
                    OnTopic, HandledTo, InLog
    <2> QED BY <2>1, <2>2, <2>4 DEF IInv
<1>2. IInv /\ [Next]_vars => IInv'
    BY TypeStep, CallStep, AtomicStep, ReplyStep, ForwarderStep, OrderStep, SubscriberStep
    DEF IInv
<1> QED BY <1>1, <1>2, PTL DEF SafeSpec

\* Save writes the row and queues the event together, whatever fails.
THEOREM OutboxIsAtomic == SafeSpec => []AtomicOutbox
<1>1. IInv => AtomicOutbox
    BY DEF IInv
<1> QED BY <1>1, Invariance, PTL

\* What Save tells its caller is true of the table and of the queue.
THEOREM RepliesAreHonest == SafeSpec => []HonestReply
<1>1. IInv => HonestReply
    BY DEF IInv
<1> QED BY <1>1, Invariance, PTL

\* No offset ever passes a message whose work is not done: nothing is lost.
THEOREM NothingIsSkipped == SafeSpec => []NothingSkipped
<1>1. IInv => NothingSkipped
    <2> SUFFICES ASSUME IInv PROVE NothingSkipped
        OBVIOUS
    <2>1. /\ outboxAcked \in Nat /\ fwdAt \in Nat /\ outboxAcked <= fwdAt
          /\ topicAcked \in Nat /\ subAt \in Nat /\ topicAcked <= subAt
        BY DEF IInv, TypeOK
    <2>2. OnTopic(fwdAt) /\ HandledTo(subAt)
        BY DEF IInv, ForwarderInv, SubscriberInv
    <2> QED BY <2>1, <2>2 DEF NothingSkipped, OnTopic, HandledTo
<1> QED BY <1>1, Invariance, PTL

\* Copies may stand anywhere; first copies stand on the topic in the order of the queue.
THEOREM FirstCopiesKeepOrder == SafeSpec => []FirstCopiesInOrder
<1>1. IInv => FirstCopiesInOrder
    BY DEF IInv
<1> QED BY <1>1, Invariance, PTL

\* Events are handled for the first time in the order in which they were queued.
THEOREM HandlersKeepOrder == SafeSpec => []HandledInOrder
<1>1. IInv => HandledInOrder
    <2> SUFFICES ASSUME IInv, NEW x \in 1 .. Len(outbox), NEW y \in 1 .. Len(outbox),
                        x <= y, outbox[y] \in handled
                 PROVE  outbox[x] \in handled
        BY DEF HandledInOrder
    <2>1. PICK k \in 1 .. Len(topic) : topic[k] = outbox[y] /\ HandledTo(k)
        BY DEF IInv, SubscriberInv
    <2>2. PICK m \in 1 .. k : topic[m] = outbox[x]
        BY <2>1 DEF IInv, FirstCopiesInOrder
    <2> QED BY <2>1, <2>2 DEF HandledTo
<1> QED BY <1>1, Invariance, PTL

\* Whatever is on the topic, handled or not, has been committed.
LEMMA TopicHoldsCommitted ==
    IInv => \A x : InLog(topic, x) => x \in stored
<1> SUFFICES ASSUME IInv, NEW x, InLog(topic, x) PROVE x \in stored
    OBVIOUS
<1>1. PICK m \in 1 .. Len(topic) : topic[m] = x
    BY DEF InLog
<1>2. PICK k \in 1 .. Len(outbox) : outbox[k] = x
    BY <1>1 DEF IInv, ForwarderInv, InLog
<1>3. x \in Requests
    BY <1>2 DEF IInv, TypeOK
<1> QED BY <1>2, <1>3 DEF IInv, AtomicOutbox, InLog

\* A handler only ever sees events of items that were committed.
THEOREM NoPhantoms == SafeSpec => []NoPhantomDelivery
<1>1. IInv => NoPhantomDelivery
    BY TopicHoldsCommitted DEF IInv, SubscriberInv, NoPhantomDelivery, InLog
<1> QED BY <1>1, Invariance, PTL

\* Every step of the mechanism is a step of the promise or leaves it unchanged.
THEOREM ImplementsPromise == SafeSpec => Promise!SafeSpec
<1>1. Init => Promise!Init
    BY DEF Init, Promise!Init
<1>2. IInv /\ [Next]_vars => [Promise!Next]_(Promise!promiseVars)
    <2> SUFFICES ASSUME IInv, [Next]_vars
                 PROVE  Promise!Next \/ UNCHANGED <<stored, handled>>
        BY DEF Promise!promiseVars
    <2>1. ASSUME NEW r \in Requests, CommitTx(r) PROVE Promise!Commit(r)
        BY <2>1 DEF IInv, CallInv, CommitTx, subVars, Promise!Commit
    <2>2. ASSUME NEW k \in 1 .. Len(topic), handled' = handled \cup {topic[k]}, stored' = stored
          PROVE  Promise!Next \/ UNCHANGED <<stored, handled>>
        <3>1. topic[k] \in Requests /\ topic[k] \in stored
            BY TopicHoldsCommitted DEF IInv, TypeOK, InLog
        <3>2. CASE topic[k] \in handled
            BY <2>2, <3>2
        <3>3. CASE topic[k] \notin handled
            BY <2>2, <3>1, <3>3 DEF Promise!Next, Promise!Deliver
        <3> QED BY <3>2, <3>3
    <2>3. ASSUME NEW w \in Workers, HandlerSucceeds(w)
          PROVE  Promise!Next \/ UNCHANGED <<stored, handled>>
        <3>1. subAt + 1 \in 1 .. Len(topic)
            BY <2>3 DEF IInv, TypeOK, HandlerSucceeds, Handles
        <3> QED BY <2>2, <2>3, <3>1 DEF HandlerSucceeds, dbVars
    <2>4. ASSUME NEW s \in subLate, LateHandler(s)
          PROVE  Promise!Next \/ UNCHANGED <<stored, handled>>
        <3>1. s \in Deliveries(Workers, topic) /\ Len(topic) \in Nat
            BY DEF IInv, TypeOK
        <3>2. s.at \in 1 .. Len(topic)
            BY <3>1, GoesOnFacts
        <3> QED BY <2>2, <2>4, <3>2 DEF LateHandler, dbVars
    <2> QED
        BY <2>1, <2>3, <2>4
        DEF Next, SaveStep, ApiStep, WorkerStep, Begin, InsertItem, PublishCreated, SaveFails,
            Respond, DeleteItem, ForwarderTake, ForwarderPublish, ForwarderNacks, ForwarderAck,
            ForwarderCommit, ForwarderLapses, LatePublish, ApiCrash, SubscriberTake,
            HandlerExhausted, SubscriberAck, SubscriberCommit, SubscriberLapses, WorkerCrash,
            vars, dbVars, subVars, Promise!Next
<1> QED BY <1>1, <1>2, Invariance, PTL DEF SafeSpec, Promise!SafeSpec
-------------------------------------------------------------------------------
(* The two readers of message tables as consumer groups.                     *)

ForwarderGroup == INSTANCE ConsumerGroup WITH
    size <- Len(outbox), offset <- outboxAcked, front <- fwdAt, done <- fwdSent

SubscriberGroup == INSTANCE ConsumerGroup WITH
    size <- Len(topic), offset <- topicAcked, front <- subAt, done <- subDone

\* Whichever process holds the offset row, and whenever it dies, the forwarder daemons
\* together work the queue off like one consumer group: StartForwarder runs in every
\* API process, and none acknowledges what it has not published itself.
THEOREM ForwardersAreOneGroup == SafeSpec => ForwarderGroup!Spec
<1>1. Init => ForwarderGroup!Init
    BY DEF Init, ForwarderGroup!Init
<1>2. IInv /\ [Next]_vars => [ForwarderGroup!Next]_(ForwarderGroup!groupVars)
    <2> SUFFICES ASSUME IInv, [Next]_vars
                 PROVE  \/ ForwarderGroup!Next
                        \/ UNCHANGED <<Len(outbox), outboxAcked, fwdAt, fwdSent>>
        BY DEF ForwarderGroup!groupVars
    <2>1. TypeOK /\ Len(outbox) \in Nat /\ fwdLast \in 0 .. Len(outbox)
        BY DEF IInv, TypeOK
    <2>2. ASSUME NEW r \in Requests, CommitTx(r) PROVE ForwarderGroup!Arrive
        <3>1. Len(outbox') = Len(outbox) + 1
            BY <2>1, <2>2, AppendFacts DEF TypeOK, CommitTx
        <3> QED BY <2>1, <2>2, <3>1 DEF CommitTx, fwdVars, ForwarderGroup!Arrive
    <2>3. ASSUME NEW a \in Apis, ForwarderPublish(a) PROVE ForwarderGroup!Work
        BY <2>1, <2>3 DEF TypeOK, ForwarderPublish, Forwards, ForwarderGroup!Work
    <2>4. ASSUME NEW a \in Apis, ForwarderAck(a) PROVE ForwarderGroup!Acknowledge
        BY <2>4 DEF ForwarderAck, ForwarderGroup!Acknowledge
    <2>5. ASSUME NEW a \in Apis, ForwarderCommit(a) \/ ForwarderLapses(a)
          PROVE  ForwarderGroup!Return
        BY <2>5 DEF ForwarderCommit, ForwarderLapses, ForwarderReleases, ForwarderGroup!Return
    <2>6. ASSUME NEW a \in Apis, ApiCrash(a)
          PROVE  \/ ForwarderGroup!Return
                 \/ UNCHANGED <<Len(outbox), outboxAcked, fwdAt, fwdSent>>
        BY <2>6 DEF ApiCrash, ForwarderReleases, ForwarderGroup!Return
    <2> QED
        BY <2>2, <2>3, <2>4, <2>5, <2>6, ForwarderCases
        DEF ForwarderTake, ForwarderNacks, LatePublish, fwdVars, ForwarderGroup!Next
<1> QED BY <1>1, <1>2, Invariance, PTL DEF SafeSpec, ForwarderGroup!Spec

\* So do the subscribers of all workers with the topic: they share one consumer group.
\* EventBusProofs shows the same of the goroutine that this module abstracts.
THEOREM SubscribersAreOneGroup == SafeSpec => SubscriberGroup!Spec
<1>1. Init => SubscriberGroup!Init
    BY DEF Init, SubscriberGroup!Init
<1>2. IInv /\ [Next]_vars => [SubscriberGroup!Next]_(SubscriberGroup!groupVars)
    <2> SUFFICES ASSUME IInv, [Next]_vars
                 PROVE  \/ SubscriberGroup!Next
                        \/ UNCHANGED <<Len(topic), topicAcked, subAt, subDone>>
        BY DEF SubscriberGroup!groupVars
    <2>1. TypeOK /\ FwdTypes /\ Len(topic) \in Nat /\ subLast \in 0 .. Len(topic)
        BY TypeParts DEF IInv, TypeOK
    <2>2. ASSUME NEW k \in 1 .. Len(outbox), Publishes(k) PROVE SubscriberGroup!Arrive
        BY <2>1, <2>2, TopicGrows DEF Publishes, subVars, SubscriberGroup!Arrive
    <2>3. ASSUME NEW w \in Workers, HandlerSucceeds(w) PROVE SubscriberGroup!Work
        BY <2>1, <2>3 DEF TypeOK, HandlerSucceeds, Handles, SubscriberGroup!Work
    <2>4. ASSUME NEW w \in Workers, SubscriberAck(w) PROVE SubscriberGroup!Acknowledge
        BY <2>4 DEF SubscriberAck, SubscriberGroup!Acknowledge
    <2>5. ASSUME NEW w \in Workers, SubscriberCommit(w) \/ SubscriberLapses(w)
          PROVE  SubscriberGroup!Return
        BY <2>5 DEF SubscriberCommit, SubscriberLapses, SubscriberReleases,
                    SubscriberGroup!Return
    <2>6. ASSUME NEW w \in Workers, WorkerCrash(w)
          PROVE  \/ SubscriberGroup!Return
                 \/ UNCHANGED <<Len(topic), topicAcked, subAt, subDone>>
        BY <2>6 DEF WorkerCrash, SubscriberReleases, SubscriberGroup!Return
    <2>7. (\E k \in 1 .. Len(outbox) : Publishes(k)) \/ topic' = topic
        BY <2>1, TopicCases
    <2> QED
        BY <2>2, <2>3, <2>4, <2>5, <2>6, <2>7, SubscriberCases
        DEF SubscriberTake, LateHandler, subVars, SubscriberGroup!Next
<1> QED BY <1>1, <1>2, Invariance, PTL DEF SafeSpec, SubscriberGroup!Spec
===============================================================================
