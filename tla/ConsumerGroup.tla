----------------------------- MODULE ConsumerGroup -----------------------------
(***************************************************************************)
(* What every reader of a message table promises, the forwarder as well as *)
(* the subscribers (pkg/events/watermill.go): messages are worked off in   *)
(* order, one at a time, and acknowledged only after their work has been   *)
(* done in this delivery; the offset of the group follows at the end of a  *)
(* batch.  A batch that ends without it is worked off again.               *)
(***************************************************************************)
EXTENDS Naturals

VARIABLES size,    \* messages in the table
          offset,  \* the committed offset of the group
          front,   \* messages that are acknowledged, in the batch under way too
          done     \* has the work of the next message been done in this delivery?

groupVars == <<size, offset, front, done>>

Init ==
    /\ size \in Nat
    /\ offset = 0 /\ front = 0
    /\ done = FALSE

\* Messages are only added.
Arrive ==
    /\ size' \in Nat /\ size' > size
    /\ UNCHANGED <<offset, front, done>>

\* The work of the next message, be it for the first time or again.
Work ==
    /\ front < size
    /\ done' = TRUE
    /\ UNCHANGED <<size, offset, front>>

Acknowledge ==
    /\ done
    /\ front' = front + 1
    /\ done' = FALSE
    /\ UNCHANGED <<size, offset>>

\* The batch is over: what was acknowledged is committed or was in vain.
Return ==
    /\ offset' \in {offset, front}
    /\ front' = offset'
    /\ done' = FALSE
    /\ UNCHANGED size

Next == Arrive \/ Work \/ Acknowledge \/ Return

Spec == Init /\ [][Next]_groupVars
================================================================================
