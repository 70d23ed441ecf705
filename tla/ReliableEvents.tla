---------------------------- MODULE ReliableEvents ----------------------------
(***************************************************************************)
(* What the outbox promises (pkg/events/watermill.go, "at-least-once event *)
(* delivery ... no event loss if the process crashes after Publish         *)
(* returns"), without any mechanism: an event comes into being together    *)
(* with the change it reports, and from then on it is bound to reach its   *)
(* consumers.  Repeated deliveries of one event are stuttering steps here. *)
(***************************************************************************)

CONSTANT Events

VARIABLES committed,   \* events whose change has been persisted
          delivered    \* events a consumer has processed at least once

promiseVars == <<committed, delivered>>

Init ==
    /\ committed = {}
    /\ delivered = {}

\* The change and its event appear in one step.
Commit(e) ==
    /\ e \notin committed
    /\ committed' = committed \cup {e}
    /\ UNCHANGED delivered

\* Only a committed event can be delivered.
Deliver(e) ==
    /\ e \in committed \ delivered
    /\ delivered' = delivered \cup {e}
    /\ UNCHANGED committed

Next == \E e \in Events : Commit(e) \/ Deliver(e)

SafeSpec == Init /\ [][Next]_promiseVars

Spec == SafeSpec /\ \A e \in Events : WF_promiseVars(Deliver(e))
===============================================================================
