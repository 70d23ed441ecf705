--------------------------------- MODULE Health ---------------------------------
(***************************************************************************)
(* GET /health: one call of HealthHandler, which pings the database, Redis *)
(* and the event bus one after the other under one deadline of 2 s, while  *)
(* they and the client may come and go.                                    *)
(*                                                                         *)
(* A ping of the database or the event bus ends with its context.  go-redis*)
(* looks at the context before it sends a command and then obeys its socket*)
(* timeouts only, which may last longer than the deadline.                 *)
(***************************************************************************)
EXTENDS Naturals

CONSTANT MaxChanges \* bound: changes of a dependency's condition

ASSUME HealthAssumption == MaxChanges \in Nat

Deps == {"database", "redis", "eventbus"}

VARIABLES
    cond,      \* "up", "slow" or "down"
    at,        \* the dependency being looked at, or "answer", "done"
    pinging,   \* has its ping been sent?
    resp,      \* the fields of the response
    status,    \* and its status code, 0 before
    expired, gone, \* has the deadline passed, has the client left?
    probed,    \* history: dependencies that were sent a ping
    bad,       \* history: dependencies that were not up while their turn lasted
    changes

vars == <<cond, at, pinging, resp, status, expired, gone, probed, bad, changes>>

Init ==
    /\ cond \in [Deps -> {"up", "slow", "down"}]
    /\ at = "database" /\ pinging = FALSE
    /\ resp = [d \in Deps |-> "ok"] /\ status = 0
    /\ expired = FALSE /\ gone = FALSE
    /\ probed = {} /\ bad = {} /\ changes = 0

Following(d) ==
    CASE d = "database" -> "redis" [] d = "redis" -> "eventbus" [] OTHER -> "answer"

\* Is d asked no later than e?
UpTo(d, e) == d = e \/ Following(d) = e \/ (d = "database" /\ e = "eventbus")

CtxDone == expired \/ gone
-------------------------------------------------------------------------------
Fail(d) == resp' = [resp EXCEPT ![d] = "unreachable"]

\* A ping with a context that is done fails at once and asks nobody.
Refuse(d) ==
    /\ at = d /\ ~pinging /\ CtxDone
    /\ Fail(d) /\ at' = Following(d)
    /\ UNCHANGED <<cond, pinging, status, expired, gone, probed, bad, changes>>

Send(d) ==
    /\ at = d /\ ~pinging /\ ~CtxDone
    /\ pinging' = TRUE /\ probed' = probed \cup {d}
    /\ bad' = IF cond[d] = "up" THEN bad ELSE bad \cup {d}
    /\ UNCHANGED <<cond, at, resp, status, expired, gone, changes>>

CancelAfterPing(d) ==
    /\ at = d /\ pinging /\ cond[d] # "down"
    /\ CtxDone => d = "redis"
    /\ pinging' = FALSE /\ at' = Following(d) /\ expired' = TRUE
    /\ UNCHANGED <<cond, resp, status, gone, probed, bad, changes>>

PingOk(d) ==
    /\ at = d /\ pinging /\ cond[d] # "down"
    /\ CtxDone => d = "redis"
    /\ pinging' = FALSE /\ at' = Following(d)
    /\ UNCHANGED <<cond, resp, status, expired, gone, probed, bad, changes>>

PingFails(d) ==
    /\ at = d /\ pinging
    /\ cond[d] = "down" \/ CtxDone \/ (d = "redis" /\ cond[d] = "slow")
    /\ Fail(d) /\ pinging' = FALSE /\ at' = Following(d)
    /\ UNCHANGED <<cond, status, expired, gone, probed, bad, changes>>

LastPingDecides == IF resp["eventbus"] = "ok" THEN 200 ELSE 503

StatusCode == IF \E d \in Deps : resp[d] # "ok" THEN 503 ELSE 200

Answer ==
    /\ at = "answer" /\ at' = "done"
    /\ status' = StatusCode
    /\ UNCHANGED <<cond, pinging, resp, expired, gone, probed, bad, changes>>

NoDeadline == gone /\ FALSE /\ UNCHANGED vars

\* The 2 s are over, which takes a dependency that has been slow or down.
Expire ==
    /\ ~expired /\ bad # {} /\ at # "done"
    /\ expired' = TRUE
    /\ UNCHANGED <<cond, at, pinging, resp, status, gone, probed, bad, changes>>

\* The client closes its connection, which cancels the request's context.
Leave ==
    /\ ~gone /\ at # "done"
    /\ gone' = TRUE
    /\ UNCHANGED <<cond, at, pinging, resp, status, expired, probed, bad, changes>>

Change(d, c) ==
    /\ at # "done" /\ cond[d] # c /\ changes < MaxChanges
    /\ cond' = [cond EXCEPT ![d] = c]
    /\ changes' = changes + 1
    /\ bad' = IF at = d /\ pinging /\ c # "up" THEN bad \cup {d} ELSE bad
    /\ UNCHANGED <<at, pinging, resp, status, expired, gone, probed>>

Handler ==
    \/ \E d \in Deps : Refuse(d) \/ Send(d) \/ PingOk(d) \/ PingFails(d)
    \/ Answer

Next ==
    \/ Handler \/ Expire \/ Leave
    \/ \E d \in Deps, c \in {"up", "slow", "down"} : Change(d, c)

Spec == Init /\ [][Next]_vars

\* The handler goes on and time passes; of the answers to its pings only that of a
\* dependency that is up must come.
FairSpec ==
    /\ Spec /\ WF_vars(Expire)
    /\ WF_vars(Answer \/ \E d \in Deps :
          Refuse(d) \/ Send(d) \/ PingFails(d) \/ (cond[d] = "up" /\ PingOk(d)))
-------------------------------------------------------------------------------
(* Properties.                                                               *)

\* The answer is the word of all three: 200 says that each was asked and answered,
\* though not at one time, 503 that at least one is not well, and a dependency that
\* is down when it is asked and stays down is never called ok.
StatusIsEarned ==
    at = "done" =>
        /\ status = 200 => probed = Deps /\ \A d \in Deps : resp[d] = "ok"
        /\ status = 503 => \E d \in Deps : resp[d] = "unreachable"
        /\ changes = 0 => \A d \in Deps : cond[d] = "down" => resp[d] = "unreachable"

\* A dependency that is called unreachable has failed or been slow, or one that was
\* asked before it has, unless the client has left: one slow dependency takes the
\* blame on those behind it, never on those before.
BlameHasCause ==
    \A d \in Deps : resp[d] = "unreachable" /\ ~gone => \E e \in bad : UpTo(e, d)

\* The handler answers whatever its dependencies do: a ping that hangs ends with the
\* deadline or with the socket's.
HealthAnswers == <>(at = "done")
=================================================================================
