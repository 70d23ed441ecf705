------------------------------- MODULE Lifecycle -------------------------------
(***************************************************************************)
(* The life of one process, cmd/api or cmd/worker: what main opens in which*)
(* order, what ends it early, and the deferred calls that close everything,*)
(* while requests (in the API) or event handlers (in the worker) are under *)
(* way.                                                                    *)
(***************************************************************************)
EXTENDS Naturals, Sequences

CONSTANTS
    Kinds, \* the processes to look at
    Jobs   \* requests or deliveries of events

ASSUME LifecycleAssumption == Kinds \subseteq {"api", "worker"}

VARIABLES
    kind,
    pc,        \* what main is doing
    pending,   \* steps of main before it waits for a signal
    open,      \* parts that are open
    table,     \* does the forwarder's queue table exist?
    todo,      \* deferred closing steps, the next one first
    job,       \* what became of a job
    signalled, \* has SIGINT or SIGTERM come?
    code,      \* how the process ended
    failed,    \* history: closing steps that returned an error
    timedOut   \* history: did EventBus.Close stop waiting for handlers?

vars == <<kind, pc, pending, open, table, todo, job, signalled, code, failed, timedOut>>

ListenFirst ==
    <<"config", "otel", "sentry", "pool", "bus", "redis", "listen", "forwarder", "notify">>

\* The steps of main in cmd/api ...
ApiBoot ==
    <<"config", "otel", "sentry", "pool", "bus", "forwarder", "redis", "listen", "notify">>

\* ... and in cmd/worker.
WorkerBoot ==
    <<"config", "otel", "sentry", "pool", "bus", "redis", "subscribe", "notify">>

\* telemetry.Setup makes a tracer and a meter provider; its shutdown function shuts
\* them down in this order and stops at an error.
Telemetry == <<"tracer", "meter">>

\* What a step leaves open when it succeeds.
Parts(step) ==
    CASE step = "otel"      -> {Telemetry[1], Telemetry[2]}
      [] step = "sentry"    -> {"sentry"}
      [] step = "pool"      -> {"pool"}
      [] step = "bus"       -> {"busSub", "busPub", "busDb"}
      [] step = "forwarder" -> {"forwarder"}
      [] step = "redis"     -> {"redis"}
      [] step = "listen"    -> {"server"}
      [] step = "subscribe" -> {"subscription"}
      [] OTHER              -> {}

AllParts == UNION {Parts(s) : s \in {"otel", "sentry", "pool", "bus", "forwarder",
                                     "redis", "listen", "subscribe"}}

ForgetRedis(step) == IF step = "pool" THEN <<"pool">> ELSE <<>>

\* What the call deferred after a step does, in order; EventBus.Close closes the
\* forwarder, too.
Closers(step) ==
    CASE step = "otel"   -> Telemetry
      [] step = "sentry" -> <<"sentry">>
      [] step = "pool"   -> <<"pool">>
      [] step = "bus"    -> <<"busSub", "forwarder", "wait", "busPub", "busDb">>
      [] step = "redis"  -> <<"redis">>
      [] OTHER           -> <<>>

\* Is q done by the same deferred call as p?
SameCall(p, q) ==
    \E s \in {"otel", "sentry", "pool", "bus", "redis"} :
        {p, q} \subseteq {Closers(s)[n] : n \in 1 .. Len(Closers(s))}

Running == {j \in Jobs : job[j] = "running"}

Init ==
    /\ kind \in Kinds
    /\ pc = "boot" /\ pending = (IF kind = "api" THEN ApiBoot ELSE WorkerBoot)
    /\ open = {} /\ table \in BOOLEAN /\ todo = <<>>
    /\ job = [j \in Jobs |-> "idle"]
    /\ signalled = FALSE /\ code = "none" /\ failed = {} /\ timedOut = FALSE

\* The process ends; the jobs under way end with it.
Exit(c) ==
    /\ pc' = "exited" /\ code' = c
    /\ job' = [j \in Jobs |-> IF job[j] = "running" THEN "lost" ELSE job[j]]
-------------------------------------------------------------------------------
(* main, up to the wait for a signal.                                        *)

\* A step succeeds and its closing call is deferred.  Without a DSN, or if it fails,
\* SetupSentry leaves nothing open; the forwarder's subscriber creates the table.
BootStep ==
    LET step == Head(pending) IN
    /\ pc = "boot"
    /\ open' \in {open \cup Parts(step)} \cup (IF step = "sentry" THEN {open} ELSE {})
    /\ todo' = Closers(step) \o todo
    /\ table' = (table \/ step = "forwarder")
    /\ pending' = Tail(pending)
    /\ pc' = IF Tail(pending) = <<>> THEN "serving" ELSE "boot"
    /\ UNCHANGED <<kind, job, signalled, code, failed, timedOut>>

\* os.Exit(1), which runs no deferred call.
BootFails ==
    /\ pc = "boot" /\ Head(pending) \notin {"sentry", "listen", "notify"}
    /\ Exit("error")
    /\ UNCHANGED <<kind, pending, open, table, todo, signalled, failed, timedOut>>

\* ListenAndServe fails, at the first moment (the port is taken) or later.
ServerFails ==
    /\ "server" \in open /\ pc \in {"boot", "serving"}
    /\ Exit("error")
    /\ UNCHANGED <<kind, pending, open, table, todo, signalled, failed, timedOut>>

\* Before signal.Notify a signal kills the process, afterwards main reads it.
Signal ==
    /\ ~signalled /\ pc # "exited"
    /\ signalled' = TRUE
    /\ IF pc = "boot" THEN Exit("killed") ELSE UNCHANGED <<pc, code, job>>
    /\ UNCHANGED <<kind, pending, open, table, todo, failed, timedOut>>
-------------------------------------------------------------------------------
(* Jobs.                                                                     *)

\* A request arrives while the server listens, an event while the subscriber reads.
StartJob(j) ==
    /\ job[j] = "idle"
    /\ \/ "server" \in open /\ pc \in {"boot", "serving"}
       \/ {"subscription", "busSub"} \subseteq open /\ pc # "exited"
    /\ job' = [job EXCEPT ![j] = "running"]
    /\ UNCHANGED <<kind, pc, pending, open, table, todo, signalled, code, failed, timedOut>>

\* Saves use the pool and publish in its transactions, /health pings all three.
Needs == {"pool", "busDb", "redis"}

\* handleItemCreated returns nil whatever becomes of the cache entry: Set may fail at any
\* time ("missed"), and fails when main has closed Redis already ("cold").  The event is
\* acknowledged if the subscriber is still there for that.
Outcomes ==
    IF kind = "api" THEN {IF Needs \subseteq open /\ table THEN "ok" ELSE "broken"}
    ELSE IF "busSub" \notin open THEN {"again"}
    ELSE IF "redis" \in open THEN {"ok", "missed"} ELSE {"cold"}

FinishJob(j) ==
    /\ job[j] = "running"
    /\ \E outcome \in Outcomes : job' = [job EXCEPT ![j] = outcome]
    /\ UNCHANGED <<kind, pc, pending, open, table, todo, signalled, code, failed, timedOut>>
-------------------------------------------------------------------------------
(* main, from the signal on.                                                 *)

\* The worker cancels its relay and returns; the API shuts its server down first.
Quit ==
    /\ pc = "serving" /\ signalled
    /\ pc' = IF kind = "api" THEN "drain" ELSE "deferred"
    /\ UNCHANGED <<kind, pending, open, table, todo, job, signalled, code, failed, timedOut>>

CloseServer ==
    /\ pc = "drain"
    /\ pc' = "deferred" /\ open' = open \ {"server"}
    /\ UNCHANGED <<kind, pending, table, todo, job, signalled, code, failed, timedOut>>

\* srv.Shutdown returns when no request is under way ...
Drained ==
    /\ pc = "drain" /\ Running = {}
    /\ pc' = "deferred" /\ open' = open \ {"server"}
    /\ UNCHANGED <<kind, pending, table, todo, job, signalled, code, failed, timedOut>>

ShutdownWithoutDeadline == pc = "drain" /\ FALSE /\ UNCHANGED vars

\* ... or after 30 s, and then main exits without any deferred call.
DrainTimesOut ==
    /\ pc = "drain" /\ Running # {}
    /\ Exit("error")
    /\ UNCHANGED <<kind, pending, open, table, todo, signalled, failed, timedOut>>

\* The next closing step succeeds; the step "wait" is EventBus.Close waiting for the
\* handlers under way.
CloseNext ==
    /\ pc = "deferred" /\ todo # <<>>
    /\ Head(todo) = "wait" => Running = {}
    /\ open' = open \ {Head(todo)}
    /\ todo' = Tail(todo)
    /\ UNCHANGED <<kind, pc, pending, table, job, signalled, code, failed, timedOut>>

\* EventBus.Close waits for 30 s at most.
WaitTimesOut ==
    /\ pc = "deferred" /\ todo # <<>> /\ Head(todo) = "wait" /\ Running # {}
    /\ timedOut' = TRUE /\ todo' = Tail(todo)
    /\ UNCHANGED <<kind, pc, pending, open, table, job, signalled, code, failed>>

\* A closing step fails: the deferred call returns and main does not look at why.
CloseFails ==
    /\ pc = "deferred" /\ todo # <<>> /\ Head(todo) \in open \ {"sentry"}
    /\ failed' = failed \cup {Head(todo)}
    /\ \E n \in 1 .. Len(todo) :
          /\ \A m \in 1 .. n : SameCall(todo[m], Head(todo))
          /\ n < Len(todo) => ~SameCall(todo[n + 1], Head(todo))
          /\ todo' = SubSeq(todo, n + 1, Len(todo))
    /\ UNCHANGED <<kind, pc, pending, open, table, job, signalled, code, timedOut>>

\* main returns.
End ==
    /\ pc = "deferred" /\ todo = <<>>
    /\ Exit("ok")
    /\ UNCHANGED <<kind, pending, open, table, todo, signalled, failed, timedOut>>

Main == BootStep \/ Quit \/ Drained \/ DrainTimesOut \/ CloseNext \/ WaitTimesOut \/ End

Next ==
    \/ Main \/ BootFails \/ ServerFails \/ Signal \/ CloseFails
    \/ \E j \in Jobs : StartJob(j) \/ FinishJob(j)

Spec == Init /\ [][Next]_vars

\* main goes on and its time limits pass; jobs may hang.
FairSpec == Spec /\ WF_vars(Main)
-------------------------------------------------------------------------------
(* Properties.                                                               *)

\* Who is under way finds open what it needs.  For a request that is all of it: the
\* server listens last and is drained first, and the forwarder's queue table is there.
\* An event handler has the connection its acknowledgement needs, unless Close has
\* waited for 30 s.
JobsFindAllOpen ==
    Running # {} /\ pc # "exited" =>
        IF kind = "api" THEN Needs \subseteq open /\ table ELSE "busDb" \in open \/ timedOut

\* What main itself spoils (that an event is acknowledged without its item in the cache
\* can happen at any time, if Redis fails): it takes Redis from a handler only while the
\* process shuts down, and when it ends with code 0 it has cut off no request, and a
\* handler only after EventBus.Close failed before its wait or waited for 30 s.
ShutdownSpoilsLittle ==
    \A j \in Jobs :
        /\ job[j] = "cold" => signalled
        /\ job[j] = "lost" /\ code = "ok" =>
              kind = "worker" /\ (timedOut \/ failed \cap {"busSub", "forwarder"} # {})

\* A process that ends by itself has closed everything it opened, except what did not
\* close and what stood behind that in the same deferred call.
CleanExitClosesAll ==
    code = "ok" =>
        \A p \in open \ {"subscription"} : \E q \in failed : p = q \/ SameCall(p, q)

\* Every process ends after a signal, even if its requests or handlers hang.
SignalEndsProcess == signalled ~> pc = "exited"
================================================================================
