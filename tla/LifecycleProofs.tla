---------------------------- MODULE LifecycleProofs ----------------------------
(***************************************************************************)
(* Proofs about Lifecycle, for any jobs.  main opens its parts in a fixed  *)
(* order and its deferred calls close them in another, so the steps it has *)
(* left and the closing steps that are deferred are always ends of two     *)
(* fixed sequences, and their lengths say where main is.                   *)
(***************************************************************************)
EXTENDS Lifecycle, TLAPS

Booting == {"boot", "serving", "drain"}

Boot == IF kind = "api" THEN ApiBoot ELSE WorkerBoot

BootSteps ==
    {"config", "otel", "sentry", "pool", "bus", "forwarder", "redis", "listen", "subscribe", "notify"}

\* How many steps of main are left when s is the next one?
Left(s) ==
    IF kind = "api"
    THEN CASE s = "config"    -> 9 [] s = "otel"   -> 8 [] s = "sentry" -> 7
           [] s = "pool"      -> 6 [] s = "bus"    -> 5 [] s = "forwarder" -> 4
           [] s = "redis"     -> 3 [] s = "listen" -> 2 [] s = "notify" -> 1
           [] OTHER           -> 0
    ELSE CASE s = "config"    -> 8 [] s = "otel"   -> 7 [] s = "sentry" -> 6
           [] s = "pool"      -> 5 [] s = "bus"    -> 4 [] s = "redis" -> 3
           [] s = "subscribe" -> 2 [] s = "notify" -> 1
           [] OTHER           -> 0

\* Has main done s?
Done(s) == Len(pending) < Left(s)

\* How many closing steps are deferred so far?
Deferred ==
    IF ~Done("otel") THEN 0 ELSE IF ~Done("sentry") THEN 2 ELSE IF ~Done("pool") THEN 3
    ELSE IF ~Done("bus") THEN 4 ELSE IF ~Done("redis") THEN 9 ELSE 10

\* The closing steps of a process that has opened everything: the last call deferred
\* comes first.
Closing ==
    <<"redis", "busSub", "forwarder", "wait", "busPub", "busDb", "pool", "sentry", "tracer", "meter">>

ClosingSteps ==
    {"redis", "busSub", "forwarder", "wait", "busPub", "busDb", "pool", "sentry", "tracer", "meter"}

\* Is q the end of s?
EndOf(q, s) ==
    /\ Len(q) <= Len(s)
    /\ \A n \in 1 .. Len(q) : q[n] = s[Len(s) - Len(q) + n]

LifeTypes ==
    /\ kind \in {"api", "worker"}
    /\ pc \in Booting \cup {"deferred", "exited"}
    /\ pending \in Seq(BootSteps)
    /\ todo \in Seq(ClosingSteps)
    /\ open \subseteq (ClosingSteps \ {"wait"}) \cup {"server", "subscription"}
    /\ table \in BOOLEAN
    /\ job \in [Jobs -> {"idle", "running", "ok", "broken", "again", "missed", "cold", "lost"}]

\* Where main is, what is open and what is deferred belong together.
BootInv ==
    /\ EndOf(todo, Closing)
    /\ "server" \in open => kind = "api"
    /\ "subscription" \in open => kind = "worker"
    /\ pc \in Booting =>
          /\ EndOf(pending, Boot)
          /\ pc = "boot" <=> pending # <<>>
          /\ Len(todo) = Deferred
          /\ Done("pool") => "pool" \in open
          /\ Done("bus") => {"busSub", "busDb"} \subseteq open
          /\ Done("redis") => "redis" \in open
          /\ Done("forwarder") => table
          /\ "server" \in open => Done("listen")
          /\ "subscription" \in open => Done("subscribe")

\* Jobs under way need what brings them; the API has none when its deferred calls run,
\* and none survives the process.
JobInv ==
    /\ pc \in Booting /\ Running # {} => {"server", "subscription"} \cap open # {}
    /\ pc = "deferred" /\ kind = "api" => Running = {}
    /\ pc = "deferred" => "server" \notin open
    /\ pc = "exited" => Running = {}
    /\ \A j \in Jobs : job[j] = "lost" => pc = "exited"
    /\ pc = "drain" => kind = "api"
    /\ pc \in {"drain", "deferred"} => signalled
    /\ code = "ok" => pc = "exited"

\* p did not close, or stands in a deferred call that returned before it.
Excused(p) == \E q \in failed : p = q \/ SameCall(p, q)

\* EventBus.Close has not waited for its handlers to the end.
GivenUp == timedOut \/ failed \cap {"busSub", "forwarder"} # {}

\* What is open is closed later or has an excuse, and EventBus.Close gets to its
\* connection only when nobody is under way or its 30 s are over; past the wait nobody
\* is, unless it has given up.
CloseInv ==
    /\ pc = "deferred" =>
          \A p \in open \ {"subscription"} : Excused(p) \/ \E n \in 1 .. Len(todo) : todo[n] = p
    /\ pc = "deferred" /\ 5 <= Len(todo) /\ Len(todo) <= 8 => "busSub" \notin open
    /\ pc = "deferred" /\ 5 <= Len(todo) /\ Len(todo) <= 6 => Running = {} \/ timedOut
    /\ pc = "deferred" /\ kind = "worker" =>
          "busDb" \in open \/ timedOut \/ ("busSub" \notin open /\ Running = {})
    /\ pc = "deferred" /\ kind = "worker" /\ Len(todo) <= 6 =>
          GivenUp \/ ("busSub" \notin open /\ Running = {})

IInv == LifeTypes /\ BootInv /\ JobInv /\ CloseInv /\ ShutdownSpoilsLittle /\ CleanExitClosesAll
-------------------------------------------------------------------------------
(* Ends of sequences.                                                        *)

\* Without its first element the end of a sequence is one.
LEMMA EndTail ==
    ASSUME NEW S, NEW s \in Seq(S), NEW q \in Seq(S), EndOf(q, s), q # <<>>
    PROVE  /\ Tail(q) \in Seq(S) /\ Len(Tail(q)) = Len(q) - 1 /\ Len(q) \in Nat /\ Len(q) >= 1
           /\ Head(q) = s[Len(s) - Len(q) + 1]
           /\ EndOf(Tail(q), s)
<1>1. /\ Tail(q) \in Seq(S) /\ Len(Tail(q)) = Len(q) - 1 /\ Len(q) \in Nat /\ Len(q) >= 1
      /\ Len(s) \in Nat
      /\ \A n \in 1 .. Len(q) - 1 : Tail(q)[n] = q[n + 1]
      /\ Head(q) = q[1]
    OBVIOUS
<1>2. EndOf(Tail(q), s)
    <2> SUFFICES ASSUME NEW n \in 1 .. Len(q) - 1
                 PROVE  q[n + 1] = s[Len(s) - (Len(q) - 1) + n]
        BY <1>1 DEF EndOf
    <2>1. n + 1 \in 1 .. Len(q) /\ Len(s) - (Len(q) - 1) + n = Len(s) - Len(q) + (n + 1)
        BY <1>1
    <2> QED
        BY <2>1 DEF EndOf
<1> QED
    BY <1>1, <1>2 DEF EndOf

\* Neither do more elements make a difference.
LEMMA EndDrop ==
    ASSUME NEW S, NEW s \in Seq(S), NEW q \in Seq(S), EndOf(q, s), NEW k \in 1 .. Len(q)
    PROVE  LET r == SubSeq(q, k + 1, Len(q))
           IN  /\ r \in Seq(S) /\ Len(r) = Len(q) - k
               /\ \A n \in 1 .. Len(q) - k : r[n] = q[n + k]
               /\ EndOf(r, s)
<1> DEFINE r == SubSeq(q, k + 1, Len(q))
<1>1. /\ r \in Seq(S) /\ Len(r) = Len(q) - k
      /\ Len(q) \in Nat /\ Len(s) \in Nat
      /\ \A n \in 1 .. Len(q) - k : r[n] = q[n + k]
    OBVIOUS
<1> HIDE DEF r
<1>2. EndOf(r, s)
    <2> SUFFICES ASSUME NEW n \in 1 .. Len(q) - k
                 PROVE  q[n + k] = s[Len(s) - (Len(q) - k) + n]
        BY <1>1 DEF EndOf
    <2>1. n + k \in 1 .. Len(q) /\ Len(s) - (Len(q) - k) + n = Len(s) - Len(q) + (n + k)
        BY <1>1
    <2> QED
        BY <2>1 DEF EndOf
<1> QED
    BY <1>1, <1>2 DEF r

\* What stands before the end of a sequence makes it longer.
LEMMA EndGrows ==
    ASSUME NEW S, NEW s \in Seq(S), NEW q \in Seq(S), EndOf(q, s), NEW c \in Seq(S),
           Len(c) + Len(q) <= Len(s),
           \A n \in 1 .. Len(c) : c[n] = s[Len(s) - Len(q) - Len(c) + n]
    PROVE  c \o q \in Seq(S) /\ Len(c \o q) = Len(c) + Len(q) /\ EndOf(c \o q, s)
<1> DEFINE r == c \o q
<1>1. /\ r \in Seq(S) /\ Len(r) = Len(c) + Len(q)
      /\ Len(q) \in Nat /\ Len(s) \in Nat /\ Len(c) \in Nat
      /\ \A n \in 1 .. Len(c) + Len(q) : r[n] = IF n <= Len(c) THEN c[n] ELSE q[n - Len(c)]
    OBVIOUS
<1> HIDE DEF r
<1>2. ASSUME NEW n \in 1 .. Len(c) + Len(q)
      PROVE  r[n] = s[Len(s) - (Len(c) + Len(q)) + n]
    <2>1. CASE n <= Len(c)
        <3>1. n \in 1 .. Len(c) /\ Len(s) - (Len(c) + Len(q)) + n = Len(s) - Len(q) - Len(c) + n
            BY <1>1, <2>1
        <3> QED
            BY <1>1, <2>1, <3>1
    <2>2. CASE n > Len(c)
        <3>1. /\ n - Len(c) \in 1 .. Len(q)
              /\ Len(s) - (Len(c) + Len(q)) + n = Len(s) - Len(q) + (n - Len(c))
            BY <1>1, <2>2
        <3>2. q[n - Len(c)] = s[Len(s) - Len(q) + (n - Len(c))]
            BY <3>1 DEF EndOf
        <3>3. r[n] = q[n - Len(c)]
            BY <1>1, <2>2
        <3> QED
            BY <3>1, <3>2, <3>3
    <2> QED
        BY <1>1, <2>1, <2>2
<1> QED
    BY <1>1, <1>2 DEF EndOf, r

\* The two orders.
LEMMA Orders ==
    /\ Closing \in Seq(ClosingSteps) /\ Len(Closing) = 10
    /\ Boot \in Seq(BootSteps)
    /\ kind = "api" => Len(Boot) = 9
    /\ kind # "api" => Len(Boot) = 8
<1>1. Closing \in Seq(ClosingSteps) /\ Len(Closing) = 10
    BY DEF Closing, ClosingSteps
<1>2. ApiBoot \in Seq(BootSteps) /\ Len(ApiBoot) = 9
    BY DEF ApiBoot, BootSteps
<1>3. WorkerBoot \in Seq(BootSteps) /\ Len(WorkerBoot) = 8
    BY DEF WorkerBoot, BootSteps
<1> QED
    BY <1>1, <1>2, <1>3 DEF Boot

\* The next step tells how many are left.
LEMMA NextStep ==
    ASSUME LifeTypes, BootInv, pc = "boot"
    PROVE  /\ Len(pending) \in Nat /\ Len(pending) >= 1 /\ Len(pending) = Left(Head(pending))
           /\ kind = "api" => Head(pending) \in BootSteps \ {"subscribe"}
           /\ kind # "api" => Head(pending) \in BootSteps \ {"forwarder", "listen"}
           /\ pending' = Tail(pending) => pending' \in Seq(BootSteps)
                /\ Len(pending') = Len(pending) - 1 /\ EndOf(pending', Boot)
<1> DEFINE k == Len(pending)
<1>1. pending \in Seq(BootSteps) /\ pending # <<>> /\ EndOf(pending, Boot)
    BY DEF LifeTypes, BootInv, Booting
<1>2. /\ Len(pending) \in Nat /\ Len(pending) >= 1 /\ Head(pending) = Boot[Len(Boot) - Len(pending) + 1]
      /\ Tail(pending) \in Seq(BootSteps) /\ Len(Tail(pending)) = Len(pending) - 1
      /\ EndOf(Tail(pending), Boot)
      /\ Len(pending) <= Len(Boot)
    BY <1>1, EndTail, Orders DEF EndOf
<1>3. k \in Nat /\ k >= 1 /\ k <= Len(Boot) /\ Head(pending) = Boot[Len(Boot) - k + 1]
    BY <1>2
<1> HIDE DEF k
<1>4. CASE kind = "api"
    <2>1. Boot = ApiBoot /\ Len(Boot) = 9
        BY <1>4, Orders DEF Boot
    <2>2. k \in 1 .. 9 /\ Head(pending) = ApiBoot[9 - k + 1]
        BY <1>3, <2>1
    <2>3. \/ k = 9 /\ Head(pending) = "config"
          \/ k = 8 /\ Head(pending) = "otel"
          \/ k = 7 /\ Head(pending) = "sentry"
          \/ k = 6 /\ Head(pending) = "pool"
          \/ k = 5 /\ Head(pending) = "bus"
          \/ k = 4 /\ Head(pending) = "forwarder"
          \/ k = 3 /\ Head(pending) = "redis"
          \/ k = 2 /\ Head(pending) = "listen"
          \/ k = 1 /\ Head(pending) = "notify"
        BY <2>2 DEF ApiBoot
    <2>4. /\ Head(pending) \in BootSteps \ {"subscribe"}
          /\ k = Left(Head(pending))
        BY <1>4, <2>3 DEF Left, BootSteps
    <2> QED
        BY <1>2, <1>4, <2>4 DEF k
<1>5. CASE kind # "api"
    <2>1. Boot = WorkerBoot /\ Len(Boot) = 8
        BY <1>5, Orders DEF Boot
    <2>2. k \in 1 .. 8 /\ Head(pending) = WorkerBoot[8 - k + 1]
        BY <1>3, <2>1
    <2>3. \/ k = 8 /\ Head(pending) = "config"
          \/ k = 7 /\ Head(pending) = "otel"
          \/ k = 6 /\ Head(pending) = "sentry"
          \/ k = 5 /\ Head(pending) = "pool"
          \/ k = 4 /\ Head(pending) = "bus"
          \/ k = 3 /\ Head(pending) = "redis"
          \/ k = 2 /\ Head(pending) = "subscribe"
          \/ k = 1 /\ Head(pending) = "notify"
        BY <2>2 DEF WorkerBoot
    <2>4. /\ Head(pending) \in BootSteps \ {"forwarder", "listen"}
          /\ k = Left(Head(pending))
        BY <1>5, <2>3 DEF Left, BootSteps
    <2> QED
        BY <1>2, <1>5, <2>4 DEF k
<1> QED
    BY <1>4, <1>5

\* The next closing step tells how many are deferred.
LEMMA NextClosing ==
    ASSUME LifeTypes, BootInv, todo # <<>>
    PROVE  /\ Len(todo) \in 1 .. 10 /\ Head(todo) = Closing[11 - Len(todo)]
           /\ Head(todo) = todo[1]
           /\ Tail(todo) \in Seq(ClosingSteps) /\ Len(Tail(todo)) = Len(todo) - 1
           /\ \A n \in 1 .. Len(todo) - 1 : Tail(todo)[n] = todo[n + 1]
           /\ EndOf(Tail(todo), Closing)
<1>1. todo \in Seq(ClosingSteps) /\ EndOf(todo, Closing)
    BY DEF LifeTypes, BootInv
<1>2. Len(todo) <= 10 /\ Head(todo) = Closing[10 - Len(todo) + 1]
    <2>1. Len(todo) <= Len(Closing)
        BY <1>1 DEF EndOf
    <2>2. Head(todo) = Closing[Len(Closing) - Len(todo) + 1]
        <3>1. Closing \in Seq(ClosingSteps)
            BY Orders
        <3> HIDE DEF Closing, ClosingSteps
        <3> QED
            BY <1>1, <3>1, EndTail
    <2> QED
        BY <2>1, <2>2, Orders
<1>3. /\ Len(todo) \in Nat /\ Len(todo) >= 1 /\ Head(todo) = todo[1]
      /\ \A n \in 1 .. Len(todo) - 1 : Tail(todo)[n] = todo[n + 1]
    BY <1>1
<1> QED
    <2>1. /\ Tail(todo) \in Seq(ClosingSteps) /\ Len(Tail(todo)) = Len(todo) - 1
          /\ EndOf(Tail(todo), Closing)
        BY <1>1, EndTail, Orders
    <2> DEFINE k == Len(todo)
    <2>2. k \in 1 .. 10 /\ 10 - k + 1 = 11 - k
        <3>1. k \in Nat /\ k >= 1 /\ k <= 10
            BY <1>2, <1>3
        <3> HIDE DEF k
        <3> QED
            BY <3>1
    <2> QED
        BY <1>2, <1>3, <2>1, <2>2
-------------------------------------------------------------------------------
(* main, up to the wait for a signal.                                        *)

\* A step that succeeds is done, and no other.
LEMMA StepDone ==
    ASSUME LifeTypes, BootInv, pc = "boot", pending' = Tail(pending), kind' = kind
    PROVE  \A s \in BootSteps : Done(s)' <=> Done(s) \/ s = Head(pending)
<1>1. /\ Len(pending) \in Nat /\ Len(pending') = Len(pending) - 1
      /\ Len(pending) = Left(Head(pending))
      /\ Head(pending) \in BootSteps
      /\ kind = "api" => Head(pending) # "subscribe"
      /\ kind # "api" => Head(pending) \notin {"forwarder", "listen"}
    BY NextStep
<1>2. \A s \in BootSteps : Left(s) \in Nat /\ Left(s)' = Left(s)
    BY DEF Left, BootSteps
<1>3. \A s \in BootSteps : Left(s) = Left(Head(pending)) => s = Head(pending) \/ Left(s) = 0
    BY <1>1 DEF Left, BootSteps
<1>4. Left(Head(pending)) # 0
    BY <1>1 DEF Left, BootSteps
<1> QED
    BY <1>1, <1>2, <1>3, <1>4 DEF Done

\* The closing steps of the step are those that come before the deferred ones.
LEMMA ClosersFit ==
    ASSUME LifeTypes, BootInv, pc = "boot", pending' = Tail(pending), kind' = kind
    PROVE  LET c == Closers(Head(pending))
           IN  /\ c \in Seq(ClosingSteps)
               /\ Len(c) + Len(todo) <= 10
               /\ \A n \in 1 .. Len(c) : c[n] = Closing[10 - Len(todo) - Len(c) + n]
               /\ Deferred' = Len(c) + Len(todo)
<1> DEFINE step == Head(pending)
           c == Closers(step)
           Goal == /\ c \in Seq(ClosingSteps)
                   /\ Len(c) + Len(todo) <= 10
                   /\ \A n \in 1 .. Len(c) : c[n] = Closing[10 - Len(todo) - Len(c) + n]
                   /\ Deferred' = Len(c) + Len(todo)
<1>1. /\ step \in BootSteps /\ Len(todo) = Deferred
      /\ \A s \in BootSteps : Done(s) <=> Left(step) < Left(s)
      /\ \A s \in BootSteps : Done(s)' <=> Done(s) \/ s = step
    BY NextStep, StepDone DEF BootInv, Booting, Done
<1>2. kind \in {"api", "worker"}
    BY DEF LifeTypes
<1> HIDE DEF step
<1>3. \/ step \in {"config", "forwarder", "listen", "subscribe", "notify"} /\ Deferred' = Len(todo)
      \/ step = "otel"   /\ Len(todo) = 0 /\ Deferred' = 2
      \/ step = "sentry" /\ Len(todo) = 2 /\ Deferred' = 3
      \/ step = "pool"   /\ Len(todo) = 3 /\ Deferred' = 4
      \/ step = "bus"    /\ Len(todo) = 4 /\ Deferred' = 9
      \/ step = "redis"  /\ Len(todo) = 9 /\ Deferred' = 10
    <2>1. /\ Done("otel") <=> Left(step) < Left("otel")
          /\ Done("sentry") <=> Left(step) < Left("sentry")
          /\ Done("pool") <=> Left(step) < Left("pool")
          /\ Done("bus") <=> Left(step) < Left("bus")
          /\ Done("redis") <=> Left(step) < Left("redis")
        BY <1>1 DEF BootSteps
    <2>2. /\ Done("otel")' <=> Done("otel") \/ step = "otel"
          /\ Done("sentry")' <=> Done("sentry") \/ step = "sentry"
          /\ Done("pool")' <=> Done("pool") \/ step = "pool"
          /\ Done("bus")' <=> Done("bus") \/ step = "bus"
          /\ Done("redis")' <=> Done("redis") \/ step = "redis"
        BY <1>1 DEF BootSteps
    <2>3. Len(todo) = Deferred
        BY <1>1
    <2>4. step \in {"config", "forwarder", "listen", "subscribe", "notify"} => Deferred' = Deferred
        BY <1>2, <2>1, <2>2 DEF Deferred, Left
    <2>5. step = "otel" => Deferred = 0 /\ Deferred' = 2
        BY <1>2, <2>1, <2>2 DEF Deferred, Left
    <2>6. step = "sentry" => Deferred = 2 /\ Deferred' = 3
        BY <1>2, <2>1, <2>2 DEF Deferred, Left
    <2>7. step = "pool" => Deferred = 3 /\ Deferred' = 4
        BY <1>2, <2>1, <2>2 DEF Deferred, Left
    <2>8. step = "bus" => Deferred = 4 /\ Deferred' = 9
        BY <1>2, <2>1, <2>2 DEF Deferred, Left
    <2>9. step = "redis" => Deferred = 9 /\ Deferred' = 10
        BY <1>2, <2>1, <2>2 DEF Deferred, Left
    <2> QED
        BY <1>1, <2>3, <2>4, <2>5, <2>6, <2>7, <2>8, <2>9 DEF BootSteps
<1>4. Len(todo) <= 10 /\ Len(todo) \in Nat
    BY <1>1 DEF Deferred
<1>5. ASSUME step \in {"config", "forwarder", "listen", "subscribe", "notify"},
             Deferred' = Len(todo)
      PROVE  Goal
    <2>1. c = <<>>
        BY <1>5 DEF Closers
    <2> QED
        BY <1>4, <1>5, <2>1
<1>6. ASSUME step = "otel", Len(todo) = 0, Deferred' = 2
      PROVE  Goal
    BY <1>6 DEF Closers, Telemetry, Closing, ClosingSteps
<1>7. ASSUME step = "sentry", Len(todo) = 2, Deferred' = 3
      PROVE  Goal
    BY <1>7 DEF Closers, Closing, ClosingSteps
<1>8. ASSUME step = "pool", Len(todo) = 3, Deferred' = 4
      PROVE  Goal
    BY <1>8 DEF Closers, Closing, ClosingSteps
<1>9. ASSUME step = "bus", Len(todo) = 4, Deferred' = 9
      PROVE  Goal
    BY <1>9 DEF Closers, Closing, ClosingSteps
<1>10. ASSUME step = "redis", Len(todo) = 9, Deferred' = 10
       PROVE  Goal
    BY <1>10 DEF Closers, Closing, ClosingSteps
<1> QED
    BY <1>3, <1>5, <1>6, <1>7, <1>8, <1>9, <1>10 DEF step

\* A step that succeeds leaves what it opened and defers what closes it.
LEMMA BootStepKeeps ==
    ASSUME IInv, BootStep
    PROVE  IInv'
<1> DEFINE step == Head(pending)
<1>1. LifeTypes /\ BootInv /\ JobInv /\ CloseInv /\ ShutdownSpoilsLittle
    BY DEF IInv
<1>2. /\ pc = "boot" /\ pending' = Tail(pending)
      /\ open' \in {open \cup Parts(step)} \cup (IF step = "sentry" THEN {open} ELSE {})
      /\ todo' = Closers(step) \o todo
      /\ table' = (table \/ step = "forwarder")
      /\ pc' = IF Tail(pending) = <<>> THEN "serving" ELSE "boot"
      /\ UNCHANGED <<kind, job, signalled, code, failed, timedOut>>
    BY DEF BootStep
<1>3. /\ step \in BootSteps
      /\ kind = "api" => step # "subscribe"
      /\ kind # "api" => step # "listen"
      /\ pending' \in Seq(BootSteps) /\ EndOf(pending', Boot)
    BY <1>1, <1>2, NextStep
<1>4. Boot' = Boot
    BY <1>2 DEF Boot
<1>5. \A s \in BootSteps : Done(s)' <=> Done(s) \/ s = step
    BY <1>1, <1>2, StepDone
<1>6. /\ todo' \in Seq(ClosingSteps) /\ Len(todo') = Deferred'
      /\ EndOf(todo', Closing)
    <2> DEFINE c == Closers(step)
    <2>1. /\ c \in Seq(ClosingSteps) /\ Len(c) + Len(todo) <= 10
          /\ \A n \in 1 .. Len(c) : c[n] = Closing[10 - Len(todo) - Len(c) + n]
          /\ Deferred' = Len(c) + Len(todo)
        BY <1>1, <1>2, ClosersFit
    <2>2. todo \in Seq(ClosingSteps) /\ EndOf(todo, Closing)
        BY <1>1 DEF LifeTypes, BootInv
    <2>3. todo' = c \o todo
        BY <1>2
    <2> HIDE DEF c
    <2> QED
        BY <2>1, <2>2, <2>3, Orders, EndGrows
<1>7. pc' \in {"boot", "serving"} /\ (pc' = "boot" <=> pending' # <<>>)
    BY <1>2
<1>8. open \subseteq open' /\ open' \subseteq open \cup Parts(step)
    BY <1>2
<1> HIDE DEF step
<1>9. /\ Parts(step) \subseteq (ClosingSteps \ {"wait"}) \cup {"server", "subscription"}
      /\ "server" \in Parts(step) => step = "listen"
      /\ "subscription" \in Parts(step) => step = "subscribe"
    BY <1>3 DEF Parts, BootSteps, ClosingSteps, Telemetry
<1>10. step # "sentry" => open' = open \cup Parts(step)
    BY <1>2 DEF step
<1>11. LifeTypes'
    <2>1. open' \subseteq (ClosingSteps \ {"wait"}) \cup {"server", "subscription"}
        BY <1>1, <1>8, <1>9 DEF LifeTypes
    <2>2. table' \in BOOLEAN
        BY <1>1, <1>2 DEF LifeTypes, step
    <2> QED
        BY <1>1, <1>2, <1>3, <1>6, <1>7, <2>1, <2>2 DEF LifeTypes, Booting
<1>12. BootInv'
    <2>1. ("server" \in open' => kind' = "api") /\ ("subscription" \in open' => kind' = "worker")
        BY <1>1, <1>2, <1>3, <1>8, <1>9 DEF BootInv, LifeTypes
    <2>2. Done("pool")' => "pool" \in open'
        <3>1. CASE step = "pool"
            BY <1>10, <3>1 DEF Parts
        <3> QED
            BY <1>1, <1>2, <1>5, <1>8, <3>1 DEF BootInv, Booting, BootSteps
    <2>3. Done("bus")' => {"busSub", "busDb"} \subseteq open'
        <3>1. CASE step = "bus"
            BY <1>10, <3>1 DEF Parts
        <3> QED
            BY <1>1, <1>2, <1>5, <1>8, <3>1 DEF BootInv, Booting, BootSteps
    <2>4. Done("redis")' => "redis" \in open'
        <3>1. CASE step = "redis"
            BY <1>10, <3>1 DEF Parts
        <3> QED
            BY <1>1, <1>2, <1>5, <1>8, <3>1 DEF BootInv, Booting, BootSteps
    <2>5. Done("forwarder")' => table'
        BY <1>1, <1>2, <1>5 DEF BootInv, Booting, BootSteps, step
    <2>6. "server" \in open' => Done("listen")'
        BY <1>1, <1>2, <1>5, <1>8, <1>9 DEF BootInv, Booting, BootSteps
    <2>7. "subscription" \in open' => Done("subscribe")'
        BY <1>1, <1>2, <1>5, <1>8, <1>9 DEF BootInv, Booting, BootSteps
    <2> QED
        BY <1>3, <1>4, <1>6, <1>7, <2>1, <2>2, <2>3, <2>4, <2>5, <2>6, <2>7 DEF BootInv
<1>13. JobInv'
    <2>1. Running' = Running
        BY <1>2 DEF Running
    <2> QED
        BY <1>1, <1>2, <1>7, <1>8, <2>1 DEF JobInv, Booting
<1>14. CloseInv'
    BY <1>7 DEF CloseInv
<1>15. ShutdownSpoilsLittle' /\ CleanExitClosesAll'
    BY <1>1, <1>2 DEF ShutdownSpoilsLittle, CleanExitClosesAll, JobInv
<1> QED
    BY <1>11, <1>12, <1>13, <1>14, <1>15 DEF IInv

\* When main waits for a signal, and until Shutdown has returned, all is open and every
\* closing step is deferred.
LEMMA AllDone ==
    ASSUME LifeTypes, BootInv, pc \in {"serving", "drain"}
    PROVE  /\ Len(todo) = 10
           /\ \A p \in ClosingSteps : \E n \in 1 .. Len(todo) : todo[n] = p
           /\ {"pool", "busSub", "busDb", "redis"} \subseteq open
           /\ kind = "api" => table
<1>1. /\ pending = <<>> /\ Len(todo) = Deferred /\ kind \in {"api", "worker"}
      /\ EndOf(todo, Closing)
    BY DEF BootInv, LifeTypes, Booting
<1>2. \A s \in {"otel", "sentry", "pool", "bus", "redis"} : Done(s)
    BY <1>1 DEF Done, Left
<1>3. kind = "api" => Done("forwarder")
    BY <1>1 DEF Done, Left
<1>4. Len(todo) = 10
    BY <1>1, <1>2 DEF Deferred
<1>5. \A n \in 1 .. 10 : todo[n] = Closing[n]
    BY <1>1, <1>4, Orders DEF EndOf
<1>6. \A p \in ClosingSteps : \E n \in 1 .. 10 : Closing[n] = p
    <2>1. /\ Closing[1] = "redis" /\ Closing[2] = "busSub" /\ Closing[3] = "forwarder"
          /\ Closing[4] = "wait" /\ Closing[5] = "busPub" /\ Closing[6] = "busDb"
          /\ Closing[7] = "pool" /\ Closing[8] = "sentry" /\ Closing[9] = "tracer"
          /\ Closing[10] = "meter"
        BY DEF Closing
    <2>2. {1, 2, 3, 4, 5, 6, 7, 8, 9, 10} \subseteq 1 .. 10
        OBVIOUS
    <2> QED
        BY <2>1, <2>2, Zenon DEF ClosingSteps
<1> QED
    BY <1>2, <1>3, <1>4, <1>5, <1>6 DEF BootInv, Booting
-------------------------------------------------------------------------------
(* The end of the process.                                                   *)

\* However the process ends, its jobs end with it.
LEMMA ExitKeeps ==
    ASSUME IInv, NEW c, Exit(c), pc # "exited",
           c = "ok" => pc = "deferred" /\ todo = <<>>,
           signalled => signalled',
           UNCHANGED <<kind, pending, open, table, todo, failed, timedOut>>
    PROVE  IInv'
<1>1. LifeTypes /\ BootInv /\ JobInv /\ CloseInv /\ ShutdownSpoilsLittle
    BY DEF IInv
<1>2. /\ pc' = "exited" /\ code' = c
      /\ job' = [j \in Jobs |-> IF job[j] = "running" THEN "lost" ELSE job[j]]
    BY DEF Exit
<1>3. Running' = {}
    BY <1>2 DEF Running
<1>4. LifeTypes'
    BY <1>1, <1>2 DEF LifeTypes
<1>5. BootInv'
    BY <1>1, <1>2 DEF BootInv, Booting
<1>6. JobInv'
    BY <1>2, <1>3 DEF JobInv, Booting
<1>7. CloseInv'
    BY <1>2 DEF CloseInv
<1>8. ShutdownSpoilsLittle'
    <2> SUFFICES ASSUME NEW j \in Jobs
                 PROVE  /\ job'[j] = "cold" => signalled'
                        /\ job'[j] = "lost" /\ code' = "ok" => kind' = "worker" /\ GivenUp'
        BY DEF ShutdownSpoilsLittle, GivenUp
    <2>1. job'[j] = "cold" => job[j] = "cold"
        BY <1>2
    <2>2. job'[j] = "lost" => job[j] = "running"
        BY <1>1, <1>2 DEF JobInv
    <2>3. job[j] = "running" => Running # {}
        BY DEF Running
    <2>4. c = "ok" /\ Running # {} => kind = "worker" /\ GivenUp
        <3> SUFFICES ASSUME c = "ok", Running # {} PROVE kind = "worker" /\ GivenUp
            OBVIOUS
        <3>1. pc = "deferred" /\ Len(todo) = 0
            OBVIOUS
        <3> QED
            BY <1>1, <3>1 DEF LifeTypes, JobInv, CloseInv
    <2>5. GivenUp' <=> GivenUp
        BY DEF GivenUp
    <2> QED
        BY <1>1, <1>2, <2>1, <2>2, <2>3, <2>4, <2>5 DEF ShutdownSpoilsLittle
<1>9. CleanExitClosesAll'
    <2> SUFFICES ASSUME c = "ok", NEW p \in open \ {"subscription"}
                 PROVE  \E q \in failed : p = q \/ SameCall(p, q)
        BY <1>2 DEF CleanExitClosesAll, SameCall
    <2>1. Excused(p) \/ \E n \in 1 .. Len(todo) : todo[n] = p
        BY <1>1 DEF CloseInv
    <2>2. ~\E n \in 1 .. Len(todo) : todo[n] = p
        OBVIOUS
    <2> QED
        BY <2>1, <2>2 DEF Excused
<1> QED
    BY <1>4, <1>5, <1>6, <1>7, <1>8, <1>9 DEF IInv

\* The steps that end it.
LEMMA EndingsKeep ==
    ASSUME IInv,
           BootFails \/ ServerFails \/ DrainTimesOut \/ End \/ (pc = "boot" /\ Signal)
    PROVE  IInv'
<1>1. CASE BootFails
    BY <1>1, ExitKeeps DEF BootFails
<1>2. CASE ServerFails
    BY <1>2, ExitKeeps DEF ServerFails
<1>3. CASE DrainTimesOut
    BY <1>3, ExitKeeps DEF DrainTimesOut
<1>4. CASE End
    BY <1>4, ExitKeeps DEF End
<1>5. CASE pc = "boot" /\ Signal
    BY <1>5, ExitKeeps DEF Signal
<1> QED
    BY <1>1, <1>2, <1>3, <1>4, <1>5
-------------------------------------------------------------------------------
(* Jobs.                                                                     *)

\* A job starts only where its kind of process listens, which it does last.
LEMMA StartKeeps ==
    ASSUME IInv, NEW j \in Jobs, StartJob(j)
    PROVE  IInv'
<1>1. LifeTypes /\ BootInv /\ JobInv /\ CloseInv /\ ShutdownSpoilsLittle
    BY DEF IInv
<1>2. /\ job[j] = "idle" /\ job' = [job EXCEPT ![j] = "running"]
      /\ UNCHANGED <<kind, pc, pending, open, table, todo, signalled, code, failed, timedOut>>
    BY DEF StartJob
<1>3. \/ "server" \in open /\ pc \in {"boot", "serving"}
      \/ {"subscription", "busSub"} \subseteq open /\ pc # "exited"
    BY DEF StartJob
<1>4. /\ job' \in [Jobs -> {"idle", "running", "ok", "broken", "again", "missed", "cold", "lost"}]
      /\ \A i \in Jobs : job'[i] \in {"cold", "lost"} => job'[i] = job[i]
    BY <1>1, <1>2 DEF LifeTypes
<1>5. LifeTypes'
    BY <1>1, <1>2, <1>4 DEF LifeTypes
<1>6. BootInv'
    BY <1>1, <1>2 DEF BootInv, Boot, Deferred, Done, Left
<1>7. JobInv'
    BY <1>1, <1>2, <1>3, <1>4 DEF JobInv, BootInv, Booting
<1>8. CloseInv'
    BY <1>1, <1>2, <1>3 DEF CloseInv, Excused, SameCall, GivenUp
<1>9. ShutdownSpoilsLittle' /\ CleanExitClosesAll'
    <2>1. \A i \in Jobs : /\ job'[i] = "cold" => job[i] = "cold"
                        /\ job'[i] = "lost" => job[i] = "lost"
        BY <1>4
    <2> QED
        BY <1>1, <1>2, <1>3, <2>1 DEF ShutdownSpoilsLittle, CleanExitClosesAll, JobInv
<1> QED
    BY <1>5, <1>6, <1>7, <1>8, <1>9 DEF IInv

\* A handler that finds Redis closed is one of a process that is shutting down.
LEMMA FinishKeeps ==
    ASSUME IInv, NEW j \in Jobs, FinishJob(j)
    PROVE  IInv'
<1>1. LifeTypes /\ BootInv /\ JobInv /\ CloseInv /\ ShutdownSpoilsLittle
    BY DEF IInv
<1>2. /\ job[j] = "running" /\ j \in Running
      /\ UNCHANGED <<kind, pc, pending, open, table, todo, signalled, code, failed, timedOut>>
    BY DEF FinishJob, Running
<1>3. PICK r \in {"ok", "broken", "again", "missed", "cold"} :
          /\ job' = [job EXCEPT ![j] = r]
          /\ r = "cold" => kind # "api" /\ "redis" \notin open
    BY DEF FinishJob, Outcomes
<1>4. r = "cold" => pc = "deferred"
    <2> SUFFICES ASSUME r = "cold", pc \in Booting PROVE FALSE
        BY <1>1, <1>2 DEF LifeTypes, JobInv
    <2>1. "subscription" \in open /\ kind = "worker"
        BY <1>1, <1>2, <1>3 DEF JobInv, BootInv
    <2>2. Done("subscribe") => Done("redis")
        BY <1>1, <2>1 DEF LifeTypes, Done, Left
    <2> QED
        BY <1>1, <1>3, <2>1, <2>2 DEF BootInv
<1>5. /\ job' \in [Jobs -> {"idle", "running", "ok", "broken", "again", "missed", "cold", "lost"}]
      /\ \A i \in Jobs : i # j => job'[i] = job[i]
      /\ job'[j] = r
    BY <1>1, <1>3 DEF LifeTypes
<1>6. Running' \subseteq Running
    BY <1>2, <1>5 DEF Running
<1>7. LifeTypes'
    BY <1>1, <1>2, <1>5 DEF LifeTypes
<1>8. BootInv'
    BY <1>1, <1>2 DEF BootInv, Boot, Deferred, Done, Left
<1>9. JobInv'
    BY <1>1, <1>2, <1>3, <1>5, <1>6 DEF JobInv
<1>10. CloseInv'
    BY <1>1, <1>2, <1>6 DEF CloseInv, Excused, SameCall, GivenUp
<1>11. ShutdownSpoilsLittle'
    BY <1>1, <1>2, <1>3, <1>4, <1>5 DEF ShutdownSpoilsLittle, JobInv
<1>12. CleanExitClosesAll'
    BY <1>1, <1>2 DEF CleanExitClosesAll, JobInv
<1> QED
    BY <1>7, <1>8, <1>9, <1>10, <1>11, <1>12 DEF IInv
-------------------------------------------------------------------------------
(* main, from the signal on.                                                 *)

\* main begins to shut down; nothing else happens.
LEMMA QuitKeeps ==
    ASSUME IInv, Quit \/ Drained \/ (pc # "boot" /\ Signal) \/ UNCHANGED vars
    PROVE  IInv'
<1>1. /\ LifeTypes /\ BootInv /\ JobInv /\ CloseInv /\ ShutdownSpoilsLittle
      /\ CleanExitClosesAll
    BY DEF IInv
<1>2. CASE Quit \/ Drained
    <2>1. /\ pc \in {"serving", "drain"}
          /\ pc' \in {"drain", "deferred"} /\ (pc' = "drain" => pc = "serving" /\ kind = "api")
          /\ open' \in {open, open \ {"server"}}
          /\ pc' = "drain" => open' = open
          /\ signalled
          /\ pc' = "deferred" =>
                \/ kind = "api" /\ Running = {} /\ open' = open \ {"server"}
                \/ kind # "api" /\ open' = open
          /\ UNCHANGED <<kind, pending, table, todo, job, signalled, code, failed, timedOut>>
        BY <1>1, <1>2 DEF Quit, Drained, JobInv
    <2>2. /\ Len(todo) = 10
          /\ \A p \in ClosingSteps : \E n \in 1 .. Len(todo) : todo[n] = p
          /\ {"pool", "busSub", "busDb", "redis"} \subseteq open
        BY <1>1, <2>1, AllDone
    <2>3. Running' = Running
        BY <2>1 DEF Running
    <2>4. LifeTypes'
        BY <1>1, <2>1 DEF LifeTypes, Booting
    <2>5. BootInv'
        BY <1>1, <2>1 DEF BootInv, Boot, Deferred, Done, Left, Booting
    <2>6. JobInv'
        BY <1>1, <2>1, <2>3 DEF JobInv, BootInv, LifeTypes, Booting
    <2>7. CloseInv'
        <3>1. open' \ {"subscription"} \subseteq ClosingSteps \cup {"server"}
            BY <1>1, <2>1 DEF LifeTypes
        <3>2. pc' = "deferred" => "server" \notin open'
            BY <1>1, <2>1 DEF BootInv, LifeTypes
        <3>3. "busDb" \in open'
            BY <2>1, <2>2
        <3>4. todo' = todo
            BY <2>1
        <3> QED
            <4>1. ASSUME pc' = "deferred", NEW p \in open' \ {"subscription"}
                  PROVE  \E n \in 1 .. Len(todo') : todo'[n] = p
                BY <2>2, <3>1, <3>2, <3>4, <4>1
            <4>2. Len(todo') = 10
                BY <2>2, <3>4
            <4> QED
                BY <3>3, <4>1, <4>2 DEF CloseInv
    <2>8. ShutdownSpoilsLittle' /\ CleanExitClosesAll'
        BY <1>1, <2>1 DEF ShutdownSpoilsLittle, CleanExitClosesAll, JobInv
    <2> QED
        BY <2>4, <2>5, <2>6, <2>7, <2>8 DEF IInv
<1>3. CASE (pc # "boot" /\ Signal) \/ UNCHANGED vars
    <2>1. /\ signalled => signalled'
          /\ UNCHANGED <<kind, pc, pending, open, table, todo, job, code, failed, timedOut>>
        BY <1>3 DEF Signal, vars
    <2>2. Running' = Running
        BY <2>1 DEF Running
    <2>3. LifeTypes' /\ JobInv'
        BY <1>1, <2>1, <2>2 DEF LifeTypes, JobInv
    <2>4. BootInv'
        BY <1>1, <2>1 DEF BootInv, Boot, Deferred, Done, Left
    <2>5. CloseInv'
        BY <1>1, <2>1, <2>2 DEF CloseInv, Excused, SameCall, GivenUp
    <2>6. ShutdownSpoilsLittle' /\ CleanExitClosesAll'
        BY <1>1, <2>1 DEF ShutdownSpoilsLittle, CleanExitClosesAll, SameCall
    <2> QED
        BY <2>3, <2>4, <2>5, <2>6 DEF IInv
<1> QED
    BY <1>2, <1>3

\* Which closing step is next, by the number of those left.
LEMMA WhichIsNext ==
    ASSUME LifeTypes, BootInv, todo # <<>>
    PROVE  /\ Len(todo) = 9 <=> Head(todo) = "busSub"
           /\ Len(todo) = 7 <=> Head(todo) = "wait"
           /\ Len(todo) = 5 <=> Head(todo) = "busDb"
<1> DEFINE k == Len(todo)
<1>1. k \in 1 .. 10 /\ Head(todo) = Closing[11 - k]
    BY NextClosing
<1> HIDE DEF k
<1>2. k = 9 <=> Head(todo) = "busSub"
    BY <1>1 DEF Closing
<1>3. k = 7 <=> Head(todo) = "wait"
    BY <1>1 DEF Closing
<1>4. k = 5 <=> Head(todo) = "busDb"
    BY <1>1 DEF Closing
<1> QED
    BY <1>2, <1>3, <1>4 DEF k

\* A closing step succeeds, or EventBus.Close stops waiting.
LEMMA CloseNextKeeps ==
    ASSUME IInv, CloseNext \/ WaitTimesOut
    PROVE  IInv'
<1>1. LifeTypes /\ BootInv /\ JobInv /\ CloseInv /\ ShutdownSpoilsLittle
    BY DEF IInv
<1>2. /\ pc = "deferred" /\ todo # <<>> /\ todo' = Tail(todo)
      /\ UNCHANGED <<kind, pc, pending, table, job, signalled, code, failed>>
    BY DEF CloseNext, WaitTimesOut
<1>3. /\ open' = open \ {Head(todo)} \/ (open' = open /\ Head(todo) = "wait")
      /\ timedOut => timedOut'
      /\ Head(todo) = "wait" => Running = {} \/ timedOut'
    BY DEF CloseNext, WaitTimesOut
<1>4. /\ Len(todo) \in Nat /\ Head(todo) = todo[1]
      /\ Tail(todo) \in Seq(ClosingSteps) /\ Len(Tail(todo)) = Len(todo) - 1
      /\ \A n \in 1 .. Len(todo) - 1 : Tail(todo)[n] = todo[n + 1]
      /\ EndOf(Tail(todo), Closing)
    BY <1>1, <1>2, NextClosing
<1>5. /\ Len(todo) = 9 <=> Head(todo) = "busSub"
      /\ Len(todo) = 7 <=> Head(todo) = "wait"
      /\ Len(todo) = 5 <=> Head(todo) = "busDb"
    BY <1>1, <1>2, WhichIsNext
<1>6. Running' = Running
    BY <1>2 DEF Running
<1>7. LifeTypes'
    BY <1>1, <1>2, <1>3, <1>4 DEF LifeTypes
<1>8. BootInv'
    BY <1>1, <1>2, <1>3, <1>4 DEF BootInv, Booting
<1>9. JobInv'
    BY <1>1, <1>2, <1>3, <1>6 DEF JobInv, Booting
<1>10. CloseInv'
    <2>1. ASSUME NEW p \in open' \ {"subscription"}
          PROVE  Excused(p)' \/ \E n \in 1 .. Len(todo') : todo'[n] = p
        <3>1. Excused(p)' <=> Excused(p)
            BY <1>2 DEF Excused, SameCall
        <3>2. CASE open' = open \ {Head(todo)}
            <4>1. Excused(p) \/ \E n \in 1 .. Len(todo) : todo[n] = p
                BY <1>1, <1>2, <3>2 DEF CloseInv
            <4>2. ASSUME NEW n \in 1 .. Len(todo), todo[n] = p
                  PROVE  \E m \in 1 .. Len(todo') : todo'[m] = p
                <5>1. n # 1
                    BY <1>4, <3>2, <4>2
                <5>2. n - 1 \in 1 .. Len(todo) - 1 /\ (n - 1) + 1 = n
                    BY <1>4, <5>1
                <5> QED
                    BY <1>2, <1>4, <4>2, <5>2
            <4> QED
                BY <3>1, <4>1, <4>2
        <3>3. CASE open' = open /\ Head(todo) = "wait"
            <4>1. Excused(p) \/ \E n \in 1 .. Len(todo) : todo[n] = p
                BY <1>1, <1>2, <3>3 DEF CloseInv
            <4>2. ASSUME NEW n \in 1 .. Len(todo), todo[n] = p
                  PROVE  \E m \in 1 .. Len(todo') : todo'[m] = p
                <5>1. p # "wait"
                    BY <1>1, <3>3 DEF LifeTypes
                <5>2. n # 1
                    BY <1>4, <3>3, <4>2, <5>1
                <5>3. n - 1 \in 1 .. Len(todo) - 1 /\ (n - 1) + 1 = n
                    BY <1>4, <5>2
                <5> QED
                    BY <1>2, <1>4, <4>2, <5>3
            <4> QED
                BY <3>1, <4>1, <4>2
        <3> QED
            BY <1>3, <3>2, <3>3
    <2>2. Len(todo') = Len(todo) - 1
        BY <1>2, <1>4
    <2>3. /\ 5 <= Len(todo') /\ Len(todo') <= 8 => Len(todo) = 9 \/ (5 <= Len(todo) /\ Len(todo) <= 8)
          /\ 5 <= Len(todo') /\ Len(todo') <= 6 => Len(todo) = 7 \/ (5 <= Len(todo) /\ Len(todo) <= 6)
        BY <1>4, <2>2
    <2>4. open' \subseteq open /\ (Head(todo) = "busSub" => "busSub" \notin open')
        BY <1>3
    <2>5. 5 <= Len(todo') /\ Len(todo') <= 8 => "busSub" \notin open'
        BY <1>1, <1>2, <1>5, <2>3, <2>4 DEF CloseInv
    <2>6. 5 <= Len(todo') /\ Len(todo') <= 6 => Running' = {} \/ timedOut'
        BY <1>1, <1>2, <1>3, <1>5, <1>6, <2>3 DEF CloseInv
    <2>7. kind' = "worker" =>
              "busDb" \in open' \/ timedOut' \/ ("busSub" \notin open' /\ Running' = {})
        <3>1. CASE Head(todo) = "busDb"
            <4>1. Len(todo) = 5
                BY <1>5, <3>1
            <4>2. "busSub" \notin open /\ (Running = {} \/ timedOut)
                BY <1>1, <1>2, <4>1 DEF CloseInv
            <4> QED
                BY <1>3, <1>6, <2>4, <4>2
        <3>2. CASE Head(todo) # "busDb"
            <4>1. "busDb" \in open => "busDb" \in open'
                BY <1>3, <3>2
            <4> QED
                BY <1>1, <1>2, <1>3, <1>6, <2>4, <4>1 DEF CloseInv
        <3> QED
            BY <3>1, <3>2
    <2>8. kind' = "worker" /\ Len(todo') <= 6 =>
              GivenUp' \/ ("busSub" \notin open' /\ Running' = {})
        <3> SUFFICES ASSUME kind = "worker", Len(todo') <= 6
                     PROVE  GivenUp' \/ ("busSub" \notin open' /\ Running' = {})
            BY <1>2
        <3>1. GivenUp => GivenUp'
            BY <1>2, <1>3 DEF GivenUp
        <3>2. CASE Len(todo) = 7
            BY <1>1, <1>2, <1>3, <1>5, <1>6, <2>4, <3>2 DEF CloseInv, GivenUp
        <3>3. CASE Len(todo) <= 6
            BY <1>1, <1>2, <1>6, <2>4, <3>1, <3>3 DEF CloseInv
        <3> QED
            BY <1>4, <2>2, <3>2, <3>3
    <2> QED
        BY <2>1, <2>5, <2>6, <2>7, <2>8 DEF CloseInv
<1>11. ShutdownSpoilsLittle' /\ CleanExitClosesAll'
    BY <1>1, <1>2 DEF ShutdownSpoilsLittle, CleanExitClosesAll, JobInv
<1> QED
    BY <1>7, <1>8, <1>9, <1>10, <1>11 DEF IInv

\* EventBus.Close is one deferred call.
LEMMA BusIsOneCall ==
    ASSUME NEW p \in {"busSub", "forwarder", "wait", "busPub", "busDb"},
           NEW q \in {"busSub", "forwarder", "wait", "busPub", "busDb"}
    PROVE  SameCall(p, q)
<1>1. Closers("bus") = <<"busSub", "forwarder", "wait", "busPub", "busDb">>
    BY DEF Closers
<1>2. {p, q} \subseteq {Closers("bus")[n] : n \in 1 .. Len(Closers("bus"))}
    <2>1. /\ Len(Closers("bus")) = 5
          /\ Closers("bus")[1] = "busSub" /\ Closers("bus")[2] = "forwarder"
          /\ Closers("bus")[3] = "wait" /\ Closers("bus")[4] = "busPub"
          /\ Closers("bus")[5] = "busDb"
        BY <1>1
    <2>2. {1, 2, 3, 4, 5} \subseteq 1 .. 5
        OBVIOUS
    <2> QED
        BY <2>1, <2>2
<1> QED
    BY <1>2 DEF SameCall

LEMMA RedisIsAnother == ~SameCall("busSub", "redis")
<1>1. ASSUME NEW s \in {"otel", "sentry", "pool", "bus", "redis"}
      PROVE  ~({"busSub", "redis"} \subseteq {Closers(s)[n] : n \in 1 .. Len(Closers(s))})
    <2>1. CASE s = "otel"
        <3>1. Closers(s) = <<"tracer", "meter">>
            BY <2>1 DEF Closers, Telemetry
        <3> QED
            BY <3>1
    <2>2. CASE s = "sentry"
        <3>1. Closers(s) = <<"sentry">>
            BY <2>2 DEF Closers
        <3> QED
            BY <3>1
    <2>3. CASE s = "pool"
        <3>1. Closers(s) = <<"pool">>
            BY <2>3 DEF Closers
        <3> QED
            BY <3>1
    <2>4. CASE s = "bus"
        <3>1. Closers(s) = <<"busSub", "forwarder", "wait", "busPub", "busDb">>
            BY <2>4 DEF Closers
        <3> QED
            BY <3>1
    <2>5. CASE s = "redis"
        <3>1. Closers(s) = <<"redis">>
            BY <2>5 DEF Closers
        <3> QED
            BY <3>1
    <2> QED
        BY <2>1, <2>2, <2>3, <2>4, <2>5
<1> QED
    BY <1>1 DEF SameCall

\* A closing step fails.  EventBus.Close that has not closed its subscriber or publisher
\* does not get to its connection.
LEMMA CloseFailsKeeps ==
    ASSUME IInv, CloseFails
    PROVE  IInv'
<1>1. LifeTypes /\ BootInv /\ JobInv /\ CloseInv /\ ShutdownSpoilsLittle
    BY DEF IInv
<1>2. /\ pc = "deferred" /\ todo # <<>> /\ Head(todo) \in open
      /\ failed' = failed \cup {Head(todo)}
      /\ UNCHANGED <<kind, pc, pending, open, table, job, signalled, code, timedOut>>
    BY DEF CloseFails
<1>3. PICK k \in 1 .. Len(todo) :
          /\ \A m \in 1 .. k : SameCall(todo[m], Head(todo))
          /\ k < Len(todo) => ~SameCall(todo[k + 1], Head(todo))
          /\ todo' = SubSeq(todo, k + 1, Len(todo))
    BY DEF CloseFails
<1>4. /\ todo \in Seq(ClosingSteps) /\ EndOf(todo, Closing)
      /\ Len(todo) \in Nat /\ Len(todo) <= 10
    BY <1>1, Orders DEF LifeTypes, BootInv, EndOf
<1>5. /\ todo' \in Seq(ClosingSteps) /\ Len(todo') = Len(todo) - k
      /\ \A n \in 1 .. Len(todo) - k : todo'[n] = todo[n + k]
      /\ EndOf(todo', Closing)
    BY <1>3, <1>4, EndDrop, Orders
<1>6. Running' = Running
    BY <1>2 DEF Running
<1>7. LifeTypes' /\ JobInv'
    BY <1>1, <1>2, <1>5, <1>6 DEF LifeTypes, JobInv
<1>8. BootInv'
    BY <1>1, <1>2, <1>5 DEF BootInv, Booting
<1>9. \A p : Excused(p) => Excused(p)'
    BY <1>2 DEF Excused, SameCall
<1>10. ASSUME NEW p \in open' \ {"subscription"}
       PROVE  Excused(p)' \/ \E n \in 1 .. Len(todo') : todo'[n] = p
    <2>1. Excused(p) \/ \E n \in 1 .. Len(todo) : todo[n] = p
        BY <1>1, <1>2 DEF CloseInv
    <2>2. ASSUME NEW n \in 1 .. Len(todo), todo[n] = p
          PROVE  Excused(p)' \/ \E m \in 1 .. Len(todo') : todo'[m] = p
        <3>1. CASE n <= k
            <4>1. SameCall(p, Head(todo))
                BY <1>3, <1>4, <2>2, <3>1
            <4> QED
                BY <1>2, <4>1 DEF Excused, SameCall
        <3>2. CASE n > k
            <4>1. n - k \in 1 .. Len(todo) - k /\ (n - k) + k = n
                BY <1>4, <3>2
            <4> QED
                BY <1>5, <2>2, <4>1
        <3> QED
            BY <1>4, <3>1, <3>2
    <2> QED
        BY <1>9, <2>1, <2>2
<1>11. ASSUME 5 <= Len(todo'), Len(todo') <= 8
       PROVE  FALSE
    <2> DEFINE L == Len(todo)
               M == Len(todo')
    <2>1. /\ \A n \in 1 .. L : todo[n] = Closing[10 - L + n]
          /\ Head(todo) = Closing[11 - L]
        BY <1>1, <1>2, <1>4, NextClosing, Orders DEF EndOf
    <2>2. L \in Nat /\ L <= 10 /\ k \in 1 .. L /\ M = L - k /\ 5 <= M /\ M <= 8
        BY <1>4, <1>5, <1>11
    <2>3. /\ \A m \in 1 .. k : SameCall(todo[m], Head(todo))
          /\ k < L => ~SameCall(todo[k + 1], Head(todo))
        BY <1>3
    <2> HIDE DEF L, M
    <2>4. CASE L = 10
        <3>1. 2 \in 1 .. k /\ 2 \in 1 .. L
            BY <2>2, <2>4
        <3>2. todo[2] = "busSub" /\ Head(todo) = "redis"
            BY <2>1, <2>4, <3>1 DEF Closing
        <3> QED
            BY <2>3, <3>1, <3>2, RedisIsAnother
    <2>5. CASE L # 10
        <3>1. k + 1 \in 1 .. L /\ k < L /\ 10 - L + (k + 1) = 11 - M
            BY <2>2
        <3>2. todo[k + 1] = Closing[11 - M]
            BY <2>1, <3>1
        <3>3. M \in 5 .. 8 /\ L \in 6 .. 9
            BY <2>2, <2>5
        <3>4. todo[k + 1] \in {"forwarder", "wait", "busPub", "busDb"}
            BY <3>2, <3>3 DEF Closing
        <3>5. Head(todo) \in {"busSub", "forwarder", "wait", "busPub"}
            BY <2>1, <3>3 DEF Closing
        <3> QED
            BY <2>3, <3>1, <3>4, <3>5, BusIsOneCall
    <2> QED
        BY <2>4, <2>5
<1>12. ASSUME kind = "worker", Len(todo') <= 6
       PROVE  GivenUp' \/ ("busSub" \notin open' /\ Running' = {})
    <2> DEFINE L == Len(todo)
    <2>1. /\ \A n \in 1 .. L : todo[n] = Closing[10 - L + n]
          /\ Head(todo) = Closing[11 - L]
        BY <1>1, <1>2, <1>4, NextClosing, Orders DEF EndOf
    <2>2. L \in Nat /\ L <= 10 /\ k \in 1 .. L /\ L - k <= 6
        BY <1>4, <1>5, <1>12
    <2>3. \A m \in 1 .. k : SameCall(todo[m], Head(todo))
        BY <1>3
    <2>4. CASE L <= 6
        BY <1>1, <1>2, <1>6, <1>12, <2>4 DEF CloseInv, GivenUp
    <2> HIDE DEF L
    <2>5. CASE L = 10
        <3>1. 2 \in 1 .. k /\ 2 \in 1 .. L
            BY <2>2, <2>5
        <3>2. todo[2] = "busSub" /\ Head(todo) = "redis"
            BY <2>1, <2>5, <3>1 DEF Closing
        <3> QED
            BY <2>3, <3>1, <3>2, RedisIsAnother
    <2>6. CASE L \in 7 .. 9
        <3>1. Head(todo) \in {"busSub", "forwarder", "wait"}
            BY <2>1, <2>6 DEF Closing
        <3>2. Head(todo) # "wait"
            BY <1>1, <1>2 DEF LifeTypes
        <3> QED
            BY <1>2, <3>1, <3>2 DEF GivenUp
    <2> QED
        BY <2>2, <2>4, <2>5, <2>6
<1>13. CloseInv'
    BY <1>1, <1>2, <1>6, <1>10, <1>11, <1>12, <1>5 DEF CloseInv
<1>14. ShutdownSpoilsLittle' /\ CleanExitClosesAll'
    BY <1>1, <1>2 DEF ShutdownSpoilsLittle, CleanExitClosesAll, JobInv
<1> QED
    BY <1>7, <1>8, <1>13, <1>14 DEF IInv
-------------------------------------------------------------------------------
THEOREM Invariance == Spec => []IInv
<1>1. Init => IInv
    <2> SUFFICES ASSUME Init PROVE IInv
        OBVIOUS
    <2>1. /\ kind \in {"api", "worker"} /\ pc = "boot" /\ pending = Boot
          /\ open = {} /\ table \in BOOLEAN /\ todo = <<>>
          /\ job = [j \in Jobs |-> "idle"] /\ code = "none"
        BY LifecycleAssumption DEF Init, Boot
    <2>2. LifeTypes
        BY <2>1, Orders DEF LifeTypes, Booting
    <2>3. BootInv
        <3>1. EndOf(todo, Closing) /\ EndOf(pending, Boot)
            BY <2>1, Orders DEF EndOf
        <3>2. \A s \in BootSteps : ~Done(s)
            <4>1. kind = "api" => Len(pending) = 9 /\ \A s \in BootSteps : ~(9 < Left(s))
                BY <2>1, Orders DEF Left, BootSteps
            <4>2. kind # "api" => Len(pending) = 8 /\ \A s \in BootSteps : ~(8 < Left(s))
                BY <2>1, Orders DEF Left, BootSteps
            <4> QED
                BY <4>1, <4>2 DEF Done
        <3>3. pending # <<>>
            <4>1. Len(pending) = 9 \/ Len(pending) = 8
                BY <2>1, Orders
            <4> QED
                BY <4>1
        <3>4. Deferred = 0 /\ Len(todo) = 0
            BY <2>1, <3>2 DEF Deferred, BootSteps
        <3> QED
            BY <2>1, <3>1, <3>2, <3>3, <3>4 DEF BootInv, BootSteps, Booting
    <2>4. Running = {}
        BY <2>1 DEF Running
    <2>5. JobInv /\ CloseInv
        BY <2>1, <2>4 DEF JobInv, CloseInv, Booting
    <2>6. ShutdownSpoilsLittle /\ CleanExitClosesAll
        BY <2>1 DEF ShutdownSpoilsLittle, CleanExitClosesAll
    <2> QED
        BY <2>2, <2>3, <2>5, <2>6 DEF IInv
<1>2. IInv /\ [Next]_vars => IInv'
    BY BootStepKeeps, EndingsKeep, StartKeeps, FinishKeeps, QuitKeeps, CloseNextKeeps,
       CloseFailsKeeps DEF Next, Main
<1> QED
    BY <1>1, <1>2, PTL DEF Spec

\* Who is under way finds open what it needs.
THEOREM JobsAreServed == Spec => []JobsFindAllOpen
<1>1. IInv => JobsFindAllOpen
    <2> SUFFICES ASSUME IInv, Running # {}, pc # "exited"
                 PROVE  IF kind = "api" THEN Needs \subseteq open /\ table
                        ELSE "busDb" \in open \/ timedOut
        BY DEF JobsFindAllOpen
    <2>1. LifeTypes /\ BootInv /\ JobInv /\ CloseInv
        BY DEF IInv
    <2>2. CASE pc \in Booting
        <3>1. CASE kind = "api"
            <4>1. Done("listen")
                BY <2>1, <2>2, <3>1 DEF JobInv, BootInv
            <4>2. Done("pool") /\ Done("bus") /\ Done("redis") /\ Done("forwarder")
                BY <2>1, <3>1, <4>1 DEF Done, Left, LifeTypes
            <4> QED
                BY <2>1, <2>2, <3>1, <4>2 DEF BootInv, Needs
        <3>2. CASE kind # "api"
            <4>1. Done("subscribe")
                BY <2>1, <2>2, <3>2 DEF JobInv, BootInv
            <4>2. Done("bus")
                BY <2>1, <3>2, <4>1 DEF Done, Left, LifeTypes
            <4> QED
                BY <2>1, <2>2, <3>2, <4>2 DEF BootInv
        <3> QED
            BY <3>1, <3>2
    <2>3. CASE pc = "deferred"
        BY <2>1, <2>3 DEF LifeTypes, JobInv, CloseInv
    <2> QED
        BY <2>1, <2>2, <2>3 DEF LifeTypes
<1> QED
    BY <1>1, Invariance, PTL

\* main takes Redis from a handler only while it shuts down, a process that ends with
\* code 0 has cut off no request, and a handler only after EventBus.Close gave up.
THEOREM ShutdownIsMild == Spec => []ShutdownSpoilsLittle
<1>1. IInv => ShutdownSpoilsLittle
    BY DEF IInv
<1> QED
    BY <1>1, Invariance, PTL

\* A process that ends by itself has closed what could be closed.
THEOREM CleanExit == Spec => []CleanExitClosesAll
<1>1. IInv => CleanExitClosesAll
    BY DEF IInv
<1> QED
    BY <1>1, Invariance, PTL
================================================================================
