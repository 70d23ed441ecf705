------------------------------ MODULE HealthProofs ------------------------------
(***************************************************************************)
(* Proofs about Health.  The handler asks one dependency after the other,  *)
(* so what can be said of a dependency depends on whether its turn is over;*)
(* the inductive invariant says it for all three and every moment.         *)
(***************************************************************************)
EXTENDS Health, TLAPS

Conditions == {"up", "slow", "down"}

\* Is d's turn over?
Over(d) ==
    \/ at \in {"answer", "done"}
    \/ d = "database" /\ at # "database"
    \/ d = "redis" /\ at = "eventbus"

\* Types of the state.
HealthTypes ==
    /\ cond \in [Deps -> Conditions]
    /\ at \in Deps \cup {"answer", "done"}
    /\ pinging \in BOOLEAN
    /\ resp \in [Deps -> {"ok", "unreachable"}]
    /\ expired \in BOOLEAN
    /\ gone \in BOOLEAN
    /\ probed \subseteq Deps
    /\ bad \subseteq Deps
    /\ changes \in Nat

\* A ping under way was sent; a field says "ok" until its dependency's turn is over,
\* and afterwards only if that was asked.
TurnInv ==
    /\ pinging => at \in probed
    /\ \A d \in Deps :
          /\ ~Over(d) => resp[d] = "ok"
          /\ Over(d) /\ resp[d] = "ok" => d \in probed

\* Whoever was not well was so in its turn, no later than now; one that is being asked
\* and not well is known; the deadline takes one; and while no condition has changed
\* the fields of all that are down and were asked say so.
BlameInv ==
    /\ \A d \in bad : Over(d) \/ at = d
    /\ pinging => (cond[at] = "up" \/ at \in bad)
    /\ expired => bad # {}
    /\ changes = 0 => \A d \in Deps : Over(d) /\ cond[d] = "down" => resp[d] = "unreachable"

\* The status is the word of all fields, which are final when it is written.
AnswerInv == at = "done" => status = StatusCode

IInv == HealthTypes /\ TurnInv /\ BlameInv /\ AnswerInv /\ BlameHasCause
-------------------------------------------------------------------------------
\* When d's turn ends, d and the dependencies before it are those whose turn is over.
LEMMA TurnEnds ==
    ASSUME NEW d \in Deps, NEW e \in Deps, at = d, at' = Following(d)
    PROVE  /\ at' \in Deps \cup {"answer"}
           /\ Over(e)' <=> Over(e) \/ e = d
           /\ ~Over(d)
BY DEF Deps, Following, Over

\* Whose turn was no later is called UpTo.
LEMMA Earlier ==
    ASSUME NEW d \in Deps, NEW e \in Deps, at = d, Over(e) \/ e = d
    PROVE  UpTo(e, d)
BY DEF Deps, Following, Over, UpTo

\* The end of a turn, whichever way it ends.
LEMMA TurnStep ==
    ASSUME IInv, NEW d \in Deps, Refuse(d) \/ PingOk(d) \/ PingFails(d)
    PROVE  IInv'
<1> USE DEF HealthTypes
<1>1. /\ HealthTypes /\ TurnInv /\ BlameInv /\ BlameHasCause
    BY DEF IInv
<1>2. /\ at = d /\ at' = Following(d)
      /\ UNCHANGED <<cond, status, expired, gone, probed, bad, changes>>
      /\ pinging' = FALSE
      /\ \/ resp' = resp /\ pinging /\ cond[d] # "down"
         \/ /\ resp' = [resp EXCEPT ![d] = "unreachable"]
            /\ CtxDone \/ (pinging /\ cond[d] # "up")
    <2>1. CASE Refuse(d)
        BY <1>1, <2>1 DEF Refuse, Fail
    <2>2. CASE PingOk(d)
        BY <1>1, <2>2 DEF PingOk
    <2>3. CASE PingFails(d)
        BY <1>1, <2>3 DEF PingFails, Fail
    <2> QED
        BY <2>1, <2>2, <2>3
<1>3. /\ at' \in Deps \cup {"answer"}
      /\ ~Over(d)
      /\ \A e \in Deps : Over(e)' <=> Over(e) \/ e = d
    BY <1>2, TurnEnds
<1>4. /\ resp' \in [Deps -> {"ok", "unreachable"}]
      /\ \A e \in Deps : e # d => resp'[e] = resp[e]
    BY <1>1, <1>2
<1>5. HealthTypes'
    BY <1>1, <1>2, <1>3, <1>4
<1>6. TurnInv'
    BY <1>1, <1>2, <1>3, <1>4 DEF TurnInv
<1>7. BlameInv'
    <2>1. \A e \in bad' : Over(e)' \/ at' = e
        BY <1>1, <1>2, <1>3 DEF BlameInv
    <2>2. expired' => bad' # {}
        BY <1>1, <1>2 DEF BlameInv
    <2>3. changes' = 0 =>
              \A e \in Deps : Over(e)' /\ cond'[e] = "down" => resp'[e] = "unreachable"
        <3> SUFFICES ASSUME changes' = 0, NEW e \in Deps, Over(e)', cond'[e] = "down"
                     PROVE  resp'[e] = "unreachable"
            OBVIOUS
        <3>1. CASE e = d
            BY <1>1, <1>2, <3>1
        <3>2. CASE e # d
            BY <1>1, <1>2, <1>3, <1>4, <3>2 DEF BlameInv
        <3> QED
            BY <3>1, <3>2
    <2> QED
        BY <1>2, <2>1, <2>2, <2>3 DEF BlameInv
<1>8. AnswerInv'
    BY <1>3 DEF AnswerInv, Deps
<1>9. BlameHasCause'
    <2> SUFFICES ASSUME NEW e \in Deps, resp'[e] = "unreachable", ~gone'
                 PROVE  \E f \in bad' : UpTo(f, e)
        BY DEF BlameHasCause
    <2>1. CASE resp[e] = "unreachable"
        BY <1>1, <1>2, <2>1 DEF BlameHasCause, UpTo
    <2>2. CASE resp[e] # "unreachable"
        <3>1. e = d /\ (expired \/ (pinging /\ cond[d] # "up"))
            BY <1>1, <1>2, <1>4, <2>2 DEF CtxDone
        <3>2. PICK f \in bad : Over(f) \/ f = d
            BY <1>1, <1>2, <3>1 DEF BlameInv
        <3> QED
            BY <1>1, <1>2, <3>1, <3>2, Earlier DEF UpTo
    <2> QED
        BY <2>1, <2>2
<1> QED
    BY <1>5, <1>6, <1>7, <1>8, <1>9 DEF IInv

\* A ping is sent: whoever is not well from the start is to blame.
LEMMA SendStep ==
    ASSUME IInv, NEW d \in Deps, Send(d)
    PROVE  IInv'
<1>1. /\ HealthTypes /\ TurnInv /\ BlameInv /\ BlameHasCause
    BY DEF IInv
<1>2. /\ at = d /\ pinging' = TRUE /\ probed' = probed \cup {d}
      /\ bad' = IF cond[d] = "up" THEN bad ELSE bad \cup {d}
      /\ UNCHANGED <<cond, at, resp, status, expired, gone, changes>>
    BY DEF Send
<1>3. bad \subseteq bad' /\ bad' \subseteq bad \cup {d}
    BY <1>2
<1>4. HealthTypes'
    BY <1>1, <1>2, <1>3 DEF HealthTypes
<1>5. TurnInv'
    BY <1>1, <1>2 DEF TurnInv, Over
<1>6. BlameInv'
    BY <1>1, <1>2, <1>3 DEF BlameInv, Over
<1>7. AnswerInv'
    BY <1>2 DEF AnswerInv, Deps
<1>8. BlameHasCause'
    BY <1>1, <1>2, <1>3 DEF BlameHasCause
<1> QED
    BY <1>4, <1>5, <1>6, <1>7, <1>8 DEF IInv

\* The answer, and what happens around the handler, which ends no turn.
LEMMA OtherStep ==
    ASSUME IInv,
           \/ Answer \/ Expire \/ Leave \/ UNCHANGED vars
           \/ \E d \in Deps, c \in Conditions : Change(d, c)
    PROVE  IInv'
<1>1. /\ HealthTypes /\ TurnInv /\ BlameInv /\ AnswerInv /\ BlameHasCause
    BY DEF IInv
<1>2. ASSUME Answer
      PROVE  IInv'
    <2>1. /\ at = "answer" /\ at' = "done" /\ status' = StatusCode
          /\ UNCHANGED <<cond, pinging, resp, expired, gone, probed, bad, changes>>
        BY <1>2 DEF Answer
    <2>2. ~pinging \/ at \in probed
        BY <1>1 DEF TurnInv
    <2>3. ~pinging
        BY <1>1, <2>1, <2>2 DEF HealthTypes, Deps
    <2>4. HealthTypes'
        BY <1>1, <2>1 DEF HealthTypes
    <2>5. TurnInv' /\ BlameInv'
        BY <1>1, <2>1, <2>3 DEF TurnInv, BlameInv, HealthTypes, Over
    <2>6. AnswerInv' /\ BlameHasCause'
        BY <1>1, <2>1 DEF AnswerInv, StatusCode, BlameHasCause
    <2> QED
        BY <2>4, <2>5, <2>6 DEF IInv
<1>3. ASSUME Expire \/ Leave \/ UNCHANGED vars
      PROVE  IInv'
    <2>1. /\ UNCHANGED <<cond, at, pinging, resp, status, probed, bad, changes>>
          /\ expired' \in BOOLEAN /\ gone' \in BOOLEAN
          /\ expired' => bad # {}
          /\ gone => gone'
        <3>1. CASE Expire
            BY <1>1, <3>1 DEF Expire, HealthTypes
        <3>2. CASE Leave
            BY <1>1, <3>2 DEF Leave, HealthTypes, BlameInv
        <3>3. CASE UNCHANGED vars
            BY <1>1, <3>3 DEF vars, HealthTypes, BlameInv
        <3> QED
            BY <1>3, <3>1, <3>2, <3>3
    <2>2. HealthTypes' /\ TurnInv'
        BY <1>1, <2>1 DEF HealthTypes, TurnInv, Over
    <2>3. BlameInv'
        BY <1>1, <2>1 DEF BlameInv, Over
    <2>4. AnswerInv' /\ BlameHasCause'
        BY <1>1, <2>1 DEF AnswerInv, StatusCode, BlameHasCause
    <2> QED
        BY <2>2, <2>3, <2>4 DEF IInv
<1>4. ASSUME NEW d \in Deps, NEW c \in Conditions, Change(d, c)
      PROVE  IInv'
    <2>1. /\ cond' = [cond EXCEPT ![d] = c] /\ changes' = changes + 1 /\ at # "done"
          /\ bad' = IF at = d /\ pinging /\ c # "up" THEN bad \cup {d} ELSE bad
          /\ UNCHANGED <<at, pinging, resp, status, expired, gone, probed>>
        BY <1>4 DEF Change
    <2>2. cond' \in [Deps -> Conditions] /\ changes' # 0
        BY <1>1, <2>1 DEF HealthTypes
    <2>3. bad \subseteq bad' /\ \A e \in bad' : e \in bad \/ (e = at /\ e = d)
        <3>1. CASE at = d /\ pinging /\ c # "up"
            BY <2>1, <3>1
        <3>2. CASE ~(at = d /\ pinging /\ c # "up")
            BY <2>1, <3>2
        <3> QED
            BY <3>1, <3>2
    <2>4. HealthTypes' /\ TurnInv'
        BY <1>1, <2>1, <2>2, <2>3 DEF HealthTypes, TurnInv, Over
    <2>5. BlameInv'
        <3>1. pinging => (cond'[at] = "up" \/ at \in bad')
            BY <1>1, <2>1, <2>3 DEF HealthTypes, BlameInv
        <3> QED
            BY <1>1, <2>1, <2>2, <2>3, <3>1 DEF BlameInv, Over
    <2>6. AnswerInv' /\ BlameHasCause'
        BY <1>1, <2>1, <2>3 DEF AnswerInv, BlameHasCause
    <2> QED
        BY <2>4, <2>5, <2>6 DEF IInv
<1> QED
    BY <1>2, <1>3, <1>4
-------------------------------------------------------------------------------
THEOREM Invariance == Spec => []IInv
<1>1. Init => IInv
    <2> SUFFICES ASSUME Init PROVE IInv
        OBVIOUS
    <2>1. HealthTypes
        BY DEF Init, HealthTypes, Conditions, Deps
    <2>2. TurnInv /\ BlameInv
        BY DEF Init, TurnInv, BlameInv, Over, Deps
    <2>3. AnswerInv /\ BlameHasCause
        BY DEF Init, AnswerInv, BlameHasCause
    <2> QED
        BY <2>1, <2>2, <2>3 DEF IInv
<1>2. IInv /\ [Next]_vars => IInv'
    BY TurnStep, SendStep, OtherStep DEF Next, Handler, Conditions
<1> QED
    BY <1>1, <1>2, PTL DEF Spec

\* 200 means that each dependency was asked and answered, 503 that one is not well,
\* and what is down all the time is never called ok.
THEOREM StatusCanBeTrusted == Spec => []StatusIsEarned
<1>1. IInv => StatusIsEarned
    <2> SUFFICES ASSUME IInv, at = "done"
                 PROVE  /\ status = 200 => probed = Deps /\ \A d \in Deps : resp[d] = "ok"
                        /\ status = 503 => \E d \in Deps : resp[d] = "unreachable"
                        /\ changes = 0 => \A d \in Deps : cond[d] = "down" => resp[d] = "unreachable"
        BY DEF StatusIsEarned
    <2>1. \A d \in Deps : Over(d)
        BY DEF Over
    <2>2. status = 200 => \A d \in Deps : resp[d] = "ok"
        BY DEF IInv, AnswerInv, StatusCode
    <2>3. status = 200 => probed = Deps
        <3>1. status = 200 => \A d \in Deps : d \in probed
            BY <2>1, <2>2 DEF IInv, TurnInv
        <3>2. probed \subseteq Deps
            BY DEF IInv, HealthTypes
        <3> QED
            BY <3>1, <3>2
    <2>4. status = 503 => \E d \in Deps : resp[d] = "unreachable"
        BY DEF IInv, AnswerInv, StatusCode, HealthTypes
    <2> QED
        BY <2>1, <2>2, <2>3, <2>4 DEF IInv, BlameInv
<1> QED
    BY <1>1, Invariance, PTL

\* A dependency takes the blame only with a reason: itself, one before it, or a client
\* that has left.
THEOREM BlameIsFair == Spec => []BlameHasCause
<1>1. IInv => BlameHasCause
    BY DEF IInv
<1> QED
    BY <1>1, Invariance, PTL
=================================================================================
