-------------------------- MODULE SessionStoreProofs --------------------------
(***************************************************************************)
(* Proofs about SessionStore, for any number of browsers, requests, IDs    *)
(* and faults, and any configuration: type correctness and every safety    *)
(* invariant of sessions.                                                  *)
(***************************************************************************)
EXTENDS SessionStore, TLAPS

\* A value is stored by now.
Past == {"encode", "reply", "done"}

\* What is known of a request from where its handling is.
RequestInv ==
    \A r \in Requests :
        /\ at[r] = "idle" => browser[r] = None /\ sid[r] = None
        /\ at[r] \in {"idle", "load"} => vals[r] = {}
        /\ at[r] # "idle" => browser[r] \in Browsers
        /\ at[r] # "done" => result[r] = "none"
        /\ at[r] \in {"set", "encode"} => op[r] \in {"login", "touch"}
        /\ at[r] = "del" => op[r] = "logout"
        /\ at[r] = "reply" => op[r] \in {"login", "touch", "logout"}
        /\ at[r] = "reply" /\ op[r] # "logout" => sid[r] # None /\ CodecWorks

\* An ID belongs to one browser: to the one whose requests carry it, and whose
\* cookie holds it; an ID that is stored or in a cookie is not given away again.
OwnerInv ==
    /\ \A q, r \in Requests : sid[q] = sid[r] /\ sid[r] # None => browser[q] = browser[r]
    /\ \A b \in Browsers : jar[b] # None =>
           /\ \E r \in Requests : sid[r] = jar[b]
           /\ \A r \in Requests : sid[r] = jar[b] => browser[r] = b

\* A value is stored only under the ID of the request that has saved it, and goes
\* only into requests that carry this ID.
ValueInv ==
    /\ \A i \in Ids : store[i] # None =>
           /\ \E r \in Requests : sid[r] = i
           /\ \A q \in store[i] : sid[q] = i /\ at[q] \in Past
    /\ \A r \in Requests : \A q \in vals[r] : q # r =>
           sid[q] = sid[r] /\ sid[r] # None /\ at[q] \in Past
    /\ \A r \in Requests : r \in vals[r] => at[r] \in {"set"} \cup Past
    /\ \A q \in dead : at[q] \in Past

\* A session has been stored when its cookie is due.
CookieInv ==
    \A r \in Requests : at[r] = "encode" \/ (at[r] = "reply" /\ op[r] # "logout") =>
        store[sid[r]] # None \/ sid[r] \in ended

Mine(b) == {r \in Requests : browser[r] = b}

Saved(b) == {r \in Mine(b) : result[r] = "ok" /\ op[r] \in {"login", "touch"}}

\* No overlap, fault, logout or expiry has met the browser so far.
Clean(b) ==
    /\ b \notin overlapped
    /\ \A r \in Mine(b) : r \notin struck /\ op[r] # "logout" /\ sid[r] \notin ended

\* The one request of such a browser that is under way has in hand what is saved,
\* and has stored it under the cookie's ID, or is about to.
KeepsAll(b) ==
    /\ \A q, r \in Active(b) : q = r
    /\ jar[b] = None <=> Saved(b) = {}
    /\ jar[b] # None /\ (\A r \in Active(b) : at[r] \notin Past) => store[jar[b]] = Saved(b)
    /\ \A r \in Active(b) :
           /\ at[r] # "del"
           /\ sid[r] = jar[b] \/ (jar[b] = None /\ at[r] \in Past)
           /\ at[r] = "handle" => vals[r] = Saved(b)
           /\ at[r] = "set" => vals[r] = Saved(b) \cup {r}
           /\ at[r] \in Past => store[sid[r]] = Saved(b) \cup {r}
    /\ jar[b] # None => CodecWorks

CleanInv == \A b \in Browsers : Clean(b) => KeepsAll(b)

\* Two requests of one browser that are under way together have been noted.
OverlapInv ==
    \A q, r \in Requests :
        q # r /\ browser[q] = browser[r] /\ {at[q], at[r]} \cap {"idle", "done"} = {}
            => browser[r] \in overlapped

\* A request in hand has all that is stored under its ID, unless it is one of those
\* that may lose something.
CopyInv ==
    \A r \in Requests : at[r] \in {"handle", "set"} /\ sid[r] # None /\ store[sid[r]] # None =>
        store[sid[r]] \subseteq vals[r] \/ r \in struck \/ browser[r] \in overlapped

\* Under a key AES cannot use every session is new, and empty until its handler.
LockInv ==
    ~CodecWorks => \A r \in Requests : at[r] # "load" /\ (at[r] = "handle" => vals[r] = {})

\* The inductive strengthening of the invariants.
IInv ==
    /\ TypeOK
    /\ RequestInv
    /\ OwnerInv
    /\ ValueInv
    /\ CookieInv
    /\ CookieHasSession
    /\ CleanLogoutIsFinal
    /\ CleanInv
-------------------------------------------------------------------------------
(* Type correctness and the stages of a request.                             *)

\* What Redis holds under an ID: nothing, or values of requests.
LEMMA StoreType ==
    ASSUME TypeOK, NEW i \in Ids
    PROVE  store[i] = None \/ (store[i] # None /\ store[i] \in SUBSET Requests)
    BY DEF TypeOK

\* A request that is loading, or deleting, its session has an ID.
LEMMA IdInUse ==
    ASSUME TypeOK, NEW r \in Requests, at[r] \in {"load", "encode", "del"}
    PROVE  sid[r] \in Ids /\ sid[r] # None
    BY SessionAssumption DEF TypeOK

\* Redis is given an ID that is the session's or nobody's.
LEMMA IdsForFacts ==
    ASSUME TypeOK, NEW r \in Requests, NEW i \in IdsFor(r)
    PROVE  /\ i \in Ids /\ i # None
           /\ sid[r] # None => i = sid[r]
           /\ sid[r] = None => \A q \in Requests : sid[q] # i
    BY SessionAssumption DEF TypeOK, IdsFor

\* Every step keeps every variable in its type.
LEMMA TypeStep == TypeOK /\ RequestInv /\ [Next]_vars => TypeOK'
<1> SUFFICES ASSUME TypeOK, RequestInv, [Next]_vars PROVE TypeOK'
    OBVIOUS
<1> USE SessionAssumption DEF reqVars, histVars, Go, Finish, Strike
<1>1. ASSUME NEW r \in Requests, NEW b \in Browsers, NEW o \in Ops, Send(r, b, o)
      PROVE  TypeOK'
    BY <1>1 DEF TypeOK, Send
<1>2. ASSUME NEW r \in Requests, Load(r) PROVE TypeOK'
    <2>1. sid[r] \in Ids /\ (store[sid[r]] = None \/ store[sid[r]] \in SUBSET Requests)
        BY <1>2, IdInUse, StoreType DEF Load
    <2>2. vals' \in [Requests -> SUBSET Requests]
        BY <1>2, <2>1 DEF TypeOK, Load
    <2>3. /\ at' \in [Requests -> {"idle", "load", "handle", "set", "encode", "del", "reply", "done"}]
          /\ \A q \in Requests : at'[q] = at[q] \/ at'[q] = "handle"
        BY <1>2 DEF TypeOK, Load
    <2>4. faults' \in 0 .. MaxFaults /\ struck' \subseteq Requests
        BY <1>2 DEF TypeOK, Load
    <2>5. UNCHANGED <<cfg, store, jar, op, browser, sid, result, ended, dead, overlapped>>
        BY <1>2 DEF Load
    <2>6. \A q \in Requests : at'[q] \in {"load", "encode", "del"} => sid'[q] # None
        BY <2>3, <2>5 DEF TypeOK
    <2> QED BY <2>2, <2>3, <2>4, <2>5, <2>6 DEF TypeOK
<1>3. ASSUME NEW r \in Requests, Handle(r) PROVE TypeOK'
    BY <1>3 DEF TypeOK, Handle
<1>4. ASSUME NEW r \in Requests, SetSession(r) PROVE TypeOK'
    <2>1. PICK i \in IdsFor(r) :
              /\ sid' = [sid EXCEPT ![r] = i]
              /\ \/ /\ store' = [store EXCEPT ![i] = vals[r]]
                    /\ Go(r, "encode") /\ UNCHANGED <<result, struck, faults>>
                 \/ /\ store' \in {store, [store EXCEPT ![i] = vals[r]]}
                    /\ Finish(r, "error") /\ Strike(r)
        BY <1>4 DEF SetSession
    <2>2. i \in Ids /\ i # None
        BY IdsForFacts
    <2> QED BY <1>4, <2>1, <2>2 DEF TypeOK, SetSession
<1>5. ASSUME NEW r \in Requests, Encode(r) PROVE TypeOK'
    BY <1>5 DEF TypeOK, Encode
<1>6. ASSUME NEW r \in Requests, DelSession(r) PROVE TypeOK'
    <2>1. sid[r] \in Ids /\ (store[sid[r]] = None \/ store[sid[r]] \in SUBSET Requests)
        BY <1>6, IdInUse, StoreType DEF DelSession
    <2>2. store' \in [Ids -> (SUBSET Requests) \cup {None}]
        BY <1>6, <2>1 DEF TypeOK, DelSession
    <2>3. ended' \subseteq Ids /\ dead' \subseteq Requests
        BY <1>6, <2>1 DEF TypeOK, DelSession, Killed
    <2>4. at' = [at EXCEPT ![r] = "reply"]
        BY <1>6 DEF DelSession
    <2>5. faults' \in 0 .. MaxFaults /\ struck' \subseteq Requests
        BY <1>6 DEF TypeOK, DelSession
    <2> QED BY <1>6, <2>1, <2>2, <2>3, <2>4, <2>5 DEF TypeOK, DelSession
<1>7. ASSUME NEW r \in Requests, Reply(r) PROVE TypeOK'
    BY <1>7 DEF TypeOK, RequestInv, Reply
<1>8. ASSUME NEW i \in Ids, Expire(i) PROVE TypeOK'
    <2>1. store' \in [Ids -> (SUBSET Requests) \cup {None}] /\ ended' \subseteq Ids
        BY <1>8 DEF TypeOK, Expire
    <2> QED BY <1>8, <2>1 DEF TypeOK, Expire
<1>9. CASE UNCHANGED vars
    BY <1>9 DEF TypeOK, vars
<1> QED BY <1>1, <1>2, <1>3, <1>4, <1>5, <1>6, <1>7, <1>8, <1>9 DEF Next

\* A request goes through its stages in order, and on its own.
LEMMA RequestStep == TypeOK /\ RequestInv /\ [Next]_vars => RequestInv'
<1> SUFFICES ASSUME TypeOK, RequestInv, [Next]_vars PROVE RequestInv'
    OBVIOUS
<1> USE SessionAssumption DEF reqVars, histVars, Go, Finish, CodecWorks
<1>1. ASSUME NEW r \in Requests, NEW b \in Browsers, NEW o \in Ops, Send(r, b, o)
      PROVE  RequestInv'
    BY <1>1 DEF TypeOK, RequestInv, Send
<1>2. ASSUME NEW r \in Requests, Load(r) PROVE RequestInv'
    BY <1>2 DEF TypeOK, RequestInv, Load
<1>3. ASSUME NEW r \in Requests, Handle(r) PROVE RequestInv'
    BY <1>3 DEF TypeOK, RequestInv, Handle
<1>4. ASSUME NEW r \in Requests, SetSession(r) PROVE RequestInv'
    BY <1>4 DEF TypeOK, RequestInv, SetSession
<1>5. ASSUME NEW r \in Requests, Encode(r) PROVE RequestInv'
    BY <1>5 DEF TypeOK, RequestInv, Encode
<1>6. ASSUME NEW r \in Requests, DelSession(r) PROVE RequestInv'
    <2>1. at' = [at EXCEPT ![r] = "reply"] /\ at[r] = "del"
          /\ UNCHANGED <<cfg, op, browser, sid, vals, result>>
        BY <1>6 DEF DelSession
    <2> QED BY <2>1 DEF TypeOK, RequestInv
<1>7. ASSUME NEW r \in Requests, Reply(r) PROVE RequestInv'
    BY <1>7 DEF TypeOK, RequestInv, Reply
<1>8. CASE UNCHANGED <<cfg, reqVars>>
    BY <1>8 DEF RequestInv
<1> QED BY <1>1, <1>2, <1>3, <1>4, <1>5, <1>6, <1>7, <1>8 DEF Next, Expire, vars
-------------------------------------------------------------------------------
(* Whose IDs and whose values.                                               *)

\* What SetSession does to the session: it gets an ID for good, and Redis either
\* keeps what it has or holds the request's values under this ID.
LEMMA SetSessionFacts ==
    ASSUME TypeOK, NEW r \in Requests, SetSession(r)
    PROVE  \E i \in IdsFor(r) :
               /\ i \in Ids /\ i # None
               /\ sid[r] # None => i = sid[r]
               /\ sid[r] = None => \A q \in Requests : sid[q] # i
               /\ sid' = [sid EXCEPT ![r] = i]
               /\ \/ store' = [store EXCEPT ![i] = vals[r]] /\ at' = [at EXCEPT ![r] = "encode"]
                  \/ store' = [store EXCEPT ![i] = vals[r]] /\ at' = [at EXCEPT ![r] = "done"]
                  \/ store' = store /\ at' = [at EXCEPT ![r] = "done"]
               /\ vals[r] # None /\ vals[r] \in SUBSET Requests
<1>1. vals[r] # None /\ vals[r] \in SUBSET Requests
    BY SessionAssumption DEF TypeOK
<1>2. PICK i \in IdsFor(r) :
          /\ sid' = [sid EXCEPT ![r] = i]
          /\ \/ /\ store' = [store EXCEPT ![i] = vals[r]]
                /\ Go(r, "encode") /\ UNCHANGED <<result, struck, faults>>
             \/ /\ store' \in {store, [store EXCEPT ![i] = vals[r]]}
                /\ Finish(r, "error") /\ Strike(r)
    BY DEF SetSession
<1> QED BY <1>1, <1>2, IdsForFacts DEF Go, Finish

\* An ID that a request has, or a cookie holds, stays with its browser.
LEMMA OwnerStep == TypeOK /\ RequestInv /\ OwnerInv /\ [Next]_vars => OwnerInv'
<1> SUFFICES ASSUME TypeOK, RequestInv, OwnerInv, [Next]_vars PROVE OwnerInv'
    OBVIOUS
<1> USE SessionAssumption DEF reqVars
<1>1. ASSUME NEW r \in Requests, NEW b \in Browsers, NEW o \in Ops, Send(r, b, o)
      PROVE  OwnerInv'
    <2>1. /\ sid[r] = None /\ UNCHANGED jar
          /\ sid'[r] = jar[b] \/ sid'[r] = None
          /\ browser'[r] = b
          /\ \A q \in Requests : q # r => sid'[q] = sid[q] /\ browser'[q] = browser[q]
        BY <1>1 DEF TypeOK, RequestInv, Send
    <2>2. \A c \in Browsers : jar[c] = jar[b] /\ jar[c] # None => c = b
        BY DEF OwnerInv
    <2> QED BY <2>1, <2>2 DEF OwnerInv
<1>2. ASSUME NEW r \in Requests, SetSession(r) PROVE OwnerInv'
    <2>1. PICK i \in Ids : /\ i # None
                           /\ sid[r] # None => i = sid[r]
                           /\ sid[r] = None => \A q \in Requests : sid[q] # i
                           /\ sid' = [sid EXCEPT ![r] = i]
        BY <1>2, SetSessionFacts
    <2>2. UNCHANGED <<jar, browser>>
        BY <1>2 DEF SetSession
    <2>3. sid'[r] = i /\ \A q \in Requests : q # r => sid'[q] = sid[q]
        BY <2>1 DEF TypeOK
    <2> QED BY <2>1, <2>2, <2>3 DEF OwnerInv
<1>3. ASSUME NEW r \in Requests, Reply(r) PROVE OwnerInv'
    <2>1. /\ UNCHANGED <<sid, browser>> /\ browser[r] \in Browsers
          /\ jar'[browser[r]] \in {jar[browser[r]], None, sid[r]}
          /\ \A b \in Browsers : b # browser[r] => jar'[b] = jar[b]
        BY <1>3 DEF TypeOK, RequestInv, Reply
    <2> QED BY <2>1 DEF OwnerInv
<1>4. CASE UNCHANGED <<browser, sid, jar>>
    BY <1>4 DEF OwnerInv
<1> QED
    BY <1>1, <1>2, <1>3, <1>4
    DEF Next, Load, Handle, Encode, DelSession, Expire, vars

\* A request that is past storing its values stays so, with its ID.
LEMMA PastStays ==
    TypeOK /\ [Next]_vars =>
        \A q \in Requests : at[q] \in Past => at'[q] \in Past /\ sid'[q] = sid[q]
<1> SUFFICES ASSUME TypeOK, [Next]_vars, NEW q \in Requests, at[q] \in Past
             PROVE  at'[q] \in Past /\ sid'[q] = sid[q]
    OBVIOUS
<1> USE DEF reqVars, Go, Finish, Past
<1>1. ASSUME NEW r \in Requests, NEW b \in Browsers, NEW o \in Ops, Send(r, b, o)
      PROVE  at'[q] \in Past /\ sid'[q] = sid[q]
    BY <1>1 DEF TypeOK, Send
<1>2. ASSUME NEW r \in Requests, SetSession(r) PROVE at'[q] \in Past /\ sid'[q] = sid[q]
    BY <1>2, SetSessionFacts DEF TypeOK, SetSession
<1>3. ASSUME NEW r \in Requests,
             Load(r) \/ Handle(r) \/ Encode(r) \/ DelSession(r) \/ Reply(r)
      PROVE  at'[q] \in Past /\ sid'[q] = sid[q]
    BY <1>3 DEF TypeOK, Load, Handle, Encode, DelSession, Reply
<1>4. CASE UNCHANGED <<at, sid>>
    BY <1>4
<1> QED BY <1>1, <1>2, <1>3, <1>4 DEF Next, Expire, vars

\* Values travel only between an ID and the requests that carry it.
LEMMA ValueStep == TypeOK /\ RequestInv /\ ValueInv /\ [Next]_vars => ValueInv'
<1> SUFFICES ASSUME TypeOK, RequestInv, ValueInv, [Next]_vars PROVE ValueInv'
    OBVIOUS
<1> USE SessionAssumption DEF reqVars, histVars
<1>0. \A q \in Requests : at[q] \in Past => at'[q] \in Past /\ sid'[q] = sid[q]
    BY PastStays
<1>t. \A i \in Ids : store[i] = None \/ (store[i] # None /\ store[i] \in SUBSET Requests)
    BY StoreType
<1>d. dead \subseteq Requests /\ vals \in [Requests -> SUBSET Requests]
    BY DEF TypeOK
<1>1. ASSUME NEW r \in Requests, NEW b \in Browsers, NEW o \in Ops, Send(r, b, o)
      PROVE  ValueInv'
    <2>1. /\ at[r] = "idle" /\ sid[r] = None /\ vals[r] = {} /\ UNCHANGED <<store, vals, dead>>
          /\ \A q \in Requests : q # r => sid'[q] = sid[q] /\ at'[q] = at[q]
        BY <1>1 DEF TypeOK, RequestInv, Send, Go
    <2>2. r \notin dead /\ \A q \in Requests : r \notin vals[q]
        BY <2>1 DEF ValueInv, Past
    <2> QED BY <1>0, <1>t, <1>d, <2>1, <2>2 DEF ValueInv
<1>2. ASSUME NEW r \in Requests, Load(r) PROVE ValueInv'
    <2>1. /\ sid[r] \in Ids /\ sid[r] # None /\ at[r] = "load"
          /\ UNCHANGED <<store, sid, dead>>
          /\ \A q \in Requests : q # r => vals'[q] = vals[q] /\ at'[q] = at[q]
        BY <1>2, IdInUse DEF TypeOK, Load, Go
    <2>2. vals'[r] = {} \/ (store[sid[r]] # None /\ vals'[r] = store[sid[r]])
        BY <1>2 DEF TypeOK, RequestInv, Load
    <2>3. r \notin dead /\ r \notin vals'[r]
        BY <1>t, <2>1, <2>2 DEF ValueInv, Past
    <2> QED BY <1>0, <1>t, <1>d, <2>1, <2>2, <2>3 DEF ValueInv
<1>3. ASSUME NEW r \in Requests, Handle(r) PROVE ValueInv'
    <2>1. /\ UNCHANGED <<store, sid, dead>> /\ at[r] = "handle"
          /\ \A q \in Requests : q # r => vals'[q] = vals[q] /\ at'[q] = at[q]
          /\ vals'[r] = vals[r] \/ (vals'[r] = vals[r] \cup {r} /\ at'[r] = "set")
        BY <1>3 DEF TypeOK, Handle, Finish, Go
    <2>2. r \notin dead /\ r \notin vals[r]
        BY <2>1 DEF ValueInv, Past
    <2> QED BY <1>0, <1>t, <1>d, <2>1, <2>2 DEF ValueInv
<1>4. ASSUME NEW r \in Requests, SetSession(r) PROVE ValueInv'
    <2>1. PICK i \in Ids :
              /\ i # None
              /\ sid[r] # None => i = sid[r]
              /\ sid' = [sid EXCEPT ![r] = i]
              /\ store' = [store EXCEPT ![i] = vals[r]] \/ store' = store
              /\ at'[r] \in Past
        BY <1>4, SetSessionFacts DEF TypeOK, Past
    <2>2. /\ UNCHANGED <<vals, dead>> /\ at[r] = "set"
          /\ sid'[r] = i /\ \A q \in Requests : q # r => sid'[q] = sid[q]
        BY <1>4, <2>1 DEF TypeOK, SetSession
    <2>3. \A q \in vals[r] : sid'[q] = i /\ at'[q] \in Past
        BY <1>0, <1>d, <2>1, <2>2 DEF ValueInv
    <2>4. \A j \in Ids : store'[j] # None =>
              /\ \E q \in Requests : sid'[q] = j
              /\ \A q \in store'[j] : sid'[q] = j /\ at'[q] \in Past
        <3> SUFFICES ASSUME NEW j \in Ids, store'[j] # None
                     PROVE  /\ \E q \in Requests : sid'[q] = j
                            /\ \A q \in store'[j] : sid'[q] = j /\ at'[q] \in Past
            OBVIOUS
        <3>1. CASE j = i /\ store' # store
            BY <2>1, <2>2, <2>3, <3>1 DEF TypeOK
        <3>2. CASE store'[j] = store[j]
            <4>1. \A q \in store[j] : sid'[q] = j /\ at'[q] \in Past
                BY <1>0, <1>t, <3>2 DEF ValueInv
            <4>2. PICK q \in Requests : sid[q] = j
                BY <3>2 DEF ValueInv
            <4>3. q = r => i = j
                BY <2>1, <2>2, <4>2
            <4>4. sid'[q] = j
                BY <2>2, <4>2, <4>3
            <4> QED BY <3>2, <4>1, <4>4
        <3> QED BY <2>1, <3>1, <3>2 DEF TypeOK
    <2>5. \A p \in Requests : \A q \in vals'[p] : q # p =>
              sid'[q] = sid'[p] /\ sid'[p] # None /\ at'[q] \in Past
        <3> SUFFICES ASSUME NEW p \in Requests, NEW q \in vals[p], q # p
                     PROVE  sid'[q] = sid'[p] /\ sid'[p] # None /\ at'[q] \in Past
            BY <2>2
        <3>1. q \in Requests /\ sid[q] = sid[p] /\ sid[p] # None /\ at[q] \in Past
            BY <1>d DEF ValueInv
        <3> QED BY <1>0, <2>1, <2>2, <2>3, <3>1
    <2>6. \A p \in Requests : p \in vals'[p] => at'[p] \in {"set"} \cup Past
        BY <1>4, <2>1, <2>2 DEF TypeOK, ValueInv, SetSession, Go, Finish
    <2>7. \A q \in dead' : at'[q] \in Past
        BY <1>0, <1>d, <2>2 DEF ValueInv
    <2> QED BY <2>4, <2>5, <2>6, <2>7 DEF ValueInv
<1>5. ASSUME NEW r \in Requests, Encode(r) \/ Reply(r) PROVE ValueInv'
    <2>1. /\ UNCHANGED <<store, sid, vals, dead>> /\ at[r] \in Past
          /\ \A q \in Requests : q # r => at'[q] = at[q]
        BY <1>5 DEF TypeOK, Encode, Reply, Go, Finish, Past
    <2> QED BY <1>0, <1>t, <1>d, <2>1 DEF ValueInv
<1>6. ASSUME NEW r \in Requests, DelSession(r) PROVE ValueInv'
    <2>1. /\ UNCHANGED <<sid, vals>> /\ sid[r] \in Ids /\ at'[r] \in Past
          /\ \A q \in Requests : q # r => at'[q] = at[q]
          /\ \A i \in Ids : store'[i] \in {store[i], None}
          /\ \A q \in dead' : q \in dead \/ (store[sid[r]] # None /\ q \in store[sid[r]])
        BY <1>6, IdInUse DEF TypeOK, DelSession, Killed, Go, Past
    <2> QED BY <1>0, <1>t, <1>d, <2>1 DEF ValueInv
<1>7. ASSUME NEW i \in Ids, Expire(i) PROVE ValueInv'
    <2>1. /\ UNCHANGED <<sid, vals, at, dead>>
          /\ \A j \in Ids : store'[j] \in {store[j], None}
        BY <1>7 DEF TypeOK, Expire
    <2> QED BY <1>t, <2>1 DEF ValueInv
<1>8. CASE UNCHANGED vars
    BY <1>8 DEF ValueInv, vars
<1> QED BY <1>1, <1>2, <1>3, <1>4, <1>5, <1>6, <1>7, <1>8 DEF Next
-------------------------------------------------------------------------------
(* Cookies and logouts.                                                      *)

\* A stored session disappears only by a DEL or at the end of its TTL.
LEMMA StoredStays ==
    ASSUME TypeOK, [Next]_vars, NEW i \in Ids, store[i] # None \/ i \in ended
    PROVE  store'[i] # None \/ i \in ended'
<1> DEFINE Goal == store'[i] # None \/ i \in ended'
<1>1. ASSUME NEW r \in Requests, SetSession(r) PROVE Goal
    <2>1. \E j \in Ids : /\ store' = [store EXCEPT ![j] = vals[r]] \/ store' = store
                        /\ vals[r] # None
        BY <1>1, SetSessionFacts
    <2>2. UNCHANGED ended
        BY <1>1 DEF SetSession
    <2> QED BY <2>1, <2>2 DEF TypeOK
<1>2. ASSUME NEW r \in Requests, DelSession(r) PROVE Goal
    BY <1>2 DEF TypeOK, DelSession
<1>3. ASSUME NEW j \in Ids, Expire(j) PROVE Goal
    BY <1>3 DEF TypeOK, Expire
<1>4. ASSUME UNCHANGED <<store, ended>> PROVE Goal
    BY <1>4
<1> HIDE DEF Goal
<1>5. Goal
    BY <1>1, <1>2, <1>3, <1>4
    DEF Next, Send, Load, Handle, Encode, Reply, vars, histVars
<1> QED BY <1>5 DEF Goal

\* The cookie is only due once the session is stored.
LEMMA CookieStep == TypeOK /\ RequestInv /\ CookieInv /\ [Next]_vars => CookieInv'
<1> SUFFICES ASSUME TypeOK, RequestInv, CookieInv, [Next]_vars, NEW q \in Requests,
                    at'[q] = "encode" \/ (at'[q] = "reply" /\ op'[q] # "logout")
             PROVE  store'[sid'[q]] # None \/ sid'[q] \in ended'
    BY DEF CookieInv
<1> USE SessionAssumption DEF reqVars
<1> DEFINE Goal == store'[sid'[q]] # None \/ sid'[q] \in ended'
           Due == at[q] = "encode" \/ (at[q] = "reply" /\ op[q] # "logout")
\* Whatever happens to the store, a session whose cookie was due keeps its promise.
<1>1. ASSUME Due, sid'[q] = sid[q] PROVE Goal
    <2>1. sid[q] \in Ids /\ (store[sid[q]] # None \/ sid[q] \in ended)
        BY <1>1 DEF TypeOK, RequestInv, CookieInv
    <2> QED BY <1>1, <2>1, StoredStays
<1>2. Due => sid'[q] = sid[q]
    BY PastStays DEF Past
<1>3. ASSUME ~Due PROVE Goal
    <2>1. ASSUME NEW r \in Requests, SetSession(r) PROVE Goal
        <3>1. r = q
            <4>1. UNCHANGED op /\ \A p \in Requests : p # r => at'[p] = at[p]
                BY <2>1 DEF TypeOK, SetSession, Go, Finish
            <4> QED BY <1>3, <4>1
        <3>2. at'[r] = "encode"
            BY <2>1, <3>1, SetSessionFacts DEF TypeOK
        <3> QED BY <2>1, <3>1, <3>2, SetSessionFacts DEF TypeOK
    <2>2. ASSUME NEW r \in Requests, NEW b \in Browsers, NEW o \in Ops, Send(r, b, o)
          PROVE  FALSE
        BY <1>3, <2>2 DEF TypeOK, Send, Go
    <2>3. ASSUME NEW r \in Requests,
                 Load(r) \/ Handle(r) \/ Encode(r) \/ DelSession(r) \/ Reply(r)
          PROVE  FALSE
        BY <1>3, <2>3
        DEF TypeOK, RequestInv, Load, Handle, Encode, DelSession, Reply, Go, Finish
    <2>4. ~UNCHANGED <<at, op>>
        BY <1>3
    <2> HIDE DEF Goal
    <2> QED BY <2>1, <2>2, <2>3, <2>4 DEF Next, Expire, vars
<1> QED BY <1>1, <1>2, <1>3

\* The browser gets the cookie of a session that was stored.
LEMMA CookieHasSessionStep ==
    TypeOK /\ RequestInv /\ CookieInv /\ CookieHasSession /\ [Next]_vars => CookieHasSession'
<1> SUFFICES ASSUME TypeOK, RequestInv, CookieInv, CookieHasSession, [Next]_vars,
                    NEW b \in Browsers, jar'[b] # None
             PROVE  store'[jar'[b]] # None \/ jar'[b] \in ended'
    BY DEF CookieHasSession
<1>1. ASSUME jar'[b] = jar[b] PROVE store'[jar'[b]] # None \/ jar'[b] \in ended'
    <2>1. jar[b] \in Ids /\ (store[jar[b]] # None \/ jar[b] \in ended)
        BY <1>1 DEF TypeOK, CookieHasSession
    <2> QED BY <1>1, <2>1, StoredStays
<1>2. ASSUME NEW r \in Requests, Reply(r), jar'[b] # jar[b]
      PROVE  store'[jar'[b]] # None \/ jar'[b] \in ended'
    <2>1. op[r] # "logout" /\ jar'[b] = sid[r]
        BY <1>2, SessionAssumption DEF TypeOK, RequestInv, Reply
    <2>2. sid[r] \in Ids /\ (store[sid[r]] # None \/ sid[r] \in ended)
        BY <1>2, <2>1 DEF TypeOK, RequestInv, CookieInv, Reply
    <2> QED BY <2>1, <2>2, StoredStays
<1> QED
    BY <1>1, <1>2
    DEF Next, Send, Load, Handle, SetSession, Encode, DelSession, Expire, vars

\* What a DEL kills is nowhere else: neither under another ID, which holds other
\* requests' values, nor in a request, for those that have a copy spare it.
LEMMA LogoutStep ==
    TypeOK /\ RequestInv /\ ValueInv /\ CleanLogoutIsFinal /\ [Next]_vars
        => CleanLogoutIsFinal'
<1> SUFFICES ASSUME TypeOK, RequestInv, ValueInv, CleanLogoutIsFinal, [Next]_vars
             PROVE  CleanLogoutIsFinal'
    OBVIOUS
<1> USE SessionAssumption DEF reqVars, histVars
<1>1. ASSUME NEW r \in Requests, NEW b \in Browsers, NEW o \in Ops, Send(r, b, o)
      PROVE  CleanLogoutIsFinal'
    BY <1>1 DEF TypeOK, RequestInv, CleanLogoutIsFinal, Send, Go
<1>2. ASSUME NEW r \in Requests, Load(r) PROVE CleanLogoutIsFinal'
    <2>1. /\ sid[r] \in Ids /\ UNCHANGED <<store, dead>>
          /\ \A q \in Requests : q # r => vals'[q] = vals[q] /\ at'[q] = at[q]
        BY <1>2, IdInUse DEF TypeOK, Load, Go
    <2>2. vals'[r] = {} \/ (store[sid[r]] # None /\ vals'[r] = store[sid[r]])
        BY <1>2 DEF TypeOK, RequestInv, Load
    <2> QED BY <2>1, <2>2 DEF CleanLogoutIsFinal
<1>3. ASSUME NEW r \in Requests, Handle(r) PROVE CleanLogoutIsFinal'
    <2>1. /\ UNCHANGED <<store, dead>> /\ at[r] = "handle"
          /\ \A q \in Requests : q # r => vals'[q] = vals[q] /\ at'[q] = at[q]
          /\ vals'[r] = vals[r] \/ vals'[r] = vals[r] \cup {r}
        BY <1>3 DEF TypeOK, Handle, Finish, Go
    <2>2. r \notin dead
        BY <2>1 DEF ValueInv, Past
    <2> QED BY <2>1, <2>2 DEF CleanLogoutIsFinal
<1>4. ASSUME NEW r \in Requests, SetSession(r) PROVE CleanLogoutIsFinal'
    <2>1. PICK i \in Ids : /\ store' = [store EXCEPT ![i] = vals[r]] \/ store' = store
                           /\ at'[r] \in {"encode", "done"}
        BY <1>4, SetSessionFacts DEF TypeOK
    <2>2. /\ UNCHANGED <<vals, dead>> /\ vals[r] \cap dead = {}
          /\ \A q \in Requests : q # r => at'[q] = at[q]
        BY <1>4 DEF TypeOK, SetSession, CleanLogoutIsFinal, Go, Finish
    <2> QED BY <2>1, <2>2 DEF TypeOK, CleanLogoutIsFinal
<1>5. ASSUME NEW r \in Requests, Encode(r) \/ Reply(r) PROVE CleanLogoutIsFinal'
    <2>1. /\ UNCHANGED <<store, vals, dead>> /\ at'[r] \in {"reply", "done"}
          /\ \A q \in Requests : q # r => at'[q] = at[q]
        BY <1>5 DEF TypeOK, Encode, Reply, Go, Finish
    <2> QED BY <2>1 DEF CleanLogoutIsFinal
<1>6. ASSUME NEW r \in Requests, DelSession(r) PROVE CleanLogoutIsFinal'
    <2>1. /\ UNCHANGED vals /\ sid[r] \in Ids /\ at'[r] = "reply"
          /\ \A q \in Requests : q # r => at'[q] = at[q]
        BY <1>6, IdInUse DEF TypeOK, DelSession, Go
    <2>2. CASE store' = [store EXCEPT ![sid[r]] = None] /\ dead' = dead \cup Killed(r, sid[r])
        <3> DEFINE k == Killed(r, sid[r])
        <3>1. k = {} \/ (store[sid[r]] # None /\ k = store[sid[r]])
            BY DEF Killed
        <3>2. \A i \in Ids : store'[i] # None => i # sid[r] /\ store'[i] = store[i]
            BY <2>1, <2>2 DEF TypeOK
        \* The values under two IDs are those of different requests.
        <3>3. \A i \in Ids : store'[i] # None => store'[i] \cap k = {}
            BY <2>1, <3>1, <3>2 DEF ValueInv
        <3>4. \A q \in Requests \ {r} : at[q] \in {"handle", "set"} => vals[q] \cap k = {}
            BY DEF Killed, HasCopy
        <3> HIDE DEF k
        <3>5. dead' = dead \cup k
            BY <2>2 DEF k
        <3> QED BY <2>1, <3>2, <3>3, <3>4, <3>5 DEF CleanLogoutIsFinal
    <2>3. CASE UNCHANGED <<store, dead>>
        BY <2>1, <2>3 DEF CleanLogoutIsFinal
    <2> QED BY <1>6, <2>2, <2>3 DEF DelSession
<1>7. ASSUME NEW i \in Ids, Expire(i) PROVE CleanLogoutIsFinal'
    BY <1>7 DEF TypeOK, CleanLogoutIsFinal, Expire
<1>8. CASE UNCHANGED vars
    BY <1>8 DEF CleanLogoutIsFinal, vars
<1> QED BY <1>1, <1>2, <1>3, <1>4, <1>5, <1>6, <1>7, <1>8 DEF Next
-------------------------------------------------------------------------------
(* A browser that nothing disturbs.                                          *)

\* What has disturbed a browser is not forgotten.
LEMMA CleanWas ==
    ASSUME TypeOK, RequestInv, [Next]_vars, NEW b \in Browsers, Clean(b)'
    PROVE  Clean(b)
<1> USE SessionAssumption DEF reqVars, histVars, Clean, Mine
<1>1. ASSUME NEW r \in Requests, NEW c \in Browsers, NEW o \in Ops, Send(r, c, o)
      PROVE  Clean(b)
    <2>1. /\ browser[r] # b /\ b \notin overlapped /\ UNCHANGED <<struck, ended>>
          /\ \A q \in Requests : q # r =>
                 browser'[q] = browser[q] /\ op'[q] = op[q] /\ sid'[q] = sid[q]
        BY <1>1 DEF TypeOK, RequestInv, Send
    <2> QED BY <2>1
<1>2. ASSUME NEW r \in Requests, SetSession(r) PROVE Clean(b)
    <2>1. PICK i \in Ids : /\ sid[r] # None => i = sid[r]
                           /\ sid' = [sid EXCEPT ![r] = i]
        BY <1>2, SetSessionFacts
    <2>2. /\ UNCHANGED <<browser, op, ended, overlapped>> /\ struck \subseteq struck'
        BY <1>2 DEF SetSession, Strike
    <2>3. ended \subseteq Ids
        BY DEF TypeOK
    <2>4. \A q \in Requests : sid[q] \in ended => sid'[q] = sid[q]
        BY <2>1, <2>3 DEF TypeOK
    <2> QED BY <2>2, <2>4
<1>3. CASE /\ UNCHANGED <<browser, op, sid, overlapped>>
           /\ struck \subseteq struck' /\ ended \subseteq ended'
    BY <1>3
<1> QED
    BY <1>1, <1>2, <1>3
    DEF Next, Load, Handle, Encode, DelSession, Reply, Expire, Strike, vars

\* A step that touches neither the browser's requests nor its cookie, nor what is
\* stored under their IDs, does not touch KeepsAll.
LEMMA KeepsAllFrame ==
    ASSUME NEW b \in Browsers, KeepsAll(b), cfg' = cfg, jar'[b] = jar[b],
           Mine(b)' = Mine(b),
           \A p \in Mine(b) : /\ at'[p] = at[p] /\ op'[p] = op[p] /\ sid'[p] = sid[p]
                              /\ vals'[p] = vals[p] /\ result'[p] = result[p]
                              /\ at[p] \in Past \ {"done"} => store'[sid[p]] = store[sid[p]],
           jar[b] # None => store'[jar[b]] = store[jar[b]]
    PROVE  KeepsAll(b)'
<1>1. Active(b)' = Active(b) /\ Active(b) \subseteq Mine(b)
    BY DEF Active, Mine
<1>2. Saved(b)' = Saved(b)
    BY DEF Saved
<1>3. CodecWorks' = CodecWorks
    BY DEF CodecWorks
<1>4. \A p \in Active(b) : at[p] # "done"
    BY DEF Active
<1> QED BY <1>1, <1>2, <1>3, <1>4 DEF KeepsAll

\* A handling step moves one request and no other.
LEMMA OneRequestMoves ==
    ASSUME TypeOK, NEW r \in Requests,
           \/ Load(r) \/ Handle(r) \/ SetSession(r) \/ Encode(r) \/ DelSession(r) \/ Reply(r)
    PROVE  /\ UNCHANGED <<cfg, op, browser>>
           /\ \A q \in Requests : q # r => /\ at'[q] = at[q] /\ sid'[q] = sid[q]
                                           /\ vals'[q] = vals[q] /\ result'[q] = result[q]
<1> USE DEF reqVars
<1>1. CASE Load(r) \/ Handle(r) \/ Encode(r)
    BY <1>1 DEF TypeOK, Load, Handle, Encode, Go, Finish
<1>2. CASE SetSession(r)
    BY <1>2 DEF TypeOK, SetSession, Go, Finish
<1>3. CASE DelSession(r) \/ Reply(r)
    BY <1>3 DEF TypeOK, DelSession, Reply, Go, Finish
<1> QED BY <1>1, <1>2, <1>3

\* The requests of other browsers leave a browser alone: they carry other IDs.
LEMMA OthersLeaveAlone ==
    ASSUME TypeOK, RequestInv, OwnerInv, NEW b \in Browsers, Clean(b), KeepsAll(b),
           NEW r \in Requests, browser[r] # b,
           \/ Load(r) \/ Handle(r) \/ SetSession(r) \/ Encode(r) \/ DelSession(r) \/ Reply(r)
    PROVE  KeepsAll(b)'
<1> USE SessionAssumption DEF reqVars, histVars
<1>1. /\ UNCHANGED <<cfg, op, browser>>
      /\ \A q \in Requests : q # r => /\ at'[q] = at[q] /\ sid'[q] = sid[q]
                                      /\ vals'[q] = vals[q] /\ result'[q] = result[q]
    BY OneRequestMoves
<1>2. jar'[b] = jar[b]
    <2>1. CASE Reply(r)
        BY <2>1 DEF TypeOK, Reply
    <2> QED BY <2>1 DEF Load, Handle, SetSession, Encode, DelSession
<1>3. \A i \in Ids : i # None /\ (i = jar[b] \/ \E p \in Mine(b) : sid[p] = i)
          => store'[i] = store[i]
    <2> SUFFICES ASSUME NEW i \in Ids, i # None, i = jar[b] \/ \E p \in Mine(b) : sid[p] = i
                 PROVE  store'[i] = store[i]
        OBVIOUS
    <2>1. \E p \in Requests : sid[p] = i
        BY DEF OwnerInv, Mine
    <2>2. sid[r] # i
        BY DEF OwnerInv, Mine
    <2>3. CASE SetSession(r)
        <3>1. PICK j \in Ids : /\ sid[r] # None => j = sid[r]
                               /\ sid[r] = None => \A q \in Requests : sid[q] # j
                               /\ store' = [store EXCEPT ![j] = vals[r]] \/ store' = store
            BY <2>3, SetSessionFacts
        <3>2. j # i
            BY <2>1, <2>2, <3>1
        <3> QED BY <3>1, <3>2 DEF TypeOK
    <2>4. CASE DelSession(r)
        BY <2>2, <2>4 DEF TypeOK, DelSession
    <2> QED BY <2>3, <2>4 DEF Load, Handle, Encode, Reply
<1>4. \A p \in Mine(b) : p \in Requests /\ p # r
    BY DEF Mine
<1>5. Mine(b)' = Mine(b)
    BY <1>1 DEF Mine
<1>6. \A p \in Mine(b) : at[p] \in Past \ {"done"} => store'[sid[p]] = store[sid[p]]
    <2> SUFFICES ASSUME NEW p \in Mine(b), at[p] \in Past \ {"done"}
                 PROVE  store'[sid[p]] = store[sid[p]]
        OBVIOUS
    <2>1. op[p] # "logout"
        BY DEF Clean
    <2>2. sid[p] \in Ids /\ sid[p] # None
        BY <1>4, <2>1 DEF TypeOK, RequestInv, Past
    <2> QED BY <1>3, <2>2
<1>7. jar[b] # None => store'[jar[b]] = store[jar[b]]
    BY <1>3 DEF TypeOK
<1> QED BY <1>1, <1>2, <1>4, <1>5, <1>6, <1>7, KeepsAllFrame

\* The browser's own request: it loads what is saved, adds itself, and is saved.
LEMMA OwnRequest ==
    ASSUME TypeOK, RequestInv, OwnerInv, ValueInv, NEW b \in Browsers,
           Clean(b), Clean(b)', KeepsAll(b),
           NEW r \in Requests, browser[r] = b,
           \/ Load(r) \/ Handle(r) \/ SetSession(r) \/ Encode(r) \/ DelSession(r) \/ Reply(r)
    PROVE  KeepsAll(b)'
<1> USE SessionAssumption DEF reqVars, histVars
<1>0. /\ r \in Active(b) /\ \A q \in Active(b) : q = r
      /\ r \in Mine(b) /\ op[r] # "logout"
    <2>1. at[r] \notin {"idle", "done"}
        BY DEF Load, Handle, SetSession, Encode, DelSession, Reply
    <2>2. r \in Active(b) /\ r \in Mine(b)
        BY <2>1 DEF Active, Mine
    <2> QED BY <2>2 DEF KeepsAll, Clean
<1>1. /\ UNCHANGED <<cfg, op, browser>>
      /\ \A q \in Requests : q # r => /\ at'[q] = at[q] /\ sid'[q] = sid[q]
                                      /\ vals'[q] = vals[q] /\ result'[q] = result[q]
      /\ r \notin struck' /\ Mine(b)' = Mine(b) /\ CodecWorks' = CodecWorks
    <2>1. /\ UNCHANGED <<cfg, op, browser>>
          /\ \A q \in Requests : q # r => /\ at'[q] = at[q] /\ sid'[q] = sid[q]
                                          /\ vals'[q] = vals[q] /\ result'[q] = result[q]
        BY OneRequestMoves
    <2>2. Mine(b)' = Mine(b) /\ CodecWorks' = CodecWorks
        BY <2>1 DEF Mine, CodecWorks
    <2>3. r \notin struck'
        BY <1>0, <2>2 DEF Clean
    <2> QED BY <2>1, <2>2, <2>3
<1>2. Active(b)' = IF at'[r] \in {"idle", "done"} THEN {} ELSE {r}
    <2>1. \A q \in Requests : q # r /\ browser[q] = b => at[q] \in {"idle", "done"}
        BY <1>0 DEF Active
    <2> QED BY <1>0, <1>1, <2>1 DEF Active
<1>3. Saved(b) \subseteq Requests /\ Saved(b) # None /\ r \notin Saved(b)
    <2>1. result[r] = "none"
        BY <1>0 DEF RequestInv, Active
    <2>2. Saved(b) \in SUBSET Requests
        BY DEF Saved, Mine
    <2> QED BY <2>1, <2>2 DEF Saved
<1>4. Saved(b)' = IF result'[r] = "ok" /\ op[r] \in {"login", "touch"}
                  THEN Saved(b) \cup {r} ELSE Saved(b)
    BY <1>0, <1>1, <1>3 DEF Saved, Mine
<1>5. CASE Load(r)
    <2>1. /\ at[r] = "load" /\ sid[r] # None /\ sid[r] = jar[b] /\ result[r] = "none"
        BY <1>0, <1>5, IdInUse DEF KeepsAll, RequestInv, Load, Past
    <2>2. store[sid[r]] = Saved(b)
        BY <1>0, <2>1 DEF KeepsAll, Past
    <2>3. /\ vals'[r] = Saved(b) /\ at'[r] = "handle"
          /\ UNCHANGED <<store, jar, sid, result>>
        BY <1>1, <1>3, <1>5, <2>2 DEF TypeOK, Load, Strike, Go
    <2> QED BY <1>1, <1>2, <1>4, <2>1, <2>2, <2>3 DEF KeepsAll, Past
<1>6. CASE Handle(r)
    <2>1. /\ at[r] = "handle" /\ sid[r] = jar[b] /\ vals[r] = Saved(b)
          /\ UNCHANGED <<store, jar, sid>>
          /\ jar[b] # None => store[jar[b]] = Saved(b)
        BY <1>0, <1>6 DEF KeepsAll, Handle, Past
    <2>2. \/ at'[r] = "done" /\ op[r] \notin {"login", "touch"}
          \/ at'[r] = "done" /\ result'[r] = "unauthorized"
          \/ at'[r] = "set" /\ vals'[r] = Saved(b) \cup {r} /\ result'[r] = result[r]
        BY <1>0, <1>6, <2>1 DEF TypeOK, Handle, Go, Finish
    <2>3. result[r] = "none"
        BY <2>1 DEF RequestInv
    <2>4. Saved(b)' = Saved(b)
        BY <1>4, <2>2, <2>3
    <2> QED BY <1>1, <1>2, <2>1, <2>2, <2>4 DEF KeepsAll, Past
<1>7. CASE SetSession(r)
    <2>1. /\ at[r] = "set" /\ sid[r] = jar[b] /\ vals[r] = Saved(b) \cup {r}
          /\ result[r] = "none"
        BY <1>0, <1>7 DEF KeepsAll, SetSession, RequestInv, Past
    <2>2. PICK i \in Ids :
              /\ i # None
              /\ sid[r] # None => i = sid[r]
              /\ sid' = [sid EXCEPT ![r] = i]
              /\ store' = [store EXCEPT ![i] = vals[r]]
              /\ at' = [at EXCEPT ![r] = "encode"]
              /\ UNCHANGED <<jar, result>>
        <3>1. PICK i \in IdsFor(r) :
                  /\ sid' = [sid EXCEPT ![r] = i]
                  /\ store' = [store EXCEPT ![i] = vals[r]]
                  /\ Go(r, "encode") /\ UNCHANGED <<result, struck, faults>>
            BY <1>1, <1>7 DEF SetSession, Strike
        <3> QED BY <1>7, <3>1, IdsForFacts DEF Go, SetSession
    <2>3. sid'[r] = i /\ store'[i] = Saved(b) \cup {r} /\ at'[r] = "encode"
        BY <2>1, <2>2 DEF TypeOK
    <2> QED BY <1>1, <1>2, <1>4, <2>1, <2>2, <2>3 DEF KeepsAll, Past
<1>8. CASE Encode(r)
    <2>1. /\ at[r] = "encode" /\ store[sid[r]] = Saved(b) \cup {r}
          /\ sid[r] = jar[b] \/ jar[b] = None
        BY <1>0, <1>8 DEF KeepsAll, Encode, Past
    <2>2. /\ UNCHANGED <<store, jar, sid>>
          /\ \/ CodecWorks /\ at'[r] = "reply" /\ result'[r] = result[r]
             \/ ~CodecWorks /\ at'[r] = "done" /\ result'[r] = "error"
        BY <1>8 DEF TypeOK, Encode, Go, Finish
    <2>3. result[r] = "none"
        BY <2>1 DEF RequestInv
    <2>4. Saved(b)' = Saved(b)
        BY <1>4, <2>2, <2>3
    <2> QED BY <1>1, <1>2, <2>1, <2>2, <2>4 DEF KeepsAll, Past
<1>9. CASE Reply(r)
    <2>1. /\ at[r] = "reply" /\ store[sid[r]] = Saved(b) \cup {r}
          /\ op[r] \in {"login", "touch"} /\ sid[r] # None /\ CodecWorks
        BY <1>0, <1>9 DEF KeepsAll, Reply, RequestInv, Past
    <2>2. /\ UNCHANGED store /\ jar'[b] = sid[r] /\ sid' = sid
          /\ at'[r] = "done" /\ result'[r] = "ok"
        BY <1>0, <1>1, <1>9 DEF TypeOK, Reply, Strike, Finish, Go
    <2>3. Saved(b)' = Saved(b) \cup {r}
        BY <1>4, <2>1, <2>2
    <2> QED BY <1>1, <1>2, <2>1, <2>2, <2>3 DEF KeepsAll
<1>10. ~DelSession(r)
    BY <1>0 DEF KeepsAll, DelSession
<1> QED BY <1>5, <1>6, <1>7, <1>8, <1>9, <1>10

\* A browser sends its next request when it has the answer to the one before.
LEMMA NextRequest ==
    ASSUME TypeOK, RequestInv, OwnerInv, ValueInv, NEW b \in Browsers,
           Clean(b)', KeepsAll(b),
           NEW r \in Requests, NEW c \in Browsers, NEW o \in Ops, Send(r, c, o)
    PROVE  KeepsAll(b)'
<1> USE SessionAssumption DEF reqVars, histVars
<1>1. /\ at[r] = "idle" /\ browser[r] = None /\ result[r] = "none" /\ vals[r] = {}
      /\ UNCHANGED <<cfg, store, jar, vals, result>> /\ browser'[r] = c
      /\ \A q \in Requests : q # r => /\ at'[q] = at[q] /\ sid'[q] = sid[q]
                                      /\ op'[q] = op[q] /\ browser'[q] = browser[q]
    BY DEF TypeOK, RequestInv, Send, Go
<1>2. r \notin Mine(b) /\ \A p \in Mine(b) : p \in Requests
    BY <1>1 DEF Mine
<1>3. CASE c # b
    <2>1. Mine(b)' = Mine(b)
        BY <1>1, <1>3 DEF Mine
    <2> QED BY <1>1, <1>2, <2>1, KeepsAllFrame
<1>4. CASE c = b
    <2>1. Active(b) = {}
        BY <1>4 DEF Clean, Send
    <2>2. Active(b)' = {r}
        <3>1. at'[r] \in {"handle", "load"}
            BY DEF TypeOK, Send, Go
        <3>2. \A q \in Requests : q # r /\ browser[q] = b => at[q] \in {"idle", "done"}
            BY <2>1 DEF Active
        <3> QED BY <1>1, <1>4, <3>1, <3>2 DEF Active
    <2>3. Saved(b)' = Saved(b)
        BY <1>1, <1>2 DEF Saved, Mine
    <2>4. CodecWorks' = CodecWorks
        BY <1>1 DEF CodecWorks
    <2>5. \/ at'[r] = "handle" /\ sid'[r] = None /\ jar[b] = None
          \/ at'[r] = "load" /\ sid'[r] = jar[b] /\ jar[b] # None
        BY <1>4 DEF TypeOK, KeepsAll, Send, Go
    <2> QED BY <1>1, <2>1, <2>2, <2>3, <2>4, <2>5 DEF KeepsAll, Past
<1> QED BY <1>3, <1>4

\* Nothing that an undisturbed browser has saved is lost.
LEMMA CleanStep ==
    TypeOK /\ RequestInv /\ OwnerInv /\ ValueInv /\ CleanInv /\ [Next]_vars => CleanInv'
<1> SUFFICES ASSUME TypeOK, RequestInv, OwnerInv, ValueInv, CleanInv, [Next]_vars,
                    NEW b \in Browsers, Clean(b)'
             PROVE  KeepsAll(b)'
    BY DEF CleanInv
<1>0. Clean(b) /\ KeepsAll(b)
    BY CleanWas DEF CleanInv
<1>1. ASSUME NEW r \in Requests, NEW c \in Browsers, NEW o \in Ops, Send(r, c, o)
      PROVE  KeepsAll(b)'
    BY <1>0, <1>1, NextRequest
<1>2. ASSUME NEW r \in Requests,
             \/ Load(r) \/ Handle(r) \/ SetSession(r) \/ Encode(r) \/ DelSession(r) \/ Reply(r)
      PROVE  KeepsAll(b)'
    BY <1>0, <1>2, OthersLeaveAlone, OwnRequest
<1>3. ASSUME NEW i \in Ids, Expire(i) PROVE KeepsAll(b)'
    <2>1. /\ UNCHANGED <<cfg, jar, reqVars>> /\ i \in ended'
          /\ \A j \in Ids : j # i => store'[j] = store[j]
        BY <1>3 DEF TypeOK, Expire
    <2>2. Mine(b)' = Mine(b) /\ \A p \in Mine(b) : p \in Requests /\ sid[p] # i
        BY <2>1 DEF Clean, Mine, reqVars
    <2>3. jar[b] # None => jar[b] \in Ids /\ jar[b] # i
        <3> SUFFICES ASSUME jar[b] # None PROVE jar[b] \in Ids /\ jar[b] # i
            OBVIOUS
        <3>1. PICK p \in Requests : sid[p] = jar[b] /\ browser[p] = b
            BY DEF OwnerInv
        <3> QED BY <2>2, <3>1 DEF TypeOK, Mine
    <2>4. \A p \in Mine(b) : at[p] \in Past \ {"done"} => store'[sid[p]] = store[sid[p]]
        <3> SUFFICES ASSUME NEW p \in Mine(b), at[p] \in Past \ {"done"}
                     PROVE  store'[sid[p]] = store[sid[p]]
            OBVIOUS
        <3>1. op[p] # "logout"
            BY <1>0 DEF Clean
        <3>2. sid[p] \in Ids
            BY <2>2, <3>1 DEF TypeOK, RequestInv, Past
        <3> QED BY <2>1, <2>2, <3>2
    <2> QED BY <1>0, <2>1, <2>2, <2>3, <2>4, KeepsAllFrame DEF reqVars
<1>4. CASE UNCHANGED vars
    BY <1>0, <1>4 DEF KeepsAll, Active, Saved, Mine, CodecWorks, vars, reqVars
<1> QED BY <1>1, <1>2, <1>3, <1>4 DEF Next
-------------------------------------------------------------------------------
(* Losses, and a key that cannot be used.                                    *)

\* A request that starts while another of its browser is under way is noted.
LEMMA OverlapStep == IInv /\ OverlapInv /\ [Next]_vars => OverlapInv'
<1> SUFFICES ASSUME IInv, OverlapInv, [Next]_vars PROVE OverlapInv'
    OBVIOUS
<1>0. TypeOK /\ RequestInv
    BY DEF IInv
<1>1. overlapped \subseteq overlapped'
    BY DEF Next, Send, Load, Handle, SetSession, Encode, DelSession, Reply, Expire, vars,
           histVars
<1>2. ASSUME NEW r \in Requests, NEW b \in Browsers, NEW o \in Ops, Send(r, b, o)
      PROVE  OverlapInv'
    <2>1. /\ browser'[r] = b
          /\ \A q \in Requests : q # r => browser'[q] = browser[q] /\ at'[q] = at[q]
        BY <1>0, <1>2 DEF TypeOK, Send, Go
    <2>2. ASSUME NEW q \in Requests, q # r, browser[q] = b, at[q] \notin {"idle", "done"}
          PROVE  b \in overlapped'
        BY <1>2, <2>2 DEF Send, Active
    <2> QED BY <1>1, <2>1, <2>2 DEF OverlapInv
<1>3. ASSUME NEW r \in Requests,
             Load(r) \/ Handle(r) \/ SetSession(r) \/ Encode(r) \/ DelSession(r) \/ Reply(r)
      PROVE  OverlapInv'
    <2>1. /\ browser' = browser
          /\ \A q \in Requests : q # r => at'[q] = at[q]
        BY <1>0, <1>3, OneRequestMoves
    <2>2. at[r] \notin {"idle", "done"}
        BY <1>3 DEF Load, Handle, SetSession, Encode, DelSession, Reply
    <2> QED BY <1>1, <2>1, <2>2 DEF OverlapInv
<1>4. CASE UNCHANGED <<browser, at>>
    BY <1>1, <1>4 DEF OverlapInv
<1> QED BY <1>2, <1>3, <1>4 DEF Next, Expire, vars, reqVars

\* A save changes what is stored under one ID, which its request has or nobody has.
LEMMA SaveFacts ==
    ASSUME IInv, NEW r \in Requests, SetSession(r)
    PROVE  /\ \A q \in Requests : q # r => at'[q] = at[q] /\ sid'[q] = sid[q] /\ vals'[q] = vals[q]
           /\ at[r] = "set" /\ at'[r] \notin {"handle", "set"}
           /\ browser' = browser
           /\ \A i \in Ids : i # sid[r] /\ store[i] # None => store'[i] = store[i]
           /\ \A q \in Requests : q # r /\ sid[q] # sid[r] /\ sid[q] # None
                  => store'[sid[q]] = store[sid[q]]
           /\ sid[r] # None => store'[sid[r]] \in {store[sid[r]], vals[r]}
<1>0. TypeOK /\ ValueInv
    BY DEF IInv
<1>1. PICK i \in IdsFor(r) :
               /\ i \in Ids /\ i # None
               /\ sid[r] # None => i = sid[r]
               /\ sid[r] = None => \A q \in Requests : sid[q] # i
               /\ store' \in {store, [store EXCEPT ![i] = vals[r]]}
               /\ \E p \in {"encode", "done"} : at' = [at EXCEPT ![r] = p]
    BY <1>0, SetSessionFacts
<1>2. \A j \in Ids : j # i => store'[j] = store[j]
    BY <1>0, <1>1 DEF TypeOK
<1>3. sid[r] = None => store[i] = None
    BY <1>0, <1>1 DEF ValueInv
<1>4. store'[i] \in {store[i], vals[r]}
    BY <1>0, <1>1 DEF TypeOK
<1>5. \A q \in Requests : sid[q] # None => sid[q] \in Ids
    BY <1>0 DEF TypeOK
<1>6. at[r] = "set" /\ at'[r] \notin {"handle", "set"}
    BY <1>0, <1>1 DEF TypeOK, SetSession
<1>7. /\ browser' = browser
      /\ \A q \in Requests : q # r => at'[q] = at[q] /\ sid'[q] = sid[q] /\ vals'[q] = vals[q]
    BY <1>0, OneRequestMoves
<1>8. \A q \in Requests : sid[q] # sid[r] => sid[q] # i
    BY <1>1
<1> QED BY <1>1, <1>2, <1>3, <1>4, <1>5, <1>6, <1>7, <1>8

\* Whatever is stored behind the back of a request that has loaded is stored by a
\* request that overlaps it.
LEMMA CopyStep == IInv /\ OverlapInv /\ CopyInv /\ [Next]_vars => CopyInv'
<1> SUFFICES ASSUME IInv, OverlapInv, CopyInv, [Next]_vars,
                    NEW q \in Requests, at'[q] \in {"handle", "set"}, sid'[q] # None,
                    store'[sid'[q]] # None
             PROVE  \/ store'[sid'[q]] \subseteq vals'[q]
                    \/ q \in struck' \/ browser'[q] \in overlapped'
    BY DEF CopyInv
<1> DEFINE Goal == \/ store'[sid'[q]] \subseteq vals'[q]
                   \/ q \in struck' \/ browser'[q] \in overlapped'
<1> HIDE DEF Goal
<1>0. TypeOK /\ RequestInv /\ OwnerInv
    BY DEF IInv
<1>1. overlapped \subseteq overlapped' /\ struck \subseteq struck'
    BY DEF Next, Send, Load, Handle, SetSession, Encode, DelSession, Reply, Expire, vars,
           histVars, Strike
\* A step that leaves the request and its session alone keeps what it has.
<1>2. ASSUME at'[q] = at[q], sid'[q] = sid[q], vals'[q] = vals[q], browser'[q] = browser[q],
             store'[sid[q]] = store[sid[q]]
      PROVE  Goal
    BY <1>1, <1>2 DEF CopyInv, Goal
<1>3. ASSUME NEW r \in Requests, NEW b \in Browsers, NEW o \in Ops, Send(r, b, o)
      PROVE  Goal
    <2>1. q # r
        BY <1>0, <1>3 DEF TypeOK, Send, Go
    <2>2. /\ at'[q] = at[q] /\ sid'[q] = sid[q] /\ browser'[q] = browser[q]
          /\ vals'[q] = vals[q] /\ store' = store
        BY <1>0, <1>3, <2>1 DEF TypeOK, Send, Go
    <2> QED BY <1>2, <2>2
<1>4. ASSUME NEW r \in Requests, Load(r) PROVE Goal
    <2>1. CASE q = r
        <3>1. q \in struck' \/ (sid' = sid /\ store' = store /\ vals'[q] =
                                    IF store[sid[q]] = None THEN {} ELSE store[sid[q]])
            BY <1>0, <1>4, <2>1 DEF TypeOK, Load, Strike
        <3> QED BY <3>1 DEF Goal
    <2>2. CASE q # r
        <3>1. store' = store
            BY <1>4 DEF Load
        <3> QED BY <1>0, <1>2, <1>4, <2>2, <3>1, OneRequestMoves
    <2> QED BY <2>1, <2>2
<1>5. ASSUME NEW r \in Requests, Handle(r) PROVE Goal
    <2>1. store' = store /\ sid' = sid /\ browser' = browser
        BY <1>5 DEF Handle
    <2>2. CASE q = r
        <3>1. at[q] = "handle" /\ vals[q] \subseteq vals'[q]
            BY <1>0, <1>5, <2>2 DEF TypeOK, Handle
        <3> QED BY <1>1, <2>1, <3>1 DEF CopyInv, Goal
    <2>3. CASE q # r
        BY <1>0, <1>2, <1>5, <2>1, <2>3, OneRequestMoves
    <2> QED BY <2>2, <2>3
<1>6. ASSUME NEW r \in Requests, SetSession(r) PROVE Goal
    <2>1. q # r
        BY <1>6, SaveFacts
    <2>2. at'[q] = at[q] /\ sid'[q] = sid[q] /\ vals'[q] = vals[q] /\ browser' = browser
        BY <1>6, <2>1, SaveFacts
    <2>3. CASE sid[q] # sid[r]
        <3>1. store'[sid[q]] = store[sid[q]]
            BY <1>6, <2>1, <2>2, <2>3, SaveFacts
        <3> QED BY <1>2, <2>2, <3>1
    <2>4. CASE sid[q] = sid[r]
        <3>1. browser[q] = browser[r]
            BY <1>0, <2>2, <2>4 DEF OwnerInv
        <3>2. browser[q] \in overlapped
            BY <1>6, <2>1, <2>2, <3>1, SaveFacts DEF OverlapInv
        <3> QED BY <1>1, <2>2, <3>2 DEF Goal
    <2> QED BY <2>3, <2>4
<1>7. ASSUME NEW r \in Requests, Encode(r) \/ DelSession(r) \/ Reply(r) PROVE Goal
    <2>1. q # r
        BY <1>0, <1>7 DEF TypeOK, Encode, DelSession, Reply, Go, Finish
    <2>2. at'[q] = at[q] /\ sid'[q] = sid[q] /\ vals'[q] = vals[q] /\ browser' = browser
        BY <1>0, <1>7, <2>1, OneRequestMoves
    <2>3. store'[sid[q]] = store[sid[q]]
        BY <1>0, <1>7, <2>2 DEF TypeOK, Encode, DelSession, Reply
    <2> QED BY <1>2, <2>2, <2>3
<1>8. ASSUME NEW i \in Ids, Expire(i) PROVE Goal
    <2>1. UNCHANGED <<at, sid, vals, browser>>
        BY <1>8 DEF Expire, reqVars
    <2>2. store'[sid[q]] = store[sid[q]]
        BY <1>0, <1>8, <2>1 DEF TypeOK, Expire
    <2> QED BY <1>2, <2>1, <2>2
<1>9. ASSUME UNCHANGED vars PROVE Goal
    <2>1. UNCHANGED <<store, at, sid, vals, browser>>
        BY <1>9 DEF vars, reqVars
    <2> QED BY <1>2, <2>1
<1>10. Goal
    BY <1>3, <1>4, <1>5, <1>6, <1>7, <1>8, <1>9 DEF Next
<1> QED BY <1>10 DEF Goal

\* Nothing is ever loaded under a key that cannot be used.
LEMMA LockStep == IInv /\ LockInv /\ UselessKeyLocksOut /\ [Next]_vars
                      => LockInv' /\ UselessKeyLocksOut'
<1> SUFFICES ASSUME IInv, LockInv, UselessKeyLocksOut, [Next]_vars
             PROVE  LockInv' /\ UselessKeyLocksOut'
    OBVIOUS
<1>a. cfg' = cfg
    BY DEF Next, Send, Load, Handle, SetSession, Encode, DelSession, Reply, Expire, vars
<1>b. CodecWorks' = CodecWorks
    BY <1>a DEF CodecWorks
<1> SUFFICES ASSUME ~CodecWorks PROVE LockInv' /\ UselessKeyLocksOut'
    BY <1>b DEF LockInv, UselessKeyLocksOut
<1>0. /\ TypeOK /\ RequestInv
      /\ \A r \in Requests : at[r] # "load" /\ (at[r] = "handle" => vals[r] = {})
      /\ \A r \in Requests : result[r] = "ok" => op[r] = "logout"
      /\ \A b \in Browsers : jar[b] = None
    BY DEF IInv, LockInv, UselessKeyLocksOut
<1> DEFINE Goal == /\ \A r \in Requests : at'[r] # "load" /\ (at'[r] = "handle" => vals'[r] = {})
                   /\ \A r \in Requests : result'[r] = "ok" => op'[r] = "logout"
                   /\ \A b \in Browsers : jar'[b] = None
<1> HIDE DEF Goal
<1>1. ASSUME NEW r \in Requests, NEW b \in Browsers, NEW o \in Ops, Send(r, b, o)
      PROVE  Goal
    <2>1. at' = [at EXCEPT ![r] = "handle"] /\ UNCHANGED <<jar, vals, result>>
        BY <1>1 DEF Send, Go
    <2>2. vals[r] = {} /\ result[r] = "none"
        BY <1>0, <1>1 DEF RequestInv, Send
    <2>3. \A q \in Requests : q # r => at'[q] = at[q] /\ op'[q] = op[q]
        BY <1>0, <1>1, <2>1 DEF TypeOK, Send
    <2> QED BY <1>0, <2>1, <2>2, <2>3 DEF Goal
<1>2. ASSUME NEW r \in Requests, Handle(r) PROVE Goal
    <2>1. ~SignedIn(r)
        BY <1>0, <1>2 DEF SignedIn, Handle
    <2>2. at'[r] \notin {"load", "handle"} /\ result'[r] \in {result[r], "unauthorized"}
        BY <1>0, <1>2, <2>1 DEF TypeOK, Handle, Go, Finish
    <2>3. UNCHANGED <<op, jar>>
        BY <1>2 DEF Handle
    <2> QED BY <1>0, <1>2, <2>2, <2>3, OneRequestMoves DEF Goal
<1>3. ASSUME NEW r \in Requests, SetSession(r) \/ Encode(r) \/ DelSession(r) PROVE Goal
    <2>1. at'[r] \notin {"load", "handle"} /\ result'[r] \in {result[r], "error"}
        BY <1>0, <1>3 DEF TypeOK, SetSession, Encode, DelSession, Go, Finish
    <2>2. UNCHANGED <<op, jar>>
        BY <1>3 DEF SetSession, Encode, DelSession
    <2> QED BY <1>0, <1>3, <2>1, <2>2, OneRequestMoves DEF Goal
<1>4. ASSUME NEW r \in Requests, Reply(r) PROVE Goal
    <2>1. op[r] = "logout"
        BY <1>0, <1>4 DEF RequestInv, Reply
    <2>2. at'[r] \notin {"load", "handle"}
        BY <1>0, <1>4 DEF TypeOK, Reply, Finish, Go
    <2>3. op' = op /\ \A b \in Browsers : jar'[b] = None
        BY <1>0, <1>4, <2>1 DEF TypeOK, Reply
    <2> QED BY <1>0, <1>4, <2>1, <2>2, <2>3, OneRequestMoves DEF Goal
<1>5. ASSUME NEW r \in Requests, Load(r) PROVE FALSE
    BY <1>0, <1>5 DEF Load
<1>6. ASSUME UNCHANGED <<reqVars, jar>> PROVE Goal
    <2>1. UNCHANGED <<op, at, vals, result, jar>>
        BY <1>6 DEF reqVars
    <2> QED BY <1>0, <2>1 DEF Goal
<1>7. ASSUME NEW i \in Ids, Expire(i) PROVE Goal
    BY <1>6, <1>7 DEF Expire
<1>8. ASSUME UNCHANGED vars PROVE Goal
    BY <1>6, <1>8 DEF vars
<1>9. Goal
    BY <1>1, <1>2, <1>3, <1>4, <1>5, <1>7, <1>8 DEF Next
<1> QED BY <1>9 DEF Goal, LockInv, UselessKeyLocksOut
-------------------------------------------------------------------------------
(* The theorems.                                                             *)

\* The strengthening of the invariants holds in every reachable state.
THEOREM Invariance == Spec => []IInv
<1>1. Init => IInv
    <2> SUFFICES ASSUME Init PROVE IInv
        OBVIOUS
    <2> USE SessionAssumption
    <2>1. TypeOK
        BY DEF Init, TypeOK, Ops
    <2>2. RequestInv /\ OwnerInv /\ ValueInv /\ CookieInv /\ CookieHasSession
        BY DEF Init, RequestInv, OwnerInv, ValueInv, CookieInv, CookieHasSession
    <2>3. CleanLogoutIsFinal
        BY DEF Init, CleanLogoutIsFinal
    <2>4. \A b \in Browsers : Active(b) = {} /\ Saved(b) = {}
        <3>1. /\ \A r \in Requests : at[r] = "idle" /\ result[r] = "none"
            BY DEF Init
        <3> QED BY <3>1 DEF Active, Saved, Mine
    <2>5. CleanInv
        BY <2>4 DEF Init, CleanInv, KeepsAll
    <2> QED BY <2>1, <2>2, <2>3, <2>5 DEF IInv
<1>2. IInv /\ [Next]_vars => IInv'
    BY TypeStep, RequestStep, OwnerStep, ValueStep, CookieStep, CookieHasSessionStep,
       LogoutStep, CleanStep DEF IInv
<1> QED BY <1>1, <1>2, PTL DEF Spec

\* Every variable keeps its type, and only requests with an ID talk to Redis.
THEOREM TypeCorrect == Spec => []TypeOK
<1>1. IInv => TypeOK
    BY DEF IInv
<1> QED BY <1>1, Invariance, PTL

\* No browser's values ever get into another browser's request or session.
THEOREM SessionsAreSeparate == Spec => []SessionsDoNotMix
<1>1. IInv => SessionsDoNotMix
    <2> SUFFICES ASSUME IInv PROVE SessionsDoNotMix
        OBVIOUS
    <2>1. \A r \in Requests : \A q \in vals[r] : browser[q] = browser[r]
        BY DEF IInv, TypeOK, OwnerInv, ValueInv
    <2>2. ASSUME NEW b \in Browsers, jar[b] # None, store[jar[b]] # None, NEW q \in store[jar[b]]
          PROVE  browser[q] = b
        <3>1. jar[b] \in Ids
            BY <2>2 DEF IInv, TypeOK
        <3>2. q \in Requests /\ sid[q] = jar[b]
            BY <2>2, <3>1, StoreType DEF IInv, ValueInv
        <3> QED BY <2>2, <3>2 DEF IInv, OwnerInv
    <2> QED BY <2>1, <2>2 DEF SessionsDoNotMix
<1> QED BY <1>1, Invariance, PTL

\* A cookie without a session is one whose session expired or was deleted.
THEOREM CookiesHaveSessions == Spec => []CookieHasSession
<1>1. IInv => CookieHasSession
    BY DEF IInv
<1> QED BY <1>1, Invariance, PTL

\* What a clean logout has ended never comes back.
THEOREM LogoutsAreFinal == Spec => []CleanLogoutIsFinal
<1>1. IInv => CleanLogoutIsFinal
    BY DEF IInv
<1> QED BY <1>1, Invariance, PTL

\* A browser that nothing disturbs loses nothing that it has saved.
THEOREM NothingIsLost == Spec => []SequentialBrowserKeepsAll
<1>1. IInv => SequentialBrowserKeepsAll
    BY DEF IInv, CleanInv, SequentialBrowserKeepsAll, Clean, KeepsAll, Saved, Mine
<1> QED BY <1>1, Invariance, PTL

\* A save drops values of a session only after a failed load or an overlap: the part
\* of SaveOnlyAdds that the code keeps.
THEOREM LossesAreExplained == Spec => LossHasCause
<1> DEFINE Step ==
        \A i \in Ids : store[i] # None /\ store'[i] # None /\ ~(store[i] \subseteq store'[i]) =>
            \E r \in Requests :
                at[r] = "set" /\ sid[r] = i /\ (r \in struck \/ browser[r] \in overlapped)
<1>1. Init => OverlapInv /\ CopyInv
    BY DEF Init, OverlapInv, CopyInv
<1>2. IInv /\ OverlapInv /\ CopyInv /\ [Next]_vars => [Step]_vars
    <2> SUFFICES ASSUME IInv, CopyInv, [Next]_vars,
                        NEW i \in Ids, store[i] # None, store'[i] # None,
                        ~(store[i] \subseteq store'[i])
                 PROVE  \E r \in Requests :
                            at[r] = "set" /\ sid[r] = i /\ (r \in struck \/ browser[r] \in overlapped)
        OBVIOUS
    <2>1. ASSUME NEW r \in Requests, SetSession(r)
          PROVE  at[r] = "set" /\ sid[r] = i /\ (r \in struck \/ browser[r] \in overlapped)
        <3>1. at[r] = "set" /\ sid[r] = i
            BY <2>1, SaveFacts
        <3>2. i # None /\ store'[i] = vals[r]
            BY <2>1, <3>1, SaveFacts, SessionAssumption
        <3> QED BY <3>1, <3>2 DEF CopyInv
    <2>2. ASSUME NEW r \in Requests, DelSession(r) PROVE FALSE
        BY <2>2 DEF IInv, TypeOK, DelSession
    <2>3. ASSUME NEW j \in Ids, Expire(j) PROVE FALSE
        BY <2>3 DEF IInv, TypeOK, Expire
    <2>4. store' # store
        OBVIOUS
    <2> QED
        BY <2>1, <2>2, <2>3, <2>4
        DEF Next, Send, Load, Handle, Encode, Reply, vars
<1> QED BY <1>1, <1>2, OverlapStep, CopyStep, Invariance, PTL DEF Spec, LossHasCause

\* A key that AES cannot use lets nobody in, although ValidateForProduction accepts it.
THEOREM UselessKeysLockOut == Spec => []UselessKeyLocksOut
<1>1. Init => LockInv /\ UselessKeyLocksOut
    BY DEF Init, LockInv, UselessKeyLocksOut
<1> QED BY <1>1, LockStep, Invariance, PTL DEF Spec
===============================================================================
