----------------------------- MODULE SessionStore -----------------------------
(***************************************************************************)
(* Sessions in Redis (pkg/auth): RedisStore.New and Save and the RequireAuth*)
(* middleware, used by the concurrent requests of several browsers.  The   *)
(* values of a session are loaded, changed and stored as a whole; the cookie*)
(* only carries the session's ID.                                          *)
(*                                                                         *)
(* The repository has no login or logout handler yet: "login" and "touch"  *)
(* stand for any handler that changes values and saves, "logout" for one   *)
(* that saves with a negative MaxAge, "visit" for one that saves nothing.  *)
(***************************************************************************)
EXTENDS Naturals

CONSTANTS
    Browsers, Requests,
    Ids,           \* random session IDs
    None,
    Environments,  \* values of ENVIRONMENT to start with
    KeyLengths,    \* lengths of SESSION_ENCRYPTION_KEY to start with
    MaxFaults      \* bound: failed Redis commands and lost responses

ASSUME SessionAssumption ==
    /\ None \notin Browsers \cup Requests \cup Ids
    /\ \A v \in SUBSET Requests : v # None
    /\ KeyLengths \subseteq Nat /\ MaxFaults \in Nat

VARIABLES
    cfg,        \* the configuration: [env, key]
    store,      \* Redis: ID -> the requests whose values are stored, or None
    jar,        \* the ID in the cookie of a browser
    op, browser,\* what a request does and who sent it
    at,         \* where its handling is
    sid, vals,  \* session.ID and session.Values of the request
    result,
    ended,      \* history: IDs whose key expired or was deleted
    dead,       \* history: values logged out while nobody else had a copy
    struck,     \* history: requests that a fault has hit
    overlapped, \* history: browsers that had two requests under way
    faults

reqVars  == <<op, browser, at, sid, vals, result>>
histVars == <<ended, dead, struck, overlapped, faults>>
vars     == <<cfg, store, jar, reqVars, histVars>>

Ops == {"visit", "touch", "login", "logout"}

Init ==
    /\ cfg \in [env : Environments, key : KeyLengths]
    /\ store = [i \in Ids |-> None] /\ jar = [b \in Browsers |-> None]
    /\ op = [r \in Requests |-> "visit"] /\ browser = [r \in Requests |-> None]
    /\ at = [r \in Requests |-> "idle"] /\ result = [r \in Requests |-> "none"]
    /\ sid = [r \in Requests |-> None] /\ vals = [r \in Requests |-> {}]
    /\ ended = {} /\ dead = {} /\ struck = {} /\ overlapped = {} /\ faults = 0

\* config.ValidateForProduction; main exits if it fails.
ValidateForProduction == cfg.env = "production" => cfg.key >= 16

\* securecookie encodes and decodes nothing with a key AES cannot use.
CodecWorks == cfg.key \in {16, 24, 32}

Active(b) == {r \in Requests : browser[r] = b /\ at[r] \notin {"idle", "done"}}

Go(r, next) == at' = [at EXCEPT ![r] = next]

Finish(r, res) == Go(r, "done") /\ result' = [result EXCEPT ![r] = res]

Strike(r) ==
    /\ faults < MaxFaults
    /\ faults' = faults + 1
    /\ struck' = struck \cup {r}
-------------------------------------------------------------------------------
(* RedisStore.New and RequireAuth.                                           *)

\* A request arrives; without a cookie that can be decoded its session is new.
Send(r, b, o) ==
    LET c == IF CodecWorks THEN jar[b] ELSE None IN
    /\ at[r] = "idle" /\ ValidateForProduction
    /\ op' = [op EXCEPT ![r] = o]
    /\ browser' = [browser EXCEPT ![r] = b]
    /\ sid' = [sid EXCEPT ![r] = c]
    /\ Go(r, IF c = None THEN "handle" ELSE "load")
    /\ overlapped' = IF Active(b) = {} THEN overlapped ELSE overlapped \cup {b}
    /\ UNCHANGED <<cfg, store, jar, vals, result, ended, dead, struck, faults>>

LoadNothing(r) ==
    /\ at[r] = "load"
    /\ UNCHANGED <<vals, struck, faults>>
    /\ Go(r, "handle")
    /\ UNCHANGED <<cfg, store, jar, op, browser, sid, result, ended, dead, overlapped>>

\* GET; a key that is missing and a GET that fails both leave a session without
\* values that keeps its ID.
Load(r) ==
    /\ at[r] = "load"
    /\ \/ /\ vals' = [vals EXCEPT ![r] = IF store[sid[r]] = None THEN {} ELSE store[sid[r]]]
          /\ UNCHANGED <<struck, faults>>
       \/ Strike(r) /\ UNCHANGED vals
    /\ Go(r, "handle")
    /\ UNCHANGED <<cfg, store, jar, op, browser, sid, result, ended, dead, overlapped>>

\* The session has an org_id, which a login has put there.
SignedIn(r) == \E q \in vals[r] : op[q] = "login"

AlwaysDelete(r) ==
    /\ at[r] = "handle"
    /\ IF op[r] = "logout" THEN Go(r, "del") ELSE Go(r, "set")
    /\ vals' = [vals EXCEPT ![r] = IF op[r] = "logout" THEN @ ELSE @ \cup {r}]
    /\ UNCHANGED <<cfg, store, jar, op, browser, sid, result, histVars>>

\* RequireAuth, unless the request is a login or a logout, and the handler.
Handle(r) ==
    /\ at[r] = "handle"
    /\ \/ /\ op[r] \in {"visit", "touch"} /\ ~SignedIn(r)
          /\ Finish(r, "unauthorized") /\ UNCHANGED vals
       \/ /\ op[r] = "visit" /\ SignedIn(r)
          /\ Finish(r, "ok") /\ UNCHANGED vals
       \/ /\ op[r] = "login" \/ (op[r] = "touch" /\ SignedIn(r))
          /\ vals' = [vals EXCEPT ![r] = @ \cup {r}]
          /\ Go(r, "set") /\ UNCHANGED result
       \/ /\ op[r] = "logout"
          /\ Go(r, IF sid[r] = None THEN "reply" ELSE "del")
          /\ UNCHANGED <<vals, result>>
    /\ UNCHANGED <<cfg, store, jar, op, browser, sid, histVars>>
-------------------------------------------------------------------------------
(* RedisStore.Save.                                                          *)

AnyId(r) == Ids

\* A session that has no ID yet gets a random one.
IdsFor(r) ==
    IF sid[r] # None THEN {sid[r]} ELSE {i \in Ids : \A q \in Requests : sid[q] # i}

SwallowSetError(r) ==
    /\ at[r] = "set"
    /\ \E i \in IdsFor(r) : sid' = [sid EXCEPT ![r] = i]
    /\ \/ store' = [store EXCEPT ![sid'[r]] = vals[r]] /\ UNCHANGED <<struck, faults>>
       \/ Strike(r) /\ UNCHANGED store
    /\ Go(r, "encode")
    /\ UNCHANGED <<cfg, jar, op, browser, vals, result, ended, dead, overlapped>>

\* SET with the session's values and TTL.  If it fails, it may have taken effect.
SetSession(r) ==
    /\ at[r] = "set"
    /\ \E i \in IdsFor(r) :
          /\ sid' = [sid EXCEPT ![r] = i]
          /\ \/ /\ store' = [store EXCEPT ![i] = vals[r]]
                /\ Go(r, "encode") /\ UNCHANGED <<result, struck, faults>>
             \/ /\ store' \in {store, [store EXCEPT ![i] = vals[r]]}
                /\ Finish(r, "error") /\ Strike(r)
    /\ UNCHANGED <<cfg, jar, op, browser, vals, ended, dead, overlapped>>

\* EncodeMulti and SetCookie; the session is stored already.
Encode(r) ==
    /\ at[r] = "encode"
    /\ IF CodecWorks THEN Go(r, "reply") /\ UNCHANGED result ELSE Finish(r, "error")
    /\ UNCHANGED <<cfg, store, jar, op, browser, sid, vals, histVars>>

\* Does another request have a copy of what is stored under i?
HasCopy(q, i) == at[q] \in {"handle", "set"} /\ vals[q] \cap store[i] # {}

\* What a DEL of i puts to death.
Killed(r, i) ==
    IF store[i] = None \/ \E q \in Requests \ {r} : HasCopy(q, i) THEN {} ELSE store[i]

DeleteWrongKey(r) ==
    /\ at[r] = "del"
    /\ ended' = ended \cup {sid[r]}
    /\ dead' = dead \cup Killed(r, sid[r])
    /\ Go(r, "reply")
    /\ UNCHANGED <<cfg, store, jar, op, browser, sid, vals, result, struck, overlapped, faults>>

\* Save with MaxAge < 0: DEL, whose error is ignored.
DelSession(r) ==
    /\ at[r] = "del"
    /\ \/ /\ store' = [store EXCEPT ![sid[r]] = None]
          /\ ended' = ended \cup {sid[r]}
          /\ dead' = dead \cup Killed(r, sid[r])
          /\ UNCHANGED <<struck, faults>>
       \/ Strike(r) /\ UNCHANGED <<store, ended, dead>>
    /\ Go(r, "reply")
    /\ UNCHANGED <<cfg, jar, op, browser, sid, vals, result, overlapped>>

\* The browser obeys the Set-Cookie of the response, if the response gets there.
Reply(r) ==
    /\ at[r] = "reply"
    /\ \/ /\ jar' = [jar EXCEPT ![browser[r]] = IF op[r] = "logout" THEN None ELSE sid[r]]
          /\ Finish(r, "ok") /\ UNCHANGED <<struck, faults>>
       \/ /\ Finish(r, "lost") /\ Strike(r)
          /\ UNCHANGED jar
    /\ UNCHANGED <<cfg, store, op, browser, sid, vals, ended, dead, overlapped>>

\* The TTL of a key, the session's MaxAge, ends.
Expire(i) ==
    /\ store[i] # None
    /\ store' = [store EXCEPT ![i] = None]
    /\ ended' = ended \cup {i}
    /\ UNCHANGED <<cfg, jar, reqVars, dead, struck, overlapped, faults>>

Next ==
    \/ \E r \in Requests, b \in Browsers, o \in Ops : Send(r, b, o)
    \/ \E r \in Requests :
          Load(r) \/ Handle(r) \/ SetSession(r) \/ Encode(r) \/ DelSession(r) \/ Reply(r)
    \/ \E i \in Ids : Expire(i)

Spec == Init /\ [][Next]_vars
-------------------------------------------------------------------------------
(* Properties.                                                               *)

\* Types; only a request whose session has an ID talks to Redis about it.
TypeOK ==
    /\ cfg \in [env : Environments, key : KeyLengths]
    /\ store \in [Ids -> (SUBSET Requests) \cup {None}]
    /\ jar \in [Browsers -> Ids \cup {None}]
    /\ op \in [Requests -> Ops] /\ browser \in [Requests -> Browsers \cup {None}]
    /\ at \in [Requests -> {"idle", "load", "handle", "set", "encode", "del", "reply", "done"}]
    /\ sid \in [Requests -> Ids \cup {None}] /\ vals \in [Requests -> SUBSET Requests]
    /\ \A r \in Requests : at[r] \in {"load", "encode", "del"} => sid[r] # None
    /\ result \in [Requests -> {"none", "ok", "unauthorized", "error", "lost"}]
    /\ ended \subseteq Ids /\ dead \cup struck \subseteq Requests
    /\ overlapped \subseteq Browsers /\ faults \in 0 .. MaxFaults

\* No request ever works with, and no session ever stores, values of another
\* browser's requests, whatever is deleted, recreated, retried or lost.
SessionsDoNotMix ==
    /\ \A r \in Requests : \A q \in vals[r] : browser[q] = browser[r]
    /\ \A b \in Browsers : jar[b] # None /\ store[jar[b]] # None =>
           \A q \in store[jar[b]] : browser[q] = b

\* "Save persists the session to Redis and writes the encrypted session cookie":
\* a browser never has a cookie whose session was not stored before, so the key
\* can only be missing because it expired or was deleted.
CookieHasSession ==
    \A b \in Browsers : jar[b] # None => store[jar[b]] # None \/ jar[b] \in ended

\* A logout is final if its DEL succeeds at a moment when no other request has a
\* copy of the session: what was stored then (the org_id above all) is never
\* stored again and lets nobody in again.
CleanLogoutIsFinal ==
    /\ \A i \in Ids : store[i] # None => store[i] \cap dead = {}
    /\ \A r \in Requests : at[r] \in {"handle", "set"} => vals[r] \cap dead = {}

\* A browser that sends one request after the other and meets no fault, no expiry
\* and no logout finds in its session everything it has ever saved there.
SequentialBrowserKeepsAll ==
    \A b \in Browsers :
        LET mine  == {r \in Requests : browser[r] = b}
            saved == {r \in mine : result[r] = "ok" /\ op[r] \in {"login", "touch"}}
        IN  /\ b \notin overlapped /\ mine \cap struck = {} /\ Active(b) = {}
            /\ \A r \in mine : op[r] # "logout" /\ sid[r] \notin ended
            /\ saved # {}
            => jar[b] # None /\ store[jar[b]] = saved

\* New's comment: only a "Redis key missing or expired" makes a new session, so
\* saving never takes anything from a session that is still stored.
SaveOnlyAdds ==
    [][\A i \in Ids : store[i] # None /\ store'[i] # None => store[i] \subseteq store'[i]]_store

\* What the code does keep: a save that takes something from a stored session is that of
\* a request whose load has failed, or of a browser that sends several at a time.
LossHasCause ==
    [][\A i \in Ids : store[i] # None /\ store'[i] # None /\ ~(store[i] \subseteq store'[i]) =>
           \E r \in Requests :
               at[r] = "set" /\ sid[r] = i /\ (r \in struck \/ browser[r] \in overlapped)]_vars

\* ValidateForProduction accepts keys that AES cannot use.  With one of them nobody is
\* ever signed in: sessions are stored, but nothing except a logout is answered "ok",
\* and no browser gets a cookie.
UselessKeyLocksOut ==
    ~CodecWorks => /\ \A r \in Requests : result[r] = "ok" => op[r] = "logout"
                   /\ \A b \in Browsers : jar[b] = None
===============================================================================
