------------------------------ MODULE ItemService ------------------------------
(***************************************************************************)
(* The read path of the item service: ItemService.GetByID and Delete       *)
(* (services/item/application/services/item_service.go) over the item      *)
(* table and the Redis cache (pkg/cache/item_cache.go), together with the  *)
(* two writers that warm the cache behind the callers' backs: the goroutine*)
(* that GetByID leaves behind and the worker's item.created handler.       *)
(*                                                                         *)
(* Every database statement and every Redis command is a step of its own.  *)
(* ItemOutbox details how Save commits and how its event gets to a worker; *)
(* here a created item is one whose Save has committed, and its event may  *)
(* come to the worker's handler from then on, any number of times.         *)
(***************************************************************************)
EXTENDS Naturals

CONSTANTS
    Orgs, Items,
    Calls,      \* service calls; each runs at most once
    Worker,     \* the worker's handler, as a writer of the cache
    None,
    MaxFaults   \* bound: failed commands, crashes and redeliveries

ASSUME ServiceAssumption ==
    /\ Worker \notin Calls /\ None \notin Orgs \cup Items
    /\ MaxFaults \in Nat

VARIABLES
    owner,     \* the org an item was created for
    table,     \* item.items: the items that have a row
    created,   \* history: items whose Save has committed
    handled,   \* items whose event a handler has processed
    cache,     \* Redis: key -> "absent", "expiring" (has a TTL) or "eternal"
    call,      \* the arguments of a call
    at,        \* the next statement of the call
    reply,     \* what it has answered
    writing,   \* the next command of a writer's ItemCache.Set
    writes,    \* the item it writes
    gone,      \* history: items some Delete has answered nil for
    late,      \* history: calls that began when their item was gone
    uncertain, \* history: keys whose DEL failed or never came, or that were set
               \* when the row had been deleted
    torn,      \* history: keys whose pipeline ended between HSET and EXPIRE
    faults

rowVars   == <<owner, table, created>>
callVars  == <<call, at, reply, late>>
writeVars == <<writing, writes>>
vars == <<rowVars, handled, cache, callVars, writeVars, gone, uncertain, torn, faults>>

Writers == Calls \cup {Worker}

KeyWithoutOrg(o, i) == <<CHOOSE p \in Orgs : TRUE, i>>

\* The Redis key of an item, "item:{orgID}:{itemID}".
key(o, i) == <<o, i>>

Init ==
    /\ owner = [i \in Items |-> None] /\ table = {} /\ created = {} /\ handled = {}
    /\ cache = [k \in Orgs \X Items |-> "absent"]
    /\ call = [c \in Calls |-> None]
    /\ at = [c \in Calls |-> "idle"]
    /\ reply = [c \in Calls |-> "none"]
    /\ late = [c \in Calls |-> FALSE]
    /\ writing = [w \in Writers |-> "idle"]
    /\ writes = [w \in Writers |-> None]
    /\ gone = {} /\ uncertain = {} /\ torn = {} /\ faults = 0

Fault == faults < MaxFaults /\ faults' = faults + 1
-------------------------------------------------------------------------------
(* Calls.                                                                    *)

\* ItemService.Create: NewItem draws an ID that no item has had, and Save commits the
\* row and its event.
Create(i, o) ==
    /\ i \notin created
    /\ created' = created \cup {i}
    /\ owner' = [owner EXCEPT ![i] = o]
    /\ table' = table \cup {i}
    /\ UNCHANGED <<handled, cache, callVars, writeVars, gone, uncertain, torn, faults>>

Begin(c, op, o, i) ==
    /\ at[c] = "idle"
    /\ call' = [call EXCEPT ![c] = [op |-> op, org |-> o, item |-> i]]
    /\ at' = [at EXCEPT ![c] = IF op = "get" THEN "cacheGet" ELSE "exists"]
    /\ late' = [late EXCEPT ![c] = i \in gone]
    /\ UNCHANGED <<rowVars, handled, cache, reply, writeVars, gone, uncertain, torn, faults>>

Answer(c, r) ==
    /\ at' = [at EXCEPT ![c] = "done"]
    /\ reply' = [reply EXCEPT ![c] = r]
    /\ UNCHANGED <<call, late>>

Continue(c, next) ==
    /\ at' = [at EXCEPT ![c] = next]
    /\ UNCHANGED <<call, reply, late>>

\* SELECT ... WHERE id = $1 AND org_id = $2.
HasRow(o, i) == i \in table /\ owner[i] = o

\* ItemCache.Get: the HGETALL of a key that is absent or expired is redis.Nil.
Cached(o, i) == cache[key(o, i)] # "absent"

\* A hit is the answer; a miss, or an error of Redis, falls through to Postgres.
CacheGet(c) ==
    /\ at[c] = "cacheGet"
    /\ \/ /\ Cached(call[c].org, call[c].item)
          /\ Answer(c, "found") /\ UNCHANGED faults
       \/ /\ ~Cached(call[c].org, call[c].item)
          /\ Continue(c, "select") /\ UNCHANGED faults
       \/ Continue(c, "select") /\ Fault
    /\ UNCHANGED <<rowVars, handled, cache, writeVars, gone, uncertain, torn>>

CacheWhatWasAsked(c) ==
    /\ at[c] = "select"
    /\ Answer(c, IF HasRow(call[c].org, call[c].item) THEN "found" ELSE "notFound")
    /\ writing' = [writing EXCEPT ![c] = "hset"]
    /\ writes' = [writes EXCEPT ![c] = call[c].item]
    /\ UNCHANGED <<rowVars, handled, cache, gone, uncertain, torn, faults>>

\* The row is the answer, and a goroutine is left behind to cache it.
SelectItem(c) ==
    /\ at[c] = "select"
    /\ IF HasRow(call[c].org, call[c].item)
       THEN /\ Answer(c, "found")
            /\ writing' = [writing EXCEPT ![c] = "hset"]
            /\ writes' = [writes EXCEPT ![c] = call[c].item]
       ELSE Answer(c, "notFound") /\ UNCHANGED writeVars
    /\ UNCHANGED <<rowVars, handled, cache, gone, uncertain, torn, faults>>

CheckCacheFirst(c) ==
    /\ at[c] = "exists"
    /\ IF Cached(call[c].org, call[c].item) \/ HasRow(call[c].org, call[c].item)
       THEN Continue(c, "deleteRow")
       ELSE Answer(c, "notFound")
    /\ UNCHANGED <<rowVars, handled, cache, writeVars, gone, uncertain, torn, faults>>

\* Exists asks the table, whatever the cache holds.
CheckExists(c) ==
    /\ at[c] = "exists"
    /\ IF HasRow(call[c].org, call[c].item)
       THEN Continue(c, "deleteRow")
       ELSE Answer(c, "notFound")
    /\ UNCHANGED <<rowVars, handled, cache, writeVars, gone, uncertain, torn, faults>>

\* What DELETE ... WHERE id = $1 AND org_id = $2 leaves of the table.
TableWithout(c) == {i \in table : ~(i = call[c].item /\ owner[i] = call[c].org)}

\* Deleting nothing is no error.
DeleteRow(c) ==
    /\ at[c] = "deleteRow"
    /\ table' = TableWithout(c)
    /\ Continue(c, "cacheDelete")
    /\ UNCHANGED <<owner, created, handled, cache, writeVars, gone, uncertain, torn, faults>>

ForgetCache(c) ==
    /\ at[c] = "cacheDelete"
    /\ Answer(c, "deleted")
    /\ gone' = gone \cup {call[c].item}
    /\ UNCHANGED <<rowVars, handled, cache, writeVars, uncertain, torn, faults>>

\* DEL; its error is ignored.
CacheDelete(c) ==
    LET k == key(call[c].org, call[c].item) IN
    /\ at[c] = "cacheDelete"
    /\ \/ /\ cache' = [cache EXCEPT ![k] = "absent"]
          /\ UNCHANGED <<uncertain, faults>>
       \/ /\ Fault
          /\ uncertain' = uncertain \cup {k}
          /\ UNCHANGED cache
    /\ Answer(c, "deleted")
    /\ gone' = gone \cup {call[c].item}
    /\ UNCHANGED <<rowVars, handled, writeVars, torn>>

\* A statement of the database fails, perhaps after it has taken effect, or the
\* process dies; either way the cache is not invalidated any more.
CallFails(c) ==
    /\ at[c] \in {"select", "exists", "deleteRow", "cacheDelete"}
    /\ Fault
    /\ Answer(c, "error")
    /\ table' \in {table} \cup (IF at[c] = "deleteRow" THEN {TableWithout(c)} ELSE {})
    /\ uncertain' = IF table' # table \/ at[c] = "cacheDelete"
                    THEN uncertain \cup {key(call[c].org, call[c].item)}
                    ELSE uncertain
    /\ UNCHANGED <<owner, created, handled, cache, writeVars, gone, torn>>
-------------------------------------------------------------------------------
(* ItemCache.Set by the goroutine of a GetByID or by the worker.             *)

\* handleItemCreated is called with an event, perhaps not for the first time.
WorkerTakes(i) ==
    /\ writing[Worker] = "idle"
    /\ i \in created
    /\ IF i \in handled THEN Fault ELSE UNCHANGED faults
    /\ writing' = [writing EXCEPT ![Worker] = "hset"]
    /\ writes' = [writes EXCEPT ![Worker] = i]
    /\ UNCHANGED <<rowVars, handled, cache, callVars, gone, uncertain, torn>>

WrittenKey(w) == key(owner[writes[w]], writes[w])

\* A Set is over.  The worker acknowledges its event whatever came of it.
SetReturns(w) ==
    /\ writing' = [writing EXCEPT ![w] = "idle"]
    /\ handled' = IF w = Worker THEN handled \cup {writes[w]} ELSE handled

SetWithoutExpire(w) ==
    /\ writing[w] = "hset"
    /\ SetReturns(w)
    /\ cache' = [cache EXCEPT ![WrittenKey(w)] = IF @ = "absent" THEN "eternal" ELSE @]
    /\ uncertain' = IF writes[w] \in table THEN uncertain ELSE uncertain \cup {WrittenKey(w)}
    /\ UNCHANGED <<rowVars, callVars, writes, gone, torn, faults>>

\* HSET keeps the TTL of a key that has one.
HSet(w) ==
    /\ writing[w] = "hset"
    /\ writing' = [writing EXCEPT ![w] = "expire"]
    /\ cache' = [cache EXCEPT ![WrittenKey(w)] = IF @ = "absent" THEN "eternal" ELSE @]
    /\ uncertain' = IF writes[w] \in table THEN uncertain ELSE uncertain \cup {WrittenKey(w)}
    /\ UNCHANGED <<rowVars, handled, callVars, writes, gone, torn, faults>>

PersistInstead(w) ==
    /\ writing[w] = "expire"
    /\ SetReturns(w)
    /\ cache' = [cache EXCEPT ![WrittenKey(w)] = IF @ = "absent" THEN @ ELSE "eternal"]
    /\ UNCHANGED <<rowVars, callVars, writes, gone, uncertain, torn, faults>>

\* EXPIRE does nothing to a key that is not there.
Expire(w) ==
    /\ writing[w] = "expire"
    /\ SetReturns(w)
    /\ cache' = [cache EXCEPT ![WrittenKey(w)] = IF @ = "absent" THEN @ ELSE "expiring"]
    /\ UNCHANGED <<rowVars, callVars, writes, gone, uncertain, torn, faults>>

\* The pipeline fails before its first or before its second command.
PipelineFails(w) ==
    /\ writing[w] # "idle"
    /\ Fault
    /\ SetReturns(w)
    /\ torn' = IF writing[w] = "expire" THEN torn \cup {WrittenKey(w)} ELSE torn
    /\ UNCHANGED <<rowVars, cache, callVars, writes, gone, uncertain>>

\* The 24 hours of a TTL are over.
TimeToLiveEnds(k) ==
    /\ cache[k] = "expiring"
    /\ cache' = [cache EXCEPT ![k] = "absent"]
    /\ UNCHANGED <<rowVars, handled, callVars, writeVars, gone, uncertain, torn, faults>>

CallStep(c) ==
    \/ CacheGet(c) \/ SelectItem(c)
    \/ CheckExists(c) \/ DeleteRow(c) \/ CacheDelete(c)

WriteStep(w) == HSet(w) \/ Expire(w)

Next ==
    \/ \E i \in Items, o \in Orgs : Create(i, o)
    \/ \E c \in Calls, op \in {"get", "delete"}, o \in Orgs, i \in Items : Begin(c, op, o, i)
    \/ \E c \in Calls : CallStep(c) \/ CallFails(c)
    \/ \E i \in Items : WorkerTakes(i)
    \/ \E w \in Writers : WriteStep(w) \/ PipelineFails(w)
    \/ \E k \in Orgs \X Items : TimeToLiveEnds(k)

SafeSpec == Init /\ [][Next]_vars

\* Calls and cache writers that run go on, and Redis expires keys.  Nobody is
\* obliged to make a call, and no event has to be delivered for what follows.
Spec ==
    /\ SafeSpec
    /\ \A c \in Calls : WF_vars(CallStep(c))
    /\ \A w \in Writers : WF_vars(WriteStep(w))
    /\ \A k \in Orgs \X Items : WF_vars(TimeToLiveEnds(k))
-------------------------------------------------------------------------------
(* Properties.                                                               *)

\* Types; what is being written to the cache is an item that was created.
TypeOK ==
    /\ owner \in [Items -> Orgs \cup {None}]
    /\ table \subseteq created /\ handled \subseteq created /\ created \subseteq Items
    /\ gone \subseteq Items
    /\ cache \in [Orgs \X Items -> {"absent", "expiring", "eternal"}]
    /\ call \in [Calls -> {None} \cup [op : {"get", "delete"}, org : Orgs, item : Items]]
    /\ at \in [Calls -> {"idle", "cacheGet", "select", "exists", "deleteRow", "cacheDelete", "done"}]
    /\ reply \in [Calls -> {"none", "found", "notFound", "deleted", "error"}]
    /\ late \in [Calls -> BOOLEAN]
    /\ writing \in [Writers -> {"idle", "hset", "expire"}]
    /\ writes \in [Writers -> Items \cup {None}]
    /\ \A w \in Writers : writing[w] # "idle" => writes[w] \in created
    /\ uncertain \subseteq Orgs \X Items /\ torn \subseteq Orgs \X Items
    /\ faults \in 0 .. MaxFaults

\* "Keys are scoped by orgID to prevent cross-tenant data leakage": whoever warms
\* the cache and whatever he asks for, an org only ever gets or deletes its own
\* items, and no key holds another org's item.
TenantIsolation ==
    /\ \A c \in Calls : reply[c] \in {"found", "deleted"} => owner[call[c].item] = call[c].org
    /\ \A k \in Orgs \X Items : cache[k] # "absent" => owner[k[2]] = k[1]

\* The invalidation of Delete works: an item without a row is cached only as long
\* as its Delete has yet to send DEL, or after DEL failed or a writer that had
\* read the row earlier (or has its event) set the key again.
InvalidationWorks ==
    \A i \in created \ table :
        cache[key(owner[i], i)] # "absent" =>
            \/ key(owner[i], i) \in uncertain
            \/ \E c \in Calls : at[c] = "cacheDelete" /\ call[c].item = i

\* A key stays without a TTL only if a pipeline was cut between its commands;
\* otherwise its EXPIRE is on the way, however the commands of several writers
\* and of a Delete are interleaved.
EternalOnlyIfTorn ==
    \A k \in Orgs \X Items : cache[k] = "eternal" =>
        k \in torn \/ \E w \in Writers : writing[w] = "expire" /\ WrittenKey(w) = k

\* Staleness is temporary: a deleted item is in the end cached no more and is not
\* cached again, unless a pipeline left its key without a TTL.
StaleFadesOut ==
    \A k \in Orgs \X Items :
        [](k[2] \in created \ table => <>[](cache[k] = "absent" \/ k \in torn))

\* "Returns ErrItemNotFound if no matching item exists": of several Deletes of one
\* item only those that overlap can answer nil; one that begins after another has
\* answered nil never does, even while the item haunts the cache.
DeletedForGood == \A c \in Calls : late[c] => reply[c] # "deleted"

\* Delete's comment: it "removes an item", so a GetByID that begins after Delete
\* has returned nil does not find it.
DeleteIsFinal == \A c \in Calls : late[c] => reply[c] # "found"

\* What the code does keep: such a call finds the item only under a key whose DEL failed
\* or never came, or that a writer set when the row was gone.
GhostsHaveCause ==
    \A c \in Calls : late[c] /\ reply[c] = "found" => key(call[c].org, call[c].item) \in uncertain

\* A GetByID that finds an item without a row, whenever it began, owes that to such a
\* key or to a Delete that has yet to send its DEL.
StaleAnswersHaveCause ==
    [][\A c \in Calls :
           reply[c] # "found" /\ reply'[c] = "found" /\ call[c].item \notin table =>
               \/ key(call[c].org, call[c].item) \in uncertain
               \/ \E d \in Calls : at[d] = "cacheDelete" /\ call[d].item = call[c].item]_vars
===============================================================================
