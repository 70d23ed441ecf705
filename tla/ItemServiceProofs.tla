--------------------------- MODULE ItemServiceProofs ---------------------------
(***************************************************************************)
(* Proofs about ItemService, for any number of orgs, items, calls, writers *)
(* and faults: type correctness and the safety of the read path.           *)
(***************************************************************************)
EXTENDS ItemService, TLAPS

Arguments == [op : {"get", "delete"}, org : Orgs, item : Items]

\* A created item has an owner, and an item that some Delete has answered nil for
\* was created, so that no Create can bring its row back.
RowInv ==
    /\ \A i \in created : owner[i] \in Orgs
    /\ gone \subseteq created
    /\ gone \cap table = {}

\* Only a call of the owner gets past Exists; the row is gone when the DEL is due;
\* what a call has answered is about an item of its org; and a goroutine writes to
\* the cache only on behalf of a call that has answered.
CallInv ==
    /\ \A c \in Calls : at[c] # "idle" => call[c] \in Arguments
    /\ \A c \in Calls : reply[c] # "none" => at[c] = "done"
    /\ \A c \in Calls : at[c] \in {"deleteRow", "cacheDelete"} \/ reply[c] \in {"found", "deleted"}
           => call[c].item \in created /\ owner[call[c].item] = call[c].org
    /\ \A c \in Calls : at[c] = "cacheDelete" => call[c].item \notin table
    /\ \A c \in Calls : writing[c] # "idle" => at[c] = "done"

\* A call that began when its item was gone is stopped by Exists.
LateInv ==
    \A c \in Calls : late[c] =>
        /\ at[c] \notin {"idle", "deleteRow", "cacheDelete"}
        /\ call[c].item \in gone
        /\ reply[c] # "deleted"

\* Keys are those of created items, under their owners.
KeyInv ==
    \A k \in Orgs \X Items : cache[k] # "absent" => k[2] \in created /\ owner[k[2]] = k[1]

\* Once a Delete has answered nil, its item is only cached under a marked key.
GoneInv ==
    \A i \in gone : cache[key(owner[i], i)] # "absent" => key(owner[i], i) \in uncertain

\* The inductive strengthening of the invariants.
IInv ==
    /\ TypeOK
    /\ RowInv
    /\ CallInv
    /\ LateInv
    /\ KeyInv
    /\ InvalidationWorks
    /\ EternalOnlyIfTorn
-------------------------------------------------------------------------------
(* Type correctness.                                                         *)

\* The end of a Set keeps the types, whoever's it is and however it ends.
LEMMA SetReturnsTypes ==
    ASSUME TypeOK, NEW w \in Writers, writing[w] # "idle", SetReturns(w)
    PROVE  /\ writing' \in [Writers -> {"idle", "hset", "expire"}]
           /\ writing'[w] = "idle"
           /\ \A v \in Writers : v # w => writing'[v] = writing[v]
           /\ handled' \subseteq created
    BY DEF TypeOK, SetReturns

\* The keys of what is being written.
LEMMA WrittenKeyType ==
    ASSUME TypeOK, RowInv, NEW w \in Writers, writing[w] # "idle"
    PROVE  /\ writes[w] \in created /\ writes[w] \in Items
           /\ WrittenKey(w) = <<owner[writes[w]], writes[w]>>
           /\ WrittenKey(w) \in Orgs \X Items
    BY DEF TypeOK, RowInv, WrittenKey, key

\* Every step keeps every variable in its type, and writers at created items.
LEMMA TypeStep == TypeOK /\ RowInv /\ CallInv /\ [Next]_vars => TypeOK'
<1> SUFFICES ASSUME TypeOK, RowInv, CallInv, [Next]_vars PROVE TypeOK'
    OBVIOUS
<1> USE ServiceAssumption DEF rowVars, callVars, writeVars
<1>1. ASSUME NEW i \in Items, NEW o \in Orgs, Create(i, o) PROVE TypeOK'
    BY <1>1 DEF TypeOK, Create
<1>2. ASSUME NEW c \in Calls, NEW op \in {"get", "delete"}, NEW o \in Orgs,
             NEW i \in Items, Begin(c, op, o, i)
      PROVE  TypeOK'
    BY <1>2 DEF TypeOK, Begin
<1>3. ASSUME NEW c \in Calls, CacheGet(c) PROVE TypeOK'
    <2>1. /\ at' \in [Calls -> {"idle", "cacheGet", "select", "exists", "deleteRow",
                                 "cacheDelete", "done"}]
          /\ reply' \in [Calls -> {"none", "found", "notFound", "deleted", "error"}]
        BY <1>3 DEF TypeOK, CacheGet, Answer, Continue
    <2>2. faults' \in 0 .. MaxFaults
        BY <1>3 DEF TypeOK, CacheGet, Fault
    <2>3. UNCHANGED <<call, late, owner, table, created, handled, cache, writing, writes,
                      gone, uncertain, torn>>
        BY <1>3 DEF CacheGet, Answer, Continue
    <2> QED BY <2>1, <2>2, <2>3 DEF TypeOK
<1>4. ASSUME NEW c \in Calls, SelectItem(c) PROVE TypeOK'
    BY <1>4 DEF TypeOK, SelectItem, HasRow, Answer, Writers
<1>5. ASSUME NEW c \in Calls, CheckExists(c) PROVE TypeOK'
    BY <1>5 DEF TypeOK, CheckExists, HasRow, Answer, Continue
<1>6. ASSUME NEW c \in Calls, DeleteRow(c) PROVE TypeOK'
    BY <1>6 DEF TypeOK, DeleteRow, TableWithout, Continue
<1>7. ASSUME NEW c \in Calls, CacheDelete(c) PROVE TypeOK'
    <2>1. key(call[c].org, call[c].item) \in Orgs \X Items /\ call[c].item \in Items
        BY <1>7 DEF CallInv, Arguments, CacheDelete, key
    <2>2. /\ cache' \in [Orgs \X Items -> {"absent", "expiring", "eternal"}]
          /\ uncertain' \subseteq Orgs \X Items /\ gone' \subseteq Items
        BY <1>7, <2>1 DEF TypeOK, CacheDelete
    <2>3. faults' \in 0 .. MaxFaults
        BY <1>7 DEF TypeOK, CacheDelete, Fault
    <2> QED BY <1>7, <2>2, <2>3 DEF TypeOK, CacheDelete, Answer
<1>8. ASSUME NEW c \in Calls, CallFails(c) PROVE TypeOK'
    <2>1. key(call[c].org, call[c].item) \in Orgs \X Items
        BY <1>8 DEF CallInv, Arguments, CallFails, key
    <2> QED BY <1>8, <2>1 DEF TypeOK, CallFails, TableWithout, Answer, Fault
<1>9. ASSUME NEW i \in Items, WorkerTakes(i) PROVE TypeOK'
    BY <1>9 DEF TypeOK, WorkerTakes, Fault, Writers
<1>10. ASSUME NEW w \in Writers, HSet(w) PROVE TypeOK'
    BY <1>10, WrittenKeyType DEF TypeOK, HSet
<1>11. ASSUME NEW w \in Writers, Expire(w) PROVE TypeOK'
    BY <1>11, SetReturnsTypes, WrittenKeyType DEF TypeOK, Expire
<1>12. ASSUME NEW w \in Writers, PipelineFails(w) PROVE TypeOK'
    BY <1>12, SetReturnsTypes, WrittenKeyType DEF TypeOK, PipelineFails, Fault
<1>13. ASSUME NEW k \in Orgs \X Items, TimeToLiveEnds(k) PROVE TypeOK'
    BY <1>13 DEF TypeOK, TimeToLiveEnds
<1>14. CASE UNCHANGED vars
    BY <1>14 DEF TypeOK, vars
<1> QED
    BY <1>1, <1>2, <1>3, <1>4, <1>5, <1>6, <1>7, <1>8, <1>9, <1>10, <1>11, <1>12,
       <1>13, <1>14
    DEF Next, CallStep, WriteStep
-------------------------------------------------------------------------------
(* Rows and calls.                                                           *)

\* An item is created once and for good: its owner stays, and no step gives a
\* created item its row back.
LEMMA RowsAreForGood ==
    TypeOK /\ [Next]_vars =>
        /\ created \subseteq created'
        /\ \A i \in created : owner'[i] = owner[i]
        /\ table' \cap created \subseteq table
<1> SUFFICES ASSUME TypeOK, [Next]_vars
             PROVE  /\ created \subseteq created'
                    /\ \A i \in created : owner'[i] = owner[i]
                    /\ table' \cap created \subseteq table
    OBVIOUS
<1>1. ASSUME NEW i \in Items, NEW o \in Orgs, Create(i, o)
      PROVE  /\ created \subseteq created'
             /\ \A j \in created : owner'[j] = owner[j]
             /\ table' \cap created \subseteq table
    BY <1>1 DEF TypeOK, Create
<1>2. CASE UNCHANGED <<owner, created>> /\ table' \subseteq table
    BY <1>2
<1> QED
    BY <1>1, <1>2
    DEF Next, CallStep, WriteStep, Begin, CacheGet, SelectItem, CheckExists, DeleteRow,
        TableWithout, CacheDelete, CallFails, WorkerTakes, HSet, Expire, PipelineFails,
        SetReturns, TimeToLiveEnds, vars, rowVars

\* Only a Delete that has removed the row adds to gone.
LEMMA RowStep == TypeOK /\ RowInv /\ CallInv /\ [Next]_vars => RowInv'
<1> SUFFICES ASSUME TypeOK, RowInv, CallInv, [Next]_vars PROVE RowInv'
    OBVIOUS
<1> USE DEF rowVars
<1>1. ASSUME NEW i \in Items, NEW o \in Orgs, Create(i, o) PROVE RowInv'
    BY <1>1 DEF TypeOK, RowInv, Create
<1>2. ASSUME NEW c \in Calls, CacheDelete(c) PROVE RowInv'
    BY <1>2 DEF RowInv, CallInv, CacheDelete
<1>3. CASE UNCHANGED <<owner, created, gone>> /\ table' \subseteq table
    BY <1>3 DEF RowInv
<1> QED
    BY <1>1, <1>2, <1>3
    DEF Next, CallStep, WriteStep, Begin, CacheGet, SelectItem, CheckExists, DeleteRow,
        TableWithout, CallFails, WorkerTakes, HSet, Expire, PipelineFails,
        SetReturns, TimeToLiveEnds, vars

\* A call moves on its own; a step of anybody else leaves it alone.
LEMMA CallInvStep ==
    TypeOK /\ RowInv /\ CallInv /\ KeyInv /\ [Next]_vars => CallInv'
<1> SUFFICES ASSUME TypeOK, RowInv, CallInv, KeyInv, [Next]_vars PROVE CallInv'
    OBVIOUS
<1> USE ServiceAssumption DEF rowVars, callVars, writeVars
<1>0. /\ created \subseteq created'
      /\ \A i \in created : owner'[i] = owner[i]
      /\ table' \cap created \subseteq table
    BY RowsAreForGood
<1>1. ASSUME NEW c \in Calls, NEW op \in {"get", "delete"}, NEW o \in Orgs,
             NEW i \in Items, Begin(c, op, o, i)
      PROVE  CallInv'
    BY <1>1 DEF TypeOK, CallInv, Arguments, Begin
<1>2. ASSUME NEW c \in Calls, CacheGet(c) PROVE CallInv'
    <2>1. Cached(call[c].org, call[c].item)
              => call[c].item \in created /\ owner[call[c].item] = call[c].org
        BY <1>2 DEF CallInv, Arguments, KeyInv, CacheGet, Cached, key
    <2> QED BY <1>2, <2>1 DEF TypeOK, CallInv, CacheGet, Answer, Continue
<1>3. ASSUME NEW c \in Calls, SelectItem(c) PROVE CallInv'
    BY <1>3 DEF TypeOK, CallInv, SelectItem, HasRow, Answer, Writers
<1>4. ASSUME NEW c \in Calls, CheckExists(c) PROVE CallInv'
    <2> DEFINE has == HasRow(call[c].org, call[c].item)
    <2>1. /\ at[c] = "exists" /\ UNCHANGED <<owner, table, created, call, writing>>
          /\ \A d \in Calls : d # c => at'[d] = at[d] /\ reply'[d] = reply[d]
          /\ \/ has /\ at'[c] = "deleteRow" /\ reply'[c] = reply[c]
             \/ at'[c] = "done" /\ reply'[c] = "notFound"
        BY <1>4 DEF TypeOK, CheckExists, Answer, Continue
    <2>2. has => call[c].item \in created /\ owner[call[c].item] = call[c].org
        BY DEF TypeOK, HasRow
    <2> HIDE DEF has
    <2> QED BY <2>1, <2>2 DEF CallInv
<1>5. ASSUME NEW c \in Calls, DeleteRow(c) PROVE CallInv'
    BY <1>5 DEF TypeOK, CallInv, DeleteRow, TableWithout, Continue
<1>6. ASSUME NEW c \in Calls, CacheDelete(c) PROVE CallInv'
    BY <1>6 DEF TypeOK, CallInv, CacheDelete, Answer
<1>7. ASSUME NEW c \in Calls, CallFails(c) PROVE CallInv'
    BY <1>7 DEF TypeOK, CallInv, CallFails, TableWithout, Answer
<1>8. ASSUME NEW i \in Items, WorkerTakes(i) PROVE CallInv'
    BY <1>8 DEF TypeOK, CallInv, WorkerTakes, Writers
<1>9. ASSUME NEW w \in Writers, WriteStep(w) \/ PipelineFails(w) PROVE CallInv'
    <2>1. /\ UNCHANGED <<callVars, owner, created, table>> /\ writing[w] # "idle"
          /\ \A v \in Writers : v # w => writing'[v] = writing[v]
        BY <1>9 DEF TypeOK, WriteStep, HSet, Expire, PipelineFails, SetReturns
    <2> QED BY <2>1 DEF CallInv, Writers
<1>10. CASE UNCHANGED <<callVars, writing>>
    BY <1>0, <1>10 DEF CallInv
<1> QED
    BY <1>1, <1>2, <1>3, <1>4, <1>5, <1>6, <1>7, <1>8, <1>9, <1>10
    DEF Next, CallStep, Create, TimeToLiveEnds, vars

\* A call that began too late never gets past Exists.
LEMMA LateStep ==
    TypeOK /\ RowInv /\ CallInv /\ LateInv /\ [Next]_vars => LateInv'
<1> SUFFICES ASSUME TypeOK, RowInv, CallInv, LateInv, [Next]_vars PROVE LateInv'
    OBVIOUS
<1> USE DEF rowVars, callVars, writeVars
<1>1. ASSUME NEW c \in Calls, NEW op \in {"get", "delete"}, NEW o \in Orgs,
             NEW i \in Items, Begin(c, op, o, i)
      PROVE  LateInv'
    BY <1>1 DEF TypeOK, CallInv, LateInv, Begin
<1>2. ASSUME NEW c \in Calls, CallStep(c) \/ CallFails(c) PROVE LateInv'
    <2>1. late[c] => ~HasRow(call[c].org, call[c].item)
        BY DEF RowInv, LateInv, HasRow
    <2> QED BY <1>2, <2>1
            DEF TypeOK, LateInv, CallStep, CacheGet, SelectItem, CheckExists, DeleteRow,
                CacheDelete, CallFails, Answer, Continue
<1>3. CASE UNCHANGED <<callVars, gone>>
    BY <1>3 DEF LateInv
<1> QED
    BY <1>1, <1>2, <1>3
    DEF Next, WriteStep, Create, WorkerTakes, HSet, Expire, PipelineFails,
        TimeToLiveEnds, vars
-------------------------------------------------------------------------------
(* The cache.                                                                *)

\* A key appears only by an HSET, which writes under the owner; no other step
\* makes a key that is absent anything else.
LEMMA KeysAppearByHSet ==
    TypeOK /\ [Next]_vars =>
        \/ \E w \in Writers : HSet(w)
        \/ \A k \in Orgs \X Items : cache'[k] # "absent" => cache[k] # "absent"
<1> SUFFICES ASSUME TypeOK, [Next]_vars
             PROVE  \/ \E w \in Writers : HSet(w)
                    \/ \A k \in Orgs \X Items : cache'[k] # "absent" => cache[k] # "absent"
    OBVIOUS
<1>1. ASSUME NEW c \in Calls, CacheDelete(c)
      PROVE  \A k \in Orgs \X Items : cache'[k] # "absent" => cache[k] # "absent"
    BY <1>1 DEF TypeOK, CacheDelete
<1>2. ASSUME NEW w \in Writers, Expire(w)
      PROVE  \A k \in Orgs \X Items : cache'[k] # "absent" => cache[k] # "absent"
    BY <1>2 DEF TypeOK, Expire
<1>3. ASSUME NEW l \in Orgs \X Items, TimeToLiveEnds(l)
      PROVE  \A k \in Orgs \X Items : cache'[k] # "absent" => cache[k] # "absent"
    BY <1>3 DEF TypeOK, TimeToLiveEnds
<1>4. CASE UNCHANGED cache
    BY <1>4
<1> QED
    BY <1>1, <1>2, <1>3, <1>4
    DEF Next, CallStep, WriteStep, Create, Begin, CacheGet, SelectItem, CheckExists,
        DeleteRow, CallFails, WorkerTakes, PipelineFails, vars

\* An HSET makes its key present and leaves every other key as it is.
LEMMA HSetFacts ==
    ASSUME TypeOK, RowInv, NEW w \in Writers, HSet(w)
    PROVE  /\ writes[w] \in created /\ writes[w] \in Items
           /\ WrittenKey(w) = <<owner[writes[w]], writes[w]>>
           /\ WrittenKey(w) \in Orgs \X Items
           /\ \A k \in Orgs \X Items : k # WrittenKey(w) => cache'[k] = cache[k]
           /\ cache'[WrittenKey(w)] # "absent"
           /\ UNCHANGED <<rowVars, callVars>>
           /\ uncertain \subseteq uncertain'
           /\ writes[w] \notin table => WrittenKey(w) \in uncertain'
<1>1. /\ writes[w] \in created /\ writes[w] \in Items
      /\ WrittenKey(w) = <<owner[writes[w]], writes[w]>>
      /\ WrittenKey(w) \in Orgs \X Items
    BY WrittenKeyType DEF HSet
<1> QED BY <1>1 DEF TypeOK, HSet

\* Whoever fills the cache writes under the key of the item's owner.
LEMMA KeyStep == TypeOK /\ RowInv /\ KeyInv /\ [Next]_vars => KeyInv'
<1> SUFFICES ASSUME TypeOK, RowInv, KeyInv, [Next]_vars PROVE KeyInv'
    OBVIOUS
<1>0. created \subseteq created' /\ \A i \in created : owner'[i] = owner[i]
    BY RowsAreForGood
<1>1. ASSUME NEW w \in Writers, HSet(w) PROVE KeyInv'
    <2> SUFFICES ASSUME NEW k \in Orgs \X Items, cache'[k] # "absent"
                 PROVE  k[2] \in created' /\ owner'[k[2]] = k[1]
        BY DEF KeyInv
    <2>1. CASE k = WrittenKey(w)
        BY <1>0, <1>1, <2>1, HSetFacts
    <2>2. CASE k # WrittenKey(w)
        BY <1>0, <1>1, <2>2, HSetFacts DEF KeyInv
    <2> QED BY <2>1, <2>2
<1>2. CASE \A k \in Orgs \X Items : cache'[k] # "absent" => cache[k] # "absent"
    BY <1>0, <1>2 DEF KeyInv
<1> QED BY <1>1, <1>2, KeysAppearByHSet

\* A row that disappears is one whose Delete goes on to the DEL, or whose key is
\* marked: and a DEL that is not sent, or fails, marks the key.
LEMMA InvalidationStep ==
    TypeOK /\ RowInv /\ CallInv /\ InvalidationWorks /\ [Next]_vars => InvalidationWorks'
<1> SUFFICES ASSUME TypeOK, RowInv, CallInv, InvalidationWorks, [Next]_vars,
                    NEW i \in created' \ table',
                    cache'[key(owner'[i], i)] # "absent"
             PROVE  \/ key(owner'[i], i) \in uncertain'
                    \/ \E c \in Calls : at'[c] = "cacheDelete" /\ call'[c].item = i
    BY DEF InvalidationWorks, key
<1> USE DEF rowVars, callVars, writeVars
<1> DEFINE Goal == \/ key(owner'[i], i) \in uncertain'
                   \/ \E c \in Calls : at'[c] = "cacheDelete" /\ call'[c].item = i
           k == key(owner[i], i)
<1>1. i \in created /\ owner'[i] = owner[i]
    BY RowsAreForGood DEF Next, CallStep, WriteStep, Create, Begin, CacheGet,
        SelectItem, CheckExists, DeleteRow, CacheDelete, CallFails, WorkerTakes, HSet,
        Expire, PipelineFails, SetReturns, TimeToLiveEnds, vars
<1>2. i \in Items /\ owner[i] \in Orgs /\ k \in Orgs \X Items
    BY <1>1 DEF TypeOK, RowInv, key
<1>3. i \notin table /\ cache[k] # "absent"
          => k \in uncertain \/ \E c \in Calls : at[c] = "cacheDelete" /\ call[c].item = i
    BY <1>1 DEF InvalidationWorks
<1> HIDE DEF k, Goal
<1>4. ASSUME NEW w \in Writers, HSet(w) PROVE Goal
    <2>1. CASE WrittenKey(w) = k
        <3>1. writes[w] = i
            BY <1>4, <2>1, HSetFacts DEF k, key
        <3>2. i \notin table
            BY <1>4 DEF HSet
        <3> QED BY <1>1, <1>4, <2>1, <3>1, <3>2, HSetFacts DEF Goal, k
    <2>2. CASE WrittenKey(w) # k
        <3>1. cache[k] # "absent" /\ i \notin table
            BY <1>1, <1>2, <1>4, <2>2, HSetFacts DEF k, HSet
        <3> QED BY <1>1, <1>3, <1>4, <3>1, HSetFacts DEF Goal, k
    <2> QED BY <2>1, <2>2
<1>5. \/ \E w \in Writers : HSet(w)
      \/ cache[k] # "absent"
    BY <1>1, <1>2, KeysAppearByHSet DEF k
<1>6. ASSUME cache[k] # "absent", NEW c \in Calls, DeleteRow(c) PROVE Goal
    <2>1. CASE i \in table
        BY <1>6, <2>1 DEF TypeOK, Goal, DeleteRow, TableWithout, Continue
    <2>2. CASE i \notin table
        BY <1>1, <1>3, <1>6, <2>2 DEF TypeOK, Goal, DeleteRow, Continue, k
    <2> QED BY <2>1, <2>2
<1>7. ASSUME cache[k] # "absent", NEW c \in Calls, CacheDelete(c) PROVE Goal
    <2>1. CASE call[c].item = i
        <3>1. key(call[c].org, call[c].item) = k
            BY <1>7, <2>1 DEF CallInv, CacheDelete, k
        <3>2. cache'[k] # "absent"
            BY <1>1 DEF k
        <3> QED BY <1>1, <1>2, <1>7, <3>1, <3>2 DEF TypeOK, Goal, CacheDelete, k
    <2>2. CASE call[c].item # i
        BY <1>1, <1>3, <1>7, <2>2 DEF TypeOK, Goal, CacheDelete, Answer, k
    <2> QED BY <2>1, <2>2
<1>8. ASSUME cache[k] # "absent", NEW c \in Calls, CallFails(c) PROVE Goal
    <2>1. CASE i \in table
        <3>1. i = call[c].item /\ owner[i] = call[c].org /\ table' # table
            BY <1>8, <2>1 DEF CallFails, TableWithout
        <3> QED BY <1>1, <1>8, <3>1 DEF Goal, CallFails
    <2>2. CASE i \notin table /\ at[c] = "cacheDelete" /\ call[c].item = i
        BY <1>1, <1>8, <2>2 DEF CallInv, Goal, CallFails
    <2>3. CASE i \notin table /\ ~(at[c] = "cacheDelete" /\ call[c].item = i)
        BY <1>1, <1>3, <1>8, <2>3 DEF TypeOK, Goal, CallFails, Answer, k
    <2> QED BY <2>1, <2>2, <2>3
<1>9. ASSUME cache[k] # "absent", NEW c \in Calls, at[c] # "cacheDelete",
             \A d \in Calls : d # c => at'[d] = at[d] /\ call'[d] = call[d],
             UNCHANGED <<table, uncertain>>
      PROVE  Goal
    BY <1>1, <1>3, <1>9 DEF Goal, k
<1>10. ASSUME cache[k] # "absent", NEW c \in Calls, NEW op \in {"get", "delete"},
              NEW o \in Orgs, NEW j \in Items, Begin(c, op, o, j)
       PROVE  Goal
    BY <1>9, <1>10 DEF TypeOK, Begin
<1>11. ASSUME cache[k] # "absent", NEW c \in Calls,
              CacheGet(c) \/ SelectItem(c) \/ CheckExists(c)
       PROVE  Goal
    BY <1>9, <1>11 DEF TypeOK, CacheGet, SelectItem, CheckExists, Answer, Continue
<1>12. ASSUME cache[k] # "absent", UNCHANGED <<at, call, uncertain>>, table \subseteq table'
       PROVE  Goal
    BY <1>1, <1>3, <1>12 DEF Goal, k
<1>13. \/ \E c \in Calls, op \in {"get", "delete"}, o \in Orgs, j \in Items : Begin(c, op, o, j)
       \/ \E c \in Calls : CallStep(c) \/ CallFails(c)
       \/ \E w \in Writers : HSet(w)
       \/ UNCHANGED <<at, call, uncertain>> /\ table \subseteq table'
    BY DEF Next, WriteStep, Create, WorkerTakes, Expire, PipelineFails, TimeToLiveEnds, vars
<1>14. Goal
    BY <1>4, <1>5, <1>6, <1>7, <1>8, <1>10, <1>11, <1>12, <1>13 DEF CallStep
<1> QED BY <1>14 DEF Goal

\* The key of a write that goes on does not move.
LEMMA WrittenKeyStays ==
    ASSUME TypeOK, [Next]_vars, NEW v \in Writers, writing[v] # "idle", writes'[v] = writes[v]
    PROVE  WrittenKey(v)' = WrittenKey(v)
    BY RowsAreForGood DEF TypeOK, WrittenKey, key

\* An HSET that makes a key eternal is followed by the EXPIRE of the same writer,
\* and a writer's EXPIRE is skipped only when its key is marked.
LEMMA EternalStep ==
    TypeOK /\ RowInv /\ CallInv /\ EternalOnlyIfTorn /\ [Next]_vars => EternalOnlyIfTorn'
<1> SUFFICES ASSUME TypeOK, RowInv, CallInv, EternalOnlyIfTorn, [Next]_vars,
                    NEW k \in Orgs \X Items, cache'[k] = "eternal"
             PROVE  k \in torn' \/ \E w \in Writers : writing'[w] = "expire" /\ WrittenKey(w)' = k
    BY DEF EternalOnlyIfTorn
<1> USE ServiceAssumption DEF rowVars, callVars, writeVars
<1> DEFINE Covered == \/ k \in torn'
                      \/ \E w \in Writers : writing'[w] = "expire" /\ WrittenKey(w)' = k
<1> HIDE DEF Covered
\* Whoever was to expire the key still is, if his step is still to come.
<1>1. ASSUME cache[k] = "eternal", torn \subseteq torn',
             \A v \in Writers : writing[v] = "expire" /\ WrittenKey(v) = k
                 => \/ writing'[v] = "expire" /\ writes'[v] = writes[v]
                    \/ k \in torn'
      PROVE  Covered
    BY <1>1, WrittenKeyStays DEF EternalOnlyIfTorn, Covered
<1>2. ASSUME NEW w \in Writers, HSet(w) PROVE Covered
    <2>1. CASE WrittenKey(w) = k
        <3>1. WrittenKey(w)' = k
            BY <1>2, <2>1, WrittenKeyStays DEF HSet
        <3>2. writing'[w] = "expire"
            BY <1>2 DEF TypeOK, HSet
        <3> QED BY <3>1, <3>2 DEF Covered
    <2>2. CASE WrittenKey(w) # k
        <3>1. cache[k] = "eternal"
            BY <1>2, <2>2, HSetFacts
        <3> QED BY <1>1, <1>2, <2>2, <3>1 DEF TypeOK, HSet
    <2> QED BY <2>1, <2>2
<1>3. ASSUME NEW w \in Writers, Expire(w) PROVE Covered
    <2>1. /\ WrittenKey(w) \in Orgs \X Items
          /\ \A v \in Writers : v # w => writing'[v] = writing[v]
        BY <1>3, WrittenKeyType, SetReturnsTypes DEF Expire
    <2>2. WrittenKey(w) # k /\ cache[k] = "eternal"
        BY <1>3, <2>1 DEF TypeOK, Expire
    <2> QED BY <1>1, <1>3, <2>1, <2>2 DEF Expire
<1>4. ASSUME NEW w \in Writers, PipelineFails(w) PROVE Covered
    <2>1. \A v \in Writers : v # w => writing'[v] = writing[v]
        BY <1>4, SetReturnsTypes DEF PipelineFails
    <2> QED BY <1>1, <1>4, <2>1 DEF PipelineFails
<1>5. ASSUME NEW c \in Calls, SelectItem(c) PROVE Covered
    <2>1. writing[c] = "idle"
        BY <1>5 DEF CallInv, SelectItem
    <2> QED BY <1>1, <1>5, <2>1 DEF TypeOK, SelectItem, Writers
<1>6. ASSUME NEW i \in Items, WorkerTakes(i) PROVE Covered
    BY <1>1, <1>6 DEF TypeOK, WorkerTakes, Writers
<1>7. ASSUME NEW c \in Calls, CacheDelete(c) PROVE Covered
    <2>1. cache[k] = "eternal"
        BY <1>7 DEF TypeOK, CacheDelete
    <2> QED BY <1>1, <1>7, <2>1 DEF CacheDelete
<1>8. ASSUME NEW l \in Orgs \X Items, TimeToLiveEnds(l) PROVE Covered
    <2>1. cache[k] = "eternal"
        BY <1>8 DEF TypeOK, TimeToLiveEnds
    <2> QED BY <1>1, <1>8, <2>1 DEF TimeToLiveEnds
<1>9. ASSUME UNCHANGED <<cache, writing, writes, torn>> PROVE Covered
    BY <1>1, <1>9
<1>10. Covered
    BY <1>2, <1>3, <1>4, <1>5, <1>6, <1>7, <1>8, <1>9
    DEF Next, CallStep, WriteStep, Create, Begin, CacheGet, CheckExists, DeleteRow,
        CallFails, vars
<1> QED BY <1>10 DEF Covered
-------------------------------------------------------------------------------
(* Ghosts: items that are found although they are deleted.                   *)

\* Nothing takes a mark from a key.
LEMMA MarksStay == [Next]_vars => uncertain \subseteq uncertain'
    BY DEF Next, CallStep, WriteStep, Create, Begin, CacheGet, SelectItem, CheckExists,
           DeleteRow, CacheDelete, CallFails, WorkerTakes, HSet, Expire, PipelineFails,
           TimeToLiveEnds, vars

\* A call that has answered is over.
LEMMA DoneStays ==
    ASSUME TypeOK, [Next]_vars, NEW c \in Calls, at[c] = "done"
    PROVE  call'[c] = call[c] /\ late'[c] = late[c] /\ reply'[c] = reply[c]
<1>1. ASSUME NEW d \in Calls, NEW op \in {"get", "delete"}, NEW o \in Orgs, NEW i \in Items,
             Begin(d, op, o, i)
      PROVE  call'[c] = call[c] /\ late'[c] = late[c] /\ reply'[c] = reply[c]
    BY <1>1 DEF TypeOK, Begin
<1>2. ASSUME NEW d \in Calls, CallStep(d) \/ CallFails(d)
      PROVE  call'[c] = call[c] /\ late'[c] = late[c] /\ reply'[c] = reply[c]
    <2>1. at[d] # "done" /\ UNCHANGED <<call, late>>
        BY <1>2 DEF CallStep, CacheGet, SelectItem, CheckExists, DeleteRow, CacheDelete,
                    CallFails, Answer, Continue
    <2>2. reply' = reply \/ \E r \in {"found", "notFound", "deleted", "error"} :
                                reply' = [reply EXCEPT ![d] = r]
        BY <1>2 DEF CallStep, CacheGet, SelectItem, CheckExists, DeleteRow, CacheDelete,
                    CallFails, Answer, Continue
    <2> QED BY <2>1, <2>2 DEF TypeOK
<1> QED
    BY <1>1, <1>2
    DEF Next, WriteStep, Create, WorkerTakes, HSet, Expire, PipelineFails, TimeToLiveEnds,
        vars, callVars

\* After a Delete has answered nil its key appears only by an HSET that marks it.
LEMMA GoneStep == IInv /\ GoneInv /\ [Next]_vars => GoneInv'
<1> SUFFICES ASSUME IInv, GoneInv, [Next]_vars,
                    NEW i \in gone', cache'[key(owner'[i], i)] # "absent"
             PROVE  key(owner'[i], i) \in uncertain'
    BY DEF GoneInv, key
<1> USE DEF rowVars, callVars, writeVars
<1>0. TypeOK /\ RowInv /\ CallInv
    BY DEF IInv
<1>1. ASSUME NEW c \in Calls, CacheDelete(c), i = call[c].item
      PROVE  key(owner'[i], i) \in uncertain'
    <2>1. key(call[c].org, call[c].item) = key(owner'[i], i)
        BY <1>0, <1>1 DEF CallInv, CacheDelete
    <2>2. key(owner'[i], i) \in Orgs \X Items
        BY <1>0, <1>1, <2>1 DEF TypeOK, CallInv, CacheDelete, Arguments, key
    <2> QED BY <1>0, <1>1, <2>1, <2>2 DEF TypeOK, CacheDelete
<1>2. CASE i \in gone
    <2>1. /\ i \in created /\ i \in Items /\ i \notin table /\ owner'[i] = owner[i]
          /\ key(owner[i], i) \in Orgs \X Items
        BY <1>0, <1>2, RowsAreForGood DEF TypeOK, RowInv, key
    <2>2. ASSUME NEW w \in Writers, HSet(w) PROVE key(owner[i], i) \in uncertain'
        <3>1. CASE WrittenKey(w) = key(owner[i], i)
            <4>1. writes[w] = i
                BY <1>0, <2>2, <3>1, HSetFacts DEF key
            <4> QED BY <1>0, <2>1, <2>2, <3>1, <4>1, HSetFacts
        <3>2. CASE WrittenKey(w) # key(owner[i], i)
            <4>1. cache[key(owner[i], i)] # "absent"
                BY <1>0, <2>1, <2>2, <3>2, HSetFacts
            <4> QED BY <1>0, <1>2, <2>2, <4>1, HSetFacts DEF GoneInv
        <3> QED BY <3>1, <3>2
    <2>3. CASE cache[key(owner[i], i)] # "absent"
        <3>1. key(owner[i], i) \in uncertain
            BY <1>2, <2>3 DEF GoneInv
        <3> QED BY <2>1, <3>1, MarksStay
    <2> QED BY <1>0, <2>1, <2>2, <2>3, KeysAppearByHSet
<1>3. CASE i \notin gone
    <2>1. \E c \in Calls : CacheDelete(c) /\ i = call[c].item
        BY <1>3 DEF Next, CallStep, WriteStep, Create, Begin, CacheGet, SelectItem, CheckExists,
                    DeleteRow, CacheDelete, CallFails, WorkerTakes, HSet, Expire,
                    PipelineFails, TimeToLiveEnds, vars
    <2> QED BY <1>1, <2>1
<1> QED BY <1>2, <1>3

\* A call that comes to say "found" has found a row of its org or a key of its own.
LEMMA FoundFacts ==
    ASSUME IInv, [Next]_vars, NEW c \in Calls, reply[c] # "found", reply'[c] = "found"
    PROVE  /\ UNCHANGED <<call, late, uncertain>>
           /\ owner[call[c].item] = call[c].org /\ call[c].item \in created
           /\ \/ call[c].item \in table
              \/ cache[key(call[c].org, call[c].item)] # "absent"
<1>0. TypeOK /\ RowInv /\ CallInv /\ KeyInv
    BY DEF IInv
<1>1. CacheGet(c) \/ SelectItem(c)
    <2>1. ASSUME NEW d \in Calls, CacheGet(d) \/ SelectItem(d) PROVE d = c
        BY <1>0, <2>1 DEF TypeOK, CacheGet, SelectItem, Answer, Continue
    <2>2. \E d \in Calls : CacheGet(d) \/ SelectItem(d)
        <3>1. ASSUME NEW d \in Calls, CheckExists(d) \/ CacheDelete(d) \/ CallFails(d)
              PROVE  FALSE
            BY <1>0, <3>1 DEF TypeOK, CheckExists, CacheDelete, CallFails, Answer, Continue
        <3>2. \/ \E d \in Calls : \/ CacheGet(d) \/ SelectItem(d)
                                 \/ CheckExists(d) \/ CacheDelete(d) \/ CallFails(d)
              \/ UNCHANGED reply
            BY DEF Next, CallStep, WriteStep, Create, Begin, DeleteRow, Continue, WorkerTakes,
                   HSet, Expire, PipelineFails, TimeToLiveEnds, vars, callVars
        <3> QED
            BY <3>1, <3>2
    <2> QED BY <2>1, <2>2
<1>2. at[c] \in {"cacheGet", "select"} /\ call[c].org \in Orgs /\ call[c].item \in Items
    BY <1>0, <1>1 DEF CallInv, Arguments, CacheGet, SelectItem
<1>3. UNCHANGED <<call, late, uncertain>>
    BY <1>1 DEF CacheGet, SelectItem, Answer, Continue
<1>4. CASE CacheGet(c)
    <2>1. cache[key(call[c].org, call[c].item)] # "absent"
        BY <1>0, <1>4 DEF TypeOK, CacheGet, Cached, Continue
    <2>2. call[c].item \in created /\ owner[call[c].item] = call[c].org
        BY <1>0, <1>2, <2>1 DEF KeyInv, key
    <2> QED BY <1>3, <2>1, <2>2
<1>5. CASE SelectItem(c)
    <2>1. HasRow(call[c].org, call[c].item)
        BY <1>0, <1>2, <1>5 DEF TypeOK, SelectItem, Answer
    <2> QED BY <1>0, <1>3, <2>1 DEF TypeOK, HasRow
<1> QED BY <1>1, <1>4, <1>5
-------------------------------------------------------------------------------
(* The theorems.                                                             *)

\* Every variable starts in its type.
LEMMA TypeInit == Init => TypeOK
    BY ServiceAssumption DEF Init, TypeOK, Writers

\* The strengthening of the invariants holds in every reachable state.
THEOREM Invariance == SafeSpec => []IInv
<1>1. Init => IInv
    <2> SUFFICES ASSUME Init PROVE IInv
        OBVIOUS
    <2>1. RowInv /\ CallInv /\ LateInv /\ InvalidationWorks
        BY DEF Init, RowInv, CallInv, LateInv, InvalidationWorks, Writers
    <2>2. KeyInv /\ EternalOnlyIfTorn
        BY DEF Init, KeyInv, EternalOnlyIfTorn
    <2> QED BY <2>1, <2>2, TypeInit DEF IInv
<1>2. IInv /\ [Next]_vars => IInv'
    BY TypeStep, RowStep, CallInvStep, LateStep, KeyStep, InvalidationStep, EternalStep
    DEF IInv
<1> QED BY <1>1, <1>2, PTL DEF SafeSpec

\* Every variable keeps its type, and only created items are written to the cache.
THEOREM TypeCorrect == SafeSpec => []TypeOK
<1>1. IInv => TypeOK
    BY DEF IInv
<1> QED BY <1>1, Invariance, PTL

\* No org is ever given, or deletes, another org's item, through the table or
\* through the cache.
THEOREM TenantsAreIsolated == SafeSpec => []TenantIsolation
<1>1. IInv => TenantIsolation
    BY DEF IInv, CallInv, KeyInv, TenantIsolation
<1> QED BY <1>1, Invariance, PTL

\* A key outlives its row only for one of the reasons that are listed.
THEOREM DeleteInvalidates == SafeSpec => []InvalidationWorks
<1>1. IInv => InvalidationWorks
    BY DEF IInv
<1> QED BY <1>1, Invariance, PTL

\* Interleaved pipelines never leave a key without a TTL, cut ones may.
THEOREM OnlyTornKeysStay == SafeSpec => []EternalOnlyIfTorn
<1>1. IInv => EternalOnlyIfTorn
    BY DEF IInv
<1> QED BY <1>1, Invariance, PTL

\* No call that begins after a Delete has answered nil deletes the item again.
THEOREM DeletedOnce == SafeSpec => []DeletedForGood
<1>1. IInv => DeletedForGood
    BY DEF IInv, LateInv, DeletedForGood
<1> QED BY <1>1, Invariance, PTL

\* A deleted item is found by a call that began after its Delete only under a key
\* that was marked: the part of DeleteIsFinal that the code keeps.
THEOREM GhostsAreExplained == SafeSpec => []GhostsHaveCause
<1>1. Init => GoneInv /\ GhostsHaveCause
    BY DEF Init, GoneInv, GhostsHaveCause
<1>2. IInv /\ GoneInv /\ GhostsHaveCause /\ [Next]_vars => GhostsHaveCause'
    <2> SUFFICES ASSUME IInv, GoneInv, GhostsHaveCause, [Next]_vars,
                        NEW c \in Calls, late'[c], reply'[c] = "found"
                 PROVE  key(call'[c].org, call'[c].item) \in uncertain'
        BY DEF GhostsHaveCause, key
    <2>1. CASE reply[c] = "found"
        <3>1. CallInv
            BY DEF IInv
        <3>2. at[c] = "done"
            BY <2>1, <3>1 DEF CallInv
        <3>3. call'[c] = call[c] /\ late'[c] = late[c]
            BY <3>2, DoneStays DEF IInv
        <3> QED BY <2>1, <3>3, MarksStay DEF GhostsHaveCause
    <2>2. CASE reply[c] # "found"
        <3>1. /\ UNCHANGED <<call, late, uncertain>>
              /\ owner[call[c].item] = call[c].org
              /\ \/ call[c].item \in table
                 \/ cache[key(call[c].org, call[c].item)] # "absent"
            BY <2>2, FoundFacts
        <3>2. call[c].item \in gone /\ call[c].item \notin table
            BY <3>1 DEF IInv, LateInv, RowInv
        <3> QED BY <3>1, <3>2 DEF GoneInv
    <2> QED BY <2>1, <2>2
<1> QED BY <1>1, <1>2, GoneStep, Invariance, PTL DEF SafeSpec

\* Whoever is told of an item without a row, it is the listed exceptions' doing.
THEOREM StaleAnswersAreExplained == SafeSpec => StaleAnswersHaveCause
<1> DEFINE Step ==
        \A c \in Calls :
           reply[c] # "found" /\ reply'[c] = "found" /\ call[c].item \notin table =>
               \/ key(call[c].org, call[c].item) \in uncertain
               \/ \E d \in Calls : at[d] = "cacheDelete" /\ call[d].item = call[c].item
<1>1. IInv /\ [Next]_vars => [Step]_vars
    <2> SUFFICES ASSUME IInv, [Next]_vars,
                        NEW c \in Calls, reply[c] # "found", reply'[c] = "found",
                        call[c].item \notin table
                 PROVE  \/ key(call[c].org, call[c].item) \in uncertain
                        \/ \E d \in Calls : at[d] = "cacheDelete" /\ call[d].item = call[c].item
        OBVIOUS
    <2> QED BY FoundFacts DEF IInv, InvalidationWorks
<1> QED BY <1>1, Invariance, PTL DEF SafeSpec, StaleAnswersHaveCause
===============================================================================
