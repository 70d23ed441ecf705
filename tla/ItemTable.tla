------------------------------- MODULE ItemTable -------------------------------
(***************************************************************************)
(* The table item.items and the statements of ItemRepository on it, used by*)
(* several orgs at once, while one caller of List reads an org's items page*)
(* by page.  A statement is atomic; a List is two of them.                 *)
(*                                                                         *)
(* created_at is the time of an API process's clock, in the microseconds   *)
(* the column can hold: items reach the table in any order of age, and two *)
(* may be equally old.                                                     *)
(***************************************************************************)
EXTENDS Integers, Sequences, FiniteSets

CONSTANTS
    Orgs, Ids, Names,
    Limits, Offsets, \* arguments List is called with
    Times,           \* readings of the clocks
    Half             \* 2^31: an int32 is in -Half .. Half - 1

ASSUME TableAssumption ==
    /\ Limits \cup Offsets \cup Times \subseteq Nat /\ Half \in Nat \ {0}
    /\ Orgs # {} /\ Names # {} /\ Times # {} /\ IsFiniteSet(Ids)

VARIABLES
    item,      \* what is or was the row of an ID
    state,     \* "free", "row" (in the table), "deleted"
    at,        \* where the caller of List is
    org, limit, offset,  \* its arguments
    page, total,         \* the results of its last call, until it has used them
    found,     \* IDs on the pages so far
    repeated,  \* was an ID on two of them?
    first,     \* history: the offset of the first page
    lasting,   \* history: the org's rows since the sweep began
    grew, shrunk,        \* history: did the org gain, lose rows in the sweep?
    counted, drift       \* history: its rows at the page query, gained since then

tableVars == <<item, state>>
histVars  == <<first, lasting, grew, shrunk, counted, drift>>
sweepVars == <<at, org, limit, offset, page, total, found, repeated>>
vars      == <<tableVars, sweepVars, histVars>>

Items == [org : Orgs, name : Names, created_at : Times]

Rows(o) == {i \in Ids : state[i] = "row" /\ item[i].org = o}

InSweep(o) == o = org /\ at \in {"page", "count", "got"}

Blank == CHOOSE x \in Items : TRUE

Init ==
    /\ item = [i \in Ids |-> Blank]
    /\ state = [i \in Ids |-> "free"]
    /\ at = "idle" /\ org = Blank.org /\ limit = 0 /\ offset = 0
    /\ page = <<>> /\ total = 0 /\ found = {} /\ repeated = FALSE
    /\ first = 0 /\ lasting = {} /\ grew = FALSE /\ shrunk = FALSE
    /\ counted = 0 /\ drift = 0
-------------------------------------------------------------------------------
(* Statements of the writers.                                                *)

UpsertItem(i, o, t) ==
    /\ state[i] # "deleted"
    /\ state' = [state EXCEPT ![i] = "row"]
    /\ item' = [item EXCEPT ![i].org = o, ![i].created_at = t]
    /\ grew' = (grew \/ InSweep(o))
    /\ drift' = drift + (IF InSweep(o) /\ at = "count" THEN 1 ELSE 0)
    /\ UNCHANGED <<sweepVars, first, lasting, shrunk, counted>>

\* NewItem and INSERT; UUIDs are fresh.
InsertItem(i, o, t) ==
    /\ state[i] = "free"
    /\ state' = [state EXCEPT ![i] = "row"]
    /\ item' = [item EXCEPT ![i].org = o, ![i].created_at = t]
    /\ grew' = (grew \/ InSweep(o))
    /\ drift' = drift + (IF InSweep(o) /\ at = "count" THEN 1 ELSE 0)
    /\ UNCHANGED <<sweepVars, first, lasting, shrunk, counted>>

TouchRow(i, n) == [item EXCEPT ![i].name = n, ![i].created_at = CHOOSE t \in Times : TRUE]

\* UPDATE ... SET name
SetName(i, n) == [item EXCEPT ![i].name = n]

\* ... WHERE id AND org_id
UpdateItem(o, i, n) ==
    /\ i \in Rows(o)
    /\ item' = SetName(i, n)
    /\ UNCHANGED <<state, sweepVars, histVars>>

\* DELETE ... WHERE id AND org_id.
DeleteItem(o, i) ==
    /\ i \in Rows(o)
    /\ state' = [state EXCEPT ![i] = "deleted"]
    /\ lasting' = lasting \ {i}
    /\ shrunk' = (shrunk \/ InSweep(o))
    /\ drift' = drift - (IF InSweep(o) /\ at = "count" THEN 1 ELSE 0)
    /\ UNCHANGED <<item, sweepVars, first, grew, counted>>
-------------------------------------------------------------------------------
(* ItemRepository.FindByOrgID, called for one page after the other.          *)

\* Go's conversion of an int to int32 keeps the low bits.
Int32(n) == ((n + Half) % (2 * Half)) - Half

\* ORDER BY created_at DESC: PostgreSQL may order equal times as it likes.
Sorted(o) ==
    LET n == Cardinality(Rows(o))
    IN  {s \in [1 .. n -> Rows(o)] : \A a, b \in 1 .. n : a < b =>
            s[a] # s[b] /\ item[s[a]].created_at >= item[s[b]].created_at}

\* LIMIT l OFFSET k
Slice(s, l, k) == SubSeq(s, k + 1, IF k + l < Len(s) THEN k + l ELSE Len(s))

Start(o, l, k) ==
    /\ at = "idle" /\ at' = "page"
    /\ org' = o /\ limit' = l /\ offset' = k
    /\ first' = k /\ lasting' = Rows(o)
    /\ UNCHANGED <<tableVars, page, total, found, repeated, grew, shrunk, counted, drift>>

\* SELECT of the page; PostgreSQL refuses a negative LIMIT or OFFSET.
FindItemsByOrgID ==
    /\ at = "page"
    /\ LET l == Int32(limit)
           k == Int32(offset)
       IN  \/ /\ l >= 0 /\ k >= 0
              /\ \E s \in Sorted(org) : page' = Slice(s, l, k)
              /\ at' = "count"
              /\ counted' = Cardinality(Rows(org)) /\ drift' = 0
           \/ /\ l < 0 \/ k < 0
              /\ at' = "error" /\ UNCHANGED <<page, counted, drift>>
    /\ UNCHANGED <<tableVars, org, limit, offset, total, found, repeated, first, lasting, grew, shrunk>>

CountAll ==
    /\ at = "count" /\ at' = "got"
    /\ total' = Cardinality({i \in Ids : state[i] = "row"})
    /\ UNCHANGED <<tableVars, org, limit, offset, page, found, repeated, histVars>>

\* SELECT COUNT(*), a statement of its own.
CountItemsByOrgID ==
    /\ at = "count" /\ at' = "got"
    /\ total' = Cardinality(Rows(org))
    /\ UNCHANGED <<tableVars, org, limit, offset, page, found, repeated, histVars>>

\* Either query fails: List answers an error.
QueryFails ==
    /\ at \in {"page", "count"} /\ at' = "error"
    /\ UNCHANGED <<tableVars, org, limit, offset, page, total, found, repeated, histVars>>

\* The caller asks for the next page unless this one was not full.
NextPage ==
    LET ids == {page[n] : n \in 1 .. Len(page)} IN
    /\ at = "got"
    /\ found' = found \cup ids
    /\ repeated' = (repeated \/ ids \cap found # {})
    /\ \/ Len(page) < limit /\ at' = "done" /\ UNCHANGED offset
       \/ Len(page) >= limit /\ at' = "page" /\ offset' = offset + limit
    /\ page' = <<>> /\ total' = 0 /\ counted' = 0 /\ drift' = 0
    /\ UNCHANGED <<tableVars, org, limit, first, lasting, grew, shrunk>>

Next ==
    \/ \E i \in Ids, o \in Orgs, n \in Names : UpdateItem(o, i, n)
    \/ \E i \in Ids, o \in Orgs, t \in Times : InsertItem(i, o, t)
    \/ \E i \in Ids, o \in Orgs : DeleteItem(o, i)
    \/ \E o \in Orgs, l \in Limits, k \in Offsets : Start(o, l, k)
    \/ FindItemsByOrgID \/ CountItemsByOrgID \/ QueryFails \/ NextPage

Spec == Init /\ [][Next]_vars
-------------------------------------------------------------------------------
(* Properties.                                                               *)

\* Types; the counters of the history agree with the table.
TypeOK ==
    /\ item \in [Ids -> Items]
    /\ state \in [Ids -> {"free", "row", "deleted"}]
    /\ at \in {"idle", "page", "count", "got", "done", "error"}
    /\ org \in Orgs /\ {limit, offset, first} \subseteq Nat
    /\ page \in Seq(Ids) /\ total \in 0 .. Cardinality(Ids)
    /\ found \subseteq Ids /\ {repeated, grew, shrunk} \subseteq BOOLEAN
    /\ lasting \subseteq Rows(org) /\ counted \in 0 .. Cardinality(Ids) /\ drift \in Int

\* Have no two of the org's items the same created_at?
AgesDiffer ==
    \A i, j \in Ids : i # j /\ "free" \notin {state[i], state[j]}
        /\ item[i].org = org /\ item[j].org = org => item[i].created_at # item[j].created_at

\* Paging while others write, when no two items are equally old.  From the start, and
\* if none is deleted, it loses nobody who was there all the time, though rows are
\* inserted and renamed meanwhile, in whatever order their items were made; and if
\* none is inserted it shows nobody twice, though rows are deleted and renamed.
SweepIsExact ==
    AgesDiffer =>
        /\ at = "done" /\ first = 0 /\ limit < Half /\ ~shrunk => lasting \subseteq found
        /\ ~grew => ~repeated

\* What a List answers belongs together, although it comes of two statements and of
\* numbers that were cut to int32: a page shows rows of the caller's org only, no more
\* of them than its limit, and the total next to it is what there was at the page's
\* moment but for what was inserted and deleted since.
ListIsConsistent ==
    /\ at \in {"count", "got"} =>
        /\ Len(page) <= limit
        /\ \A n \in 1 .. Len(page) : item[page[n]].org = org
    /\ at = "got" => total = counted + drift
===============================================================================
