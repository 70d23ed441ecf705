---------------------------- MODULE ItemTableProofs ----------------------------
(***************************************************************************)
(* Proofs about ItemTable, for tables and pages of any size and any width  *)
(* of an int: what a List answers belongs together, and a sweep of pages   *)
(* loses and repeats nobody under the conditions of SweepIsExact.          *)
(***************************************************************************)
EXTENDS ItemTable, FiniteSetTheorems, TLAPS

Sweeping == {"page", "count", "got"}

PageIds == {page[n] : n \in 1 .. Len(page)}

\* The place of i among the org's rows, the youngest being the first, if no two are
\* equally old.
NoOlder(i) == {j \in Rows(org) : item[j].created_at >= item[i].created_at}
Rank(i)    == Cardinality(NoOlder(i))

\* What a page query has taken belongs to the caller's org and is no more than its
\* limit, both numbers being good int32 ...
PageInv ==
    /\ at \in {"count", "got"} =>
          /\ Int32(limit) >= 0 /\ Int32(offset) >= 0
          /\ Len(page) <= Int32(limit)
          /\ \A n \in 1 .. Len(page) : state[page[n]] # "free" /\ item[page[n]].org = org
    /\ at = "idle" => found = {} /\ ~repeated

\* ... and the rows are counted rightly since.
CountInv ==
    /\ at = "count" => Cardinality(Rows(org)) = counted + drift
    /\ at = "got" => total = counted + drift

\* Without inserts, those on earlier pages stay before the page to come.
NoRepeat ==
    /\ ~repeated
    /\ at \in Sweeping /\ Int32(offset) >= 0 =>
          \A i \in found \cap Rows(org) : Rank(i) <= Int32(offset)
    /\ at \in {"count", "got"} =>
          /\ PageIds \cap found = {}
          /\ \A i \in PageIds \cap Rows(org) : Rank(i) <= Int32(offset) + Int32(limit)

\* Without deletes, a row that has been there all the time is on a page or still to
\* come.
NoLoss ==
    /\ at = "page" =>
          /\ offset < 2 * Half
          /\ \A i \in lasting : i \in found \/ Rank(i) > offset
    /\ at \in {"count", "got"} =>
          /\ offset < Half
          /\ \A i \in lasting :
                i \in found \cup PageIds \/ (Len(page) >= limit /\ Rank(i) > offset + limit)
    /\ at = "done" => lasting \subseteq found

SweepInv ==
    AgesDiffer =>
        /\ ~grew => NoRepeat
        /\ first = 0 /\ limit < Half /\ ~shrunk => NoLoss

IInv == TypeOK /\ PageInv /\ CountInv /\ SweepInv
-------------------------------------------------------------------------------
(* Conversion to int32.                                                      *)

\* Division has one quotient and one remainder.
LEMMA OneRemainder ==
    ASSUME NEW d \in Nat \ {0}, NEW p \in Int, NEW q \in Int, NEW r \in Nat, NEW s \in Nat,
           r < d, s < d, d * p + r = d * q + s
    PROVE  r = s
<1>1. ASSUME NEW x \in Int, NEW y \in Int, x < y
      PROVE  d * x + d <= d * y
    <2>1. PICK e \in Nat : y = (x + 1) + e
        <3>1. y - (x + 1) \in Nat /\ y = (x + 1) + (y - (x + 1))
            BY <1>1
        <3> QED
            BY <3>1
    <2>2. d * e \in Nat
        OBVIOUS
    <2>3. d * y = d * x + d + d * e
        BY <2>1
    <2> QED
        BY <2>2, <2>3
<1>2. ~(p < q) /\ ~(q < p)
    BY <1>1
<1> QED
    BY <1>2

\* Int32(n) is n but for a multiple of 2^32, and small.
LEMMA Int32Range ==
    ASSUME NEW n \in Nat
    PROVE  /\ Half \in Nat \ {0}
           /\ Int32(n) \in Int /\ -Half <= Int32(n) /\ Int32(n) < Half /\ Int32(n) <= n
           /\ \E q \in Nat : n = (2 * Half) * q + Int32(n)
<1> DEFINE d == 2 * Half
           a == n + Half
<1>1. Half \in Nat \ {0} /\ d \in Nat /\ d > 0 /\ a \in Nat
    BY TableAssumption
<1>2. Int32(n) = (a % d) - Half
    BY DEF Int32
<1> HIDE DEF a, d
<1>3. /\ a % d \in Int /\ 0 <= a % d /\ a % d < d
      /\ a = d * (a \div d) + (a % d)
      /\ a \div d \in Nat
    BY <1>1
<1>4. d * (a \div d) \in Nat
    BY <1>1, <1>3
<1>5. n = d * (a \div d) + Int32(n)
    BY <1>1, <1>2, <1>3, <1>4 DEF a
<1>6. /\ Int32(n) \in Int /\ -Half <= Int32(n) /\ Int32(n) < Half
    BY <1>1, <1>2, <1>3 DEF d
<1>7. Int32(n) <= n
    BY <1>4, <1>5, <1>6
<1> QED
    BY <1>1, <1>3, <1>5, <1>6, <1>7 DEF d

\* No other number is.
LEMMA Int32Is ==
    ASSUME NEW n \in Nat, NEW q \in Int, NEW x \in Int, -Half <= x, x < Half,
           n = (2 * Half) * q + x
    PROVE  Int32(n) = x
<1>1. Half \in Nat \ {0} /\ Int32(n) \in Int /\ -Half <= Int32(n) /\ Int32(n) < Half
    BY Int32Range
<1>2. PICK p \in Nat : n = (2 * Half) * p + Int32(n)
    BY Int32Range
<1> DEFINE d == 2 * Half
           u == Int32(n) + Half
           v == x + Half
<1>3. d \in Nat \ {0} /\ u \in Nat /\ v \in Nat /\ u < d /\ v < d
    BY <1>1
<1>4. d * p + u = d * q + v
    <2>1. d * p \in Int /\ d * q \in Int
        BY <1>1
    <2>2. d * p + Int32(n) = d * q + x
        BY <1>2
    <2> HIDE DEF d
    <2> QED
        BY <1>1, <2>1, <2>2
<1>5. u = v
    <2> HIDE DEF d, u, v
    <2> QED
        BY <1>3, <1>4, OneRemainder
<1> QED
    BY <1>1, <1>5

\* Small numbers stay as they are and the next ones turn negative.
LEMMA Int32Small ==
    ASSUME NEW n \in Nat
    PROVE  /\ n < Half => Int32(n) = n
           /\ Half <= n /\ n < 2 * Half => Int32(n) < 0
<1>1. Half \in Nat \ {0}
    BY TableAssumption
<1>2. ASSUME n < Half
      PROVE  Int32(n) = n
    <2>1. n = (2 * Half) * 0 + n /\ -Half <= n
        BY <1>1
    <2> QED
        BY <1>2, <2>1, Int32Is
<1>3. ASSUME Half <= n, n < 2 * Half
      PROVE  Int32(n) < 0
    <2> DEFINE x == n - 2 * Half
    <2>1. x \in Int /\ -Half <= x /\ x < Half /\ x < 0 /\ n = (2 * Half) * 1 + x
        BY <1>1, <1>3
    <2> HIDE DEF x
    <2>2. Int32(n) = x
        BY <2>1, Int32Is
    <2> QED
        BY <2>1, <2>2
<1> QED
    BY <1>2, <1>3

\* A step that leads to no negative number leads as far as it should.
LEMMA Int32Adds ==
    ASSUME NEW n \in Nat, NEW m \in Nat, m < Half, Int32(n) >= 0, Int32(n + m) >= 0
    PROVE  Int32(n + m) = Int32(n) + m
<1>1. Half \in Nat \ {0} /\ Int32(n) \in Int /\ -Half <= Int32(n) /\ Int32(n) < Half
    BY Int32Range
<1>2. PICK q \in Nat : n = (2 * Half) * q + Int32(n)
    BY Int32Range
<1> DEFINE x == Int32(n) + m
           y == x - 2 * Half
<1>3. x \in Int /\ 0 <= x /\ x < 2 * Half
    BY <1>1
<1>4. n + m = (2 * Half) * q + x
    <2> DEFINE w == (2 * Half) * q
    <2>1. w \in Int /\ n = w + Int32(n)
        BY <1>1, <1>2
    <2> HIDE DEF w
    <2>2. n + m = w + x
        BY <1>1, <2>1
    <2> QED
        BY <2>2 DEF w
<1>5. n + m = (2 * Half) * (q + 1) + y
    <2>1. (2 * Half) * q \in Int /\ (2 * Half) * (q + 1) = (2 * Half) * q + 2 * Half
        BY <1>1
    <2> HIDE DEF x
    <2> QED
        BY <1>1, <1>3, <1>4, <2>1
<1> HIDE DEF x
<1>6. CASE x < Half
    <2>1. -Half <= x /\ n + m \in Nat
        BY <1>1, <1>3
    <2>2. Int32(n + m) = x
        BY <1>3, <1>4, <1>6, <2>1, Int32Is
    <2> QED
        BY <2>2 DEF x
<1>7. CASE x >= Half
    <2>1. y \in Int /\ -Half <= y /\ y < 0 /\ y < Half /\ n + m \in Nat /\ q + 1 \in Int
        BY <1>1, <1>3, <1>7
    <2> HIDE DEF y
    <2>2. Int32(n + m) = y
        BY <1>5, <2>1, Int32Is
    <2> QED
        BY <2>1, <2>2
<1> QED
    BY <1>1, <1>3, <1>6, <1>7
-------------------------------------------------------------------------------
(* Rows.                                                                     *)

LEMMA RowsFinite ==
    ASSUME NEW o
    PROVE  /\ IsFiniteSet(Rows(o)) /\ Cardinality(Rows(o)) \in Nat
           /\ Cardinality(Ids) \in Nat /\ Cardinality(Rows(o)) \in 0 .. Cardinality(Ids)
<1>1. Rows(o) \in SUBSET Ids /\ IsFiniteSet(Ids)
    BY TableAssumption DEF Rows
<1>2. IsFiniteSet(Rows(o)) /\ Cardinality(Rows(o)) <= Cardinality(Ids)
    BY <1>1, FS_Subset
<1>3. Cardinality(Rows(o)) \in Nat /\ Cardinality(Ids) \in Nat
    BY <1>1, <1>2, FS_CardinalityType
<1> QED
    BY <1>2, <1>3

\* A new row.
LEMMA InsertFacts ==
    ASSUME TypeOK, NEW i \in Ids, NEW o \in Orgs, NEW t \in Times, InsertItem(i, o, t)
    PROVE  /\ item' \in [Ids -> Items] /\ state' \in [Ids -> {"free", "row", "deleted"}]
           /\ \A j \in Ids : j # i => item'[j] = item[j] /\ state'[j] = state[j]
           /\ state[i] = "free" /\ state'[i] = "row" /\ item'[i].org = o
           /\ \A p : i \notin Rows(p)
<1>1. /\ item \in [Ids -> Items] /\ state \in [Ids -> {"free", "row", "deleted"}]
      /\ state[i] = "free"
      /\ state' = [state EXCEPT ![i] = "row"]
      /\ item' = [item EXCEPT ![i].org = o, ![i].created_at = t]
    BY DEF TypeOK, InsertItem
<1>2. \A j \in Ids : j # i => item'[j] = item[j] /\ state'[j] = state[j]
    BY <1>1
<1>3. item[i] \in Items
    BY <1>1
<1>4. /\ item'[i] = [item[i] EXCEPT !.org = o, !.created_at = t]
      /\ item'[i] \in Items /\ item'[i].org = o /\ state'[i] = "row"
    BY <1>1, <1>3 DEF Items
<1>5. item' \in [Ids -> Items] /\ state' \in [Ids -> {"free", "row", "deleted"}]
    BY <1>1, <1>2, <1>4
<1>6. \A p : i \notin Rows(p)
    BY <1>1 DEF Rows
<1> QED
    BY <1>1, <1>2, <1>4, <1>5, <1>6

\* A new name.
LEMMA UpdateFacts ==
    ASSUME TypeOK, NEW i \in Ids, NEW o \in Orgs, NEW n \in Names, UpdateItem(o, i, n)
    PROVE  /\ item' \in [Ids -> Items]
           /\ \A j \in Ids : item'[j].org = item[j].org /\ item'[j].created_at = item[j].created_at
           /\ \A p : Rows(p)' = Rows(p)
<1>1. /\ item \in [Ids -> Items] /\ item' = [item EXCEPT ![i].name = n] /\ state' = state
    BY DEF TypeOK, UpdateItem, SetName
<1>2. \A j \in Ids : j # i => item'[j] = item[j]
    BY <1>1
<1>3. item[i] \in Items
    BY <1>1
<1>4. /\ item'[i] \in Items /\ item'[i].org = item[i].org
      /\ item'[i].created_at = item[i].created_at
    BY <1>1, <1>3 DEF Items
<1>5. item' \in [Ids -> Items]
    BY <1>1, <1>2, <1>4
<1> QED
    BY <1>1, <1>2, <1>4, <1>5 DEF Rows

\* A row less.
LEMMA DeleteFacts ==
    ASSUME TypeOK, NEW i \in Ids, NEW o \in Orgs, DeleteItem(o, i)
    PROVE  /\ state' \in [Ids -> {"free", "row", "deleted"}]
           /\ \A j \in Ids : j # i => state'[j] = state[j]
           /\ state[i] = "row" /\ state'[i] = "deleted" /\ item[i].org = o
           /\ i \in Rows(o)
           /\ Rows(o)' = Rows(o) \ {i}
           /\ \A p : p # o => Rows(p)' = Rows(p) /\ i \notin Rows(p)
<1>1. /\ state \in [Ids -> {"free", "row", "deleted"}]
      /\ i \in Rows(o) /\ state[i] = "row" /\ item[i].org = o
      /\ state' = [state EXCEPT ![i] = "deleted"] /\ item' = item
    BY DEF TypeOK, DeleteItem, Rows
<1>2. \A j \in Ids : j # i => state'[j] = state[j]
    BY <1>1
<1>3. state'[i] = "deleted" /\ state' \in [Ids -> {"free", "row", "deleted"}]
    BY <1>1
<1>4. Rows(o)' = Rows(o) \ {i}
    BY <1>1, <1>2, <1>3 DEF Rows
<1>5. \A p : p # o => Rows(p)' = Rows(p) /\ i \notin Rows(p)
    BY <1>1, <1>2, <1>3 DEF Rows
<1> QED
    BY <1>1, <1>2, <1>3, <1>4, <1>5

\* The rows in their order are a sequence without repetitions that leaves none out.
LEMMA SortedFacts ==
    ASSUME NEW o, NEW s \in Sorted(o)
    PROVE  /\ s \in Seq(Rows(o)) /\ Len(s) = Cardinality(Rows(o)) /\ Len(s) \in Nat
           /\ \A a, b \in 1 .. Len(s) : a < b =>
                 s[a] # s[b] /\ item[s[a]].created_at >= item[s[b]].created_at
           /\ \A i \in Rows(o) : \E a \in 1 .. Len(s) : s[a] = i
<1> DEFINE n == Cardinality(Rows(o))
<1>1. n \in Nat /\ IsFiniteSet(Rows(o))
    BY RowsFinite
<1>2. /\ s \in [1 .. n -> Rows(o)]
      /\ \A a, b \in 1 .. n : a < b =>
            s[a] # s[b] /\ item[s[a]].created_at >= item[s[b]].created_at
    BY DEF Sorted
<1> HIDE DEF n
<1>3. s \in Seq(Rows(o)) /\ Len(s) = n
    BY <1>1, <1>2
<1>4. s \in Injection(1 .. n, Rows(o))
    <2>1. \A a, b \in 1 .. n : s[a] = s[b] => a = b
        BY <1>1, <1>2
    <2> QED
        BY <1>2, <2>1 DEF Injection, IsInjective
<1>5. s \in Surjection(1 .. n, Rows(o))
    <2>1. Cardinality(1 .. n) = n
        BY <1>1, FS_Interval
    <2> QED
        BY <1>1, <1>4, <2>1, FS_Injection DEF n
<1>6. \A i \in Rows(o) : \E a \in 1 .. n : s[a] = i
    BY <1>5 DEF Surjection
<1> QED
    BY <1>1, <1>2, <1>3, <1>6 DEF n
-------------------------------------------------------------------------------
(* Ranks and pages.                                                          *)

LEMMA RowType ==
    ASSUME TypeOK, NEW o, NEW i \in Rows(o)
    PROVE  i \in Ids /\ state[i] = "row" /\ item[i].org = o /\ item[i].created_at \in Nat
BY TableAssumption DEF TypeOK, Rows, Items

LEMMA RankType ==
    ASSUME TypeOK, NEW i \in Rows(org)
    PROVE  IsFiniteSet(NoOlder(i)) /\ Rank(i) \in Nat /\ Rank(i) >= 1
<1>1. item[i].created_at \in Nat
    BY RowType
<1>2. NoOlder(i) \subseteq Rows(org) /\ i \in NoOlder(i)
    BY <1>1 DEF NoOlder
<1>3. IsFiniteSet(NoOlder(i))
    BY <1>2, RowsFinite, FS_Subset
<1>4. Rank(i) \in Nat /\ Rank(i) # 0
    BY <1>2, <1>3, FS_CardinalityType, FS_EmptySet DEF Rank
<1> QED
    BY <1>3, <1>4

LEMMA RanksAreNat == TypeOK => \A i \in Rows(org) : Rank(i) \in Nat
BY RankType

LEMMA NextRanksAreNat == (TypeOK => \A i \in Rows(org) : Rank(i) \in Nat)'
BY RanksAreNat, PTL

LEMMA RanksArePositive == TypeOK => \A i \in Rows(org) : Rank(i) > 0
BY RankType

LEMMA NextRanksArePositive == (TypeOK => \A i \in Rows(org) : Rank(i) > 0)'
BY RanksArePositive, PTL

\* If no two are equally old there is one order, and the rank is the place in it.
LEMMA RankIsPlace ==
    ASSUME TypeOK, AgesDiffer, NEW s \in Sorted(org), NEW a \in 1 .. Len(s)
    PROVE  Rank(s[a]) = a
<1> DEFINE B == 1 .. a
           f == [b \in B |-> s[b]]
<1>1. /\ s \in Seq(Rows(org)) /\ Len(s) \in Nat
      /\ \A x, y \in 1 .. Len(s) : x < y =>
            s[x] # s[y] /\ item[s[x]].created_at >= item[s[y]].created_at
      /\ \A i \in Rows(org) : \E x \in 1 .. Len(s) : s[x] = i
    BY SortedFacts
<1>2. /\ \A x \in 1 .. Len(s) : s[x] \in Rows(org)
      /\ \A i \in Rows(org) :
            i \in Ids /\ state[i] # "free" /\ item[i].org = org /\ item[i].created_at \in Nat
    <2>1. \A x \in 1 .. Len(s) : s[x] \in Rows(org)
        BY <1>1
    <2> QED
        BY <2>1, RowType
<1>3. \A b \in B : b \in 1 .. Len(s) /\ s[b] \in NoOlder(s[a])
    <2> SUFFICES ASSUME NEW b \in B
                 PROVE  b \in 1 .. Len(s) /\ s[b] \in NoOlder(s[a])
        OBVIOUS
    <2>1. b \in 1 .. Len(s) /\ (b = a \/ b < a)
        BY <1>1
    <2>2. item[s[b]].created_at >= item[s[a]].created_at
        <3>1. CASE b < a
            BY <1>1, <2>1, <3>1
        <3>2. CASE b = a
            <4>1. item[s[a]].created_at \in Nat
                BY <1>2
            <4> QED
                BY <3>2, <4>1
        <3> QED
            BY <2>1, <3>1, <3>2
    <2> QED
        BY <1>2, <2>1, <2>2 DEF NoOlder
<1>4. \A j \in NoOlder(s[a]) : \E b \in B : s[b] = j
    <2> SUFFICES ASSUME NEW j \in NoOlder(s[a])
                 PROVE  \E b \in B : s[b] = j
        OBVIOUS
    <2>1. j \in Rows(org) /\ item[j].created_at >= item[s[a]].created_at
        BY DEF NoOlder
    <2>2. PICK b \in 1 .. Len(s) : s[b] = j
        BY <1>1, <2>1
    <2>3. ~(a < b)
        <3> SUFFICES ASSUME a < b PROVE FALSE
            OBVIOUS
        <3>1. s[a] # j /\ item[s[a]].created_at >= item[j].created_at
            BY <1>1, <2>2
        <3>2. item[s[a]].created_at = item[j].created_at
            BY <1>2, <2>1, <3>1
        <3> QED
            BY <1>2, <2>1, <3>1, <3>2 DEF AgesDiffer
    <2>4. b <= a
        BY <1>1, <2>2, <2>3
    <2> QED
        BY <2>2, <2>4
<1>5. f \in Bijection(B, NoOlder(s[a]))
    <2>1. f \in [B -> NoOlder(s[a])]
        BY <1>3
    <2>2. \A x, y \in B : f[x] = f[y] => x = y
        <3> SUFFICES ASSUME NEW x \in B, NEW y \in B, x # y PROVE s[x] # s[y]
            OBVIOUS
        <3>1. x \in 1 .. Len(s) /\ y \in 1 .. Len(s) /\ (x < y \/ y < x)
            BY <1>3
        <3> QED
            BY <1>1, <3>1
    <2>3. \A j \in NoOlder(s[a]) : \E b \in B : f[b] = j
        BY <1>4
    <2> HIDE DEF f, B
    <2> QED
        BY <2>1, <2>2, <2>3 DEF Bijection, Injection, IsInjective, Surjection
<1> QED
    BY <1>5, FS_CountingElements DEF ExistsBijection, Rank

\* More rows make a rank greater, fewer rows smaller.
LEMMA MoreRows ==
    ASSUME TypeOK, TypeOK', org' = org, Rows(org) \subseteq Rows(org)',
           \A j \in Rows(org) : item'[j].created_at = item[j].created_at,
           NEW i \in Rows(org)
    PROVE  Rank(i) <= Rank(i)'
<1>1. NoOlder(i) \subseteq NoOlder(i)'
    BY DEF NoOlder
<1>2. IsFiniteSet(NoOlder(i)')
    <2>1. IsFiniteSet(Ids) /\ NoOlder(i)' \in SUBSET Ids
        BY TableAssumption DEF NoOlder, Rows
    <2> QED
        BY <2>1, FS_Subset
<1> QED
    BY <1>1, <1>2, FS_Subset DEF Rank

LEMMA FewerRows ==
    ASSUME TypeOK, org' = org, Rows(org)' \subseteq Rows(org),
           \A j \in Rows(org)' : item'[j].created_at = item[j].created_at,
           NEW i \in Rows(org)'
    PROVE  Rank(i)' <= Rank(i)
<1>1. NoOlder(i)' \subseteq NoOlder(i)
    BY DEF NoOlder
<1>2. IsFiniteSet(NoOlder(i))
    BY RankType
<1> QED
    BY <1>1, <1>2, FS_Subset DEF Rank

LEMMA SameRows ==
    ASSUME TypeOK, org' = org, Rows(org)' = Rows(org),
           \A j \in Rows(org) : item'[j].created_at = item[j].created_at,
           NEW i \in Rows(org)
    PROVE  Rank(i)' = Rank(i)
BY DEF Rank, NoOlder

\* LIMIT l OFFSET k of a sequence.
LEMMA SliceFacts ==
    ASSUME NEW S, NEW s \in Seq(S), NEW l \in Nat, NEW k \in Nat
    PROVE  LET r == Slice(s, l, k)
           IN  /\ r \in Seq(S) /\ Len(r) \in Nat /\ Len(r) <= l
               /\ \A n \in 1 .. Len(r) : k + n \in 1 .. Len(s) /\ r[n] = s[k + n]
               /\ \A a \in 1 .. Len(s) : k < a /\ a <= k + l => \E n \in 1 .. Len(r) : r[n] = s[a]
               /\ k + l < Len(s) => Len(r) = l
<1> DEFINE m == IF k + l < Len(s) THEN k + l ELSE Len(s)
           r == SubSeq(s, k + 1, m)
<1>1. Len(s) \in Nat /\ m \in Nat /\ m <= Len(s) /\ m <= k + l
    OBVIOUS
<1>2. r = Slice(s, l, k)
    BY DEF Slice
<1>3. CASE k + 1 <= m
    <2>1. /\ r \in Seq(S) /\ Len(r) = m - k
          /\ \A n \in 1 .. m - k : r[n] = s[k + n]
        <3> HIDE DEF m
        <3>1. r \in Seq(S) /\ Len(r) = m - k
            BY <1>1, <1>3
        <3>2. \A n \in 1 .. m - k : r[n] = s[k + n]
            BY <1>1, <1>3
        <3> QED
            BY <3>1, <3>2
    <2>2. ASSUME NEW a \in 1 .. Len(s), k < a, a <= k + l
          PROVE  \E n \in 1 .. m - k : r[n] = s[a]
        <3>1. a <= m
            BY <1>1, <2>2
        <3> HIDE DEF m, r
        <3>2. a - k \in 1 .. m - k /\ k + (a - k) = a
            BY <1>1, <2>2, <3>1
        <3> QED
            BY <2>1, <3>2
    <2>3. k + l < Len(s) => m - k = l
        OBVIOUS
    <2> HIDE DEF m, r
    <2>4. \A n \in 1 .. m - k : k + n \in 1 .. Len(s)
        BY <1>1, <1>3
    <2>5. m - k \in Nat /\ m - k <= l
        BY <1>1, <1>3
    <2> QED
        BY <1>2, <2>1, <2>2, <2>3, <2>4, <2>5
<1>4. CASE ~(k + 1 <= m)
    <2>1. r = <<>> /\ r \in Seq(S) /\ Len(r) = 0
        <3> HIDE DEF m
        <3> QED
            BY <1>1, <1>4
    <2>2. ~\E a \in 1 .. Len(s) : k < a /\ a <= k + l
        BY <1>1, <1>4
    <2>3. k + l < Len(s) => l = 0
        BY <1>1, <1>4
    <2> HIDE DEF m, r
    <2> QED
        BY <1>2, <2>1, <2>2, <2>3
<1> QED
    BY <1>3, <1>4

\* Rows that were once inserted keep their org and age, so if two are equally old they
\* stay so.
LEMMA AgesStay ==
    ASSUME org' = org,
           \A j \in Ids : state[j] # "free" =>
               /\ state'[j] # "free" /\ item'[j].org = item[j].org
               /\ item'[j].created_at = item[j].created_at
    PROVE  AgesDiffer' => AgesDiffer
BY DEF AgesDiffer
-------------------------------------------------------------------------------
(* The writers.                                                              *)

\* Nothing a writer does to the table disturbs a page that was read.
LEMMA PagesStay ==
    ASSUME TypeOK, PageInv, UNCHANGED sweepVars,
           \A j \in Ids : state[j] # "free" => state'[j] # "free" /\ item'[j].org = item[j].org
    PROVE  PageInv'
<1>1. \A n \in 1 .. Len(page) : page[n] \in Ids
    BY DEF TypeOK
<1> QED
    BY <1>1 DEF PageInv, sweepVars

LEMMA InsertKeeps ==
    ASSUME IInv, NEW i \in Ids, NEW o \in Orgs, NEW t \in Times, InsertItem(i, o, t)
    PROVE  IInv'
<1>1. TypeOK /\ PageInv /\ CountInv /\ SweepInv
    BY DEF IInv
<1>2. /\ item' \in [Ids -> Items] /\ state' \in [Ids -> {"free", "row", "deleted"}]
      /\ \A j \in Ids : j # i => item'[j] = item[j] /\ state'[j] = state[j]
      /\ state[i] = "free" /\ state'[i] = "row" /\ item'[i].org = o
      /\ i \notin Rows(org)
    BY <1>1, InsertFacts
<1>3. /\ UNCHANGED <<at, org, limit, offset, page, total, found, repeated>>
      /\ UNCHANGED <<first, lasting, shrunk, counted>>
      /\ grew' = (grew \/ InSweep(o))
      /\ drift' = drift + (IF InSweep(o) /\ at = "count" THEN 1 ELSE 0)
    BY DEF InsertItem, sweepVars
<1>4. /\ Rows(org) \subseteq Rows(org)'
      /\ o = org => Rows(org)' = Rows(org) \cup {i}
      /\ o # org => Rows(org)' = Rows(org)
    <2>1. \A j : j \in Rows(org)' <=> j \in Rows(org) \/ (j = i /\ o = org)
        BY <1>2, <1>3 DEF Rows
    <2> QED
        BY <2>1
<1>5. TypeOK'
    <2>1. {repeated', grew', shrunk'} \subseteq BOOLEAN
        BY <1>1, <1>3 DEF TypeOK, InSweep
    <2>2. drift' \in Int
        BY <1>1, <1>3 DEF TypeOK
    <2>3. lasting' \subseteq Rows(org)'
        BY <1>1, <1>3, <1>4 DEF TypeOK
    <2> QED
        BY <1>1, <1>2, <1>3, <2>1, <2>2, <2>3 DEF TypeOK
<1>6. \A j \in Ids : state[j] # "free" => item'[j] = item[j] /\ state'[j] = state[j]
    BY <1>2
<1>7. PageInv'
    BY <1>1, <1>3, <1>6, PagesStay DEF sweepVars
<1>8. CountInv'
    <2>1. CASE o = org /\ at = "count"
        <3>1. /\ Cardinality(Rows(org) \cup {i}) = Cardinality(Rows(org)) + 1
              /\ Cardinality(Rows(org)) \in Nat
            BY <1>2, RowsFinite, FS_AddElement
        <3>2. drift' = drift + 1 /\ drift \in Int /\ counted \in Int
            BY <1>1, <1>3, <2>1 DEF InSweep, TypeOK
        <3> QED
            BY <1>1, <1>3, <1>4, <2>1, <3>1, <3>2 DEF CountInv
    <2>2. CASE ~(o = org /\ at = "count")
        <3>1. drift' = drift
            BY <1>1, <1>3, <2>2 DEF InSweep, TypeOK
        <3> QED
            BY <1>1, <1>3, <1>4, <2>2, <3>1 DEF CountInv
    <2> QED
        BY <2>1, <2>2
<1>9. SweepInv'
    <2>1. ASSUME AgesDiffer'
          PROVE  AgesDiffer
        BY <1>3, <1>6, <2>1, AgesStay
    <2>2. ASSUME AgesDiffer, ~grew'
          PROVE  NoRepeat'
        <3>1. NoRepeat /\ ~InSweep(o)
            BY <1>1, <1>3, <2>2 DEF SweepInv
        <3>2. ASSUME at \in Sweeping, NEW j \in Rows(org)'
              PROVE  j \in Rows(org) /\ Rank(j)' = Rank(j)
            <4>1. Rows(org)' = Rows(org)
                BY <1>4, <3>1, <3>2 DEF InSweep, Sweeping
            <4> QED
                BY <1>1, <1>3, <1>6, <3>2, <4>1, SameRows, RowType
        <3> QED
            BY <1>3, <3>1, <3>2 DEF NoRepeat, PageIds, Sweeping
    <2>3. ASSUME AgesDiffer, first' = 0, limit' < Half, ~shrunk'
          PROVE  NoLoss'
        <3>1. NoLoss
            BY <1>1, <1>3, <2>3 DEF SweepInv
        <3>2. \A j \in Rows(org) : Rank(j) <= Rank(j)' /\ Rank(j) \in Nat /\ Rank(j)' \in Nat
            <4> SUFFICES ASSUME NEW j \in Rows(org)
                         PROVE  Rank(j) <= Rank(j)' /\ Rank(j) \in Nat /\ Rank(j)' \in Nat
                OBVIOUS
            <4>1. \A k \in Rows(org) : item'[k].created_at = item[k].created_at
                BY <1>1, <1>6, RowType
            <4>2. Rank(j) <= Rank(j)'
                BY <1>1, <1>3, <1>4, <1>5, <4>1, MoreRows
            <4> QED
                BY <1>1, <1>4, <1>5, <4>2, RanksAreNat, NextRanksAreNat
        <3>3. lasting \subseteq Rows(org) /\ {limit, offset} \subseteq Nat
            BY <1>1 DEF TypeOK
        <3> QED
            BY <1>3, <3>1, <3>2, <3>3 DEF NoLoss, PageIds
    <2> QED
        BY <2>1, <2>2, <2>3 DEF SweepInv
<1> QED
    BY <1>5, <1>7, <1>8, <1>9 DEF IInv

LEMMA UpdateKeeps ==
    ASSUME IInv, NEW i \in Ids, NEW o \in Orgs, NEW n \in Names, UpdateItem(o, i, n)
    PROVE  IInv'
<1>1. TypeOK /\ PageInv /\ CountInv /\ SweepInv
    BY DEF IInv
<1>2. /\ item' \in [Ids -> Items]
      /\ \A j \in Ids : item'[j].org = item[j].org /\ item'[j].created_at = item[j].created_at
    BY <1>1, UpdateFacts
<1>3. UNCHANGED <<state, sweepVars, histVars>>
    BY DEF UpdateItem
<1>4. org' = org /\ Rows(org)' = Rows(org)
    BY <1>2, <1>3 DEF Rows, sweepVars
<1>5. TypeOK'
    BY <1>1, <1>2, <1>3, <1>4 DEF TypeOK, sweepVars, histVars
<1>6. PageInv'
    BY <1>1, <1>2, <1>3, PagesStay
<1>7. CountInv'
    BY <1>1, <1>3, <1>4 DEF CountInv, sweepVars, histVars
<1>8. SweepInv'
    <2>1. AgesDiffer' => AgesDiffer
        BY <1>2, <1>3, <1>4, AgesStay
    <2>2. \A j \in Rows(org) : Rank(j)' = Rank(j)
        <3>1. \A j \in Rows(org) : item'[j].created_at = item[j].created_at
            BY <1>2 DEF Rows
        <3> QED
            BY <1>1, <1>4, <3>1, SameRows
    <2>3. lasting \subseteq Rows(org)
        BY <1>1 DEF TypeOK
    <2>4. NoRepeat => NoRepeat'
        BY <1>3, <1>4, <2>2 DEF NoRepeat, PageIds, sweepVars
    <2>5. NoLoss => NoLoss'
        BY <1>3, <2>2, <2>3 DEF NoLoss, PageIds, sweepVars, histVars
    <2> QED
        BY <1>1, <1>3, <2>1, <2>4, <2>5 DEF SweepInv, sweepVars, histVars
<1> QED
    BY <1>5, <1>6, <1>7, <1>8 DEF IInv

LEMMA DeleteKeeps ==
    ASSUME IInv, NEW i \in Ids, NEW o \in Orgs, DeleteItem(o, i)
    PROVE  IInv'
<1>1. TypeOK /\ PageInv /\ CountInv /\ SweepInv
    BY DEF IInv
<1>2. /\ state' \in [Ids -> {"free", "row", "deleted"}]
      /\ \A j \in Ids : j # i => state'[j] = state[j]
      /\ state[i] = "row" /\ state'[i] = "deleted" /\ item[i].org = o
    BY <1>1, DeleteFacts
<1>3. /\ item' = item
      /\ UNCHANGED <<at, org, limit, offset, page, total, found, repeated>>
      /\ UNCHANGED <<first, grew, counted>>
      /\ lasting' = lasting \ {i}
      /\ shrunk' = (shrunk \/ InSweep(o))
      /\ drift' = drift - (IF InSweep(o) /\ at = "count" THEN 1 ELSE 0)
    BY DEF DeleteItem, sweepVars
<1>4. /\ Rows(org)' \subseteq Rows(org)
      /\ Rows(org)' = Rows(org) \ {i}
      /\ o = org => i \in Rows(org)
      /\ o # org => Rows(org)' = Rows(org)
    <2>1. \A j : j \in Rows(org)' <=> j \in Rows(org) /\ j # i
        BY <1>2, <1>3 DEF Rows
    <2>2. i \in Rows(org) <=> o = org
        BY <1>2 DEF Rows
    <2> QED
        BY <2>1, <2>2
<1>5. TypeOK'
    <2>1. {repeated', grew', shrunk'} \subseteq BOOLEAN
        BY <1>1, <1>3 DEF TypeOK, InSweep
    <2>2. drift' \in Int
        BY <1>1, <1>3 DEF TypeOK
    <2>3. lasting' \subseteq Rows(org)'
        BY <1>1, <1>3, <1>4 DEF TypeOK
    <2> QED
        BY <1>1, <1>2, <1>3, <2>1, <2>2, <2>3 DEF TypeOK
<1>6. PageInv'
    BY <1>1, <1>2, <1>3, PagesStay DEF sweepVars
<1>7. CountInv'
    <2>1. CASE o = org /\ at = "count"
        <3>1. /\ Cardinality(Rows(org) \ {i}) = Cardinality(Rows(org)) - 1
              /\ Cardinality(Rows(org)) \in Nat
            BY <1>4, <2>1, RowsFinite, FS_RemoveElement
        <3>2. drift' = drift - 1 /\ drift \in Int /\ counted \in Int
            BY <1>1, <1>3, <2>1 DEF InSweep, TypeOK
        <3> QED
            BY <1>1, <1>3, <1>4, <2>1, <3>1, <3>2 DEF CountInv
    <2>2. CASE ~(o = org /\ at = "count")
        <3>1. drift' = drift
            BY <1>1, <1>3, <2>2 DEF InSweep, TypeOK
        <3> QED
            BY <1>1, <1>3, <1>4, <2>2, <3>1 DEF CountInv
    <2> QED
        BY <2>1, <2>2
<1>8. SweepInv'
    <2>1. AgesDiffer' => AgesDiffer
        BY <1>2, <1>3, AgesStay
    <2>2. lasting \subseteq Rows(org) /\ {limit, offset} \subseteq Nat
        BY <1>1 DEF TypeOK
    <2>3. NoRepeat => NoRepeat'
        <3>1. \A j \in Rows(org)' : j \in Rows(org) /\ Rank(j)' <= Rank(j)
            BY <1>1, <1>3, <1>4, FewerRows
        <3>2. \A j \in Rows(org)' : Rank(j) \in Nat /\ Rank(j)' \in Nat
            BY <1>1, <1>4, <1>5, RanksAreNat, NextRanksAreNat
        <3>3. Int32(limit) \in Int /\ Int32(offset) \in Int
            BY <2>2, Int32Range
        <3> QED
            BY <1>3, <3>1, <3>2, <3>3 DEF NoRepeat, PageIds
    <2>4. ASSUME NoLoss, ~shrunk'
          PROVE  NoLoss'
        <3>1. ~InSweep(o)
            BY <1>3, <2>4
        <3>2. at \in Sweeping => \A j \in lasting : Rank(j)' = Rank(j)
            <4> SUFFICES ASSUME at \in Sweeping, NEW j \in lasting
                         PROVE  Rank(j)' = Rank(j)
                OBVIOUS
            <4>1. Rows(org)' = Rows(org) /\ j \in Rows(org)
                BY <1>4, <2>2, <3>1 DEF InSweep, Sweeping
            <4> QED
                BY <1>1, <1>3, <4>1, SameRows
        <3> QED
            BY <1>3, <2>4, <3>2 DEF NoLoss, PageIds, Sweeping
    <2> QED
        BY <1>1, <1>3, <2>1, <2>3, <2>4 DEF SweepInv
<1> QED
    BY <1>5, <1>6, <1>7, <1>8 DEF IInv
-------------------------------------------------------------------------------
(* The caller of List.                                                       *)

\* A sweep begins: everybody is still to come.
LEMMA StartKeeps ==
    ASSUME IInv, NEW o \in Orgs, NEW l \in Limits, NEW k \in Offsets, Start(o, l, k)
    PROVE  IInv'
<1>1. TypeOK /\ PageInv /\ CountInv /\ SweepInv
    BY DEF IInv
<1>2. /\ at = "idle" /\ at' = "page"
      /\ org' = o /\ limit' = l /\ offset' = k
      /\ first' = k /\ lasting' = Rows(o)
      /\ UNCHANGED <<item, state, page, total, found, repeated, grew, shrunk, counted, drift>>
    BY DEF Start, tableVars
<1>3. Rows(org)' = Rows(o) /\ k \in Nat /\ l \in Nat
    BY <1>2, TableAssumption DEF Rows
<1>4. TypeOK'
    BY <1>1, <1>2, <1>3 DEF TypeOK
<1>5. PageInv' /\ CountInv'
    BY <1>2 DEF PageInv, CountInv
<1>6. found = {} /\ ~repeated
    BY <1>1, <1>2 DEF PageInv
<1>7. NoRepeat'
    BY <1>2, <1>6 DEF NoRepeat
<1>8. ASSUME first' = 0
      PROVE  NoLoss'
    <2>1. Half \in Nat \ {0}
        BY TableAssumption
    <2>2. (\A i \in Rows(org) : Rank(i) > 0)'
        BY <1>4, NextRanksArePositive
    <2> QED
        BY <1>2, <1>3, <1>8, <2>1, <2>2 DEF NoLoss
<1> QED
    BY <1>4, <1>5, <1>7, <1>8 DEF IInv, SweepInv

\* The page is read: it has the next ranks.
LEMMA PageKeeps ==
    ASSUME IInv, FindItemsByOrgID
    PROVE  IInv'
<1>1. TypeOK /\ PageInv /\ CountInv /\ SweepInv
    BY DEF IInv
<1> DEFINE l == Int32(limit)
           k == Int32(offset)
<1>2. /\ at = "page"
      /\ UNCHANGED <<item, state, org, limit, offset, total, found, repeated>>
      /\ UNCHANGED <<first, lasting, grew, shrunk>>
    BY DEF FindItemsByOrgID, tableVars
<1>3. Rows(org)' = Rows(org) /\ \A i : Rank(i)' = Rank(i)
    BY <1>2 DEF Rows, Rank, NoOlder
<1>4. AgesDiffer' <=> AgesDiffer
    BY <1>2 DEF AgesDiffer
<1>5. limit \in Nat /\ offset \in Nat /\ l \in Int /\ k \in Int
    BY <1>1, Int32Range DEF TypeOK
<1>6. CASE at' = "error"
    <2>1. UNCHANGED <<page, counted, drift>>
        BY <1>6 DEF FindItemsByOrgID
    <2>2. TypeOK'
        BY <1>1, <1>2, <1>3, <1>6, <2>1 DEF TypeOK
    <2>3. PageInv' /\ CountInv'
        BY <1>6 DEF PageInv, CountInv
    <2>4. SweepInv'
        BY <1>1, <1>2, <1>4, <1>6 DEF SweepInv, NoRepeat, NoLoss, Sweeping
    <2> QED
        BY <2>2, <2>3, <2>4 DEF IInv
<1>7. CASE at' # "error"
    <2>1. /\ l >= 0 /\ k >= 0 /\ at' = "count"
          /\ counted' = Cardinality(Rows(org)) /\ drift' = 0
        BY <1>7 DEF FindItemsByOrgID
    <2>2. PICK s \in Sorted(org) : page' = Slice(s, l, k)
        BY <1>7 DEF FindItemsByOrgID
    <2>3. l \in Nat /\ k \in Nat /\ s \in Seq(Rows(org)) /\ Len(s) \in Nat
        BY <1>5, <2>1, SortedFacts
    <2>4. \A i \in Rows(org) : \E a \in 1 .. Len(s) : s[a] = i
        BY SortedFacts
    <2> HIDE DEF l, k
    <2>5. /\ page' \in Seq(Rows(org)) /\ Len(page') \in Nat /\ Len(page') <= l
          /\ \A n \in 1 .. Len(page') : k + n \in 1 .. Len(s) /\ page'[n] = s[k + n]
          /\ \A a \in 1 .. Len(s) : k < a /\ a <= k + l => \E n \in 1 .. Len(page') : page'[n] = s[a]
          /\ k + l < Len(s) => Len(page') = l
        <3> DEFINE r == Slice(s, l, k)
        <3>1. /\ r \in Seq(Rows(org)) /\ Len(r) \in Nat /\ Len(r) <= l
              /\ \A n \in 1 .. Len(r) : k + n \in 1 .. Len(s) /\ r[n] = s[k + n]
              /\ \A a \in 1 .. Len(s) : k < a /\ a <= k + l => \E n \in 1 .. Len(r) : r[n] = s[a]
              /\ k + l < Len(s) => Len(r) = l
            BY <2>3, SliceFacts
        <3>2. page' = r
            BY <2>2
        <3> HIDE DEF r
        <3> QED
            BY <3>1, <3>2
    <2>6. Rows(org) \subseteq Ids
        BY DEF Rows
    <2>7. TypeOK'
        <3>1. page' \in Seq(Ids)
            BY <2>5, <2>6
        <3>2. counted' \in 0 .. Cardinality(Ids) /\ drift' \in Int
            BY <2>1, RowsFinite
        <3> QED
            BY <1>1, <1>2, <1>3, <2>1, <3>1, <3>2 DEF TypeOK
    <2>8. PageInv'
        <3>1. \A n \in 1 .. Len(page') : page'[n] \in Rows(org)
            BY <2>5
        <3>2. \A n \in 1 .. Len(page') : state[page'[n]] # "free" /\ item[page'[n]].org = org
            BY <3>1 DEF Rows
        <3> QED
            BY <1>2, <2>1, <2>5, <3>2 DEF PageInv, l, k
    <2>9. CountInv'
        <3>1. Cardinality(Rows(org)) \in Nat
            BY RowsFinite
        <3> QED
            BY <1>3, <2>1, <3>1 DEF CountInv
    <2>10. ASSUME AgesDiffer
           PROVE  /\ \A n \in 1 .. Len(page') : page'[n] \in Rows(org) /\ Rank(page'[n]) = k + n
                  /\ \A i \in Rows(org) : \E a \in 1 .. Len(s) : s[a] = i /\ Rank(i) = a
        <3>1. \A a \in 1 .. Len(s) : Rank(s[a]) = a /\ s[a] \in Rows(org)
            BY <1>1, <2>3, <2>10, RankIsPlace
        <3>2. \A n \in 1 .. Len(page') : page'[n] \in Rows(org) /\ Rank(page'[n]) = k + n
            BY <2>5, <3>1
        <3>3. \A i \in Rows(org) : \E a \in 1 .. Len(s) : s[a] = i /\ Rank(i) = a
            BY <2>4, <3>1
        <3> QED
            BY <3>2, <3>3
    <2>11. ASSUME AgesDiffer, NoRepeat
           PROVE  NoRepeat'
        <3>1. ASSUME NEW i \in PageIds'
              PROVE  i \in Rows(org) /\ k < Rank(i) /\ Rank(i) <= k + l
            <4>1. PICK n \in 1 .. Len(page') : i = page'[n]
                BY DEF PageIds
            <4>2. n \in Nat /\ 1 <= n /\ n <= l
                BY <2>3, <2>5
            <4> HIDE DEF PageIds
            <4> QED
                <5>1. i \in Rows(org) /\ Rank(i) = k + n
                    BY <2>10, <2>11, <4>1
                <5>2. k < k + n /\ k + n <= k + l
                    BY <2>3, <4>2
                <5> QED
                    BY <5>1, <5>2
        <3>2. \A i \in found \cap Rows(org) : Rank(i) <= k
            BY <1>2, <2>1, <2>11 DEF NoRepeat, Sweeping, k
        <3>3. \A i \in Rows(org) : Rank(i) \in Nat
            BY <1>1, RanksAreNat
        <3>4. PageIds' \cap found = {}
            BY <2>3, <3>1, <3>2, <3>3
        <3> QED
            BY <1>2, <1>3, <2>1, <2>11, <3>1, <3>2, <3>4 DEF NoRepeat, Sweeping, l, k
    <2>12. ASSUME AgesDiffer, NoLoss, limit < Half
           PROVE  NoLoss'
        <3>1. l = limit
            BY <1>5, <2>12, Int32Small DEF l
        <3>2. offset < 2 * Half /\ \A i \in lasting : i \in found \/ Rank(i) > offset
            BY <1>2, <2>12 DEF NoLoss
        <3>3. offset < Half /\ k = offset
            <4>1. ~(Half <= offset)
                BY <1>5, <2>1, <2>3, <3>2, Int32Small DEF k
            <4>2. Half \in Nat
                BY TableAssumption
            <4> QED
                BY <1>5, <4>1, <4>2, Int32Small DEF k
        <3>4. ASSUME NEW i \in lasting, i \notin found, i \notin PageIds'
              PROVE  Len(page') >= limit /\ Rank(i) > offset + limit
            <4>1. i \in Rows(org) /\ Rank(i) > k
                BY <1>1, <3>2, <3>3, <3>4 DEF TypeOK
            <4>2. PICK a \in 1 .. Len(s) : s[a] = i /\ Rank(i) = a
                BY <2>10, <2>12, <4>1
            <4>3. ~(a <= k + l)
                BY <2>5, <3>4, <4>1, <4>2 DEF PageIds
            <4>4. k + l < Len(s) /\ a > k + l
                BY <2>3, <4>3
            <4> QED
                BY <2>3, <2>5, <3>1, <3>3, <4>2, <4>4
        <3> QED
            BY <1>2, <1>3, <2>1, <3>3, <3>4 DEF NoLoss
    <2>13. SweepInv'
        BY <1>1, <1>2, <1>4, <2>11, <2>12 DEF SweepInv
    <2> QED
        BY <2>7, <2>8, <2>9, <2>13 DEF IInv
<1> QED
    BY <1>6, <1>7

\* The rows are counted, a query fails, or nothing happens.
LEMMA CountKeeps ==
    ASSUME IInv, CountItemsByOrgID \/ QueryFails \/ UNCHANGED vars
    PROVE  IInv'
<1>1. TypeOK /\ PageInv /\ CountInv /\ SweepInv
    BY DEF IInv
<1>2. /\ UNCHANGED <<item, state, org, limit, offset, page, found, repeated>>
      /\ UNCHANGED <<first, lasting, grew, shrunk, counted, drift>>
      /\ \/ at = "count" /\ at' = "got" /\ total' = Cardinality(Rows(org))
         \/ at' \in {at, "error"} /\ total' = total
    BY DEF CountItemsByOrgID, QueryFails, vars, tableVars, sweepVars, histVars
<1>3. Rows(org)' = Rows(org) /\ \A i : Rank(i)' = Rank(i)
    BY <1>2 DEF Rows, Rank, NoOlder
<1>4. AgesDiffer' <=> AgesDiffer
    BY <1>2 DEF AgesDiffer
<1>5. TypeOK'
    <2>1. total' \in 0 .. Cardinality(Ids)
        BY <1>1, <1>2, RowsFinite DEF TypeOK
    <2>2. at' \in {"idle", "page", "count", "got", "done", "error"}
        BY <1>1, <1>2 DEF TypeOK
    <2> QED
        BY <1>1, <1>2, <1>3, <2>1, <2>2 DEF TypeOK
<1>6. PageInv' /\ CountInv'
    BY <1>1, <1>2, <1>3 DEF PageInv, CountInv
<1>7. NoRepeat => NoRepeat'
    BY <1>2, <1>3 DEF NoRepeat, PageIds, Sweeping
<1>8. NoLoss => NoLoss'
    BY <1>2, <1>3 DEF NoLoss, PageIds
<1>9. SweepInv'
    BY <1>1, <1>2, <1>4, <1>7, <1>8 DEF SweepInv
<1> QED
    BY <1>5, <1>6, <1>9 DEF IInv

\* The caller has used the page: the next one begins where it ended.
LEMMA NextPageKeeps ==
    ASSUME IInv, NextPage
    PROVE  IInv'
<1>1. TypeOK /\ PageInv /\ CountInv /\ SweepInv
    BY DEF IInv
<1>2. /\ at = "got"
      /\ found' = found \cup PageIds
      /\ repeated' = (repeated \/ PageIds \cap found # {})
      /\ \/ Len(page) < limit /\ at' = "done" /\ offset' = offset
         \/ Len(page) >= limit /\ at' = "page" /\ offset' = offset + limit
      /\ page' = <<>> /\ total' = 0 /\ counted' = 0 /\ drift' = 0
      /\ UNCHANGED <<item, state, org, limit, first, lasting, grew, shrunk>>
    BY DEF NextPage, PageIds, tableVars
<1>3. Rows(org)' = Rows(org) /\ \A i : Rank(i)' = Rank(i)
    BY <1>2 DEF Rows, Rank, NoOlder
<1>4. AgesDiffer' <=> AgesDiffer
    BY <1>2 DEF AgesDiffer
<1>5. /\ limit \in Nat /\ offset \in Nat /\ Len(page) \in Nat /\ Half \in Nat \ {0}
      /\ Int32(limit) \in Int /\ Int32(limit) < Half /\ Int32(limit) <= limit
      /\ Int32(offset) \in Int
    <2>1. limit \in Nat /\ offset \in Nat
        BY <1>1 DEF TypeOK
    <2>2. Len(page) \in Nat
        BY <1>1 DEF TypeOK
    <2>3. Int32(offset) \in Int
        BY <2>1, Int32Range
    <2>4. Half \in Nat \ {0} /\ Int32(limit) \in Int /\ Int32(limit) < Half /\ Int32(limit) <= limit
        BY <2>1, Int32Range
    <2> QED
        BY <2>1, <2>2, <2>3, <2>4
<1>6. Len(page) <= Int32(limit) /\ Int32(limit) >= 0 /\ Int32(offset) >= 0
    BY <1>1, <1>2 DEF PageInv
<1>7. Len(page) >= limit => Int32(limit) = limit /\ limit < Half
    BY <1>5, <1>6
<1>8. TypeOK'
    <2>1. PageIds \subseteq Ids
        BY <1>1 DEF TypeOK, PageIds
    <2>2. repeated' \in BOOLEAN /\ offset' \in Nat
        BY <1>1, <1>2, <1>5 DEF TypeOK
    <2>3. 0 \in 0 .. Cardinality(Ids) /\ <<>> \in Seq(Ids)
        BY RowsFinite
    <2> QED
        BY <1>1, <1>2, <1>3, <2>1, <2>2, <2>3 DEF TypeOK
<1>9. PageInv' /\ CountInv'
    BY <1>2 DEF PageInv, CountInv
<1>10. ASSUME NoRepeat
       PROVE  NoRepeat'
    <2>1. /\ ~repeated /\ PageIds \cap found = {}
          /\ \A i \in found \cap Rows(org) : Rank(i) <= Int32(offset)
          /\ \A i \in PageIds \cap Rows(org) : Rank(i) <= Int32(offset) + Int32(limit)
        BY <1>2, <1>6, <1>10 DEF NoRepeat, Sweeping
    <2>2. ~repeated'
        BY <1>2, <2>1
    <2>3. ASSUME at' = "page", Int32(offset') >= 0,
                 NEW i \in (found \cup PageIds) \cap Rows(org)
          PROVE  Rank(i) <= Int32(offset')
        <3>1. Len(page) >= limit /\ offset' = offset + limit
            BY <1>2, <2>3
        <3>2. Int32(limit) = limit /\ limit < Half
            BY <1>7, <3>1
        <3>3. Int32(offset') = Int32(offset) + limit
            BY <1>5, <1>6, <2>3, <3>1, <3>2, Int32Adds
        <3>4. Rank(i) \in Nat
            BY <1>1, RanksAreNat
        <3> QED
            BY <1>5, <2>1, <3>2, <3>3, <3>4
    <2> QED
        BY <1>2, <1>3, <2>2, <2>3 DEF NoRepeat, Sweeping
<1>11. ASSUME NoLoss, limit < Half
       PROVE  NoLoss'
    <2>1. /\ offset < Half
          /\ \A i \in lasting :
                i \in found \cup PageIds \/ (Len(page) >= limit /\ Rank(i) > offset + limit)
        BY <1>2, <1>11 DEF NoLoss
    <2>2. offset + limit < 2 * Half
        BY <1>5, <1>11, <2>1
    <2>3. Len(page) < limit => ~(Len(page) >= limit)
        BY <1>5
    <2> QED
        BY <1>2, <1>3, <2>1, <2>2, <2>3 DEF NoLoss
<1>12. SweepInv'
    BY <1>1, <1>2, <1>4, <1>10, <1>11 DEF SweepInv
<1> QED
    BY <1>8, <1>9, <1>12 DEF IInv
-------------------------------------------------------------------------------
THEOREM Invariance == Spec => []IInv
<1>1. Init => IInv
    <2> SUFFICES ASSUME Init PROVE IInv
        OBVIOUS
    <2>1. Blank \in Items
        <3>1. \E x : x \in Items
            <4>1. PICK o \in Orgs, n \in Names, t \in Times : TRUE
                BY TableAssumption
            <4>2. [org |-> o, name |-> n, created_at |-> t] \in Items
                BY DEF Items
            <4> QED
                BY <4>2
        <3> QED
            BY <3>1 DEF Blank
    <2>2. Blank.org \in Orgs
        BY <2>1 DEF Items
    <2>3. TypeOK
        <3>1. item \in [Ids -> Items] /\ state \in [Ids -> {"free", "row", "deleted"}]
            BY <2>1 DEF Init
        <3>2. at = "idle" /\ org \in Orgs /\ {limit, offset, first} \subseteq Nat
            BY <2>2 DEF Init
        <3>3. page = <<>> /\ page \in Seq(Ids)
            BY DEF Init
        <3>4. total \in 0 .. Cardinality(Ids) /\ counted \in 0 .. Cardinality(Ids) /\ drift \in Int
            BY RowsFinite DEF Init
        <3>5. found \subseteq Ids /\ lasting \subseteq Rows(org)
            BY DEF Init
        <3>6. {repeated, grew, shrunk} \subseteq BOOLEAN
            BY DEF Init
        <3> QED
            BY <3>1, <3>2, <3>3, <3>4, <3>5, <3>6 DEF TypeOK
    <2>4. PageInv /\ CountInv
        BY DEF Init, PageInv, CountInv
    <2>5. SweepInv
        BY DEF Init, SweepInv, NoRepeat, NoLoss, Sweeping
    <2> QED
        BY <2>3, <2>4, <2>5 DEF IInv
<1>2. IInv /\ [Next]_vars => IInv'
    BY UpdateKeeps, InsertKeeps, DeleteKeeps, StartKeeps, PageKeeps, CountKeeps, NextPageKeeps
    DEF Next
<1> QED
    BY <1>1, <1>2, PTL DEF Spec

\* Types; the numbers of rows are no greater than the number of IDs.
THEOREM TypeCorrect == Spec => []TypeOK
<1>1. IInv => TypeOK
    BY DEF IInv
<1> QED
    BY <1>1, Invariance, PTL

\* Whatever the size of the table, of the pages and of an int, a sweep without deletes
\* shows everybody and one without inserts nobody twice.
THEOREM SweepsAreExact == Spec => []SweepIsExact
<1>1. IInv => SweepIsExact
    BY DEF IInv, SweepInv, NoRepeat, NoLoss, SweepIsExact
<1> QED
    BY <1>1, Invariance, PTL

\* The two results of a List belong together.
THEOREM ListsAreConsistent == Spec => []ListIsConsistent
<1>1. IInv => ListIsConsistent
    <2> SUFFICES ASSUME IInv PROVE ListIsConsistent
        OBVIOUS
    <2>1. /\ Len(page) \in Nat /\ limit \in Nat
          /\ Int32(limit) \in Int /\ Int32(limit) <= limit
        <3>1. limit \in Nat
            BY DEF IInv, TypeOK
        <3>2. Len(page) \in Nat
            BY DEF IInv, TypeOK
        <3> QED
            BY <3>1, <3>2, Int32Range
    <2> QED
        BY <2>1 DEF IInv, PageInv, CountInv, ListIsConsistent
<1> QED
    BY <1>1, Invariance, PTL
================================================================================
