--------------------------- MODULE WindowRowsProofs ---------------------------
(***************************************************************************)
(* Proofs about what a log presents, on top of WindowIndexProofs' account  *)
(* of where logs come from.  A branch cut where BranchPoint says keeps the *)
(* row it is cut at; and a row is presented once.                          *)
(*                                                                         *)
(* The second half says what each operation makes of a branch's log: the   *)
(* listings an operation writes (Ascending, InCallOrder) name each row of  *)
(* a set once, so the items of one record take exactly that set out of the *)
(* window, or put it in, and rows that stay keep their ordinals.           *)
(*                                                                         *)
(* The last part relates an index to the record it is of.  Every shard of  *)
(* a body is in the window or none is; and a write-down is the record as   *)
(* it stood, in record order.  A branch is a cut of its parent's log with  *)
(* the record as it was then, and a restart cuts every branch, so neither  *)
(* holds by itself of a step: bodies must be whole in every cut between    *)
(* two records (WholeInv), and a header must be judged by the record at    *)
(* its own stamp (DownInv).                                                *)
(*                                                                         *)
(* And what the strategy was told is what the index came to hold: with one *)
(* handle, once the writes that wait are settled (HearInv).                *)
(***************************************************************************)
EXTENDS WindowIndexProofs, FunctionTheorems, FiniteSetTheorems

-----------------------------------------------------------------------------
(* Positions of a log.                                                     *)

\* A set of positions that isn't empty has a least one.
LEMMA Least ==
    ASSUME NEW S, S \subseteq Nat, S # {}
    PROVE  \E p \in S : \A q \in S : p <= q
<1>1. PICK p \in S : \A q \in S : ~(<<q, p>> \in OpToRel(<, Nat))
    BY NatLessThanWellFounded, WFMin
<1>2. \A q \in S : ~(q < p)
    BY <1>1 DEF OpToRel
<1>3. \A q \in S : p <= q
    BY <1>2
<1>. QED  BY <1>3

\* A row in the window stands at its ordinal, and nowhere before.
LEMMA OrdinalStands ==
    ASSUME NEW s \in Seq(Item), NEW id, InWindow(s, id)
    PROVE  /\ OrdinalIn(s, id) \in 1 .. Len(s) /\ StandsAt(s, OrdinalIn(s, id), id)
           /\ \A j \in 1 .. OrdinalIn(s, id) - 1 : ~StandsAt(s, j, id)
<1> DEFINE T == {i \in 1 .. Len(s) : StandsAt(s, i, id)}
<1>1. T # {} /\ T \subseteq Nat
    BY LenProperties DEF InWindow
<1>2. PICK k \in T : \A j \in T : k <= j
    <2> HIDE DEF T
    <2>. QED  BY <1>1, Least
<1>3. k \in 1 .. Len(s) /\ StandsAt(s, k, id) /\ \A j \in 1 .. k - 1 : ~StandsAt(s, j, id)
    BY <1>1, <1>2, LenProperties
<1>. QED  BY <1>3 DEF OrdinalIn

\* A log that holds a header holds its first one at its header's position.
LEMMA HeaderStands ==
    ASSUME NEW s \in Seq(Item), \E i \in 1 .. Len(s) : s[i].kind = "header"
    PROVE  /\ HeaderIn(s) \in 1 .. Len(s) /\ s[HeaderIn(s)].kind = "header"
           /\ \A j \in 1 .. HeaderIn(s) - 1 : s[j].kind # "header"
<1> DEFINE T == {i \in 1 .. Len(s) : s[i].kind = "header"}
<1>1. T # {} /\ T \subseteq Nat
    BY LenProperties
<1>2. PICK k \in T : \A j \in T : k <= j
    <2> HIDE DEF T
    <2>. QED  BY <1>1, Least
<1>3. k \in 1 .. Len(s) /\ s[k].kind = "header" /\ \A j \in 1 .. k - 1 : s[j].kind # "header"
    BY <1>1, <1>2, LenProperties
<1>. QED  BY <1>3 DEF HeaderIn

\* Stamps rise, so a sequence cuts a log in two.
LEMMA CutExists ==
    ASSUME NEW n \in Nat, NEW s, History(s, n), NEW t \in Int
    PROVE  \E k \in 0 .. Len(s) : \A i \in 1 .. Len(s) : s[i].by <= t <=> i <= k
<1> DEFINE T == {i \in 1 .. Len(s) : s[i].by <= t}
<1>1. Len(s) \in Nat /\ Rising(s) /\ \A i \in 1 .. Len(s) : s[i].by \in Nat
    BY LenProperties DEF History, Stamped
<1>2. CASE T = {}
    <2>1. 0 \in 0 .. Len(s) /\ \A i \in 1 .. Len(s) : s[i].by <= t <=> i <= 0
        BY <1>1, <1>2
    <2>. QED  BY <2>1
<1>3. CASE T # {}
    <2>1. T \subseteq 0 .. Len(s)
        BY <1>1
    <2>2. PICK k \in T : \A j \in T : j <= k
        <3> HIDE DEF T
        <3>. QED  BY <1>1, <1>3, <2>1, Greatest
    <2>3. \A i \in 1 .. Len(s) : s[i].by <= t <=> i <= k
        BY <1>1, <2>2 DEF Rising
    <2>. QED  BY <1>1, <2>2, <2>3
<1>. QED  BY <1>2, <1>3

\* The log as of a sequence is a cut of the log.
LEMMA LogAtIsCut ==
    ASSUME IInv, NEW b \in Branches, NEW t \in Int
    PROVE  CutOf(LogAt(b, t), log[b], t)
<1>1. seq \in Nat /\ History(log[b], seq)
    BY DEF IInv, RecordType, Coherent, Logs
<1>2. \E k \in Boundary(b, t) : TRUE
    BY <1>1, CutExists DEF Boundary
<1> DEFINE k == CHOOSE n \in Boundary(b, t) : TRUE
<1>3. k \in Boundary(b, t) /\ LogAt(b, t) = SubSeq(log[b], 1, k)
    BY <1>2 DEF LogAt
<1>. QED  BY <1>3 DEF Boundary, CutOf

-----------------------------------------------------------------------------
(* A branch cut at a row keeps it.                                         *)

\* Of one state: every branch point keeps its row.
LEMMA CutKeeps == IInv => CutKeepsRow
<1> SUFFICES ASSUME IInv, NEW b \in live, InEffect(log[b]), NEW r \in WindowOf(log[b]) \cap Held(b)
             PROVE  LET t == BranchPoint(b, log[b], r)
                        cut == LogAt(b, t)
                    IN  /\ BodyOf(b, r) \subseteq HeldAt(b, t)
                        /\ IF InEffect(cut) THEN InWindow(cut, r) ELSE r \in HeldAt(b, t)
    BY DEF CutKeepsRow
<1> DEFINE s == log[b]
           shards == BodyOf(b, r)
           written == \A x \in shards : InWindow(s, x) /\ OrdinalIn(s, x) < HeaderIn(s)
           stamps == {s[OrdinalIn(s, x)].by : x \in {y \in shards : InWindow(s, y)}}
           points == shards \cup IF written THEN {} ELSE stamps
           t == BranchPoint(b, s, r)
           cut == LogAt(b, t)
<1>1. /\ seq \in Nat /\ b \in Branches /\ s \in Seq(Item) /\ Len(s) \in Nat
      /\ rows[b] \subseteq 1 .. seq /\ InWindow(s, r) /\ r \in Held(b)
    BY LenProperties DEF IInv, RecordType, IndexType, WindowOf
<1>2. r \in shards /\ shards \subseteq 0 .. seq /\ shards \subseteq Held(b)
    BY <1>1 DEF BodyOf, Held
<1>3. \A i \in 1 .. Len(s) : s[i].by \in 1 .. seq
    BY <1>1 DEF IInv, Coherent, History, Stamped, Logs
<1>4. stamps \subseteq 0 .. seq
    BY <1>1, <1>3, OrdinalType
<1>5. t = CHOOSE p \in points : \A q \in points : q <= p
    BY <1>1, Zenon DEF BranchPoint
<1>6. points \subseteq 0 .. seq /\ r \in points
    <2> HIDE DEF shards, stamps, written
    <2>. QED  BY <1>2, <1>4
<1>7. t \in points /\ \A q \in points : q <= t
    <2>1. \E p \in points : \A q \in points : q <= p
        <3> HIDE DEF points
        <3>. QED  BY <1>1, <1>6, Greatest
    <2> HIDE DEF points, t
    <2>. QED  BY <1>5, <2>1
<1>8. t \in Int /\ \A x \in shards : x <= t
    <2> HIDE DEF shards, stamps, written, t
    <2>. QED  BY <1>6, <1>7
<1>9. BodyOf(b, r) \subseteq HeldAt(b, t)
    <2> HIDE DEF t
    <2>. QED  BY <1>2, <1>8 DEF Held, HeldAt
\* The cut holds every item written by then.
<1>10. /\ cut \in Seq(Item) /\ Len(cut) <= Len(s) /\ Len(cut) \in Nat
       /\ \A i \in 1 .. Len(cut) : cut[i] = s[i]
       /\ \A i \in 1 .. Len(s) : s[i].by <= t <=> i <= Len(cut)
    <2>1. CutOf(cut, s, t)
        <3> HIDE DEF t
        <3>. QED  BY <1>1, <1>8, LogAtIsCut
    <2> HIDE DEF cut, t
    <2>. QED  BY <1>1, <1>8, <2>1, CutElements, LenProperties
<1> DEFINE i == OrdinalIn(s, r)
<1>11. i \in 1 .. Len(s) /\ StandsAt(s, i, r)
    BY <1>1, OrdinalStands
<1>12. ASSUME InEffect(cut) PROVE i \in 1 .. Len(cut)
    <2>1. CASE written
        <3>1. PICK k \in 1 .. Len(cut) : cut[k].kind = "header"
            BY <1>12 DEF InEffect, HeaderIn
        <3>2. s[k].kind = "header" /\ k \in 1 .. Len(s)
            BY <1>1, <1>10, <3>1
        <3>3. HeaderIn(s) <= k
            BY <1>1, <3>1, <3>2, HeaderStands
        <3>4. i < HeaderIn(s) /\ HeaderIn(s) \in Int
            BY <1>1, <1>2, <2>1, <3>2, HeaderStands
        <3> HIDE DEF cut, i
        <3>. QED  BY <1>10, <1>11, <3>1, <3>3, <3>4
    <2>2. CASE ~written
        <3>1. s[i].by \in points
            <4>1. s[i].by \in stamps
                <5> HIDE DEF shards
                <5>. QED  BY <1>1, <1>2
            <4> HIDE DEF stamps, written
            <4>. QED  BY <2>2, <4>1
        <3> HIDE DEF cut, i, t, points
        <3>. QED  BY <1>7, <1>10, <1>11, <3>1
    <2>. QED  BY <2>1, <2>2
<1>13. ASSUME InEffect(cut) PROVE InWindow(cut, r)
    <2>1. i \in 1 .. Len(cut)
        BY <1>12, <1>13
    <2> HIDE DEF cut, i, t
    <2>2. StandsAt(cut, i, r)
        BY <1>1, <1>10, <1>11, <2>1 DEF StandsAt, Presents, TakesOut
    <2>. QED  BY <2>1, <2>2 DEF InWindow
<1>14. r \in HeldAt(b, t)
    BY <1>2, <1>9
<1>. QED  BY <1>9, <1>13, <1>14

(* A branch cut where branchSequenceOf says, at a row of the window, keeps *)
(* the row in its window and the whole of its body in its record.          *)
THEOREM CutKeepsTheRow == Spec => []CutKeepsRow
BY CutKeeps, IInvHolds, PTL
-----------------------------------------------------------------------------
(* Sets in an order, as the sequences written to a log list them.          *)

\* Of n members of a set each before or after every other, one has each of
\* the ranks 0 to n - 1: lower gives the members before each.
Orders(S, lower, c) ==
    /\ lower \in [S -> SUBSET S]
    /\ c = [x \in S |-> Cardinality(lower[x])]
    /\ \A x \in S : x \notin lower[x]
    /\ \A x, y \in S : x # y => lower[x] \cup {x} \subseteq lower[y] \/ lower[y] \cup {y} \subseteq lower[x]

\* The members of a finite set of numbers have distinct ranks, and every rank a member.
LEMMA Ranked ==
    ASSUME NEW S, IsFiniteSet(S), NEW lower, NEW c, Orders(S, lower, c)
    PROVE  /\ Cardinality(S) \in Nat /\ c \in [S -> Nat]
           /\ \A x, y \in S : c[x] = c[y] => x = y
           /\ \A i \in 1 .. Cardinality(S) : \E x \in S : c[x] = i - 1
           /\ \A x \in S : c[x] + 1 \in 1 .. Cardinality(S)
<1> DEFINE n == Cardinality(S)
           rank == [x \in S |-> c[x] + 1]
           up(x) == lower[x] \cup {x}
<1>1. n \in Nat
    BY FS_CardinalityType
<1>2. ASSUME NEW x \in S
      PROVE  /\ IsFiniteSet(lower[x]) /\ Cardinality(lower[x]) \in Nat
             /\ IsFiniteSet(up(x)) /\ Cardinality(up(x)) = Cardinality(lower[x]) + 1
             /\ c[x] = Cardinality(lower[x])
    <2>1. lower[x] \in SUBSET S /\ x \notin lower[x] /\ c[x] = Cardinality(lower[x])
        BY DEF Orders
    <2>2. IsFiniteSet(lower[x])
        BY <2>1, FS_Subset
    <2>3. IsFiniteSet(up(x)) /\ Cardinality(up(x)) = IF x \in lower[x] THEN Cardinality(lower[x]) ELSE Cardinality(lower[x]) + 1
        BY <2>2, FS_AddElement, Zenon
    <2> HIDE DEF up
    <2>. QED  BY <2>1, <2>2, <2>3, FS_CardinalityType
<1>3. \A x \in S : c[x] \in Nat /\ Cardinality(up(x)) = c[x] + 1
    <2> HIDE DEF up
    <2>. QED  BY <1>2
<1>4. ASSUME NEW x \in S, NEW y \in S, up(x) \subseteq lower[y]
      PROVE  c[x] < c[y]
    <2>1. IsFiniteSet(lower[y]) /\ up(x) \in SUBSET lower[y] /\ c[y] = Cardinality(lower[y])
        BY <1>2, <1>4, Zenon
    <2>2. Cardinality(up(x)) <= c[y]
        BY <2>1, FS_Subset, Zenon
    <2> HIDE DEF up
    <2>. QED  BY <1>3, <2>2
<1>5. ASSUME NEW x \in S, NEW y \in S, x # y PROVE c[x] # c[y]
    <2>1. up(x) \subseteq lower[y] \/ up(y) \subseteq lower[x]
        BY <1>5, Zenon DEF Orders
    <2> HIDE DEF up
    <2>. QED  BY <1>3, <1>4, <2>1
<1>6. ASSUME NEW x \in S PROVE c[x] + 1 \in 1 .. n
    <2>1. up(x) \in SUBSET S
        <3>1. lower[x] \in SUBSET S
            BY DEF Orders
        <3>. QED  BY <3>1
    <2>2. Cardinality(up(x)) <= n
        BY <2>1, FS_Subset, Zenon
    <2> HIDE DEF up, n
    <2>. QED  BY <1>1, <1>3, <2>2
<1>7. rank \in Injection(S, 1 .. n)
    <2> HIDE DEF n, up
    <2>1. rank \in [S -> 1 .. n]
        BY <1>6
    <2>2. \A x, y \in S : rank[x] = rank[y] => x = y
        BY <1>3, <1>5
    <2>. QED  BY <2>1, <2>2, Fun_IsInj
<1>8. IsFiniteSet(1 .. n) /\ Cardinality(1 .. n) = n
    <2> HIDE DEF n
    <2>. QED  BY <1>1, FS_Interval
<1>9. rank \in Surjection(S, 1 .. n)
    <2>1. Cardinality(S) = Cardinality(1 .. n)
        BY <1>8
    <2> HIDE DEF rank
    <2>. QED  BY <1>7, <1>8, <2>1, FS_Injection
<1>10. ASSUME NEW i \in 1 .. n PROVE \E x \in S : c[x] = i - 1
    <2> HIDE DEF n, up
    <2>1. PICK x \in S : rank[x] = i
        BY <1>9 DEF Surjection
    <2>2. c[x] + 1 = i /\ c[x] \in Nat
        BY <1>3, <2>1
    <2>. QED  BY <2>2
<1>11. c \in [S -> Nat]
    <2>1. c = [x \in S |-> c[x]]
        BY DEF Orders
    <2>. QED  BY <1>3, <2>1
<1>. QED  BY <1>1, <1>5, <1>6, <1>10, <1>11

\* f lists the members of S, each once.
Lists(f, S) ==
    /\ f \in Seq(S)
    /\ \A i, j \in 1 .. Len(f) : f[i] = f[j] => i = j
    /\ \A x \in S : \E i \in 1 .. Len(f) : f[i] = x

\* The sequence of the members by their ranks lists them.
ListedBy(f, S, c) ==
    f \in Seq(S) /\ f = [i \in 1 .. Cardinality(S) |-> CHOOSE x \in S : c[x] = i - 1]

\* Listing a set by rank lists each member once.
LEMMA RankedLists ==
    ASSUME NEW S, IsFiniteSet(S), NEW lower, NEW c, Orders(S, lower, c), NEW f, ListedBy(f, S, c)
    PROVE  Lists(f, S) /\ c \in [S -> Nat] /\ \A i \in 1 .. Len(f) : f[i] \in S /\ c[f[i]] = i - 1
<1> DEFINE n == Cardinality(S)
<1>1. /\ n \in Nat /\ c \in [S -> Nat]
      /\ \A x, y \in S : c[x] = c[y] => x = y
      /\ \A i \in 1 .. n : \E x \in S : c[x] = i - 1
      /\ \A x \in S : c[x] + 1 \in 1 .. n
    BY Ranked, Zenon
<1>2. f \in Seq(S) /\ f = [i \in 1 .. n |-> CHOOSE x \in S : c[x] = i - 1]
    BY Zenon DEF ListedBy
<1> HIDE DEF n
<1>3. Len(f) = n
    <2>1. DOMAIN f = 1 .. n
        BY <1>2
    <2>. QED  BY <1>1, <1>2, <2>1, LenProperties
<1>4. \A i \in 1 .. Len(f) : f[i] \in S /\ c[f[i]] = i - 1
    <2>1. TAKE i \in 1 .. Len(f)
    <2>2. f[i] = CHOOSE x \in S : c[x] = i - 1
        <3>1. i \in 1 .. n
            BY <1>3
        <3>. QED  BY <1>2, <3>1, Zenon
    <2>3. \E x \in S : c[x] = i - 1
        BY <1>1, <1>3
    <2>. QED  BY <2>2, <2>3
<1>5. \A i, j \in 1 .. Len(f) : f[i] = f[j] => i = j
    BY <1>1, <1>3, <1>4
<1>6. ASSUME NEW x \in S PROVE \E i \in 1 .. Len(f) : f[i] = x
    <2>1. c[x] \in Nat /\ c[x] + 1 \in 1 .. Len(f)
        BY <1>1, <1>3
    <2>2. c[f[c[x] + 1]] = c[x] /\ f[c[x] + 1] \in S
        BY <1>4, <2>1
    <2>. QED  BY <1>1, <2>1, <2>2
<1>. QED  BY <1>1, <1>2, <1>4, <1>5, <1>6 DEF Lists

\* Rows in record order.
LEMMA AscendingLists ==
    ASSUME NEW S, S \subseteq Nat, IsFiniteSet(S), NEW f \in Ascending(S)
    PROVE  Lists(f, S) /\ \A i, j \in 1 .. Len(f) : i < j => f[i] < f[j]
<1> DEFINE lower == [x \in S |-> {y \in S : y < x}]
           c == [x \in S |-> Cardinality(lower[x])]
<1>1. f \in Seq(S) /\ f = [i \in 1 .. Cardinality(S) |-> CHOOSE x \in S : Cardinality({y \in S : y < x}) = i - 1]
    BY Zenon DEF Ascending
<1>2. \A x \in S : c[x] = Cardinality({y \in S : y < x})
    OBVIOUS
<1>3. \A i : (CHOOSE x \in S : Cardinality({y \in S : y < x}) = i - 1) = (CHOOSE x \in S : c[x] = i - 1)
    <2> HIDE DEF c
    <2>1. TAKE i
    <2>2. \A x : (x \in S /\ Cardinality({y \in S : y < x}) = i - 1) <=> (x \in S /\ c[x] = i - 1)
        BY <1>2, Zenon
    <2>. QED  BY <2>2, Zenon
<1>4. f = [i \in 1 .. Cardinality(S) |-> CHOOSE x \in S : c[x] = i - 1]
    <2> DEFINE A(i) == CHOOSE x \in S : Cardinality({y \in S : y < x}) = i - 1
               B(i) == CHOOSE x \in S : c[x] = i - 1
    <2>1. f = [i \in 1 .. Cardinality(S) |-> A(i)] /\ \A i : A(i) = B(i)
        BY <1>1, <1>3, Zenon
    <2> HIDE DEF A, B
    <2>2. f = [i \in 1 .. Cardinality(S) |-> B(i)]
        BY <2>1
    <2>. QED  BY <2>2, Zenon DEF B
<1>5. \A x, z \in S : z \in lower[x] <=> z < x
    OBVIOUS
<1>6. lower \in [S -> SUBSET S] /\ c = [x \in S |-> Cardinality(lower[x])]
    OBVIOUS
<1> HIDE DEF lower, c
<1>7. ASSUME NEW x \in S, NEW y \in S, x < y PROVE lower[x] \cup {x} \subseteq lower[y]
    <2>1. \A z \in lower[x] \cup {x} : z \in S
        BY <1>6
    <2>2. \A z \in S : z < x => z < y
        BY <1>7
    <2>. QED  BY <1>5, <1>7, <2>1, <2>2
<1>8. Orders(S, lower, c)
    <2>1. \A x \in S : x \notin lower[x]
        <3>1. \A x \in S : ~(x < x)
            OBVIOUS
        <3>. QED  BY <1>5, <3>1
    <2>2. \A x, y \in S : x # y => x < y \/ y < x
        OBVIOUS
    <2>. QED  BY <1>6, <1>7, <2>1, <2>2, Zenon DEF Orders
<1>9. ListedBy(f, S, c)
    BY <1>1, <1>4, Zenon DEF ListedBy
<1>10. Lists(f, S) /\ c \in [S -> Nat] /\ \A i \in 1 .. Len(f) : f[i] \in S /\ c[f[i]] = i - 1
    BY <1>8, <1>9, RankedLists
<1>11. ASSUME NEW x \in S, NEW y \in S, x < y PROVE c[x] <= c[y]
    <2>1. lower[y] \in SUBSET S /\ lower[x] \in SUBSET lower[y] /\ c[x] = Cardinality(lower[x]) /\ c[y] = Cardinality(lower[y])
        BY <1>6, <1>7, <1>11
    <2>2. IsFiniteSet(lower[y])
        BY <2>1, FS_Subset
    <2>3. Cardinality(lower[x]) <= Cardinality(lower[y])
        BY <2>1, <2>2, FS_Subset
    <2>. QED  BY <2>1, <2>3
<1>12. ASSUME NEW i \in 1 .. Len(f), NEW j \in 1 .. Len(f), i < j PROVE f[i] < f[j]
    <2>1. f[i] \in S /\ f[j] \in S /\ c[f[i]] = i - 1 /\ c[f[j]] = j - 1
        BY <1>10
    <2>2. ~(f[j] < f[i])
        <3>1. ~(j - 1 <= i - 1)
            BY <1>12
        <3>. QED  BY <1>11, <2>1, <3>1
    <2>3. f[i] # f[j]
        BY <1>10, <1>12 DEF Lists
    <2>4. f[i] \in Nat /\ f[j] \in Nat
        BY <2>1, Zenon
    <2> HIDE DEF lower, c
    <2>5. \A x, y \in Nat : ~(y < x) /\ x # y => x < y
        OBVIOUS
    <2>. QED  BY <2>2, <2>3, <2>4, <2>5, Zenon
<1>. QED  BY <1>10, <1>12

\* Rows in the order a call names them, a body's shards in body order.
LEMMA InCallOrderLists ==
    ASSUME NEW b, NEW names \in Seq(Nat), NamedApart(b, names),
           NEW S, S \subseteq NamedRows(b, names), S \subseteq Nat, IsFiniteSet(S),
           NEW f \in InCallOrder(b, names, S)
    PROVE  Lists(f, S)
<1> DEFINE Earlier(y, x) == \E k, l \in 1 .. Len(names) :
               /\ y \in Rest(b, names[k]) /\ x \in Rest(b, names[l])
               /\ k < l \/ (k = l /\ y < x)
           lower == [x \in S |-> {y \in S : Earlier(y, x)}]
           c == [x \in S |-> Cardinality(lower[x])]
           place == [x \in S |-> CHOOSE k \in 1 .. Len(names) : x \in Rest(b, names[k])]
<1>1. f \in Seq(S) /\ f = [i \in 1 .. Cardinality(S) |-> CHOOSE x \in S : Cardinality({y \in S : Earlier(y, x)}) = i - 1]
    BY Zenon DEF InCallOrder
<1>2. \A x \in S : place[x] \in 1 .. Len(names) /\ x \in Rest(b, names[place[x]])
    <2>1. \A x \in S : \E k \in 1 .. Len(names) : x \in Rest(b, names[k])
        BY DEF NamedRows
    <2>. QED  BY <2>1
<1>3. \A x \in S, k \in 1 .. Len(names) : x \in Rest(b, names[k]) => k = place[x]
    <2> HIDE DEF place
    <2>1. ASSUME NEW x \in S, NEW k \in 1 .. Len(names), x \in Rest(b, names[k]), k # place[x] PROVE FALSE
        <3>1. Rest(b, names[k]) \cap Rest(b, names[place[x]]) = {}
            BY <1>2, <2>1, Zenon DEF NamedApart
        <3>. QED  BY <1>2, <2>1, <3>1
    <2>. QED  BY <2>1, Zenon
<1>4. \A x, y \in S : Earlier(y, x) <=> place[y] < place[x] \/ (place[y] = place[x] /\ y < x)
    <2> HIDE DEF place
    <2>1. ASSUME NEW x \in S, NEW y \in S, Earlier(y, x)
          PROVE  place[y] < place[x] \/ (place[y] = place[x] /\ y < x)
        BY <1>3, <2>1
    <2>2. ASSUME NEW x \in S, NEW y \in S, place[y] < place[x] \/ (place[y] = place[x] /\ y < x)
          PROVE  Earlier(y, x)
        BY <1>2, <2>2, Zenon
    <2> HIDE DEF Earlier
    <2>. QED  BY <2>1, <2>2, Zenon
<1>5. \A x \in S : place[x] \in Int
    <2> HIDE DEF place
    <2>1. 1 .. Len(names) \subseteq Int
        OBVIOUS
    <2>. QED  BY <1>2, <2>1, Zenon
<1>6. \A i : (CHOOSE x \in S : Cardinality({y \in S : Earlier(y, x)}) = i - 1) = (CHOOSE x \in S : c[x] = i - 1)
    <2> HIDE DEF Earlier
    <2>1. \A x \in S : c[x] = Cardinality({y \in S : Earlier(y, x)})
        OBVIOUS
    <2> HIDE DEF c
    <2>2. TAKE i
    <2>3. \A x : (x \in S /\ Cardinality({y \in S : Earlier(y, x)}) = i - 1) <=> (x \in S /\ c[x] = i - 1)
        BY <2>1, Zenon
    <2>. QED  BY <2>3, Zenon
<1>7. ListedBy(f, S, c)
    <2> HIDE DEF Earlier, c
    <2> DEFINE A(i) == CHOOSE x \in S : Cardinality({y \in S : Earlier(y, x)}) = i - 1
               B(i) == CHOOSE x \in S : c[x] = i - 1
    <2>1. f = [i \in 1 .. Cardinality(S) |-> A(i)] /\ \A i : A(i) = B(i)
        BY <1>1, <1>6, Zenon
    <2> HIDE DEF A, B
    <2>2. f = [i \in 1 .. Cardinality(S) |-> B(i)]
        BY <2>1
    <2>. QED  BY <1>1, <2>2, Zenon DEF B, ListedBy
<1>8. \A x, z \in S : z \in lower[x] <=> place[z] < place[x] \/ (place[z] = place[x] /\ z < x)
    <2> HIDE DEF Earlier, place
    <2>1. \A x, z \in S : z \in lower[x] <=> Earlier(z, x)
        OBVIOUS
    <2> HIDE DEF lower
    <2>. QED  BY <1>4, <2>1, Zenon
<1>9. lower \in [S -> SUBSET S] /\ c = [x \in S |-> Cardinality(lower[x])]
    <2> HIDE DEF Earlier
    <2>. QED  OBVIOUS
<1> HIDE DEF lower, c, place, Earlier
<1> DEFINE Less(z, x) == place[z] < place[x] \/ (place[z] = place[x] /\ z < x)
<1>10. ASSUME NEW x \in S, NEW y \in S, Less(x, y) PROVE lower[x] \cup {x} \subseteq lower[y]
    <2>1. ASSUME NEW z \in S, Less(z, x) PROVE Less(z, y)
        <3>1. z \in Int /\ x \in Int /\ y \in Int /\ place[x] \in Int /\ place[y] \in Int /\ place[z] \in Int
            BY <1>5
        <3>. QED  BY <1>10, <2>1, <3>1
    <2>2. \A z \in lower[x] \cup {x} : z \in S
        BY <1>9
    <2>3. \A z \in S : (z \in lower[x] <=> Less(z, x)) /\ (z \in lower[y] <=> Less(z, y))
        BY <1>8
    <2> HIDE DEF Less
    <2>. QED  BY <1>10, <2>1, <2>2, <2>3
<1>11. \A x \in S : ~Less(x, x)
    BY <1>5
<1>12. \A x, y \in S : x # y => Less(x, y) \/ Less(y, x)
    <2>1. ASSUME NEW x \in S, NEW y \in S, x # y PROVE Less(x, y) \/ Less(y, x)
        <3>1. x \in Int /\ y \in Int /\ place[x] \in Int /\ place[y] \in Int
            BY <1>5
        <3>. QED  BY <2>1, <3>1
    <2> HIDE DEF Less
    <2>. QED  BY <2>1
<1>13. Orders(S, lower, c)
    <2>1. \A x \in S : x \notin lower[x]
        BY <1>8, <1>11
    <2> HIDE DEF Less
    <2>. QED  BY <1>9, <1>10, <1>12, <2>1, Zenon DEF Orders
<1>. QED  BY <1>7, <1>13, RankedLists

-----------------------------------------------------------------------------
(* What a write makes of a log.                                            *)

\* Between two presentations of a row a tombstone takes it out.
OnceEach(s) ==
    \A i, k \in 1 .. Len(s) :
        i < k /\ s[i].kind = "present" /\ s[k].kind = "present" /\ s[i].id = s[k].id
          => \E j \in i + 1 .. k - 1 : TakesOut(s, j, s[k].id)

\* Where a log presents each row once, every presentation issues its row.
LEMMA OnceIssues ==
    ASSUME NEW s \in Seq(Item), OnceEach(s), NEW k \in 1 .. Len(s), s[k].kind = "present"
    PROVE  IssuedAt(s, k) = s[k].id
<1> DEFINE p == SubSeq(s, 1, k - 1)
           id == s[k].id
<1>1. Len(s) \in Nat /\ k \in Nat /\ k - 1 \in Nat /\ k - 1 <= Len(s)
    BY LenProperties
<1>2. \A i \in 1 .. k - 1 : s[i] \in Item
    BY <1>1, ElementOfSeq
<1>3. Len(p) = k - 1 /\ \A i \in 1 .. k - 1 : p[i] = s[i]
    BY <1>1, <1>2, SubSeqProperties
<1>4. ASSUME NEW i \in 1 .. Len(p), StandsAt(p, i, id) PROVE FALSE
    <2> HIDE DEF p
    <2>1. i \in 1 .. Len(s) /\ i < k /\ s[i].kind = "present" /\ s[i].id = s[k].id
        BY <1>1, <1>3, <1>4 DEF StandsAt, Presents
    <2>2. PICK j \in i + 1 .. k - 1 : TakesOut(s, j, id)
        BY <2>1 DEF OnceEach
    <2>3. j \in 1 .. k - 1 /\ j \in i + 1 .. Len(p)
        BY <1>1, <1>3, <2>1, <2>2
    <2>4. TakesOut(p, j, id)
        BY <1>3, <2>2, <2>3 DEF TakesOut
    <2>. QED  BY <1>4, <2>3, <2>4 DEF StandsAt
<1>5. ~InWindow(p, id)
    BY <1>4 DEF InWindow
<1>. QED  BY <1>5 DEF IssuedAt

\* The elements of a log and of the batch appended to it.
Appended(t, s, g) ==
    /\ t \in Seq(Item) /\ Len(s) \in Nat /\ Len(g) \in Nat /\ Len(t) = Len(s) + Len(g)
    /\ \A i \in 1 .. Len(s) : i \in 1 .. Len(t) /\ t[i] = s[i]
    /\ \A i \in 1 .. Len(g) : Len(s) + i \in 1 .. Len(t) /\ t[Len(s) + i] = g[i]
    /\ \A i \in 1 .. Len(t) : i \in 1 .. Len(s) \/ \E j \in 1 .. Len(g) : i = Len(s) + j

\* A concatenation, place by place.
LEMMA ConcatAppends ==
    ASSUME NEW s \in Seq(Item), NEW g \in Seq(Item)
    PROVE  Appended(s \o g, s, g)
<1>1. /\ s \o g \in Seq(Item) /\ Len(s \o g) = Len(s) + Len(g) /\ Len(s) \in Nat /\ Len(g) \in Nat
      /\ \A i \in 1 .. Len(s) + Len(g) : (s \o g)[i] = IF i <= Len(s) THEN s[i] ELSE g[i - Len(s)]
    BY ConcatProperties, LenProperties
<1> DEFINE t == s \o g
<1> HIDE DEF t
<1>2. /\ t \in Seq(Item) /\ Len(t) = Len(s) + Len(g)
      /\ \A i \in 1 .. Len(s) + Len(g) : t[i] = IF i <= Len(s) THEN s[i] ELSE g[i - Len(s)]
    BY <1>1 DEF t
<1>3. \A i \in 1 .. Len(s) : i \in 1 .. Len(t) /\ t[i] = s[i]
    BY <1>1, <1>2
<1>4. \A i \in 1 .. Len(g) : Len(s) + i \in 1 .. Len(t) /\ t[Len(s) + i] = g[i]
    BY <1>1, <1>2
<1>5. \A i \in 1 .. Len(t) : i \in 1 .. Len(s) \/ \E j \in 1 .. Len(g) : i = Len(s) + j
    <2>1. TAKE i \in 1 .. Len(t)
    <2>2. CASE ~(i <= Len(s))
        <3>1. i - Len(s) \in 1 .. Len(g) /\ i = Len(s) + (i - Len(s))
            BY <1>1, <1>2, <2>2
        <3>. QED  BY <3>1
    <2>3. CASE i <= Len(s)
        BY <1>1, <2>3
    <2>. QED  BY <2>2, <2>3
<1>. QED  BY <1>1, <1>2, <1>3, <1>4, <1>5 DEF Appended, t

\* Tombstones, or a header: nothing is presented, and the rows named leave.
LEMMA TombstonesTake ==
    ASSUME NEW s \in Seq(Item), NEW g \in Seq(Item), NEW t, Appended(t, s, g),
           \A i \in 1 .. Len(g) : g[i].kind # "present"
    PROVE  /\ OnceEach(s) => OnceEach(t)
           /\ \A x : InWindow(t, x) <=> InWindow(s, x) /\ ~\E i \in 1 .. Len(g) : TakesOut(g, i, x)
           /\ \A x, i : (i \in 1 .. Len(t) /\ StandsAt(t, i, x)) <=>
                  i \in 1 .. Len(s) /\ StandsAt(s, i, x) /\ ~\E j \in 1 .. Len(g) : TakesOut(g, j, x)
<1>1. \A i \in 1 .. Len(t) : t[i].kind = "present" => i \in 1 .. Len(s) /\ t[i] = s[i]
    <2>1. TAKE i \in 1 .. Len(t)
    <2>2. ASSUME NEW j \in 1 .. Len(g), i = Len(s) + j PROVE t[i] = g[j]
        BY <2>2 DEF Appended
    <2>3. i \in 1 .. Len(s) => t[i] = s[i]
        BY DEF Appended
    <2>4. i \in 1 .. Len(s) \/ \E j \in 1 .. Len(g) : i = Len(s) + j
        BY DEF Appended
    <2>. QED  BY <2>2, <2>3, <2>4
<1>2. ASSUME OnceEach(s) PROVE OnceEach(t)
    <2>1. SUFFICES ASSUME NEW i \in 1 .. Len(t), NEW k \in 1 .. Len(t), i < k, t[i].kind = "present",
                          t[k].kind = "present", t[i].id = t[k].id
                   PROVE  \E j \in i + 1 .. k - 1 : TakesOut(t, j, t[k].id)
        BY DEF OnceEach
    <2>2. i \in 1 .. Len(s) /\ k \in 1 .. Len(s) /\ t[i] = s[i] /\ t[k] = s[k]
        BY <1>1, <2>1
    <2>3. PICK j \in i + 1 .. k - 1 : TakesOut(s, j, s[k].id)
        BY <1>2, <2>1, <2>2 DEF OnceEach
    <2>4. j \in 1 .. Len(s)
        BY <2>2, <2>3 DEF Appended
    <2>. QED  BY <2>2, <2>3, <2>4 DEF TakesOut, Appended
<1>3. ASSUME NEW x, NEW i, i \in 1 .. Len(t), StandsAt(t, i, x)
      PROVE  i \in 1 .. Len(s) /\ StandsAt(s, i, x) /\ ~\E j \in 1 .. Len(g) : TakesOut(g, j, x)
    <2>1. i \in 1 .. Len(s) /\ t[i] = s[i] /\ Presents(s, i, x)
        BY <1>1, <1>3 DEF StandsAt, Presents
    <2>2. ASSUME NEW j \in i + 1 .. Len(s) PROVE ~TakesOut(s, j, x)
        <3>1. j \in 1 .. Len(s) /\ j \in i + 1 .. Len(t) /\ t[j] = s[j]
            BY <2>1, <2>2 DEF Appended
        <3>. QED  BY <1>3, <3>1 DEF StandsAt, TakesOut
    <2>3. ASSUME NEW j \in 1 .. Len(g) PROVE ~TakesOut(g, j, x)
        <3>1. Len(s) + j \in i + 1 .. Len(t) /\ t[Len(s) + j] = g[j]
            BY <2>1, <2>3 DEF Appended
        <3>. QED  BY <1>3, <3>1 DEF StandsAt, TakesOut
    <2>. QED  BY <2>1, <2>2, <2>3 DEF StandsAt
<1>4. ASSUME NEW x, NEW i, i \in 1 .. Len(s), StandsAt(s, i, x), ~\E j \in 1 .. Len(g) : TakesOut(g, j, x)
      PROVE  i \in 1 .. Len(t) /\ StandsAt(t, i, x)
    <2>1. i \in 1 .. Len(t) /\ t[i] = s[i] /\ Presents(t, i, x)
        BY <1>4 DEF StandsAt, Presents, Appended
    <2>2. ASSUME NEW j \in i + 1 .. Len(t) PROVE ~TakesOut(t, j, x)
        <3>1. CASE j \in 1 .. Len(s)
            <4>1. j \in i + 1 .. Len(s) /\ t[j] = s[j]
                BY <1>4, <2>2, <3>1 DEF Appended
            <4>. QED  BY <1>4, <4>1 DEF StandsAt, TakesOut
        <3>2. ASSUME NEW k \in 1 .. Len(g), j = Len(s) + k PROVE ~TakesOut(t, j, x)
            BY <1>4, <3>2 DEF TakesOut, Appended
        <3>3. j \in 1 .. Len(t)
            BY <1>4, <2>2 DEF Appended
        <3>. QED  BY <3>1, <3>2, <3>3 DEF Appended
    <2>. QED  BY <2>1, <2>2 DEF StandsAt
<1>5. \A x : InWindow(t, x) <=> InWindow(s, x) /\ ~\E i \in 1 .. Len(g) : TakesOut(g, i, x)
    BY <1>3, <1>4 DEF InWindow
<1>. QED  BY <1>2, <1>3, <1>4, <1>5

\* What stands in t: what stands in s, and what g presents.
StandsToo(t, s, g) ==
    \A x, i : (i \in 1 .. Len(t) /\ StandsAt(t, i, x)) <=>
        \/ i \in 1 .. Len(s) /\ StandsAt(s, i, x)
        \/ \E j \in 1 .. Len(g) : i = Len(s) + j /\ g[j].id = x

\* Presentations, each of a row of its own: the rows named enter.
LEMMA PresentationsPut ==
    ASSUME NEW s \in Seq(Item), NEW g \in Seq(Item), NEW t, Appended(t, s, g),
           \A i \in 1 .. Len(g) : g[i].kind = "present"
    PROVE  /\ \/ ~OnceEach(s)
              \/ \E i \in 1 .. Len(g) : InWindow(s, g[i].id)
              \/ \E i, j \in 1 .. Len(g) : i # j /\ g[i].id = g[j].id
              \/ OnceEach(t)
           /\ \A x : InWindow(t, x) <=> InWindow(s, x) \/ \E i \in 1 .. Len(g) : g[i].id = x
           /\ StandsToo(t, s, g)
<1>1. \A i \in 1 .. Len(t) : t[i].kind # "present" => i \in 1 .. Len(s) /\ t[i] = s[i]
    <2>1. TAKE i \in 1 .. Len(t)
    <2>2. ASSUME NEW j \in 1 .. Len(g), i = Len(s) + j PROVE t[i] = g[j]
        BY <2>2 DEF Appended
    <2>3. i \in 1 .. Len(s) => t[i] = s[i]
        BY DEF Appended
    <2>4. i \in 1 .. Len(s) \/ \E j \in 1 .. Len(g) : i = Len(s) + j
        BY DEF Appended
    <2>. QED  BY <2>2, <2>3, <2>4
<1>2. ASSUME OnceEach(s), \A i \in 1 .. Len(g) : ~InWindow(s, g[i].id),
             \A i, j \in 1 .. Len(g) : g[i].id = g[j].id => i = j
      PROVE  OnceEach(t)
    <2>1. SUFFICES ASSUME NEW i \in 1 .. Len(t), NEW k \in 1 .. Len(t), i < k, t[i].kind = "present",
                          t[k].kind = "present", t[i].id = t[k].id
                   PROVE  \E j \in i + 1 .. k - 1 : TakesOut(t, j, t[k].id)
        BY DEF OnceEach
    <2>2. CASE k \in 1 .. Len(s)
        <3>1. i \in 1 .. Len(s) /\ t[i] = s[i] /\ t[k] = s[k]
            BY <2>1, <2>2 DEF Appended
        <3>2. PICK j \in i + 1 .. k - 1 : TakesOut(s, j, s[k].id)
            BY <1>2, <2>1, <2>2, <3>1 DEF OnceEach
        <3>3. j \in 1 .. Len(s)
            BY <2>2, <3>1, <3>2 DEF Appended
        <3>. QED  BY <3>1, <3>2, <3>3 DEF TakesOut, Appended
    <2>3. ASSUME NEW n \in 1 .. Len(g), k = Len(s) + n
          PROVE  \E j \in i + 1 .. k - 1 : TakesOut(t, j, t[k].id)
        <3>1. t[k] = g[n]
            BY <2>3 DEF Appended
        <3>2. i \in 1 .. Len(s) /\ t[i] = s[i]
            <4>1. ASSUME NEW m \in 1 .. Len(g), i = Len(s) + m PROVE FALSE
                <5>1. t[i] = g[m]
                    BY <4>1 DEF Appended
                <5>2. g[m].id = g[n].id /\ m # n
                    BY <2>1, <2>3, <3>1, <4>1, <5>1
                <5>. QED  BY <1>2, <5>2
            <4>. QED  BY <4>1 DEF Appended
        <3>3. ~StandsAt(s, i, g[n].id)
            BY <1>2, <3>2 DEF InWindow
        <3>4. Presents(s, i, g[n].id)
            BY <2>1, <3>1, <3>2 DEF Presents
        <3>5. PICK j \in i + 1 .. Len(s) : TakesOut(s, j, g[n].id)
            BY <3>3, <3>4 DEF StandsAt
        <3>6. j \in 1 .. Len(s) /\ t[j] = s[j] /\ j \in i + 1 .. k - 1
            BY <2>3, <3>2, <3>5 DEF Appended
        <3>7. TakesOut(t, j, t[k].id)
            BY <3>1, <3>5, <3>6 DEF TakesOut
        <3>. QED  BY <3>6, <3>7
    <2>. QED  BY <2>2, <2>3 DEF Appended
<1>3. ASSUME NEW x, NEW i \in 1 .. Len(s)
      PROVE  StandsAt(t, i, x) <=> StandsAt(s, i, x)
    <2>1. i \in 1 .. Len(t) /\ t[i] = s[i]
        BY DEF Appended
    <2>2. ASSUME NEW j \in i + 1 .. Len(s) PROVE j \in i + 1 .. Len(t) /\ t[j] = s[j]
        <3>1. j \in 1 .. Len(s)
            BY <2>2 DEF Appended
        <3>. QED  BY <3>1, <2>2 DEF Appended
    <2>3. ASSUME NEW j \in i + 1 .. Len(t), TakesOut(t, j, x) PROVE j \in i + 1 .. Len(s) /\ t[j] = s[j]
        <3>1. j \in 1 .. Len(t) /\ t[j].kind # "present"
            BY <2>3 DEF TakesOut, Appended
        <3>2. j \in 1 .. Len(s) /\ t[j] = s[j]
            BY <1>1, <3>1
        <3>. QED  BY <2>3, <3>2 DEF Appended
    <2>. QED  BY <2>1, <2>2, <2>3 DEF StandsAt, Presents, TakesOut
<1>4. ASSUME NEW x, NEW j \in 1 .. Len(g)
      PROVE  StandsAt(t, Len(s) + j, x) <=> g[j].id = x
    <2>1. t[Len(s) + j] = g[j] /\ Len(s) + j \in 1 .. Len(t)
        BY DEF Appended
    <2>2. ASSUME NEW k \in Len(s) + j + 1 .. Len(t) PROVE ~TakesOut(t, k, x)
        <3>1. k \in 1 .. Len(t) /\ k \notin 1 .. Len(s)
            BY <2>2 DEF Appended
        <3>. QED  BY <1>1, <3>1 DEF TakesOut
    <2>. QED  BY <2>1, <2>2 DEF StandsAt, Presents
<1>5. ASSUME NEW x, NEW i \in 1 .. Len(t)
      PROVE  StandsAt(t, i, x) <=>
                \/ i \in 1 .. Len(s) /\ StandsAt(s, i, x)
                \/ \E j \in 1 .. Len(g) : i = Len(s) + j /\ g[j].id = x
    <2>1. CASE i \in 1 .. Len(s)
        <3>1. \A j \in 1 .. Len(g) : i # Len(s) + j
            BY <2>1 DEF Appended
        <3>. QED  BY <1>3, <2>1, <3>1
    <2>2. ASSUME NEW j \in 1 .. Len(g), i = Len(s) + j
          PROVE  StandsAt(t, i, x) <=>
                \/ i \in 1 .. Len(s) /\ StandsAt(s, i, x)
                \/ \E k \in 1 .. Len(g) : i = Len(s) + k /\ g[k].id = x
        <3>1. i \notin 1 .. Len(s) /\ \A k \in 1 .. Len(g) : i = Len(s) + k => k = j
            BY <2>2 DEF Appended
        <3>. QED  BY <1>4, <2>2, <3>1
    <2>. QED  BY <2>1, <2>2 DEF Appended
<1>6. \A x : InWindow(t, x) <=> InWindow(s, x) \/ \E i \in 1 .. Len(g) : g[i].id = x
    <2>1. TAKE x
    <2>2. ASSUME InWindow(t, x) PROVE InWindow(s, x) \/ \E i \in 1 .. Len(g) : g[i].id = x
        BY <1>5, <2>2 DEF InWindow
    <2>3. ASSUME InWindow(s, x) PROVE InWindow(t, x)
        <3>1. PICK i \in 1 .. Len(s) : StandsAt(s, i, x)
            BY <2>3 DEF InWindow
        <3>. QED  BY <1>3, <3>1 DEF InWindow, Appended
    <2>4. ASSUME NEW i \in 1 .. Len(g), g[i].id = x PROVE InWindow(t, x)
        <3>1. StandsAt(t, Len(s) + i, x) /\ Len(s) + i \in 1 .. Len(t)
            BY <1>4, <2>4 DEF Appended
        <3>. QED  BY <3>1, Zenon DEF InWindow
    <2>. QED  BY <2>2, <2>3, <2>4
<1>7. \A x, i : (i \in 1 .. Len(t) /\ StandsAt(t, i, x)) <=>
          \/ i \in 1 .. Len(s) /\ StandsAt(s, i, x)
          \/ \E j \in 1 .. Len(g) : i = Len(s) + j /\ g[j].id = x
    <2>1. \A i : i \in 1 .. Len(s) \/ (\E j \in 1 .. Len(g) : i = Len(s) + j) => i \in 1 .. Len(t)
        BY DEF Appended
    <2>. QED  BY <1>5, <2>1, Zenon
<1>8. StandsToo(t, s, g)
    BY <1>7, Zenon DEF StandsToo
<1>. QED  BY <1>2, <1>6, <1>8

\* The items of a batch: of one kind and stamp, a row each.
Items1(g, kind, f, w) ==
    /\ g \in Seq(Item) /\ Len(g) = Len(f) /\ Len(f) \in Nat
    /\ \A i \in 1 .. Len(g) : g[i].kind = kind /\ g[i].id = f[i] /\ g[i].by = w

\* The items of one kind, place by place.
LEMMA ItemsElements ==
    ASSUME NEW S \in SUBSET Nat, NEW f, Lists(f, S), NEW w \in Nat, NEW kind \in Kinds
    PROVE  Items1(ItemsOf(kind, f, w), kind, f, w)
<1>1. f \in Seq(S)
    BY DEF Lists
<1>2. Batch(ItemsOf(kind, f, w), w)
    BY <1>1, ItemsBatch
<1>3. Len(f) \in Nat
    BY <1>1, LenProperties
<1>4. DOMAIN ItemsOf(kind, f, w) = 1 .. Len(f)
    BY DEF ItemsOf
<1>5. ItemsOf(kind, f, w) \in Seq(Item) /\ Len(ItemsOf(kind, f, w)) = Len(f)
    BY <1>2, <1>3, <1>4, LenProperties DEF Batch
<1>6. \A i \in 1 .. Len(f) : ItemsOf(kind, f, w)[i].kind = kind
    BY DEF ItemsOf
<1>7. \A i \in 1 .. Len(f) : ItemsOf(kind, f, w)[i].id = f[i]
    BY DEF ItemsOf
<1>8. \A i \in 1 .. Len(f) : ItemsOf(kind, f, w)[i].by = w
    BY DEF ItemsOf
<1>. QED
    <2> DEFINE g == ItemsOf(kind, f, w)
    <2>1. /\ g \in Seq(Item) /\ Len(g) = Len(f) /\ Len(f) \in Nat
          /\ \A i \in 1 .. Len(f) : g[i].kind = kind /\ g[i].id = f[i] /\ g[i].by = w
        BY <1>3, <1>5, <1>6, <1>7, <1>8
    <2> HIDE DEF g
    <2>2. Items1(g, kind, f, w)
        BY <2>1 DEF Items1
    <2>. QED  BY <2>2 DEF g

\* Tombstones of S, n of them, end s: what stands in it, but for S.
StandsBut(t, s, n, S) ==
    /\ Len(t) = Len(s) + n
    /\ \A x, i : (i \in 1 .. Len(t) /\ StandsAt(t, i, x)) <=>
           i \in 1 .. Len(s) /\ StandsAt(s, i, x) /\ x \notin S
    /\ \A i \in 1 .. Len(t) :
           t[i].kind \notin {"present", "retract", "undo"} => i \in 1 .. Len(s) /\ t[i] = s[i]

\* Presentations of the rows of f end s: what stands in it, and they.
StandsWith(t, s, f) ==
    /\ Len(t) = Len(s) + Len(f)
    /\ \A x, i : (i \in 1 .. Len(t) /\ StandsAt(t, i, x)) <=>
           \/ i \in 1 .. Len(s) /\ StandsAt(s, i, x)
           \/ \E j \in 1 .. Len(f) : i = Len(s) + j /\ f[j] = x
    /\ \A i \in 1 .. Len(t) :
           t[i].kind \notin {"present", "retract", "undo"} => i \in 1 .. Len(s) /\ t[i] = s[i]

\* Tombstones of the rows of S.
LEMMA ItemsTake ==
    ASSUME NEW s \in Seq(Item), NEW S \in SUBSET Nat, NEW f, Lists(f, S), NEW w \in Nat,
           NEW kind \in {"retract", "undo"}, NEW t, Appended(t, s, ItemsOf(kind, f, w))
    PROVE  /\ t \in Seq(Item)
           /\ OnceEach(s) => OnceEach(t)
           /\ \A x : InWindow(t, x) <=> InWindow(s, x) /\ x \notin S
           /\ StandsBut(t, s, Len(f), S)
<1> DEFINE g == ItemsOf(kind, f, w)
<1>1. kind \in Kinds
    BY DEF Kinds
<1>2. /\ g \in Seq(Item) /\ Len(g) = Len(f)
      /\ \A i \in 1 .. Len(g) : g[i].kind = kind /\ g[i].id = f[i]
    <2>1. Items1(g, kind, f, w)
        BY <1>1, ItemsElements
    <2> HIDE DEF g
    <2>. QED  BY <2>1 DEF Items1
<1> HIDE DEF g
<1>3. Appended(t, s, g)
    BY DEF g
<1>4. \A i \in 1 .. Len(g) : g[i].kind # "present"
    BY <1>2
<1>5. \A x : (\E i \in 1 .. Len(g) : TakesOut(g, i, x)) <=> x \in S
    <2>1. ASSUME NEW x, NEW i \in 1 .. Len(g), TakesOut(g, i, x) PROVE x \in S
        <3>1. f[i] = x /\ f \in Seq(S)
            BY <1>2, <2>1 DEF TakesOut, Lists
        <3>2. f[i] \in S
            BY <1>2, <3>1, ElementOfSeq
        <3>. QED  BY <3>1, <3>2
    <2>2. ASSUME NEW x \in S PROVE \E i \in 1 .. Len(g) : TakesOut(g, i, x)
        <3>1. PICK i \in 1 .. Len(f) : f[i] = x
            BY DEF Lists
        <3>2. TakesOut(g, i, x)
            BY <1>2, <3>1 DEF TakesOut
        <3>. QED  BY <1>2, <3>2
    <2>. QED  BY <2>1, <2>2
<1>6. t \in Seq(Item)
    BY <1>3 DEF Appended
<1>7. /\ OnceEach(s) => OnceEach(t)
      /\ \A x : InWindow(t, x) <=> InWindow(s, x) /\ ~\E i \in 1 .. Len(g) : TakesOut(g, i, x)
      /\ \A x, i : (i \in 1 .. Len(t) /\ StandsAt(t, i, x)) <=>
             i \in 1 .. Len(s) /\ StandsAt(s, i, x) /\ ~\E j \in 1 .. Len(g) : TakesOut(g, j, x)
    BY <1>2, <1>3, <1>4, TombstonesTake
<1>8. \A x, i : (i \in 1 .. Len(t) /\ StandsAt(t, i, x)) <=>
          i \in 1 .. Len(s) /\ StandsAt(s, i, x) /\ x \notin S
    BY <1>5, <1>7, Zenon
<1>9. Len(t) = Len(s) + Len(f)
    BY <1>2, <1>3 DEF Appended
<1>10. ASSUME NEW i \in 1 .. Len(t), t[i].kind \notin {"present", "retract", "undo"} PROVE i \in 1 .. Len(s) /\ t[i] = s[i]
    <2>1. ASSUME NEW j \in 1 .. Len(g), i = Len(s) + j PROVE FALSE
        BY <1>2, <1>3, <1>10, <2>1 DEF Appended
    <2>. QED  BY <1>3, <2>1 DEF Appended
<1>11. \A x : InWindow(t, x) <=> InWindow(s, x) /\ x \notin S
    BY <1>5, <1>7, Zenon
<1>12. StandsBut(t, s, Len(f), S)
    BY <1>8, <1>9, <1>10 DEF StandsBut
<1>. QED  BY <1>6, <1>7, <1>11, <1>12, Zenon

\* Presentations of the rows of S, none of them in the window.
LEMMA ItemsPut ==
    ASSUME NEW s \in Seq(Item), NEW S \in SUBSET Nat, NEW f, Lists(f, S), NEW w \in Nat,
           NEW t, Appended(t, s, ItemsOf("present", f, w)), \A x \in S : ~InWindow(s, x)
    PROVE  /\ t \in Seq(Item)
           /\ OnceEach(s) => OnceEach(t)
           /\ \A x : InWindow(t, x) <=> InWindow(s, x) \/ x \in S
           /\ StandsWith(t, s, f)
<1> DEFINE g == ItemsOf("present", f, w)
<1>1. "present" \in Kinds
    BY DEF Kinds
<1>2. /\ g \in Seq(Item) /\ Len(g) = Len(f)
      /\ \A i \in 1 .. Len(g) : g[i].kind = "present" /\ g[i].id = f[i]
    <2>1. Items1(g, "present", f, w)
        BY <1>1, ItemsElements
    <2> HIDE DEF g
    <2>. QED  BY <2>1 DEF Items1
<1> HIDE DEF g
<1>3. Appended(t, s, g)
    BY DEF g
<1>4. \A i \in 1 .. Len(g) : g[i].kind = "present"
    BY <1>2
<1>5. \A i \in 1 .. Len(g) : g[i].id \in S
    <2>1. f \in Seq(S)
        BY DEF Lists
    <2>2. \A i \in 1 .. Len(f) : f[i] \in S
        BY <2>1, ElementOfSeq
    <2>. QED  BY <1>2, <2>2
<1>6. \A x \in S : \E i \in 1 .. Len(g) : g[i].id = x
    <2>1. \A x \in S : \E i \in 1 .. Len(f) : f[i] = x
        BY DEF Lists
    <2>. QED  BY <1>2, <2>1
<1>7. \A i, j \in 1 .. Len(g) : g[i].id = g[j].id => i = j
    BY <1>2 DEF Lists
<1>8. t \in Seq(Item)
    BY <1>3 DEF Appended
<1>9. OnceEach(s) => OnceEach(t)
    <2>1. \/ ~OnceEach(s)
          \/ \E i \in 1 .. Len(g) : InWindow(s, g[i].id)
          \/ \E i, j \in 1 .. Len(g) : i # j /\ g[i].id = g[j].id
          \/ OnceEach(t)
        BY <1>2, <1>3, <1>4, PresentationsPut, Zenon
    <2>. QED  BY <1>5, <1>7, <2>1, Zenon
<1>10. \A x : InWindow(t, x) <=> InWindow(s, x) \/ x \in S
    <2>1. \A x : InWindow(t, x) <=> InWindow(s, x) \/ \E i \in 1 .. Len(g) : g[i].id = x
        BY <1>2, <1>3, <1>4, PresentationsPut, Zenon
    <2>. QED  BY <1>5, <1>6, <2>1, Zenon
<1>11. StandsWith(t, s, f)
    <2>1. StandsToo(t, s, g)
        BY <1>2, <1>3, <1>4, PresentationsPut, Zenon
    <2>2. \A x, i : (\E j \in 1 .. Len(g) : i = Len(s) + j /\ g[j].id = x)
                      <=> (\E j \in 1 .. Len(f) : i = Len(s) + j /\ f[j] = x)
        BY <1>2
    <2>3. ASSUME NEW x, NEW i
          PROVE  (i \in 1 .. Len(t) /\ StandsAt(t, i, x)) <=>
                     \/ i \in 1 .. Len(s) /\ StandsAt(s, i, x)
                     \/ \E j \in 1 .. Len(f) : i = Len(s) + j /\ f[j] = x
        <3>1. (i \in 1 .. Len(t) /\ StandsAt(t, i, x)) <=>
                  \/ i \in 1 .. Len(s) /\ StandsAt(s, i, x)
                  \/ \E j \in 1 .. Len(g) : i = Len(s) + j /\ g[j].id = x
            BY <2>1 DEF StandsToo
        <3>2. (\E j \in 1 .. Len(g) : i = Len(s) + j /\ g[j].id = x)
                  <=> (\E j \in 1 .. Len(f) : i = Len(s) + j /\ f[j] = x)
            BY <2>2
        <3>. QED  BY <3>1, <3>2
    <2>4. ASSUME NEW i \in 1 .. Len(t), t[i].kind # "present" PROVE i \in 1 .. Len(s) /\ t[i] = s[i]
        <3>1. ASSUME NEW j \in 1 .. Len(g), i = Len(s) + j PROVE FALSE
            BY <1>2, <1>3, <2>4, <3>1 DEF Appended
        <3>. QED  BY <1>3, <3>1 DEF Appended
    <2>5. Len(t) = Len(s) + Len(f)
        BY <1>2, <1>3 DEF Appended
    <2>. QED  BY <2>3, <2>4, <2>5 DEF StandsWith
<1>. QED  BY <1>8, <1>9, <1>10, <1>11, Zenon

\* The log after a write of batch.
Written(t, s, batch) == t = s \o batch

\* A header moves no row.
LEMMA HeaderPut ==
    ASSUME NEW s \in Seq(Item), NEW w \in Nat, NEW t, Written(t, s, Header(w))
    PROVE  /\ t \in Seq(Item) /\ Len(t) = Len(s) + 1 /\ t[Len(t)].kind = "header" /\ t[Len(t)].by = w
           /\ \A i \in 1 .. Len(s) : t[i] = s[i]
           /\ OnceEach(s) => OnceEach(t)
           /\ \A x : InWindow(t, x) <=> InWindow(s, x)
<1>1. Header(w) \in Seq(Item)
    BY HeaderBatch DEF Batch
<1>2. Len(Header(w)) = 1 /\ Header(w)[1].kind = "header" /\ Header(w)[1].by = w
    BY DEF Header
<1> DEFINE g == Header(w)
<1> HIDE DEF g
<1>3. Appended(t, s, g)
    <2>1. t = s \o g
        BY DEF Written, g
    <2>2. g \in Seq(Item)
        BY <1>1 DEF g
    <2>. QED  BY <2>1, <2>2, ConcatAppends
<1>4. \A i \in 1 .. Len(g) : g[i].kind # "present" /\ \A x : ~TakesOut(g, i, x)
    BY <1>2 DEF g, TakesOut
<1>5. /\ OnceEach(s) => OnceEach(t)
      /\ \A x : InWindow(t, x) <=> InWindow(s, x) /\ ~\E i \in 1 .. Len(g) : TakesOut(g, i, x)
    BY <1>1, <1>3, <1>4, TombstonesTake DEF g
<1>6. 1 \in 1 .. Len(g) /\ Len(g) = 1
    BY <1>2 DEF g
<1>. QED  BY <1>2, <1>3, <1>4, <1>5, <1>6 DEF Appended, g

StandsMoved(t, s, f, S, g) == \E m \in Seq(Item) : StandsBut(m, s, Len(f), S) /\ StandsWith(t, m, g)

\* A batch of tombstones, then of presentations: S leaves, then T enters.
LEMMA TakeThenPut ==
    ASSUME NEW s \in Seq(Item), NEW S \in SUBSET Nat, NEW f, Lists(f, S), NEW w \in Nat,
           NEW T \in SUBSET Nat, NEW g, Lists(g, T), \A x \in T : x \in S \/ ~InWindow(s, x),
           NEW t, Written(t, s, PresentItems(f, g, w))
    PROVE  /\ t \in Seq(Item)
           /\ OnceEach(s) => OnceEach(t)
           /\ \A x : InWindow(t, x) <=> (InWindow(s, x) /\ x \notin S) \/ x \in T
           /\ StandsMoved(t, s, f, S, g)
<1> DEFINE p == ItemsOf("retract", f, w)
           q == ItemsOf("present", g, w)
           m == s \o p
<1>1. p \in Seq(Item) /\ q \in Seq(Item)
    <2>1. "retract" \in Kinds /\ "present" \in Kinds
        BY DEF Kinds
    <2>. QED  BY <2>1, ItemsElements DEF Items1
<1>2. t = m \o q
    <2>1. t = s \o (p \o q)
        BY DEF Written, PresentItems
    <2> HIDE DEF p, q
    <2>. QED  BY <1>1, <2>1, ConcatAssociative, SMTT(30)
<1>a. Appended(m, s, p)
    BY <1>1, ConcatAppends
<1>3. /\ m \in Seq(Item)
      /\ OnceEach(s) => OnceEach(m)
      /\ \A x : InWindow(m, x) <=> InWindow(s, x) /\ x \notin S
      /\ StandsBut(m, s, Len(f), S)
    <2>1. "retract" \in {"retract", "undo"}
        OBVIOUS
    <2> HIDE DEF m
    <2>. QED  BY <1>a, <2>1, ItemsTake, Zenon
<1>4. \A x \in T : ~InWindow(m, x)
    BY <1>3
<1> HIDE DEF m
<1>b. Appended(t, m, q)
    BY <1>1, <1>2, <1>3, ConcatAppends
<1>5. /\ t \in Seq(Item)
      /\ OnceEach(m) => OnceEach(t)
      /\ \A x : InWindow(t, x) <=> InWindow(m, x) \/ x \in T
      /\ StandsWith(t, m, g)
    <2>1. m \in Seq(Item)
        BY <1>3
    <2>. QED  BY <1>b, <1>4, <2>1, ItemsPut
<1>6. StandsMoved(t, s, f, S, g)
    BY <1>3, <1>5 DEF StandsMoved
<1>. QED  BY <1>3, <1>5, <1>6

-----------------------------------------------------------------------------
(* What the operations make of the window.                                 *)

\* WindowOf is the rows in the window.
LEMMA InWindowIn ==
    ASSUME NEW s, NEW x
    PROVE  InWindow(s, x) <=> x \in WindowOf(s)
<1>1. InWindow(s, x) => x \in {s[i].id : i \in 1 .. Len(s)}
    BY DEF InWindow, StandsAt, Presents
<1>. QED  BY <1>1 DEF WindowOf

\* A window is a finite set of rows.
LEMMA WindowFinite ==
    ASSUME NEW s \in Seq(Item)
    PROVE  IsFiniteSet(WindowOf(s)) /\ WindowOf(s) \in SUBSET Nat
<1> DEFINE f == [i \in 1 .. Len(s) |-> s[i].id]
           S == {s[i].id : i \in 1 .. Len(s)}
<1>1. Len(s) \in Nat
    BY LenProperties
<1>2. f \in Surjection(1 .. Len(s), S)
    <2>1. f \in [1 .. Len(s) -> S]
        OBVIOUS
    <2>2. \A x \in S : \E i \in 1 .. Len(s) : f[i] = x
        OBVIOUS
    <2> HIDE DEF f, S
    <2>. QED  BY <2>1, <2>2, Fun_IsSurj
<1>3. IsFiniteSet(1 .. Len(s))
    BY <1>1, FS_Interval
<1>4. IsFiniteSet(S)
    <2> HIDE DEF f, S
    <2>. QED  BY <1>2, <1>3, FS_Surjection
<1>5. WindowOf(s) \in SUBSET S
    BY DEF WindowOf
<1>. QED  BY <1>4, <1>5, FS_Subset, WindowType

\* Rows of the record, and the rows its names stand for, are stored rows.
LEMMA RowsFinite ==
    ASSUME IInv, NEW b \in Branches
    PROVE  /\ rows[b] \subseteq 1 .. seq /\ Held(b) \subseteq 1 .. seq
           /\ \A S : S \subseteq 1 .. seq => IsFiniteSet(S) /\ S \in SUBSET Nat
           /\ \A id \in rows[b] : Rest(b, id) \subseteq 1 .. seq
<1>1. seq \in Nat /\ rows[b] \subseteq 1 .. seq
    BY DEF IInv, RecordType
<1>2. IsFiniteSet(1 .. seq)
    BY <1>1, FS_Interval
<1>3. \A S : S \subseteq 1 .. seq => IsFiniteSet(S) /\ S \in SUBSET Nat
    <2>1. TAKE S
    <2>2. HAVE S \subseteq 1 .. seq
    <2>3. S \in SUBSET (1 .. seq)
        BY <2>2
    <2>4. IsFiniteSet(S)
        BY <1>2, <2>3, FS_Subset
    <2>. QED  BY <1>1, <2>3, <2>4
<1>4. Held(b) \subseteq 1 .. seq
    BY <1>1 DEF Held
<1>5. \A id \in rows[b] : Rest(b, id) \subseteq 1 .. seq
    BY <1>1, <1>4 DEF Rest, BodyOf
<1>. QED  BY <1>1, <1>3, <1>4, <1>5

\* A row that stays keeps its ordinal; rows put in take the next, in turn.
LEMMA OrdinalMoved ==
    ASSUME NEW s \in Seq(Item), NEW t \in Seq(Item), NEW S, NEW f, Lists(f, S), NEW T, NEW g, Lists(g, T),
           StandsMoved(t, s, f, S, g), \A x \in T : x \in S \/ ~InWindow(s, x)
    PROVE  /\ \A x : InWindow(s, x) /\ x \notin S =>
                  OrdinalIn(t, x) = OrdinalIn(s, x) /\ OrdinalIn(s, x) \in 1 .. Len(s)
           /\ \A j \in 1 .. Len(g) : OrdinalIn(t, g[j]) = Len(s) + Len(f) + j
<1>1. Len(s) \in Nat /\ Len(t) \in Nat /\ Len(f) \in Nat /\ Len(g) \in Nat
    BY LenProperties DEF Lists
<1>2. \A j \in 1 .. Len(g) : g[j] \in T
    <2>1. g \in Seq(T)
        BY DEF Lists
    <2>. QED  BY <2>1, ElementOfSeq
<1>3. PICK m \in Seq(Item) : StandsBut(m, s, Len(f), S) /\ StandsWith(t, m, g)
    BY DEF StandsMoved
<1>4. Len(m) = Len(s) + Len(f)
    BY <1>3 DEF StandsBut
<1>5. ASSUME NEW x, NEW i
      PROVE  (i \in 1 .. Len(t) /\ StandsAt(t, i, x)) <=>
                 \/ i \in 1 .. Len(s) /\ StandsAt(s, i, x) /\ x \notin S
                 \/ \E j \in 1 .. Len(g) : i = Len(s) + Len(f) + j /\ g[j] = x
    <2>1. (i \in 1 .. Len(t) /\ StandsAt(t, i, x)) <=>
              \/ i \in 1 .. Len(m) /\ StandsAt(m, i, x)
              \/ \E j \in 1 .. Len(g) : i = Len(m) + j /\ g[j] = x
        BY <1>3 DEF StandsWith
    <2>2. (i \in 1 .. Len(m) /\ StandsAt(m, i, x)) <=>
              i \in 1 .. Len(s) /\ StandsAt(s, i, x) /\ x \notin S
        BY <1>3 DEF StandsBut
    <2>. QED  BY <1>4, <2>1, <2>2
<1>6. ASSUME NEW x, InWindow(s, x), x \notin S
      PROVE  OrdinalIn(t, x) = OrdinalIn(s, x) /\ OrdinalIn(s, x) \in 1 .. Len(s)
    <2> DEFINE p == OrdinalIn(s, x)
               q == OrdinalIn(t, x)
    <2>1. x \notin T
        BY <1>6
    <2>2. \A i : (i \in 1 .. Len(t) /\ StandsAt(t, i, x)) <=> (i \in 1 .. Len(s) /\ StandsAt(s, i, x))
        BY <1>2, <1>5, <1>6, <2>1
    <2>3. p \in 1 .. Len(s) /\ StandsAt(s, p, x) /\ \A j \in 1 .. p - 1 : ~StandsAt(s, j, x)
        BY <1>6, OrdinalStands
    <2>4. InWindow(t, x)
        BY <2>2, <2>3 DEF InWindow
    <2>5. q \in 1 .. Len(t) /\ StandsAt(t, q, x) /\ \A j \in 1 .. q - 1 : ~StandsAt(t, j, x)
        BY <2>4, OrdinalStands
    <2> HIDE DEF p, q
    <2>6. q \in 1 .. Len(s) /\ StandsAt(s, q, x) /\ p \in 1 .. Len(t) /\ StandsAt(t, p, x)
        BY <2>2, <2>3, <2>5
    <2>7. ~(q < p) /\ ~(p < q)
        BY <2>3, <2>5, <2>6
    <2>8. p = q
        BY <2>6, <2>7
    <2>. QED  BY <2>3, <2>8 DEF p, q
<1>7. ASSUME NEW j \in 1 .. Len(g) PROVE OrdinalIn(t, g[j]) = Len(s) + Len(f) + j
    <2> DEFINE x == g[j]
               q == OrdinalIn(t, x)
               e == Len(s) + Len(f) + j
    <2>1. x \in T /\ \A k \in 1 .. Len(g) : g[k] = x => k = j
        BY <1>2 DEF Lists
    <2>2. \A i \in 1 .. Len(s) : StandsAt(s, i, x) => x \in S
        BY <2>1 DEF InWindow
    <2>3. \A i : (i \in 1 .. Len(t) /\ StandsAt(t, i, x)) <=> i = e
        <3> HIDE DEF x
        <3>1. \A i : (\E k \in 1 .. Len(g) : i = Len(s) + Len(f) + k /\ g[k] = x) <=> i = e
            BY <2>1 DEF x
        <3>2. \A i : ~(i \in 1 .. Len(s) /\ StandsAt(s, i, x) /\ x \notin S)
            BY <2>2
        <3> HIDE DEF e
        <3>. QED  BY <1>5, <3>1, <3>2, Zenon
    <2>4. InWindow(t, x)
        BY <2>3, Zenon DEF InWindow
    <2>5. q \in 1 .. Len(t) /\ StandsAt(t, q, x)
        BY <2>4, OrdinalStands
    <2> HIDE DEF q, e, x
    <2>6. q = e
        BY <2>3, <2>5, Zenon
    <2>. QED  BY <2>6 DEF q, e, x
<1>. QED  BY <1>6, <1>7

\* The window of m is the rows of H, in record order.
InOrder(m, H) ==
    /\ \A x : InWindow(m, x) <=> x \in H
    /\ \A x, y \in H : x < y => OrdinalIn(m, x) < OrdinalIn(m, y)

\* A write-down ends s: the rows of H in record order, and record w's header.
WrittenDown(t, s, H, w) ==
    \E m \in Seq(Item) :
        /\ InOrder(m, H)
        /\ Len(t) = Len(m) + 1 /\ t[Len(t)].kind = "header" /\ t[Len(t)].by = w
        /\ \A i \in 1 .. Len(m) : t[i] = m[i]
        /\ \A i \in 1 .. Len(m) : m[i].kind = "header" => i \in 1 .. Len(s) /\ s[i].kind = "header"

\* A write-down leaves the window in record order.
LEMMA DownOrder ==
    ASSUME IInv, NEW b \in Branches, NEW m \in Seq(Item), NEW outs, NEW ins,
           Lists(outs, WriteDownOuts(b, log[b])), Lists(ins, WriteDownIns(b, log[b])),
           \A i, j \in 1 .. Len(ins) : i < j => ins[i] < ins[j],
           StandsMoved(m, log[b], outs, WriteDownOuts(b, log[b]), ins)
    PROVE  \A x, y \in Held(b) : x < y => OrdinalIn(m, x) < OrdinalIn(m, y)
<1> DEFINE s == log[b]
           O == WriteDownOuts(b, s)
           I == WriteDownIns(b, s)
<1>1. s \in Seq(Item) /\ Held(b) \in SUBSET Nat
    BY RowsFinite DEF IInv, IndexType
<1>2. Len(s) \in Nat /\ Len(outs) \in Nat /\ Len(ins) \in Nat
    BY <1>1, LenProperties DEF Lists
<1>3. \A x : InWindow(s, x) <=> x \in WindowOf(s)
    BY InWindowIn
<1>4. \A x \in I : x \in O \/ ~InWindow(s, x)
    BY <1>3 DEF WriteDownOuts, WriteDownIns
<1>5. /\ \A x : InWindow(s, x) /\ x \notin O =>
             OrdinalIn(m, x) = OrdinalIn(s, x) /\ OrdinalIn(s, x) \in 1 .. Len(s)
      /\ \A j \in 1 .. Len(ins) : OrdinalIn(m, ins[j]) = Len(s) + Len(outs) + j
    <2> HIDE DEF O, I
    <2>1. Lists(outs, O) /\ Lists(ins, I) /\ StandsMoved(m, s, outs, O, ins)
        BY DEF O, I
    <2> HIDE DEF s
    <2>. QED  BY <1>1, <1>4, <2>1, OrdinalMoved
<1>6. SUFFICES ASSUME NEW x \in Held(b), NEW y \in Held(b), x < y
               PROVE  OrdinalIn(m, x) < OrdinalIn(m, y)
    OBVIOUS
<1>7. \A z \in I : \E j \in 1 .. Len(ins) : ins[j] = z
    BY DEF Lists
<1>8. CASE x \in I /\ y \in I
    <2>1. PICK i \in 1 .. Len(ins) : ins[i] = x
        BY <1>7, <1>8
    <2>2. PICK j \in 1 .. Len(ins) : ins[j] = y
        BY <1>7, <1>8
    <2>3. i < j
        <3>1. ~(j < i) /\ i # j
            BY <1>1, <1>6, <2>1, <2>2
        <3>. QED  BY <1>2, <3>1
    <2>4. OrdinalIn(m, x) = Len(s) + Len(outs) + i /\ OrdinalIn(m, y) = Len(s) + Len(outs) + j
        BY <1>5, <2>1, <2>2
    <2> HIDE DEF s
    <2>. QED  BY <1>2, <2>3, <2>4
<1>9. CASE ~(x \in I /\ y \in I)
    <2>1. PrefixWritten(b, s) /\ O = WindowOf(s) \ Held(b) /\ I = Held(b) \ WindowOf(s)
        BY <1>9 DEF WriteDownOuts, WriteDownIns
    <2>2. /\ \A p \in WindowOf(s) \cap Held(b), q \in Held(b) \ (WindowOf(s) \cap Held(b)) : p < q
          /\ \A p, q \in WindowOf(s) \cap Held(b) : p < q => OrdinalIn(s, p) < OrdinalIn(s, q)
        BY <2>1 DEF PrefixWritten
    <2>3. x \in WindowOf(s)
        <3>1. SUFFICES ASSUME x \notin WindowOf(s) PROVE FALSE
            OBVIOUS
        <3>2. y \in WindowOf(s) /\ y < x
            BY <1>9, <2>1, <2>2, <3>1
        <3>. QED  BY <1>1, <1>6, <3>2
    <2>4. OrdinalIn(m, x) = OrdinalIn(s, x) /\ OrdinalIn(s, x) \in 1 .. Len(s)
        BY <1>3, <1>5, <2>1, <2>3
    <2>5. CASE y \in WindowOf(s)
        <3>1. OrdinalIn(m, y) = OrdinalIn(s, y) /\ OrdinalIn(s, x) < OrdinalIn(s, y)
            BY <1>3, <1>5, <1>6, <2>1, <2>2, <2>3, <2>5
        <3>. QED  BY <2>4, <3>1
    <2>6. CASE y \notin WindowOf(s)
        <3>1. PICK j \in 1 .. Len(ins) : ins[j] = y
            BY <1>7, <2>1, <2>6
        <3>2. OrdinalIn(m, y) = Len(s) + Len(outs) + j
            BY <1>5, <3>1
        <3> HIDE DEF s
        <3>. QED  BY <1>2, <2>4, <3>2
    <2>. QED  BY <2>5, <2>6
<1>. QED  BY <1>8, <1>9

\* The write-down: the window is the record, the header written last.
LEMMA WriteDownMakes ==
    ASSUME IInv, NEW b \in Branches, NEW w \in Nat,
           NEW outs \in Ascending(WriteDownOuts(b, log[b])), NEW ins \in Ascending(WriteDownIns(b, log[b])),
           NEW t, Written(t, log[b], WriteDownItems(outs, ins, w))
    PROVE  /\ t \in Seq(Item)
           /\ OnceEach(log[b]) => OnceEach(t)
           /\ \A x : InWindow(t, x) <=> x \in Held(b)
           /\ WrittenDown(t, log[b], Held(b), w)
<1> DEFINE s == log[b]
           O == WriteDownOuts(b, s)
           I == WriteDownIns(b, s)
           m == s \o PresentItems(outs, ins, w)
<1>1. s \in Seq(Item)
    BY DEF IInv, IndexType
<1>2. \A x : InWindow(s, x) <=> x \in WindowOf(s)
    BY InWindowIn
<1>3. O \in SUBSET Nat /\ I \in SUBSET Nat /\ IsFiniteSet(O) /\ IsFiniteSet(I)
    <2>1. IsFiniteSet(Held(b)) /\ Held(b) \in SUBSET Nat
        BY RowsFinite
    <2>2. IsFiniteSet(WindowOf(s)) /\ WindowOf(s) \in SUBSET Nat
        BY <1>1, WindowFinite
    <2>3. O \in SUBSET WindowOf(s) /\ I \in SUBSET Held(b)
        BY DEF WriteDownOuts, WriteDownIns
    <2>4. IsFiniteSet(O) /\ IsFiniteSet(I)
        BY <2>1, <2>2, <2>3, FS_Subset
    <2>. QED  BY <2>1, <2>2, <2>3, <2>4
<1>4. Lists(outs, O) /\ Lists(ins, I)
    BY <1>3, AscendingLists
<1>4a. \A i, j \in 1 .. Len(ins) : i < j => ins[i] < ins[j]
    BY <1>3, AscendingLists
<1>5. \A x \in I : x \in O \/ ~InWindow(s, x)
    BY <1>2 DEF WriteDownOuts, WriteDownIns
<1>6. \A x : (x \in WindowOf(s) /\ x \notin O) \/ x \in I <=> x \in Held(b)
    BY DEF WriteDownOuts, WriteDownIns
<1>7. PresentItems(outs, ins, w) \in Seq(Item) /\ Header(w) \in Seq(Item)
    <2>1. "retract" \in Kinds /\ "present" \in Kinds
        BY DEF Kinds
    <2>2. outs \in Seq(O) /\ ins \in Seq(I)
        BY <1>4 DEF Lists
    <2>3. Batch(ItemsOf("retract", outs, w), w) /\ Batch(ItemsOf("present", ins, w), w)
        BY <1>3, <2>1, <2>2, ItemsBatch
    <2>. QED  BY <2>3, ConcatBatch, HeaderBatch DEF PresentItems, Batch
<1>8. t = m \o Header(w)
    <2>1. t = s \o (PresentItems(outs, ins, w) \o Header(w))
        BY DEF Written, WriteDownItems, PresentItems
    <2> DEFINE p == PresentItems(outs, ins, w)
               g == Header(w)
    <2>2. p \in Seq(Item) /\ g \in Seq(Item) /\ t = s \o (p \o g)
        BY <1>7, <2>1
    <2> HIDE DEF p, g
    <2>3. (s \o p) \o g = s \o (p \o g)
        <3> HIDE DEF s
        <3>1. p \in Seq(Item) /\ g \in Seq(Item)
            BY <2>2, Zenon
        <3>. QED  BY <1>1, <3>1, ConcatAssociative, SMTT(30)
    <2>4. t = (s \o p) \o g
        BY <2>2, <2>3, Zenon
    <2>. QED  BY <2>4, Zenon DEF p, g
<1> HIDE DEF m, O, I
<1>9. Written(m, s, PresentItems(outs, ins, w)) /\ Written(t, m, Header(w))
    BY <1>8 DEF Written, m
<1>10. /\ m \in Seq(Item)
       /\ OnceEach(s) => OnceEach(m)
       /\ \A x : InWindow(m, x) <=> (InWindow(s, x) /\ x \notin O) \/ x \in I
       /\ StandsMoved(m, s, outs, O, ins)
    BY <1>1, <1>3, <1>4, <1>5, <1>9, TakeThenPut
<1>11. /\ t \in Seq(Item)
       /\ OnceEach(m) => OnceEach(t)
       /\ \A x : InWindow(t, x) <=> InWindow(m, x)
    BY <1>9, <1>10, HeaderPut
<1>12. \A x : InWindow(t, x) <=> x \in Held(b)
    BY <1>2, <1>6, <1>10, <1>11
<1>14. \A x, y \in Held(b) : x < y => OrdinalIn(m, x) < OrdinalIn(m, y)
    <2>1. /\ Lists(outs, WriteDownOuts(b, log[b])) /\ Lists(ins, WriteDownIns(b, log[b]))
          /\ StandsMoved(m, log[b], outs, WriteDownOuts(b, log[b]), ins)
        BY <1>4, <1>10 DEF O, I
    <2>. QED  BY <1>10, <1>4a, <2>1, DownOrder
<1>15. InOrder(m, Held(b))
    BY <1>2, <1>6, <1>10, <1>14 DEF InOrder
<1>16. ASSUME NEW i \in 1 .. Len(m), m[i].kind = "header" PROVE i \in 1 .. Len(s) /\ s[i].kind = "header"
    <2>1. PICK k \in Seq(Item) : StandsBut(k, s, Len(outs), O) /\ StandsWith(m, k, ins)
        BY <1>10 DEF StandsMoved
    <2>2. i \in 1 .. Len(k) /\ m[i] = k[i]
        BY <1>16, <2>1 DEF StandsWith
    <2>3. i \in 1 .. Len(s) /\ k[i] = s[i]
        BY <1>16, <2>1, <2>2 DEF StandsBut
    <2>. QED  BY <1>16, <2>2, <2>3
<1>17. WrittenDown(t, s, Held(b), w)
    <2>1. /\ Len(t) = Len(m) + 1 /\ t[Len(t)].kind = "header" /\ t[Len(t)].by = w
          /\ \A i \in 1 .. Len(m) : t[i] = m[i]
        BY <1>9, <1>10, HeaderPut
    <2>. QED  BY <1>10, <1>15, <1>16, <2>1 DEF WrittenDown
<1>. QED  BY <1>10, <1>11, <1>12, <1>17

\* A presentation: the rows moved leave, and the rows entering enter.
LEMMA PresentMakes ==
    ASSUME IInv, NEW b \in Branches, NEW names \in Calls(b), NamedApart(b, names), NEW w \in Nat,
           NEW outs \in Ascending(Moving(b, log[b], names)),
           NEW ins \in InCallOrder(b, names, Entering(b, log[b], names)),
           NEW t, Written(t, log[b], PresentItems(outs, ins, w))
    PROVE  /\ t \in Seq(Item)
           /\ OnceEach(log[b]) => OnceEach(t)
           /\ \A x : InWindow(t, x) <=> InWindow(log[b], x) \/ x \in NamedRows(b, names)
           /\ \A x : InWindow(t, x) <=> (InWindow(log[b], x) /\ x \notin Moving(b, log[b], names))
                                       \/ x \in Entering(b, log[b], names)
           /\ \A x \in Entering(b, log[b], names) : Len(log[b]) < OrdinalIn(t, x)
           /\ Moving(b, log[b], names) \subseteq 1 .. seq /\ Entering(b, log[b], names) \subseteq 1 .. seq
<1> DEFINE s == log[b]
           M == Moving(b, s, names)
           E == Entering(b, s, names)
<1>1. s \in Seq(Item)
    BY DEF IInv, IndexType
<1>2. names \in Seq(Nat) /\ \A i \in 1 .. Len(names) : names[i] \in rows[b]
    <2>1. PICK n \in 1 .. MaxNames : names \in [1 .. n -> rows[b]]
        BY DEF Calls
    <2>2. n \in Nat /\ rows[b] \in SUBSET Nat
        BY BoundAssumption, RowsFinite
    <2>3. names \in [1 .. n -> Nat]
        BY <2>1, <2>2
    <2>4. names \in Seq(Nat) /\ Len(names) = n
        BY <2>2, <2>3, SeqDef, LenProperties
    <2>. QED  BY <2>1, <2>4
<1>3. NamedRows(b, names) \subseteq 1 .. seq
    BY <1>2, RowsFinite DEF NamedRows
<1>4. M \subseteq NamedRows(b, names) /\ E \subseteq NamedRows(b, names)
    BY DEF Moving, Entering, NamedRows
<1>5. M \in SUBSET Nat /\ E \in SUBSET Nat /\ IsFiniteSet(M) /\ IsFiniteSet(E)
    <2>1. M \subseteq 1 .. seq /\ E \subseteq 1 .. seq
        BY <1>3, <1>4
    <2> HIDE DEF M, E
    <2>. QED  BY <2>1, RowsFinite
<1>6. Lists(outs, M)
    BY <1>5, AscendingLists
<1>7. Lists(ins, E)
    BY <1>2, <1>4, <1>5, InCallOrderLists
<1>8. \A x \in E : x \in M \/ ~InWindow(s, x)
    BY DEF Entering
<1>9. \A x : (InWindow(s, x) /\ x \notin M) \/ x \in E <=> InWindow(s, x) \/ x \in NamedRows(b, names)
    <2>1. \A x : x \in E <=> x \in NamedRows(b, names) /\ (x \in M \/ ~InWindow(s, x))
        BY DEF Entering
    <2> HIDE DEF M, E
    <2>2. \A x \in M : x \in NamedRows(b, names)
        BY <1>4
    <2>. QED  BY <2>1, <2>2
<1> HIDE DEF M, E
<1>10. /\ t \in Seq(Item)
       /\ OnceEach(s) => OnceEach(t)
       /\ \A x : InWindow(t, x) <=> (InWindow(s, x) /\ x \notin M) \/ x \in E
       /\ StandsMoved(t, s, outs, M, ins)
    BY <1>1, <1>5, <1>6, <1>7, <1>8, TakeThenPut
<1>11. ASSUME NEW x \in E PROVE Len(s) < OrdinalIn(t, x)
    <2>1. Len(s) \in Nat /\ Len(outs) \in Nat
        BY <1>1, <1>6, LenProperties DEF Lists
    <2>2. PICK j \in 1 .. Len(ins) : ins[j] = x
        BY <1>7 DEF Lists
    <2>3. \A k \in 1 .. Len(ins) : OrdinalIn(t, ins[k]) = Len(s) + Len(outs) + k
        <3> HIDE DEF s
        <3>. QED  BY <1>1, <1>6, <1>7, <1>8, <1>10, OrdinalMoved
    <2>4. OrdinalIn(t, x) = Len(s) + Len(outs) + j /\ j \in Nat /\ 0 < j
        BY <2>2, <2>3
    <2>. QED  BY <2>1, <2>4
<1>12. M \subseteq 1 .. seq /\ E \subseteq 1 .. seq
    BY <1>3, <1>4
<1>. QED  BY <1>9, <1>10, <1>11, <1>12 DEF M, E

\* Tombstones: the rows named leave, and nothing enters.
LEMMA LeavingMakes ==
    ASSUME NEW s \in Seq(Item), NEW leaving \in SUBSET Nat, IsFiniteSet(leaving), NEW w \in Nat,
           NEW kind \in {"retract", "undo"}, NEW off \in Ascending(leaving),
           NEW t, Written(t, s, ItemsOf(kind, off, w))
    PROVE  /\ t \in Seq(Item)
           /\ OnceEach(s) => OnceEach(t)
           /\ \A x : InWindow(t, x) <=> InWindow(s, x) /\ x \notin leaving
<1>1. Lists(off, leaving)
    BY AscendingLists
<1>2. Batch(ItemsOf(kind, off, w), w)
    <2>1. kind \in Kinds /\ off \in Seq(leaving)
        BY <1>1 DEF Lists, Kinds
    <2>. QED  BY <2>1, ItemsBatch
<1>3. Appended(t, s, ItemsOf(kind, off, w))
    BY <1>2, ConcatAppends DEF Written, Batch
<1>. QED  BY <1>1, <1>3, ItemsTake

-----------------------------------------------------------------------------
(* What the operations make of a branch's log.                             *)

\* t is s and the items of record w.
Extends(t, s, w) ==
    /\ Len(s) <= Len(t)
    /\ \A i \in 1 .. Len(s) : t[i] = s[i]
    /\ \A i \in Len(s) + 1 .. Len(t) : t[i].by = w

\* Record w makes s the log t, whose window is W.
Makes(t, s, w, W) ==
    /\ t \in Seq(Item)
    /\ Extends(t, s, w)
    /\ OnceEach(s) => OnceEach(t)
    /\ \A x : InWindow(t, x) <=> x \in W

\* A step that appends record w to branch b's log, and leaves it the window W.
WritesTo(b, w, W) == \E t : log' = [log EXCEPT ![b] = t] /\ Makes(t, log[b], w, W)

\* A step that writes branch b's log down, as record w.
DownTo(b, w, H) == \E t : log' = [log EXCEPT ![b] = t] /\ WrittenDown(t, log[b], H, w)

\* Appending the items of one record extends the log by that record.
LEMMA BatchExtends ==
    ASSUME NEW s \in Seq(Item), NEW w \in Nat, NEW batch, Batch(batch, w),
           NEW t, Written(t, s, batch)
    PROVE  t \in Seq(Item) /\ Extends(t, s, w)
<1>1. Appended(t, s, batch)
    BY ConcatAppends DEF Written, Batch
<1>2. \A i \in Len(s) + 1 .. Len(t) : t[i].by = w
    <2>1. TAKE i \in Len(s) + 1 .. Len(t)
    <2>4. Len(s) \in Nat /\ Len(t) \in Nat
        BY <1>1, LenProperties DEF Appended
    <2>5. i \in 1 .. Len(t) /\ i \notin 1 .. Len(s)
        BY <2>4
    <2>2. PICK j \in 1 .. Len(batch) : i = Len(s) + j
        BY <1>1, <2>5, Zenon DEF Appended
    <2>3. t[i].by = w
        BY <1>1, <2>2 DEF Appended, Batch
    <2>. QED  BY <2>3
<1>. QED  BY <1>1, <1>2 DEF Appended, Extends

\* The items of a write-down are one record.
LEMMA WriteDownBatch ==
    ASSUME IInv, NEW b \in Branches, NEW w \in Nat,
           NEW outs \in Ascending(WriteDownOuts(b, log[b])), NEW ins \in Ascending(WriteDownIns(b, log[b]))
    PROVE  Batch(WriteDownItems(outs, ins, w), w)
<1>1. Held(b) \in SUBSET Nat /\ WindowOf(log[b]) \in SUBSET Nat
    BY HeldType, WindowType DEF IInv, IndexType
<1>2. WriteDownOuts(b, log[b]) \in SUBSET Nat /\ WriteDownIns(b, log[b]) \in SUBSET Nat
    BY <1>1 DEF WriteDownOuts, WriteDownIns
<1>3. outs \in Seq(WriteDownOuts(b, log[b])) /\ ins \in Seq(WriteDownIns(b, log[b]))
    BY DEF Ascending
<1>4. "retract" \in Kinds /\ "present" \in Kinds
    BY DEF Kinds
<1>5. Batch(ItemsOf("retract", outs, w), w) /\ Batch(ItemsOf("present", ins, w), w)
    BY <1>2, <1>3, <1>4, ItemsBatch
<1>. QED  BY <1>5, HeaderBatch, ConcatBatch DEF WriteDownItems

\* A single tombstone takes out its row.
LEMMA OneTaken ==
    ASSUME NEW s \in Seq(Item), NEW r \in Nat, NEW w \in Nat,
           NEW t, Appended(t, s, ItemsOf("retract", <<r>>, w))
    PROVE  /\ t \in Seq(Item)
           /\ OnceEach(s) => OnceEach(t)
           /\ \A x : InWindow(t, x) <=> InWindow(s, x) /\ x \notin {r}
<1>1. PICK f : f = <<r>>
    OBVIOUS
<1>2. PICK S : S = {r}
    OBVIOUS
<1>3. PICK kind : kind = "retract"
    OBVIOUS
<1>4. Lists(f, S)
    BY <1>1, <1>2 DEF Lists
<1>5. Appended(t, s, ItemsOf(kind, f, w))
    BY <1>1, <1>3
<1>6. S \in SUBSET Nat /\ kind \in {"retract", "undo"}
    BY <1>2, <1>3
<1>7. /\ t \in Seq(Item)
      /\ OnceEach(s) => OnceEach(t)
      /\ \A x : InWindow(t, x) <=> InWindow(s, x) /\ x \notin S
    BY <1>4, <1>5, <1>6, ItemsTake
<1>. QED  BY <1>2, <1>7

\* removeMessage: nothing is written, or one tombstone.
LEMMA RemoveMessageLog ==
    ASSUME IInv, NEW h \in Handles, NEW r \in Held(cur[h]), NEW o \in Outcomes, RemoveMessage(h, r, o)
    PROVE  log' = log \/ WritesTo(cur[h], seq + 2, WindowOf(log[cur[h]]) \ {r})
<1> DEFINE b == cur[h]
           s == log[b]
           batch == ItemsOf("retract", <<r>>, seq + 2)
<1>1. seq \in Nat /\ b \in Branches /\ s \in Seq(Item) /\ r \in Nat /\ log \in [Branches -> Seq(Item)]
    BY Facts DEF IndexType
<1>2. CASE log' # log
    <2>1. log' = [log EXCEPT ![b] = @ \o batch]
        BY <1>2 DEF RemoveMessage
    <2>2. log' = [log EXCEPT ![b] = s \o batch]
        BY <1>1, <2>1
    <2>4. <<r>> \in Seq({r}) /\ "retract" \in Kinds /\ seq + 2 \in Nat /\ seq < seq + 2
        BY <1>1 DEF Kinds
    <2>5. Batch(batch, seq + 2)
        BY <1>1, <2>4, ItemsBatch
    <2> DEFINE t == s \o batch
    <2>6. Written(t, s, batch)
        BY DEF Written
    <2>7. Appended(t, s, batch)
        BY <1>1, <2>5, ConcatAppends DEF Batch
    <2>8. /\ t \in Seq(Item)
          /\ OnceEach(s) => OnceEach(t)
          /\ \A x : InWindow(t, x) <=> InWindow(s, x) /\ x \notin {r}
        <3> HIDE DEF t
        <3>. QED  BY <1>1, <2>4, <2>7, OneTaken
    <2> HIDE DEF t, batch
    <2>9. Extends(t, s, seq + 2)
        BY <1>1, <2>4, <2>5, <2>6, BatchExtends
    <2>10. \A x : InWindow(t, x) <=> x \in WindowOf(s) \ {r}
        BY <2>8, InWindowIn
    <2>11. log' = [log EXCEPT ![b] = t]
        BY <2>2 DEF t
    <2>12. WritesTo(b, seq + 2, WindowOf(s) \ {r})
        BY <2>8, <2>9, <2>10, <2>11, Zenon DEF WritesTo, Makes
    <2>. QED  BY <2>12
<1>. QED  BY <1>2

\* A write-down: nothing is written, or the record in order and the header.
LEMMA WriteDownLog ==
    ASSUME IInv, NEW h \in Handles, NEW o \in Outcomes, WriteDown(h, o)
    PROVE  /\ log' = log \/ WritesTo(cur[h], seq + 1, Held(cur[h]))
           /\ log' = log \/ DownTo(cur[h], seq + 1, Held(cur[h]))
<1> DEFINE b == cur[h]
           s == log[b]
<1>1. seq \in Nat /\ b \in Branches /\ s \in Seq(Item) /\ log \in [Branches -> Seq(Item)] /\ Current(h).items = s
    BY Facts DEF IndexType
<1>2. PICK outs \in Ascending(WriteDownOuts(b, s)), ins \in Ascending(WriteDownIns(b, s)) :
          Write(h, WriteDownItems(outs, ins, seq + 1), o)
    BY <1>1 DEF WriteDown
<1> DEFINE batch == WriteDownItems(outs, ins, seq + 1)
           t == s \o batch
<1>3. log' = log \/ log' = [log EXCEPT ![b] = t]
    BY <1>1, <1>2 DEF Write
<1>4. Batch(batch, seq + 1) /\ seq + 1 \in Nat /\ seq < seq + 1
    BY <1>1, WriteDownBatch
<1>5. Written(t, s, batch)
    BY DEF Written
<1> HIDE DEF t
<1>6. /\ t \in Seq(Item)
      /\ OnceEach(s) => OnceEach(t)
      /\ \A x : InWindow(t, x) <=> x \in Held(b)
      /\ WrittenDown(t, s, Held(b), seq + 1)
    BY <1>1, <1>4, <1>5, WriteDownMakes
<1>7. Extends(t, s, seq + 1)
    BY <1>1, <1>4, <1>5, BatchExtends
<1>8. log' = [log EXCEPT ![b] = t] => WritesTo(b, seq + 1, Held(b))
    BY <1>6, <1>7, Zenon DEF WritesTo, Makes
<1>9. log' = [log EXCEPT ![b] = t] => DownTo(b, seq + 1, Held(b))
    BY <1>6, Zenon DEF DownTo
<1>. QED  BY <1>3, <1>8, <1>9

\* presentRows: nothing is written, or the rows named enter.
LEMMA PresentRowsLog ==
    ASSUME IInv, NEW h \in Handles, NEW names \in Calls(cur[h]), NEW o \in Outcomes, PresentRows(h, names, o)
    PROVE  log' = log \/ WritesTo(cur[h], seq + 1, WindowOf(log[cur[h]]) \cup NamedRows(cur[h], names))
<1> DEFINE b == cur[h]
           s == log[b]
           N == NamedRows(b, names)
<1>1. seq \in Nat /\ b \in Branches /\ s \in Seq(Item) /\ log \in [Branches -> Seq(Item)] /\ Current(h).items = s
    BY Facts DEF IndexType
<1>2. PICK outs \in Ascending(Moving(b, s, names)), ins \in InCallOrder(b, names, Entering(b, s, names)) :
          Write(h, PresentItems(outs, ins, seq + 1), o)
    BY <1>1 DEF PresentRows
<1> DEFINE batch == PresentItems(outs, ins, seq + 1)
           t == s \o batch
<1>3. log' = log \/ log' = [log EXCEPT ![b] = t]
    BY <1>1, <1>2 DEF Write
<1>4. Batch(batch, seq + 1) /\ seq + 1 \in Nat /\ seq < seq + 1
    <2>1. names \in Seq(Nat) /\ RecordType
        BY NamesType, Facts
    <2>2. \A i \in 1 .. Len(names) : Rest(b, names[i]) \in SUBSET Nat
        BY <1>1, <2>1, HeldType, ElementOfSeq
    <2>3. Moving(b, s, names) \in SUBSET Nat /\ Entering(b, s, names) \in SUBSET Nat
        BY <2>2 DEF Moving, Entering, NamedRows
    <2>4. "retract" \in Kinds /\ "present" \in Kinds /\ seq + 1 \in Nat
        BY <1>1 DEF Kinds
    <2>5. outs \in Seq(Moving(b, s, names)) /\ ins \in Seq(Entering(b, s, names))
        BY DEF Ascending, InCallOrder
    <2>6. Batch(ItemsOf("retract", outs, seq + 1), seq + 1) /\ Batch(ItemsOf("present", ins, seq + 1), seq + 1)
        BY <2>3, <2>4, <2>5, ItemsBatch
    <2>. QED  BY <1>1, <2>6, ConcatBatch DEF PresentItems
<1>5. Written(t, s, batch) /\ NamedApart(b, names)
    BY DEF Written, PresentRows
<1> HIDE DEF t
<1>6. /\ t \in Seq(Item)
      /\ OnceEach(s) => OnceEach(t)
      /\ \A x : InWindow(t, x) <=> InWindow(s, x) \/ x \in N
    BY <1>1, <1>4, <1>5, PresentMakes
<1>7. Extends(t, s, seq + 1)
    BY <1>1, <1>4, <1>5, BatchExtends
<1> HIDE DEF N
<1>8. \A x : InWindow(t, x) <=> x \in WindowOf(s) \cup N
    BY <1>6, InWindowIn
<1>9. log' = [log EXCEPT ![b] = t] => WritesTo(b, seq + 1, WindowOf(s) \cup N)
    BY <1>6, <1>7, <1>8, Zenon DEF WritesTo, Makes
<1>. QED  BY <1>3, <1>9 DEF N

\* Tombstones: nothing is written, or the rows leave.
LEMMA WriteLeavingLog ==
    ASSUME IInv, NEW h \in Handles, NEW kind \in {"retract", "undo"}, NEW leaving \in SUBSET Nat,
           IsFiniteSet(leaving), NEW o \in Outcomes, WriteLeaving(h, kind, leaving, o)
    PROVE  log' = log \/ WritesTo(cur[h], seq + 1, WindowOf(log[cur[h]]) \ leaving)
<1> DEFINE b == cur[h]
           s == log[b]
<1>1. seq \in Nat /\ b \in Branches /\ s \in Seq(Item) /\ log \in [Branches -> Seq(Item)] /\ Current(h).items = s
    BY Facts DEF IndexType
<1>2. PICK off \in Ascending(leaving) : Write(h, ItemsOf(kind, off, seq + 1), o)
    BY <1>1 DEF WriteLeaving
<1> DEFINE batch == ItemsOf(kind, off, seq + 1)
           t == s \o batch
<1>3. log' = log \/ log' = [log EXCEPT ![b] = t]
    BY <1>1, <1>2 DEF Write
<1>4. Batch(batch, seq + 1) /\ seq + 1 \in Nat /\ seq < seq + 1
    <2>1. kind \in Kinds /\ seq + 1 \in Nat /\ off \in Seq(leaving)
      BY <1>1 DEF Kinds, Ascending
    <2>. QED  BY <1>1, <2>1, ItemsBatch
<1>5. Written(t, s, batch)
    BY DEF Written
<1> HIDE DEF t
<1>6. /\ t \in Seq(Item)
      /\ OnceEach(s) => OnceEach(t)
      /\ \A x : InWindow(t, x) <=> InWindow(s, x) /\ x \notin leaving
    BY <1>1, <1>4, <1>5, LeavingMakes
<1>7. Extends(t, s, seq + 1)
    BY <1>1, <1>4, <1>5, BatchExtends
<1>8. \A x : InWindow(t, x) <=> x \in WindowOf(s) \ leaving
    BY <1>6, InWindowIn
<1>9. log' = [log EXCEPT ![b] = t] => WritesTo(b, seq + 1, WindowOf(s) \ leaving)
    BY <1>6, <1>7, <1>8, Zenon DEF WritesTo, Makes
<1>. QED  BY <1>3, <1>9

\* retractRows in presented mode.
LEMMA RetractRowsLog ==
    ASSUME IInv, NEW h \in Handles, NEW names \in Calls(cur[h]), NEW kind \in {"retract", "undo"},
           NEW o \in Outcomes, RetractRows(h, names, kind, o)
    PROVE  log' = log \/ WritesTo(cur[h], seq + 1, WindowOf(log[cur[h]]) \ NamedRows(cur[h], names))
<1> DEFINE b == cur[h]
           s == log[b]
           leaving == {x \in NamedRows(b, names) : InWindow(s, x)}
<1>1. b \in Branches /\ s \in Seq(Item) /\ Current(h).items = s
    BY Facts
<1>2. \A x \in leaving : x \in WindowOf(s)
    BY InWindowIn
<1>3. leaving \in SUBSET Nat /\ IsFiniteSet(leaving)
    BY <1>1, <1>2, WindowFinite, FS_Subset
<1>4. WriteLeaving(h, kind, leaving, o)
    BY <1>1 DEF RetractRows
<1>5. \A x : x \in WindowOf(s) \ leaving <=> x \in WindowOf(s) \ NamedRows(b, names)
    BY InWindowIn
<1>6. WindowOf(s) \ leaving = WindowOf(s) \ NamedRows(b, names)
    <2> HIDE DEF leaving
    <2>. QED  BY <1>5
<1> HIDE DEF leaving
<1>7. log' = log \/ WritesTo(b, seq + 1, WindowOf(s) \ leaving)
    BY <1>3, <1>4, WriteLeavingLog
<1>. QED  BY <1>6, <1>7

\* Rows the record lacks, taken out of the window.
LEMMA RetractGoneLog ==
    ASSUME IInv, NEW h \in Handles, NEW absent \in SUBSET AbsentRows(h), NEW o \in Outcomes,
           RetractGone(h, absent, o)
    PROVE  /\ log' = log \/ WritesTo(cur[h], seq + 1, WindowOf(log[cur[h]]) \ absent)
           /\ absent \cap Held(cur[h]) = {}
<1>1. log[cur[h]] \in Seq(Item) /\ Current(h).items = log[cur[h]]
    BY Facts
<1>2. absent \subseteq WindowOf(log[cur[h]]) /\ absent \cap Held(cur[h]) = {}
    BY <1>1 DEF AbsentRows
<1>3. absent \in SUBSET Nat /\ IsFiniteSet(absent)
    BY <1>1, <1>2, WindowFinite, FS_Subset
<1>4. WriteLeaving(h, "retract", absent, o) /\ "retract" \in {"retract", "undo"}
    BY DEF RetractGone
<1>. QED  BY <1>2, <1>3, <1>4, WriteLeavingLog

\* The write-down and the tombstones are a record each.
LEMMA RetractFirstLog ==
    ASSUME IInv, NEW h \in Handles, NEW id \in Held(cur[h]), NEW kind \in {"retract", "undo"},
           NEW o \in Outcomes, RetractFirst(h, id, kind, o)
    PROVE  \E m : /\ Makes(m, log[cur[h]], seq + 1, Held(cur[h]))
                  /\ WrittenDown(m, log[cur[h]], Held(cur[h]), seq + 1)
                  /\ \/ log' = [log EXCEPT ![cur[h]] = m] /\ seq' = seq + 1
                     \/ \E t : /\ log' = [log EXCEPT ![cur[h]] = t] /\ seq' = seq + 2
                               /\ Makes(t, m, seq + 2, Held(cur[h]) \ Rest(cur[h], id))
<1> DEFINE b == cur[h]
           s == log[b]
           leaving == Rest(b, id)
<1>1. seq \in Nat /\ b \in Branches /\ s \in Seq(Item) /\ Current(h).items = s /\ Held(b) \in SUBSET Nat
    BY Facts
<1>2. PICK outs \in Ascending(WriteDownOuts(b, s)), ins \in Ascending(WriteDownIns(b, s)),
           off \in Ascending(leaving) :
         log' = [log EXCEPT ![b] =
             IF o \in Landings
             THEN s \o WriteDownItems(outs, ins, seq + 1) \o ItemsOf(kind, off, seq + 2)
             ELSE s \o WriteDownItems(outs, ins, seq + 1)]
    BY <1>1, ZenonT(30) DEF RetractFirst
<1>3. seq' = IF o \in Landings THEN seq + 2 ELSE seq + 1
    BY DEF RetractFirst
<1> DEFINE down == WriteDownItems(outs, ins, seq + 1)
           m == s \o down
           g == ItemsOf(kind, off, seq + 2)
           t == m \o g
<1>4. Batch(down, seq + 1) /\ seq + 1 \in Nat /\ seq + 2 \in Nat
    BY <1>1, WriteDownBatch
<1>5. Written(m, s, down) /\ Written(t, m, g)
    BY DEF Written
<1>6. leaving \in SUBSET Nat /\ IsFiniteSet(leaving)
    BY <1>1, RowsFinite DEF Held
<1>7. Batch(g, seq + 2)
    <2>1. kind \in Kinds /\ off \in Seq(leaving)
        BY DEF Kinds, Ascending
    <2> HIDE DEF leaving
    <2>. QED  BY <1>4, <1>6, <2>1, ItemsBatch
<1>8. log' = [log EXCEPT ![b] = IF o \in Landings THEN t ELSE m]
    BY <1>2
<1> HIDE DEF m, t
<1>9. Makes(m, s, seq + 1, Held(b)) /\ WrittenDown(m, s, Held(b), seq + 1)
    <2>1. /\ m \in Seq(Item)
          /\ OnceEach(s) => OnceEach(m)
          /\ \A x : InWindow(m, x) <=> x \in Held(b)
          /\ WrittenDown(m, s, Held(b), seq + 1)
        BY <1>1, <1>4, <1>5, WriteDownMakes
    <2> HIDE DEF down
    <2>2. Extends(m, s, seq + 1)
        BY <1>1, <1>4, <1>5, BatchExtends
    <2>. QED  BY <2>1, <2>2, Zenon DEF Makes
<1>10. m \in Seq(Item)
    BY <1>9 DEF Makes
<1>11. Makes(t, m, seq + 2, Held(b) \ leaving)
    <2> HIDE DEF leaving
    <2>1. /\ t \in Seq(Item)
          /\ OnceEach(m) => OnceEach(t)
          /\ \A x : InWindow(t, x) <=> InWindow(m, x) /\ x \notin leaving
        BY <1>4, <1>5, <1>6, <1>10, LeavingMakes
    <2> HIDE DEF g
    <2>2. Extends(t, m, seq + 2)
        BY <1>4, <1>5, <1>7, <1>10, BatchExtends
    <2>3. \A x : InWindow(t, x) <=> x \in Held(b) \ leaving
        BY <1>9, <2>1 DEF Makes
    <2>. QED  BY <2>1, <2>2, <2>3, Zenon DEF Makes
<1>12. CASE o \in Landings
    <2>1. log' = [log EXCEPT ![b] = t] /\ seq' = seq + 2
        BY <1>3, <1>8, <1>12
    <2> HIDE DEF leaving
    <2>. QED  BY <1>9, <1>11, <2>1, Zenon DEF leaving
<1>13. CASE ~(o \in Landings)
    <2>1. log' = [log EXCEPT ![b] = m] /\ seq' = seq + 1
        BY <1>3, <1>8, <1>13
    <2>. QED  BY <1>9, <2>1, Zenon
<1>. QED  BY <1>12, <1>13

-----------------------------------------------------------------------------
(* A row is presented once.                                                *)

OnceInv == \A b \in Branches : OnceEach(log[b])

\* A cut of a log presents each row once if the log does.
LEMMA CutOnce ==
    ASSUME NEW s \in Seq(Item), NEW n \in Int, NEW t, CutOf(t, s, n), OnceEach(s)
    PROVE  OnceEach(t)
<1>1. /\ t \in Seq(Item) /\ Len(t) \in Nat /\ Len(s) \in Nat /\ Len(t) <= Len(s)
      /\ \A i \in 1 .. Len(t) : t[i] = s[i]
    BY CutElements, LenProperties
<1>2. SUFFICES ASSUME NEW i \in 1 .. Len(t), NEW k \in 1 .. Len(t), i < k,
                      t[i].kind = "present", t[k].kind = "present", t[i].id = t[k].id
               PROVE  \E j \in i + 1 .. k - 1 : TakesOut(t, j, t[k].id)
    BY DEF OnceEach
<1>3. i \in 1 .. Len(s) /\ k \in 1 .. Len(s) /\ t[i] = s[i] /\ t[k] = s[k]
    BY <1>1
<1>4. PICK j \in i + 1 .. k - 1 : TakesOut(s, j, s[k].id)
    BY <1>2, <1>3 DEF OnceEach
<1>5. t[j] = s[j]
    BY <1>1, <1>4
<1>. QED  BY <1>3, <1>4, <1>5 DEF TakesOut

\* The invariant gives the property.
LEMMA OncePresents ==
    ASSUME IInv, OnceInv
    PROVE  PresentedOnce
<1>1. \A b \in Branches : log[b] \in Seq(Item)
    BY DEF IInv, IndexType
<1>2. live \subseteq Branches
    BY DEF IInv, RecordType
<1>3. ASSUME NEW b \in live, NEW i \in 1 .. Len(log[b]), log[b][i].kind = "present"
      PROVE  IssuedAt(log[b], i) = log[b][i].id
    BY <1>1, <1>2, <1>3, OnceIssues DEF OnceInv
<1>. QED  BY <1>3 DEF PresentedOnce

\* A write keeps the invariant.
LEMMA WritesOnce ==
    ASSUME IInv, OnceInv, NEW b \in Branches, NEW w, NEW W, log' = log \/ WritesTo(b, w, W)
    PROVE  OnceInv'
<1>1. CASE log' = log
    BY <1>1 DEF OnceInv
<1>2. CASE WritesTo(b, w, W)
    <2>1. PICK t : log' = [log EXCEPT ![b] = t] /\ Makes(t, log[b], w, W)
        BY <1>2 DEF WritesTo
    <2>2. OnceEach(t)
        BY <2>1 DEF Makes, OnceInv
    <2>3. ASSUME NEW c \in Branches PROVE log'[c] = log[c] \/ log'[c] = t
        BY <2>1 DEF IInv, IndexType
    <2>. QED  BY <2>2, <2>3 DEF OnceInv
<1>. QED  BY <1>1, <1>2

\* Cutting logs keeps the invariant.
LEMMA CutsOnce ==
    ASSUME IInv, OnceInv, NEW t \in Int,
           \A b \in Branches : log'[b] = log[b] \/ \E c \in Branches : CutOf(log'[b], log[c], t)
    PROVE  OnceInv'
<1>1. \A b \in Branches : log[b] \in Seq(Item) /\ OnceEach(log[b])
    BY DEF IInv, IndexType, OnceInv
<1>2. ASSUME NEW b \in Branches PROVE OnceEach(log'[b])
    <2>1. CASE log'[b] = log[b]
        BY <1>1, <2>1
    <2>2. CASE \E c \in Branches : CutOf(log'[b], log[c], t)
        BY <1>1, <2>2, CutOnce
    <2>. QED  BY <2>1, <2>2
<1>. QED  BY <1>2 DEF OnceInv

\* The logs a new branch's step leaves: one is a cut of its parent's.
LEMMA MakeBranchCuts ==
    ASSUME IInv, NEW b \in Branches, NEW t, NEW new, MakeBranch(b, t, new)
    PROVE  /\ new \in Branches /\ CutOf(log'[new], log[b], t)
           /\ \A c \in Branches \ {new} : log'[c] = log[c]
<1>1. PICK n \in Boundary(b, t) : log' = [log EXCEPT ![new] = SubSeq(log[b], 1, n)]
    BY DEF MakeBranch
<1>2. new \in Branches /\ log \in [Branches -> Seq(Item)]
    BY DEF MakeBranch, IInv, IndexType
<1>3. log'[new] = SubSeq(log[b], 1, n) /\ \A c \in Branches \ {new} : log'[c] = log[c]
    BY <1>1, <1>2
<1>4. CutOf(log'[new], log[b], t)
    BY <1>1, <1>3 DEF Boundary, CutOf
<1>. QED  BY <1>2, <1>3, <1>4

\* A restart cuts every log at the sequence the store kept.
LEMMA RestartCuts ==
    ASSUME IInv, NEW t, Restart(t)
    PROVE  \A b \in Branches : CutOf(log'[b], log[b], t)
<1>1. PICK n \in [Branches -> 0 .. LongestLog] :
          /\ \A b \in Branches : n[b] \in Boundary(b, t)
          /\ log' = [b \in Branches |-> SubSeq(log[b], 1, n[b])]
    BY DEF Restart
<1>. QED  BY <1>1 DEF Boundary, CutOf

\* The steps that make a branch, of its parent and the point it is cut at.
LEMMA BranchSteps ==
    ASSUME IInv, NEW h \in Handles, NEW new \in Branches,
           \/ Fork(h, new)
           \/ \E r \in Held(cur[h]) : BranchAt(h, r, new)
           \/ \E g \in Handles : Derive(h, g, new)
    PROVE  \E t \in 0 .. seq : MakeBranch(cur[h], t, new)
<1>1. seq \in 0 .. seq
    BY Facts
<1>2. CASE Fork(h, new) \/ \E g \in Handles : Derive(h, g, new)
    BY <1>1, <1>2 DEF Fork, Derive
<1>3. CASE \E r \in Held(cur[h]) : BranchAt(h, r, new)
    BY <1>3, BranchPointType DEF BranchAt
<1>. QED  BY <1>2, <1>3

\* The steps that leave the store's logs as they are.
LEMMA LogsKept ==
    ASSUME NEW h \in Handles,
           \/ \E n \in 1 .. 2 : AddMessage(h, n)
           \/ \E r \in Held(cur[h]) : RemoveUnread(h, r) \/ RemoveElsewhere(h, r)
           \/ SettleOnly(h) \/ Select(h)
           \/ \E b \in Branches : SettleMoved(h, b) \/ SwitchBranch(h, b)
    PROVE  log' = log
BY DEF AddMessage, RemoveUnread, RemoveElsewhere, SettleOnly, Select, SettleMoved, SwitchBranch, store

\* Every step presents each row once.
LEMMA NextOnce ==
    ASSUME IInv, OnceInv, [Next]_vars
    PROVE  OnceInv'
<1>1. CASE UNCHANGED vars
    BY <1>1 DEF OnceInv, vars, store
<1>2. ASSUME NEW h \in Handles, NEW n \in 1 .. 2, AddMessage(h, n) PROVE OnceInv'
    BY <1>2, LogsKept DEF OnceInv
<1>3. ASSUME NEW h \in Handles, NEW o \in Outcomes, NEW r \in Held(cur[h]), RemoveMessage(h, r, o) PROVE OnceInv'
    BY <1>3, Facts, RemoveMessageLog, WritesOnce
<1>4. ASSUME NEW h \in Handles, NEW o \in Outcomes, WriteDown(h, o) PROVE OnceInv'
    BY <1>4, Facts, WriteDownLog, WritesOnce
<1>5. ASSUME NEW h \in Handles, NEW o \in Outcomes, NEW names \in Calls(cur[h]), PresentRows(h, names, o)
      PROVE  OnceInv'
    <2>1. log' = log \/ WritesTo(cur[h], seq + 1, WindowOf(log[cur[h]]) \cup NamedRows(cur[h], names))
        BY <1>5, PresentRowsLog
    <2>. QED  BY <2>1, Facts, WritesOnce
<1>6. ASSUME NEW h \in Handles, NEW o \in Outcomes, NEW names \in Calls(cur[h]),
             NEW kind \in {"retract", "undo"}, RetractRows(h, names, kind, o)
      PROVE  OnceInv'
    <2>1. log' = log \/ WritesTo(cur[h], seq + 1, WindowOf(log[cur[h]]) \ NamedRows(cur[h], names))
        BY <1>6, RetractRowsLog
    <2>. QED  BY <2>1, Facts, WritesOnce
<1>7. ASSUME NEW h \in Handles, NEW o \in Outcomes, NEW id \in Held(cur[h]),
             NEW kind \in {"retract", "undo"}, RetractFirst(h, id, kind, o)
      PROVE  OnceInv'
    <2>0. seq \in Nat /\ cur[h] \in Branches
        BY Facts
    <2>3. PICK m : /\ Makes(m, log[cur[h]], seq + 1, Held(cur[h]))
                   /\ \/ log' = [log EXCEPT ![cur[h]] = m]
                      \/ \E t : /\ log' = [log EXCEPT ![cur[h]] = t]
                                /\ Makes(t, m, seq + 2, Held(cur[h]) \ Rest(cur[h], id))
        BY <1>7, RetractFirstLog
    <2>4. OnceEach(m)
        BY <2>0, <2>3 DEF OnceInv, Makes
    <2>1. PICK t : log' = [log EXCEPT ![cur[h]] = t] /\ OnceEach(t)
        BY <2>3, <2>4 DEF Makes
    <2>2. ASSUME NEW c \in Branches PROVE log'[c] = log[c] \/ log'[c] = t
        BY <2>1 DEF IInv, IndexType
    <2>. QED  BY <2>1, <2>2 DEF OnceInv
<1>8. ASSUME NEW h \in Handles, NEW o \in Outcomes, NEW absent \in SUBSET AbsentRows(h), RetractGone(h, absent, o)
      PROVE  OnceInv'
    BY <1>8, Facts, RetractGoneLog, WritesOnce
<1>9. ASSUME NEW h \in Handles,
             \/ \E r \in Held(cur[h]) : RemoveUnread(h, r) \/ RemoveElsewhere(h, r)
             \/ SettleOnly(h) \/ Select(h)
             \/ \E b \in Branches : SettleMoved(h, b) \/ SwitchBranch(h, b)
      PROVE  OnceInv'
    BY <1>9, LogsKept DEF OnceInv
<1>10. ASSUME NEW h \in Handles, NEW new \in Branches,
              \/ Fork(h, new)
              \/ \E r \in Held(cur[h]) : BranchAt(h, r, new)
              \/ \E g \in Handles : Derive(h, g, new)
       PROVE  OnceInv'
    <2>1. PICK t \in 0 .. seq : MakeBranch(cur[h], t, new)
        BY <1>10, BranchSteps
    <2>2. cur[h] \in Branches /\ t \in Int
        BY <2>1, Facts
    <2>3. CutOf(log'[new], log[cur[h]], t) /\ \A c \in Branches \ {new} : log'[c] = log[c]
        BY <2>1, <2>2, MakeBranchCuts
    <2>. QED  BY <2>2, <2>3, CutsOnce
<1>11. ASSUME NEW t \in Len(Bodies0) .. MaxSeq, Restart(t) PROVE OnceInv'
    <2>1. t \in Int
        BY BodyAssumption, BoundAssumption, LenProperties
    <2>. QED  BY <1>11, <2>1, RestartCuts, CutsOnce
<1>. QED  BY <1>1, <1>2, <1>3, <1>4, <1>5, <1>6, <1>7, <1>8, <1>9, <1>10, <1>11 DEF Next

\* A row is presented once, whatever outcomes the writes end in: no item of a
\* log presents a row its window holds at that point, so every presentation
\* has an ordinal of its own.  The logs the store starts with are as this
\* code writes them; one from elsewhere may present a row twice.
THEOREM RowsArePresentedOnce ==
    ASSUME \A s \in Logs0 : OnceEach(s)
    PROVE  Spec => []PresentedOnce
<1>1. Init => OnceInv
    <2>1. OnceEach(<<>>)
        BY EmptySeq DEF OnceEach
    <2>. QED  BY <2>1 DEF Init, OnceInv
<1>2. IInv /\ OnceInv /\ [Next]_vars => OnceInv'
    BY NextOnce
<1>3. IInv /\ OnceInv => PresentedOnce
    BY OncePresents
<1>. QED  BY <1>1, <1>2, <1>3, IInvHolds, PTL DEF Spec

-----------------------------------------------------------------------------
(* Cuts.                                                                   *)

\* A part of s is its cut at n when it holds the items written by then.
LEMMA IsCut ==
    ASSUME NEW s \in Seq(Item), NEW n \in Int, NEW t \in Seq(Item), Len(t) <= Len(s),
           \A i \in 1 .. Len(t) : t[i] = s[i],
           \A i \in 1 .. Len(s) : s[i].by <= n <=> i <= Len(t)
    PROVE  CutOf(t, s, n)
<1>1. Len(t) \in 0 .. Len(s) /\ Len(t) \in Int /\ \A i \in 1 .. Len(t) : s[i] \in Item
    BY LenProperties, ElementOfSeq
<1>2. /\ SubSeq(s, 1, Len(t)) \in Seq(Item)
      /\ Len(SubSeq(s, 1, Len(t))) = Len(t)
      /\ \A i \in 1 .. Len(t) : SubSeq(s, 1, Len(t))[i] = s[i]
    BY <1>1, SubSeqProperties, LenProperties
<1>3. t = SubSeq(s, 1, Len(t))
    BY <1>2, SeqEqual
<1>. QED  BY <1>1, <1>3 DEF CutOf

\* A cut no earlier than every item is the whole log.
LEMMA LateCut ==
    ASSUME NEW s \in Seq(Item), NEW n \in Int, \A i \in 1 .. Len(s) : s[i].by <= n
    PROVE  CutOf(s, s, n)
<1>1. Len(s) \in Nat
    BY LenProperties
<1>2. \A i \in 1 .. Len(s) : s[i].by <= n <=> i <= Len(s)
    BY <1>1
<1>. QED  BY <1>1, <1>2, IsCut

\* A log has one cut at a sequence.
LEMMA CutUnique ==
    ASSUME NEW s \in Seq(Item), NEW n \in Int, NEW c, NEW d, CutOf(c, s, n), CutOf(d, s, n)
    PROVE  c = d
<1>1. PICK k \in 0 .. Len(s) : /\ \A i \in 1 .. Len(s) : s[i].by <= n <=> i <= k
                               /\ c = SubSeq(s, 1, k)
    BY DEF CutOf
<1>2. PICK l \in 0 .. Len(s) : /\ \A i \in 1 .. Len(s) : s[i].by <= n <=> i <= l
                               /\ d = SubSeq(s, 1, l)
    BY DEF CutOf
<1>3. Len(s) \in Nat /\ \A i \in 1 .. Len(s) : i <= k <=> i <= l
    BY <1>1, <1>2, LenProperties
<1>4. k = l
    BY <1>3
<1>. QED  BY <1>1, <1>2, <1>4

\* A cut of a cut is a cut, at the earlier of the two.
LEMMA CutOfCut ==
    ASSUME NEW s \in Seq(Item), NEW t \in Int, NEW d, CutOf(d, s, t), NEW n \in Int, NEW c, CutOf(c, d, n)
    PROVE  CutOf(c, s, IF n <= t THEN n ELSE t)
<1>1. /\ d \in Seq(Item) /\ Len(d) <= Len(s) /\ \A i \in 1 .. Len(d) : d[i] = s[i]
      /\ \A i \in 1 .. Len(s) : s[i].by <= t <=> i <= Len(d)
    BY CutElements
<1>2. /\ c \in Seq(Item) /\ Len(c) <= Len(d) /\ \A i \in 1 .. Len(c) : c[i] = d[i]
      /\ \A i \in 1 .. Len(d) : d[i].by <= n <=> i <= Len(c)
    BY <1>1, CutElements
<1>3. Len(s) \in Nat /\ Len(d) \in Nat /\ Len(c) \in Nat /\ \A i \in 1 .. Len(s) : s[i].by \in Nat
    <2>1. \A i \in 1 .. Len(s) : s[i] \in Item
        BY ElementOfSeq
    <2>. QED  BY <1>1, <1>2, <2>1, LenProperties DEF Item
<1>4. Len(c) <= Len(s) /\ \A i \in 1 .. Len(c) : c[i] = s[i]
    BY <1>1, <1>2, <1>3
<1> DEFINE m == IF n <= t THEN n ELSE t
<1>5. m \in Int /\ m <= n /\ m <= t /\ (m = n \/ m = t)
    OBVIOUS
<1>6. ASSUME NEW i \in 1 .. Len(s) PROVE s[i].by <= m <=> i <= Len(c)
    <2>1. CASE i <= Len(d)
        <3>1. i \in 1 .. Len(d) /\ d[i] = s[i] /\ s[i].by <= t
            BY <1>1, <1>3, <2>1
        <3>2. s[i].by <= n <=> i <= Len(c)
            BY <1>2, <3>1
        <3> HIDE DEF m
        <3>. QED  BY <1>3, <1>5, <3>1, <3>2
    <2>2. CASE ~(i <= Len(d))
        <3>1. ~(s[i].by <= t)
            BY <1>1, <2>2
        <3> HIDE DEF m
        <3>. QED  BY <1>2, <1>3, <1>5, <2>2, <3>1
    <2>. QED  BY <2>1, <2>2
<1>7. CutOf(c, s, m)
    <2> HIDE DEF m
    <2>. QED  BY <1>2, <1>4, <1>5, <1>6, IsCut
<1>. QED  BY <1>7

\* Record w appended to s: the cuts before it are s's, and from it on, whole.
LEMMA CutOfExtended ==
    ASSUME NEW s \in Seq(Item), NEW t \in Seq(Item), NEW w \in Nat, Extends(t, s, w),
           \A i \in 1 .. Len(s) : s[i].by <= w, NEW n \in Int, NEW c, CutOf(c, t, n)
    PROVE  IF n < w THEN CutOf(c, s, n) ELSE c = t
<1>1. /\ c \in Seq(Item) /\ Len(c) <= Len(t) /\ \A i \in 1 .. Len(c) : c[i] = t[i]
      /\ \A i \in 1 .. Len(t) : t[i].by <= n <=> i <= Len(c)
    BY CutElements
<1>2. Len(s) \in Nat /\ Len(t) \in Nat /\ Len(c) \in Nat /\ \A i \in 1 .. Len(s) : s[i].by \in Nat
    <2>1. \A i \in 1 .. Len(s) : s[i] \in Item
        BY ElementOfSeq
    <2>. QED  BY <1>1, <2>1, LenProperties DEF Item
<1>3. /\ Len(s) <= Len(t) /\ \A i \in 1 .. Len(s) : t[i] = s[i]
      /\ \A i \in Len(s) + 1 .. Len(t) : t[i].by = w
    BY DEF Extends
<1>4. CASE n < w
    <2>1. Len(c) <= Len(s)
        <3>1. SUFFICES ASSUME Len(s) + 1 <= Len(c) PROVE FALSE
            BY <1>2
        <3>2. Len(s) + 1 \in 1 .. Len(t) /\ Len(s) + 1 \in Len(s) + 1 .. Len(t)
            BY <1>1, <1>2, <3>1
        <3>. QED  BY <1>1, <1>3, <1>4, <3>1, <3>2
    <2>2. \A i \in 1 .. Len(c) : c[i] = s[i]
        BY <1>1, <1>2, <1>3, <2>1
    <2>3. ASSUME NEW i \in 1 .. Len(s) PROVE s[i].by <= n <=> i <= Len(c)
        <3>1. i \in 1 .. Len(t) /\ t[i] = s[i]
            BY <1>2, <1>3
        <3>. QED  BY <1>1, <3>1
    <2>. QED  BY <1>1, <1>4, <2>1, <2>2, <2>3, IsCut
<1>5. CASE ~(n < w)
    <2>1. \A i \in 1 .. Len(t) : t[i].by <= w
        BY <1>2, <1>3
    <2>2. \A i \in 1 .. Len(t) : t[i] \in Item
        BY ElementOfSeq
    <2>3. \A i \in 1 .. Len(t) : t[i].by <= n
        BY <1>5, <2>1, <2>2 DEF Item
    <2>4. Len(c) = Len(t)
        <3>1. Len(t) # 0 => Len(t) \in 1 .. Len(t)
            BY <1>2
        <3>. QED  BY <1>1, <1>2, <2>3, <3>1
    <2>5. c = t
        BY <1>1, <2>4, SeqEqual
    <2>. QED  BY <1>5, <2>5
<1>. QED  BY <1>4, <1>5

-----------------------------------------------------------------------------
(* Bodies are whole in every cut of a log.                                 *)

\* The bodies of the rows in H are whole in the window of s.
Whole(s, H) ==
    InEffect(s) => \A x, y \in H : body[x] = body[y] => (InWindow(s, x) <=> InWindow(s, y))

\* Cut c of branch b's log at n names rows stored by then, bodies whole.
Sound(c, b, n) ==
    /\ \A x : InWindow(c, x) => x \in 0 .. n
    /\ Whole(c, HeldAt(b, n))

GoneBy == \A b \in Branches : \A g \in gone[b] : g.at <= seq

WholeInv ==
    /\ GoneBy
    /\ \A b \in Branches, n \in 0 .. seq : \A c : CutOf(c, log[b], n) => Sound(c, b, n)

\* The newest cut is the log, and its record the branch's.
LEMMA HeldNow ==
    ASSUME IInv, GoneBy, NEW b \in Branches
    PROVE  HeldAt(b, seq) = Held(b) /\ CutOf(log[b], log[b], seq) /\ seq \in 0 .. seq
<1>1. /\ seq \in Nat /\ rows[b] \subseteq 1 .. seq /\ gone[b] \subseteq [row : Nat, at : Nat]
      /\ \A g \in gone[b] : g.at <= seq
    BY RowsFinite DEF IInv, RecordType, GoneBy
<1>2. {r \in rows[b] : r <= seq} = rows[b] /\ {g \in gone[b] : g.at <= seq} = gone[b]
    BY <1>1
<1>3. HeldAt(b, seq) = Held(b)
    BY <1>2 DEF HeldAt, Held
<1>4. History(log[b], seq)
    BY DEF IInv, Coherent, Logs
<1>. QED  BY <1>1, <1>3, <1>4, WholeIsCut

\* What the invariant says of the present.
LEMMA SoundNow ==
    ASSUME IInv, WholeInv, NEW b \in Branches
    PROVE  (\A x : InWindow(log[b], x) => x \in 0 .. seq) /\ Whole(log[b], Held(b))
<1>1. HeldAt(b, seq) = Held(b) /\ CutOf(log[b], log[b], seq) /\ seq \in 0 .. seq
    BY HeldNow DEF WholeInv
<1>2. Sound(log[b], b, seq)
    BY <1>1 DEF WholeInv
<1>. QED  BY <1>1, <1>2 DEF Sound

\* What a step must show: the cuts of before are kept, with their records,
\* and the cuts of the step's own records are sound.
LEMMA CutsStep ==
    ASSUME IInv, WholeInv, IInv', GoneBy', seq <= seq',
           \A r \in DOMAIN body : r \in DOMAIN body' /\ body'[r] = body[r],
           \A b \in Branches, n \in 0 .. seq : HeldAt(b, n)' \subseteq HeldAt(b, n),
           \A b \in Branches, n \in 0 .. seq : \A c : CutOf(c, log'[b], n) => CutOf(c, log[b], n),
           \A b \in Branches, n \in seq + 1 .. seq' : \A c : CutOf(c, log'[b], n) => Sound(c, b, n)'
    PROVE  WholeInv'
<1>1. seq \in Nat /\ seq' \in Nat
    BY DEF IInv, RecordType
<1>2. ASSUME NEW b \in Branches, NEW n \in 0 .. seq', NEW c, CutOf(c, log'[b], n)
      PROVE  Sound(c, b, n)'
    <2>1. CASE n \in seq + 1 .. seq'
        BY <1>2, <2>1
    <2>2. CASE n \in 0 .. seq
        <3>1. Sound(c, b, n)
            BY <1>2, <2>2 DEF WholeInv
        <3>2. HeldAt(b, n)' \subseteq HeldAt(b, n) /\ HeldAt(b, n) \subseteq DOMAIN body
            BY <2>2 DEF HeldAt, IInv, RecordType
        <3>3. \A x, y \in HeldAt(b, n)' : /\ x \in HeldAt(b, n) /\ y \in HeldAt(b, n)
                                          /\ body'[x] = body'[y] => body[x] = body[y]
            BY <3>2
        <3>4. Whole(c, HeldAt(b, n))'
            BY <3>1, <3>3 DEF Sound, Whole
        <3>. QED  BY <3>1, <3>4 DEF Sound
    <2>. QED  BY <1>1, <2>1, <2>2
<1>. QED  BY <1>2 DEF WholeInv

\* A step that stores no row, and removes rows at the next sequence only.
Removes ==
    /\ UNCHANGED <<body, rows>>
    /\ \A b \in Branches : gone[b] \subseteq gone'[b] /\ \A g \in gone'[b] \ gone[b] : g.at = seq + 1

\* The record as of an earlier sequence stays as it was.
LEMMA RemovesHeld ==
    ASSUME IInv, GoneBy, Removes, NEW b \in Branches
    PROVE  /\ \A n \in 0 .. seq : HeldAt(b, n)' = HeldAt(b, n)
           /\ \A n \in Nat : seq < n => HeldAt(b, n)' = Held(b)'
           /\ Held(b)' \subseteq Held(b)
<1>1. /\ seq \in Nat /\ rows[b] \subseteq 1 .. seq /\ rows' = rows
      /\ \A g \in gone[b] : g.at <= seq /\ g.at \in Nat
      /\ gone[b] \subseteq gone'[b] /\ \A g \in gone'[b] \ gone[b] : g.at = seq + 1
    BY RowsFinite DEF IInv, RecordType, GoneBy, Removes
<1>2. ASSUME NEW n \in 0 .. seq PROVE HeldAt(b, n)' = HeldAt(b, n)
    <2>1. {g \in gone'[b] : g.at <= n} = {g \in gone[b] : g.at <= n}
        BY <1>1
    <2>. QED  BY <1>1, <2>1 DEF HeldAt
<1>3. ASSUME NEW n \in Nat, seq < n PROVE HeldAt(b, n)' = Held(b)'
    <2>1. {g \in gone'[b] : g.at <= n} = gone'[b]
        BY <1>1, <1>3
    <2>2. {r \in rows'[b] : r <= n} = rows'[b]
        BY <1>1, <1>3
    <2>. QED  BY <2>1, <2>2 DEF HeldAt, Held
<1>. QED  BY <1>1, <1>2, <1>3 DEF Held

\* A step that appends one record, or none, and stores no row: the window it
\* leaves must hold the bodies of the record whole.
LEMMA WritesWhole ==
    ASSUME IInv, WholeInv, IInv', GoneBy', Removes, seq <= seq', NEW b \in Branches,
           NEW w \in {seq + 1, seq + 2}, NEW W, log' = log \/ WritesTo(b, w, W),
           log' # log => /\ W \subseteq 0 .. seq
                         /\ \A x, y \in Held(b)' : body[x] = body[y] => (x \in W <=> y \in W)
    PROVE  WholeInv'
<1>1. /\ seq \in Nat /\ seq' \in Nat /\ w \in Nat /\ body' = body
      /\ \A c \in Branches : log[c] \in Seq(Item) /\ log'[c] \in Seq(Item)
      /\ \A c \in Branches : \A i \in 1 .. Len(log[c]) : log[c][i].by \in 1 .. seq
    <2>1. seq \in Nat /\ seq' \in Nat /\ body' = body
        BY DEF IInv, RecordType, Removes
    <2>2. \A c \in Branches : log[c] \in Seq(Item) /\ log'[c] \in Seq(Item)
        BY DEF IInv, IndexType
    <2>3. \A c \in Branches : \A i \in 1 .. Len(log[c]) : log[c][i].by \in 1 .. seq
        BY DEF IInv, Coherent, History, Stamped, Logs
    <2>. QED  BY <2>1, <2>2, <2>3
<1>2. PICK t : log' = log \/ (log' = [log EXCEPT ![b] = t] /\ Makes(t, log[b], w, W))
    BY DEF WritesTo
\* The log's cuts from seq on, until the record.
<1>3. ASSUME NEW c \in Branches, NEW n \in Nat, NEW d, CutOf(d, log[c], n), seq < n
      PROVE  Sound(d, c, n)'
    <2>1. CutOf(log[c], log[c], n)
        <3>1. \A i \in 1 .. Len(log[c]) : log[c][i].by <= n <=> i <= Len(log[c])
            BY <1>1, <1>3
        <3>. QED  BY <1>1, <3>1, IsCut, LenProperties, SMTT(30)
    <2>2. d = log[c]
        BY <1>1, <1>3, <2>1, CutUnique
    <2>3. (\A x : InWindow(d, x) => x \in 0 .. seq) /\ Whole(d, Held(c))
        BY <2>2, SoundNow
    <2>4. HeldAt(c, n)' \subseteq Held(c)
        BY <1>3, RemovesHeld DEF WholeInv
    <2>5. \A x : InWindow(d, x) => x \in 0 .. n
        BY <1>1, <1>3, <2>3
    <2>6. Whole(d, HeldAt(c, n))'
        BY <1>1, <2>3, <2>4 DEF Whole
    <2>. QED  BY <2>5, <2>6 DEF Sound
<1>4. ASSUME NEW c \in Branches, NEW n \in Nat, NEW d, CutOf(d, log'[c], n)
      PROVE  \/ CutOf(d, log[c], n)
             \/ n >= w /\ c = b /\ d = t /\ log' # log /\ Makes(t, log[b], w, W)
    <2>1. CASE log'[c] = log[c]
        BY <1>4, <2>1
    <2>2. CASE log'[c] # log[c]
        <3>1. c = b /\ log'[c] = t /\ log' # log /\ Makes(t, log[b], w, W)
            BY <1>2, <2>2 DEF IInv, IndexType
        <3>2. t \in Seq(Item) /\ Extends(t, log[b], w) /\ \A i \in 1 .. Len(log[b]) : log[b][i].by <= w
            BY <1>1, <3>1 DEF Makes
        <3>3. IF n < w THEN CutOf(d, log[b], n) ELSE d = t
            BY <1>1, <1>4, <3>1, <3>2, CutOfExtended, SMTT(30)
        <3>. QED  BY <1>1, <3>1, <3>3
    <2>. QED  BY <2>1, <2>2
<1>5. ASSUME NEW c \in Branches, NEW n \in 0 .. seq, NEW d, CutOf(d, log'[c], n)
      PROVE  CutOf(d, log[c], n)
    BY <1>1, <1>4, <1>5, SMTT(30)
<1>6. ASSUME NEW c \in Branches, NEW n \in seq + 1 .. seq', NEW d, CutOf(d, log'[c], n)
      PROVE  Sound(d, c, n)'
    <2>1. n \in Nat /\ seq < n
        BY <1>1
    <2>2. CASE CutOf(d, log[c], n)
        BY <1>3, <2>1, <2>2
    <2>3. CASE n >= w /\ c = b /\ d = t /\ log' # log /\ Makes(t, log[b], w, W)
        <3>1. \A x : InWindow(d, x) <=> x \in W
            BY <2>3 DEF Makes
        <3>2. \A x : InWindow(d, x) => x \in 0 .. n
            BY <1>1, <2>1, <2>3, <3>1
        <3>3. HeldAt(c, n)' = Held(b)'
            BY <2>1, <2>3, RemovesHeld DEF WholeInv
        <3>4. Whole(d, HeldAt(c, n))'
            BY <1>1, <2>3, <3>1, <3>3 DEF Whole
        <3>. QED  BY <3>2, <3>4 DEF Sound
    <2>. QED  BY <1>4, <1>6, <2>1, <2>2, <2>3
<1>7. \A c \in Branches, n \in 0 .. seq : HeldAt(c, n)' \subseteq HeldAt(c, n)
    BY RemovesHeld DEF WholeInv
<1>. QED  BY <1>1, <1>5, <1>6, <1>7, CutsStep

\* Two steps of a body: its rows are all in a set, or none is.
LEMMA PresentWhole ==
    ASSUME IInv, WholeInv, NEW h \in Handles, NEW names \in Calls(cur[h]), NEW o \in Outcomes,
           PresentRows(h, names, o), NEW x \in Held(cur[h]), NEW y \in Held(cur[h]), body[x] = body[y]
    PROVE  LET W == WindowOf(log[cur[h]]) \cup NamedRows(cur[h], names)
           IN x \in W => y \in W
<1> DEFINE b == cur[h]
           s == log[b]
<1>1. b \in Branches /\ Current(h).items = s /\ s \in Seq(Item) /\ Held(b) \in SUBSET Nat
    BY Facts
<1>2. InEffect(s) /\ \A i \in 1 .. Len(names) : Presentable(b, s, names[i])
    BY <1>1 DEF PresentRows
<1>3. CASE x \in WindowOf(s)
    <2>1. InWindow(s, x) /\ Whole(s, Held(b))
        BY <1>1, <1>3, SoundNow, InWindowIn
    <2>2. InWindow(s, y)
        BY <1>2, <2>1 DEF Whole
    <2>. QED  BY <2>2, InWindowIn
<1>4. CASE x \in NamedRows(b, names)
    <2>1. PICK i \in 1 .. Len(names) : x \in Rest(b, names[i])
        BY <1>4 DEF NamedRows
    <2>2. names[i] \in Held(b) /\ \A z \in BodyOf(b, names[i]) : z < names[i] => InWindow(s, z)
        BY <1>2 DEF Presentable
    <2>3. body[x] = body[names[i]]
        BY <2>1, <2>2 DEF Rest, BodyOf
    <2>4. y \in BodyOf(b, names[i])
        BY <2>3 DEF BodyOf
    <2>5. CASE y >= names[i]
        <3>1. y \in Rest(b, names[i])
            BY <2>2, <2>4, <2>5 DEF Rest
        <3>. QED  BY <3>1 DEF NamedRows
    <2>6. CASE y < names[i]
        BY <2>2, <2>4, <2>6, InWindowIn
    <2>. QED  BY <1>1, <2>2, <2>5, <2>6
<1>. QED  BY <1>3, <1>4

\* A body taken by its first row is taken whole.
LEMMA FirstRowTakes ==
    ASSUME NEW b, NEW id \in Held(b), Held(b) \in SUBSET Nat, \A x \in BodyOf(b, id) : id <= x
    PROVE  Rest(b, id) = BodyOf(b, id)
<1>1. {x \in BodyOf(b, id) : x >= id} = BodyOf(b, id)
    BY DEF BodyOf
<1>. QED  BY <1>1 DEF Rest

\* Rows taken out by name take their bodies with them.
LEMMA RetractWhole ==
    ASSUME IInv, WholeInv, NEW h \in Handles, NEW names \in Calls(cur[h]), NEW kind, NEW o \in Outcomes,
           RetractRows(h, names, kind, o), NEW x \in Held(cur[h]), NEW y \in Held(cur[h]), body[x] = body[y]
    PROVE  LET W == WindowOf(log[cur[h]]) \ NamedRows(cur[h], names)
           IN x \in W => y \in W
<1> DEFINE b == cur[h]
           s == log[b]
<1>1. b \in Branches /\ Current(h).items = s /\ s \in Seq(Item) /\ Held(b) \in SUBSET Nat
    BY Facts
<1>2. InEffect(s) /\ \A i \in 1 .. Len(names) : Retractable(b, s, names[i])
    BY <1>1 DEF RetractRows
<1> SUFFICES ASSUME x \in WindowOf(s), x \notin NamedRows(b, names)
             PROVE  y \in WindowOf(s) /\ y \notin NamedRows(b, names)
    OBVIOUS
<1>3. y \in WindowOf(s)
    <2>1. InWindow(s, x) /\ Whole(s, Held(b))
        BY <1>1, SoundNow, InWindowIn
    <2>2. InWindow(s, y)
        BY <1>2, <2>1 DEF Whole
    <2>. QED  BY <2>2, InWindowIn
<1>4. ASSUME NEW i \in 1 .. Len(names), y \in Rest(b, names[i]) PROVE FALSE
    <2>1. names[i] \in Held(b)
        BY <1>4 DEF Rest
    <2>2. Rest(b, names[i]) = BodyOf(b, names[i])
        BY <1>1, <1>2, <2>1, FirstRowTakes DEF Retractable
    <2>3. x \in Rest(b, names[i])
        BY <1>4, <2>2 DEF BodyOf
    <2>. QED  BY <2>3 DEF NamedRows
<1>. QED  BY <1>3, <1>4 DEF NamedRows

-----------------------------------------------------------------------------
(* Bodies are whole, action by action.                                     *)

\* A step that removes no row.
LEMMA SameGone ==
    ASSUME GoneBy, UNCHANGED <<body, rows, gone>>, seq \in Nat, seq' \in Nat, seq <= seq',
           gone \in [Branches -> SUBSET [row : Nat, at : Nat]]
    PROVE  Removes /\ GoneBy'
<1>1. Removes
    BY DEF Removes
<1>2. ASSUME NEW b \in Branches, NEW g \in gone'[b] PROVE g.at <= seq'
    <2>1. g \in gone[b] /\ g.at <= seq /\ g.at \in Nat
        BY <1>2 DEF GoneBy
    <2>. QED  BY <2>1
<1>. QED  BY <1>1, <1>2 DEF GoneBy

\* A step that removes row r of branch b.
LEMMA GoneNow ==
    ASSUME IInv, GoneBy, NEW b \in Branches, NEW r, seq' \in Nat, seq < seq',
           gone' = [gone EXCEPT ![b] = @ \cup {[row |-> r, at |-> seq + 1]}], UNCHANGED <<body, rows>>
    PROVE  /\ Removes /\ GoneBy'
           /\ Held(b)' = Held(b) \ {r}
<1>1. seq \in Nat /\ gone \in [Branches -> SUBSET [row : Nat, at : Nat]]
    BY DEF IInv, RecordType
<1>2. gone'[b] = gone[b] \cup {[row |-> r, at |-> seq + 1]} /\ \A c \in Branches \ {b} : gone'[c] = gone[c]
    BY <1>1
<1>3. Removes
    BY <1>2 DEF Removes
<1>4. ASSUME NEW c \in Branches, NEW g \in gone'[c] PROVE g.at <= seq'
    <2>1. CASE g \in gone[c]
        <3>1. g.at <= seq /\ g.at \in Nat
            BY <1>1, <2>1 DEF GoneBy
        <3>. QED  BY <1>1, <3>1
    <2>2. CASE g \notin gone[c]
        <3>1. g.at = seq + 1
            BY <1>2, <1>4, <2>2
        <3>. QED  BY <1>1, <3>1
    <2>. QED  BY <2>1, <2>2
<1>5. {g.row : g \in gone'[b]} = {g.row : g \in gone[b]} \cup {r}
    <2> DEFINE new == [row |-> r, at |-> seq + 1]
    <2>1. new.row = r /\ gone'[b] = gone[b] \cup {new}
        BY <1>2
    <2> HIDE DEF new
    <2>2. \A x : x \in {g.row : g \in gone'[b]} <=> x \in {g.row : g \in gone[b]} \/ x = r
        BY <2>1
    <2>. QED  BY <2>2
<1>6. Held(b)' = Held(b) \ {r}
    BY <1>5 DEF Held
<1>. QED  BY <1>3, <1>4, <1>6 DEF GoneBy

\* A step that leaves the logs, and removes rows or none.
LEMMA QuietWhole ==
    ASSUME IInv, WholeInv, IInv', GoneBy', Removes, seq <= seq', log' = log, Handles # {}
    PROVE  WholeInv'
<1>1. PICK h \in Handles : TRUE
    OBVIOUS
<1>2. cur[h] \in Branches /\ seq + 1 \in {seq + 1, seq + 2}
    BY Facts
<1>. QED  BY <1>2, WritesWhole

\* A row or a body added: no log names it yet.
LEMMA AddWhole ==
    ASSUME IInv, WholeInv, IInv', NEW h \in Handles, NEW k \in 1 .. 2, AddMessage(h, k)
    PROVE  WholeInv'
<1>1. /\ seq \in Nat /\ seq' = seq + k /\ log' = log /\ gone' = gone
      /\ rows \in [Branches -> SUBSET (DOMAIN body)] /\ DOMAIN body \subseteq 1 .. seq
      /\ \A r \in DOMAIN body : body[r] \in 1 .. r
      /\ gone \in [Branches -> SUBSET [row : Nat, at : Nat]]
      /\ rows' = [rows EXCEPT ![cur[h]] = @ \cup (seq + 1 .. seq + k)]
      /\ body' = [r \in DOMAIN body \cup (seq + 1 .. seq + k) |->
                    IF r \in DOMAIN body THEN body[r] ELSE seq + 1]
    BY DEF IInv, RecordType, AddMessage
<1>2. seq' \in Nat /\ seq <= seq' /\ \A r \in DOMAIN body : r \in DOMAIN body' /\ body'[r] = body[r]
    BY <1>1
<1>3. GoneBy'
    <2>1. ASSUME NEW b \in Branches, NEW g \in gone'[b] PROVE g.at <= seq'
        <3>1. g.at <= seq /\ g.at \in Nat
            BY <1>1, <2>1 DEF WholeInv, GoneBy
        <3>. QED  BY <1>1, <1>2, <3>1
    <2>. QED  BY <2>1 DEF GoneBy
<1>4. ASSUME NEW b \in Branches PROVE rows[b] \subseteq rows'[b] /\ rows'[b] \ rows[b] \subseteq seq + 1 .. seq + k
    BY <1>1
<1>5. ASSUME NEW b \in Branches, NEW n \in 0 .. seq PROVE HeldAt(b, n)' \subseteq HeldAt(b, n)
    <2>1. {r \in rows'[b] : r <= n} = {r \in rows[b] : r <= n}
        BY <1>1, <1>4
    <2>. QED  BY <1>1, <2>1 DEF HeldAt
<1>6. ASSUME NEW b \in Branches, NEW n \in seq + 1 .. seq', NEW c, CutOf(c, log'[b], n)
      PROVE  Sound(c, b, n)'
    <2>1. log[b] \in Seq(Item) /\ n \in Int /\ seq < n /\ \A i \in 1 .. Len(log[b]) : log[b][i].by \in 1 .. seq
        <3>1. log[b] \in Seq(Item)
            BY DEF IInv, IndexType
        <3>2. \A i \in 1 .. Len(log[b]) : log[b][i].by \in 1 .. seq
            BY DEF IInv, Coherent, History, Stamped, Logs
        <3>. QED  BY <1>1, <1>2, <3>1, <3>2
    <2>2. CutOf(log[b], log[b], n)
        <3>1. \A i \in 1 .. Len(log[b]) : log[b][i].by <= n <=> i <= Len(log[b])
            BY <1>1, <2>1
        <3>. QED  BY <2>1, <3>1, IsCut, LenProperties
    <2>3. c = log[b]
        BY <1>1, <1>6, <2>1, <2>2, CutUnique
    <2>4. (\A x : InWindow(c, x) => x \in 0 .. seq) /\ Whole(c, Held(b))
        BY <2>3, SoundNow
    <2>5. \A x : InWindow(c, x) => x \in 0 .. n
        BY <1>1, <1>2, <2>4
    <2>6. ASSUME NEW x \in HeldAt(b, n)', NEW y \in HeldAt(b, n)', body'[x] = body'[y], InEffect(c)
          PROVE  InWindow(c, x) <=> InWindow(c, y)
        <3>1. HeldAt(b, n)' \subseteq Held(b) \cup (seq + 1 .. seq + k) /\ Held(b) \subseteq DOMAIN body
            <4>1. \A g \in gone[b] : g.at <= n
                BY <1>1, <2>1 DEF WholeInv, GoneBy
            <4>2. {g \in gone[b] : g.at <= n} = gone[b]
                BY <4>1
            <4>. QED  BY <1>1, <1>4, <4>2 DEF HeldAt, Held
        <3>2. \A z \in Held(b) : body'[z] = body[z] /\ body[z] <= seq /\ body[z] \in Nat
            BY <1>1, <1>2, <3>1
        <3>3. \A z \in seq + 1 .. seq + k : body'[z] = seq + 1 /\ ~InWindow(c, z)
            BY <1>1, <2>4
        <3>8. ASSUME NEW z \in Held(b) PROVE body'[z] # seq + 1
            <4>1. body'[z] <= seq /\ body'[z] \in Nat /\ seq \in Nat
                BY <1>1, <3>2
            <4>. QED  BY <4>1
        <3>4. CASE x \in Held(b) /\ y \in Held(b)
            BY <2>4, <2>6, <3>2, <3>4 DEF Whole
        <3>5. CASE x \in seq + 1 .. seq + k /\ y \in seq + 1 .. seq + k
            BY <3>3, <3>5
        <3>6. CASE x \in Held(b) /\ y \in seq + 1 .. seq + k
            BY <2>6, <3>3, <3>6, <3>8
        <3>7. CASE y \in Held(b) /\ x \in seq + 1 .. seq + k
            BY <2>6, <3>3, <3>7, <3>8
        <3>. QED  BY <3>1, <3>4, <3>5, <3>6, <3>7
    <2>7. Whole(c, HeldAt(b, n))'
        BY <2>6 DEF Whole
    <2>. QED  BY <2>5, <2>7 DEF Sound
<1>. QED  BY <1>1, <1>2, <1>3, <1>5, <1>6, CutsStep

\* A branch cut from b at t holds b's cuts until t, and b's cut at t from then.
LEMMA BranchWhole ==
    ASSUME IInv, WholeInv, IInv', NEW b \in Branches, NEW t \in 0 .. seq, NEW new, MakeBranch(b, t, new)
    PROVE  WholeInv'
<1>1. /\ seq \in Nat /\ seq' = seq /\ body' = body /\ new \in Branches
      /\ rows' = [rows EXCEPT ![new] = {r \in rows[b] : r <= t}]
      /\ gone' = [gone EXCEPT ![new] = {g \in gone[b] : g.at <= t}]
      /\ rows \in [Branches -> SUBSET (DOMAIN body)] /\ DOMAIN body \subseteq 1 .. seq
      /\ gone \in [Branches -> SUBSET [row : Nat, at : Nat]]
      /\ log[b] \in Seq(Item)
    BY DEF IInv, RecordType, IndexType, MakeBranch
<1>2. CutOf(log'[new], log[b], t) /\ \A c \in Branches \ {new} : log'[c] = log[c]
    BY MakeBranchCuts
<1>3. \A c \in Branches \ {new} : rows'[c] = rows[c] /\ gone'[c] = gone[c]
    BY <1>1
<1>4. rows'[new] = {r \in rows[b] : r <= t} /\ gone'[new] = {g \in gone[b] : g.at <= t}
    BY <1>1
<1>5. GoneBy'
    <2>1. \A c \in Branches : \A g \in gone'[c] : \E d \in Branches : g \in gone[d]
        BY <1>3, <1>4
    <2>. QED  BY <1>1, <2>1 DEF WholeInv, GoneBy
<1>6. ASSUME NEW n \in 0 .. seq, NEW c, CutOf(c, log'[new], n) PROVE Sound(c, new, n)'
    <2> DEFINE m == IF n <= t THEN n ELSE t
    <2>1. m \in 0 .. seq /\ m <= n /\ m <= t /\ (m = n \/ m = t)
        BY <1>1
    <2>2. CutOf(c, log[b], m)
        BY <1>1, <1>2, <1>6, CutOfCut
    <2> HIDE DEF m
    <2>3. Sound(c, b, m)
        BY <2>1, <2>2 DEF WholeInv
    <2>4. HeldAt(new, n)' = HeldAt(b, m)
        <3>1. {r \in rows'[new] : r <= n} = {r \in rows[b] : r <= m}
            BY <1>1, <1>4, <2>1
        <3>2. {g \in gone'[new] : g.at <= n} = {g \in gone[b] : g.at <= m}
            BY <1>1, <1>4, <2>1
        <3>. QED  BY <3>1, <3>2 DEF HeldAt
    <2>5. \A x : InWindow(c, x) => x \in 0 .. n
        BY <1>1, <2>1, <2>3 DEF Sound
    <2>6. Whole(c, HeldAt(new, n))'
        BY <1>1, <2>3, <2>4 DEF Sound, Whole
    <2>. QED  BY <2>5, <2>6 DEF Sound
<1>7. ASSUME NEW d \in Branches \ {new}, NEW n \in 0 .. seq, NEW c, CutOf(c, log'[d], n) PROVE Sound(c, d, n)'
    <2>1. Sound(c, d, n)
        BY <1>2, <1>7 DEF WholeInv
    <2>2. HeldAt(d, n)' = HeldAt(d, n)
        BY <1>3 DEF HeldAt
    <2>. QED  BY <1>1, <2>1, <2>2 DEF Sound, Whole
<1>. QED  BY <1>1, <1>5, <1>6, <1>7 DEF WholeInv

\* A restart leaves of every branch a cut it held before.
LEMMA RestartWhole ==
    ASSUME IInv, WholeInv, IInv', NEW t \in Nat, Restart(t)
    PROVE  WholeInv'
<1>1. /\ seq \in Nat /\ seq' = t /\ t <= seq
      /\ body' = [r \in {x \in DOMAIN body : x <= t} |-> body[r]]
      /\ rows' = [b \in Branches |-> {r \in rows[b] : r <= t}]
      /\ gone' = [b \in Branches |-> {g \in gone[b] : g.at <= t}]
      /\ rows \in [Branches -> SUBSET (DOMAIN body)] /\ DOMAIN body \subseteq 1 .. seq
      /\ gone \in [Branches -> SUBSET [row : Nat, at : Nat]]
    BY DEF IInv, RecordType, Restart
<1>2. GoneBy'
    BY <1>1 DEF GoneBy
<1>3. ASSUME NEW b \in Branches, NEW n \in 0 .. seq', NEW c, CutOf(c, log'[b], n) PROVE Sound(c, b, n)'
    <2>1. n \in 0 .. seq /\ n <= t /\ n \in Int /\ t \in Int /\ log[b] \in Seq(Item)
        BY <1>1 DEF IInv, IndexType
    <2>2. CutOf(c, log[b], n)
        BY <1>3, <2>1, RestartCuts, CutOfCut
    <2>3. Sound(c, b, n)
        BY <2>1, <2>2 DEF WholeInv
    <2>4. HeldAt(b, n)' = HeldAt(b, n)
        <3>1. {r \in rows'[b] : r <= n} = {r \in rows[b] : r <= n}
            BY <1>1, <2>1
        <3>2. {g \in gone'[b] : g.at <= n} = {g \in gone[b] : g.at <= n}
            BY <1>1, <2>1
        <3>. QED  BY <3>1, <3>2 DEF HeldAt
    <2>5. \A r \in HeldAt(b, n) : body'[r] = body[r]
        <3>1. \A r \in HeldAt(b, n) : r \in rows[b] /\ r <= n
            BY DEF HeldAt
        <3>. QED  BY <1>1, <2>1, <3>1
    <2>6. Whole(c, HeldAt(b, n))'
        BY <2>3, <2>4, <2>5 DEF Sound, Whole
    <2>. QED  BY <2>3, <2>6 DEF Sound
<1>. QED  BY <1>2, <1>3 DEF WholeInv

\* A removal written to the index: the row leaves the record and the window.
LEMMA RemoveWhole ==
    ASSUME IInv, WholeInv, IInv', NEW h \in Handles, NEW r \in Held(cur[h]), NEW o \in Outcomes,
           RemoveMessage(h, r, o)
    PROVE  WholeInv'
<1>0. PICK b \in Branches : b = cur[h]
    BY Facts
<1> DEFINE s == log[b]
           W == WindowOf(s) \ {r}
<1>1. seq \in Nat /\ Current(h).items = s /\ s \in Seq(Item) /\ GoneBy
    BY <1>0, Facts DEF WholeInv
<1>2. seq' \in Nat /\ seq < seq' /\ UNCHANGED <<body, rows>>
    BY <1>1 DEF RemoveMessage
<1>3. Removes /\ GoneBy' /\ Held(b)' = Held(b) \ {r}
    BY <1>0, <1>1, <1>2, GoneNow DEF RemoveMessage
<1>4. log' = log \/ WritesTo(b, seq + 2, W)
    BY <1>0, RemoveMessageLog
<1>5. ASSUME log' # log
      PROVE  W \subseteq 0 .. seq /\ \A x, y \in Held(b)' : body[x] = body[y] => (x \in W <=> y \in W)
    <2>1. InEffect(s)
        BY <1>0, <1>1, <1>5 DEF RemoveMessage
    <2>2. (\A x : InWindow(s, x) => x \in 0 .. seq) /\ Whole(s, Held(b))
        BY <1>1, SoundNow
    <2>3. \A x : InWindow(s, x) <=> x \in WindowOf(s)
        BY InWindowIn
    <2>. QED  BY <1>3, <2>1, <2>2, <2>3 DEF Whole
<1>6. seq <= seq' /\ seq + 2 \in {seq + 1, seq + 2}
    BY <1>1, <1>2
<1> HIDE DEF W
<1>7. log' # log => /\ W \subseteq 0 .. seq
                    /\ \A x, y \in Held(b)' : body[x] = body[y] => (x \in W <=> y \in W)
    BY <1>5
<1>. QED  BY <1>3, <1>4, <1>6, <1>7, WritesWhole

\* A step that writes the window and no row of the record.
LEMMA IndexWrites ==
    ASSUME IInv, WholeInv, IInv', NEW h \in Handles, UNCHANGED <<body, rows, gone>>, seq <= seq', seq' \in Nat,
           NEW W, log' = log \/ WritesTo(cur[h], seq + 1, W),
           log' # log => /\ W \subseteq 0 .. seq
                         /\ \A x, y \in Held(cur[h]) : body[x] = body[y] => (x \in W <=> y \in W)
    PROVE  WholeInv'
<1>1. cur[h] \in Branches /\ seq \in Nat /\ gone \in [Branches -> SUBSET [row : Nat, at : Nat]]
    BY Facts DEF RecordType
<1>2. Removes /\ GoneBy'
    BY <1>1, SameGone DEF WholeInv
<1>3. PICK b \in Branches : b = cur[h] /\ (log' = log \/ WritesTo(b, seq + 1, W))
    BY <1>1
<1>4. log' # log => /\ W \subseteq 0 .. seq
                    /\ \A x, y \in Held(b)' : body[x] = body[y] => (x \in W <=> y \in W)
    BY <1>2, <1>3, <1>1, RemovesHeld DEF WholeInv
<1>. QED  BY <1>1, <1>2, <1>3, <1>4, WritesWhole

\* The rows an index write names are stored.
LEMMA StoredRows ==
    ASSUME IInv, WholeInv, NEW h \in Handles
    PROVE  /\ WindowOf(log[cur[h]]) \subseteq 0 .. seq /\ Held(cur[h]) \subseteq 0 .. seq
           /\ \A names \in Calls(cur[h]) : NamedRows(cur[h], names) \subseteq 0 .. seq
<1>1. cur[h] \in Branches /\ seq \in Nat
    BY Facts
<1>2. WindowOf(log[cur[h]]) \subseteq 0 .. seq
    <2>1. \A x : InWindow(log[cur[h]], x) => x \in 0 .. seq
        BY <1>1, SoundNow
    <2>. QED  BY <2>1, InWindowIn
<1>3. /\ Held(cur[h]) \subseteq 1 .. seq
      /\ \A id \in rows[cur[h]] : Rest(cur[h], id) \subseteq 1 .. seq
    BY <1>1, RowsFinite
<1>4. ASSUME NEW names \in Calls(cur[h]) PROVE NamedRows(cur[h], names) \subseteq 0 .. seq
    <2>1. PICK n \in 1 .. MaxNames : names \in [1 .. n -> rows[cur[h]]]
        BY DEF Calls
    <2>2. Len(names) = n
        <3>1. n \in Nat
            BY BoundAssumption
        <3>. QED  BY <2>1, <3>1
    <2>3. \A i \in 1 .. Len(names) : names[i] \in rows[cur[h]]
        BY <2>1, <2>2
    <2>. QED  BY <1>1, <1>3, <2>3 DEF NamedRows
<1>. QED  BY <1>1, <1>2, <1>3, <1>4

\* The write-down takes every row of the record.
LEMMA WriteDownWhole ==
    ASSUME IInv, WholeInv, IInv', NEW h \in Handles, NEW o \in Outcomes, WriteDown(h, o)
    PROVE  WholeInv'
<1>1. seq \in Nat /\ seq' \in Nat /\ seq <= seq' /\ UNCHANGED <<body, rows, gone>>
    BY Facts DEF WriteDown
<1>2. log' = log \/ WritesTo(cur[h], seq + 1, Held(cur[h]))
    BY WriteDownLog
<1>3. Held(cur[h]) \subseteq 0 .. seq
    BY StoredRows
<1>. QED  BY <1>1, <1>2, <1>3, IndexWrites

\* presentRows takes bodies whole.
LEMMA PresentRowsWhole ==
    ASSUME IInv, WholeInv, IInv', NEW h \in Handles, NEW names \in Calls(cur[h]), NEW o \in Outcomes,
           PresentRows(h, names, o)
    PROVE  WholeInv'
<1> DEFINE W == WindowOf(log[cur[h]]) \cup NamedRows(cur[h], names)
<1>1. seq \in Nat /\ seq' \in Nat /\ seq <= seq' /\ UNCHANGED <<body, rows, gone>>
    BY Facts DEF PresentRows
<1>2. log' = log \/ WritesTo(cur[h], seq + 1, W)
    BY PresentRowsLog
<1>3. W \subseteq 0 .. seq
    BY StoredRows
<1>4. \A x, y \in Held(cur[h]) : body[x] = body[y] => (x \in W => y \in W)
    BY PresentWhole
<1> HIDE DEF W
<1>5. \A x, y \in Held(cur[h]) : body[x] = body[y] => (x \in W <=> y \in W)
    BY <1>4
<1>. QED  BY <1>1, <1>2, <1>3, <1>5, IndexWrites

\* retractRows takes bodies whole.
LEMMA RetractRowsWhole ==
    ASSUME IInv, WholeInv, IInv', NEW h \in Handles, NEW names \in Calls(cur[h]),
           NEW kind \in {"retract", "undo"}, NEW o \in Outcomes, RetractRows(h, names, kind, o)
    PROVE  WholeInv'
<1> DEFINE W == WindowOf(log[cur[h]]) \ NamedRows(cur[h], names)
<1>1. seq \in Nat /\ seq' \in Nat /\ seq <= seq' /\ UNCHANGED <<body, rows, gone>>
    BY Facts DEF RetractRows, WriteLeaving
<1>2. log' = log \/ WritesTo(cur[h], seq + 1, W)
    BY RetractRowsLog
<1>3. W \subseteq 0 .. seq
    BY StoredRows
<1>4. \A x, y \in Held(cur[h]) : body[x] = body[y] => (x \in W => y \in W)
    BY RetractWhole
<1> HIDE DEF W
<1>5. \A x, y \in Held(cur[h]) : body[x] = body[y] => (x \in W <=> y \in W)
    BY <1>4
<1>. QED  BY <1>1, <1>2, <1>3, <1>5, IndexWrites

\* Rows the record lacks leave: nothing of a body it holds.
LEMMA RetractGoneWhole ==
    ASSUME IInv, WholeInv, IInv', NEW h \in Handles, NEW absent \in SUBSET AbsentRows(h), NEW o \in Outcomes,
           RetractGone(h, absent, o)
    PROVE  WholeInv'
<1> DEFINE W == WindowOf(log[cur[h]]) \ absent
<1>1. seq \in Nat /\ seq' \in Nat /\ seq <= seq' /\ UNCHANGED <<body, rows, gone>>
    BY Facts DEF RetractGone, WriteLeaving
<1>2. (log' = log \/ WritesTo(cur[h], seq + 1, W)) /\ absent \cap Held(cur[h]) = {}
    BY RetractGoneLog
<1>3. W \subseteq 0 .. seq
    BY StoredRows
<1>4. InEffect(log[cur[h]]) /\ Whole(log[cur[h]], Held(cur[h]))
    BY Facts, SoundNow DEF RetractGone
<1>5. \A x, y \in Held(cur[h]) : body[x] = body[y] => (x \in W <=> y \in W)
    BY <1>2, <1>4, InWindowIn DEF Whole
<1> HIDE DEF W
<1>. QED  BY <1>1, <1>2, <1>3, <1>5, IndexWrites

\* Two records: the window the record's, and then without the body.
LEMMA RetractFirstWhole ==
    ASSUME IInv, WholeInv, IInv', NEW h \in Handles, NEW id \in Held(cur[h]), NEW kind \in {"retract", "undo"},
           NEW o \in Outcomes, RetractFirst(h, id, kind, o)
    PROVE  WholeInv'
<1>0. PICK b \in Branches : b = cur[h]
    BY Facts
<1> DEFINE s == log[b]
           leaving == Rest(b, id)
<1>1. /\ seq \in Nat /\ s \in Seq(Item) /\ Held(b) \in SUBSET Nat
      /\ seq' \in Nat /\ seq <= seq' /\ UNCHANGED <<body, rows, gone>>
      /\ gone \in [Branches -> SUBSET [row : Nat, at : Nat]]
    BY <1>0, Facts DEF RecordType, RetractFirst
<1>2. leaving = BodyOf(b, id)
    BY <1>0, <1>1, FirstRowTakes DEF RetractFirst
<1>3. PICK m : /\ Makes(m, s, seq + 1, Held(b))
               /\ \/ log' = [log EXCEPT ![b] = m] /\ seq' = seq + 1
                  \/ \E t : /\ log' = [log EXCEPT ![b] = t] /\ seq' = seq + 2
                            /\ Makes(t, m, seq + 2, Held(b) \ leaving)
    <2>1. id \in Held(cur[h])
        OBVIOUS
    <2>2. \E m : /\ Makes(m, log[cur[h]], seq + 1, Held(cur[h]))
                 /\ \/ log' = [log EXCEPT ![cur[h]] = m] /\ seq' = seq + 1
                    \/ \E t : /\ log' = [log EXCEPT ![cur[h]] = t] /\ seq' = seq + 2
                              /\ Makes(t, m, seq + 2, Held(cur[h]) \ Rest(cur[h], id))
        BY <2>1, RetractFirstLog
    <2>. QED  BY <1>0, <2>2
<1>4. Removes /\ GoneBy'
    BY <1>1, SameGone DEF WholeInv
<1>5. /\ \A c \in Branches, n \in 0 .. seq : HeldAt(c, n)' = HeldAt(c, n)
      /\ \A c \in Branches, n \in Nat : seq < n => HeldAt(c, n)' = Held(c)'
      /\ \A c \in Branches : Held(c)' \subseteq Held(c)
    BY <1>4, RemovesHeld DEF WholeInv
<1>6. m \in Seq(Item) /\ Extends(m, s, seq + 1) /\ \A x : InWindow(m, x) <=> x \in Held(b)
    BY <1>3 DEF Makes
<1>7. \A i \in 1 .. Len(s) : s[i].by \in 1 .. seq
    BY <1>1 DEF IInv, Coherent, History, Stamped, Logs
\* Whatever part of the log the cut is of.
<1>8. ASSUME NEW n \in Nat, NEW c, CutOf(c, m, n)
      PROVE  IF n < seq + 1 THEN CutOf(c, s, n) ELSE c = m
    <2>1. seq + 1 \in Nat /\ \A i \in 1 .. Len(s) : s[i].by <= seq + 1
        BY <1>1, <1>7
    <2>2. s \in Seq(Item) /\ m \in Seq(Item) /\ Extends(m, s, seq + 1) /\ n \in Int
        BY <1>1, <1>6
    <2> HIDE DEF s
    <2>. QED  BY <1>8, <2>1, <2>2, CutOfExtended
<1>9. \A i \in 1 .. Len(m) : m[i].by <= seq + 2
    <2>1. ASSUME NEW i \in 1 .. Len(m) PROVE m[i].by <= seq + 2
        <3>1. Len(s) \in Nat /\ Len(m) \in Nat
            BY <1>1, <1>6, LenProperties
        <3>2. CASE i <= Len(s)
            <4>1. i \in 1 .. Len(s) /\ m[i] = s[i]
                BY <1>6, <3>1, <3>2 DEF Extends
            <4>. QED  BY <1>1, <1>7, <4>1
        <3>3. CASE ~(i <= Len(s))
            <4>1. i \in Len(s) + 1 .. Len(m)
                BY <3>1, <3>3
            <4>2. m[i].by = seq + 1
                BY <1>6, <4>1 DEF Extends
            <4>. QED  BY <1>1, <4>2
        <3>. QED  BY <3>2, <3>3
    <2>. QED  BY <2>1
<1>10. ASSUME NEW n \in Nat, n > seq PROVE Sound(m, b, n)'
    <2>1. \A x : InWindow(m, x) => x \in 0 .. n
        <3>1. Held(b) \subseteq 0 .. seq
            BY <1>0, StoredRows
        <3>. QED  BY <1>1, <1>6, <1>10, <3>1
    <2>2. HeldAt(b, n)' \subseteq Held(b)
        BY <1>1, <1>5, <1>10
    <2>3. Whole(m, HeldAt(b, n))'
        BY <1>6, <2>2 DEF Whole
    <2>. QED  BY <2>1, <2>3 DEF Sound
<1>11. ASSUME NEW t, Makes(t, m, seq + 2, Held(b) \ leaving), NEW n \in Nat, n > seq
       PROVE  Sound(t, b, n)'
    <2>1. \A x : InWindow(t, x) <=> x \in Held(b) /\ x \notin BodyOf(b, id)
        BY <1>2, <1>11 DEF Makes
    <2>2. \A x : InWindow(t, x) => x \in 0 .. n
        <3>1. Held(b) \subseteq 0 .. seq
            BY <1>0, StoredRows
        <3>. QED  BY <1>1, <1>11, <2>1, <3>1
    <2>3. HeldAt(b, n)' \subseteq Held(b)
        BY <1>1, <1>5, <1>11
    <2>4. \A x, y \in Held(b) : body[x] = body[y] => (InWindow(t, x) <=> InWindow(t, y))
        BY <2>1 DEF BodyOf
    <2>5. Whole(t, HeldAt(b, n))'
        BY <1>1, <2>3, <2>4 DEF Whole
    <2>. QED  BY <2>2, <2>5 DEF Sound
<1>12. ASSUME NEW n \in Nat, NEW c, CutOf(c, log'[b], n)
       PROVE  (CutOf(c, s, n) /\ n <= seq) \/ (n > seq /\ Sound(c, b, n)')
    <2>1. CASE log' = [log EXCEPT ![b] = m] /\ seq' = seq + 1
        <3>1. log'[b] = m
            BY <1>1, <2>1 DEF IInv, IndexType
        <3>2. IF n < seq + 1 THEN CutOf(c, s, n) ELSE c = m
            BY <1>8, <1>12, <3>1
        <3>. QED  BY <1>1, <1>10, <3>2
    <2>2. CASE \E t : /\ log' = [log EXCEPT ![b] = t] /\ seq' = seq + 2
                      /\ Makes(t, m, seq + 2, Held(b) \ leaving)
        <3>1. PICK t : /\ log' = [log EXCEPT ![b] = t]
                       /\ Makes(t, m, seq + 2, Held(b) \ leaving)
            BY <2>2
        <3>2. log'[b] = t
            BY <1>1, <3>1 DEF IInv, IndexType
        <3>3. t \in Seq(Item) /\ Extends(t, m, seq + 2) /\ seq + 2 \in Nat
            BY <1>1, <3>1 DEF Makes
        <3>4. IF n < seq + 2 THEN CutOf(c, m, n) ELSE c = t
            BY <1>6, <1>9, <1>12, <3>2, <3>3, CutOfExtended
        <3>5. CASE n < seq + 2
            <4>1. IF n < seq + 1 THEN CutOf(c, s, n) ELSE c = m
                BY <1>8, <3>4, <3>5
            <4>. QED  BY <1>1, <1>10, <4>1
        <3>6. CASE ~(n < seq + 2)
            <4>1. c = t /\ n > seq
                BY <1>1, <3>4, <3>6
            <4>. QED  BY <1>11, <3>1, <4>1
        <3>. QED  BY <3>5, <3>6
    <2>. QED  BY <1>3, <2>1, <2>2
<1>13. ASSUME NEW d \in Branches \ {b} PROVE log'[d] = log[d]
    BY <1>3 DEF IInv, IndexType
<1>14. ASSUME NEW d \in Branches, NEW n \in 0 .. seq', NEW c, CutOf(c, log'[d], n)
       PROVE  Sound(c, d, n)' \/ (CutOf(c, log[d], n) /\ n <= seq)
    <2>1. n \in Nat
        BY <1>1
    <2>2. CASE d = b
        <3>1. CutOf(c, log'[b], n) /\ s = log[d]
            BY <1>14, <2>2
        <3> HIDE DEF s
        <3>2. (CutOf(c, s, n) /\ n <= seq) \/ (n > seq /\ Sound(c, b, n)')
            BY <1>12, <2>1, <3>1
        <3>. QED  BY <2>2, <3>1, <3>2
    <2>3. CASE d # b /\ n <= seq
        BY <1>13, <1>14, <2>3
    <2>4. CASE d # b /\ n > seq
        <3>1. /\ log'[d] = log[d] /\ log[d] \in Seq(Item) /\ n \in Int
              /\ \A i \in 1 .. Len(log[d]) : log[d][i].by \in 1 .. seq
            <4>1. log[d] \in Seq(Item)
                BY DEF IInv, IndexType
            <4>2. \A i \in 1 .. Len(log[d]) : log[d][i].by \in 1 .. seq
                BY DEF IInv, Coherent, History, Stamped, Logs
            <4>. QED  BY <1>13, <2>1, <2>4, <4>1, <4>2
        <3>2. CutOf(log[d], log[d], n)
            <4>1. \A i \in 1 .. Len(log[d]) : log[d][i].by <= n
                BY <1>1, <2>1, <2>4, <3>1
            <4>. QED  BY <3>1, <4>1, LateCut
        <3>3. c = log[d]
            BY <1>14, <3>1, <3>2, CutUnique
        <3>4. (\A x : InWindow(c, x) => x \in 0 .. seq) /\ Whole(c, Held(d))
            BY <3>3, SoundNow
        <3>5. HeldAt(d, n)' \subseteq Held(d)
            BY <1>1, <1>5, <2>1, <2>4
        <3>6. \A x : InWindow(c, x) => x \in 0 .. n
            BY <1>1, <2>1, <2>4, <3>4
        <3>7. Whole(c, HeldAt(d, n))'
            BY <1>1, <3>4, <3>5 DEF Whole
        <3>. QED  BY <3>6, <3>7 DEF Sound
    <2>. QED  BY <1>1, <2>1, <2>2, <2>3, <2>4
<1>15. ASSUME NEW d \in Branches, NEW n \in 0 .. seq', NEW c, CutOf(c, log[d], n), n <= seq
       PROVE  Sound(c, d, n)'
    <2>1. n \in 0 .. seq
        BY <1>1, <1>15
    <2>2. Sound(c, d, n) /\ HeldAt(d, n)' = HeldAt(d, n)
        BY <1>5, <1>15, <2>1 DEF WholeInv
    <2>. QED  BY <1>1, <2>2 DEF Sound, Whole
<1>. QED  BY <1>4, <1>14, <1>15 DEF WholeInv

\* Every step keeps the bodies of every cut whole.
LEMMA NextWhole ==
    ASSUME IInv, WholeInv, IInv', [Next]_vars
    PROVE  WholeInv'
<1>0. seq \in Nat /\ seq' \in Nat /\ gone \in [Branches -> SUBSET [row : Nat, at : Nat]]
    BY DEF IInv, RecordType
<1>1. CASE UNCHANGED vars
    BY <1>1 DEF WholeInv, GoneBy, Sound, Whole, HeldAt, vars, store
<1>2. ASSUME NEW h \in Handles, NEW n \in 1 .. 2, AddMessage(h, n) PROVE WholeInv'
    BY <1>2, AddWhole
<1>3. ASSUME NEW h \in Handles, NEW o \in Outcomes, NEW r \in Held(cur[h]), RemoveMessage(h, r, o) PROVE WholeInv'
    BY <1>3, RemoveWhole
<1>4. ASSUME NEW h \in Handles, NEW o \in Outcomes, WriteDown(h, o) PROVE WholeInv'
    BY <1>4, WriteDownWhole
<1>5. ASSUME NEW h \in Handles, NEW o \in Outcomes, NEW names \in Calls(cur[h]), PresentRows(h, names, o)
      PROVE  WholeInv'
    BY <1>5, PresentRowsWhole
<1>6. ASSUME NEW h \in Handles, NEW o \in Outcomes, NEW names \in Calls(cur[h]),
             NEW kind \in {"retract", "undo"}, RetractRows(h, names, kind, o)
      PROVE  WholeInv'
    BY <1>6, RetractRowsWhole
<1>7. ASSUME NEW h \in Handles, NEW o \in Outcomes, NEW id \in Held(cur[h]),
             NEW kind \in {"retract", "undo"}, RetractFirst(h, id, kind, o)
      PROVE  WholeInv'
    BY <1>7, RetractFirstWhole
<1>8. ASSUME NEW h \in Handles, NEW o \in Outcomes, NEW absent \in SUBSET AbsentRows(h), RetractGone(h, absent, o)
      PROVE  WholeInv'
    BY <1>8, RetractGoneWhole
<1>9. ASSUME NEW h \in Handles, NEW r \in Held(cur[h]), RemoveUnread(h, r) \/ RemoveElsewhere(h, r)
      PROVE  WholeInv'
    <2>1. /\ seq' = seq + 1 /\ log' = log /\ UNCHANGED <<body, rows>>
          /\ gone' = [gone EXCEPT ![cur[h]] = @ \cup {[row |-> r, at |-> seq + 1]}]
        BY <1>9 DEF RemoveUnread, RemoveElsewhere
    <2>2. PICK b \in Branches : b = cur[h]
        BY Facts
    <2>4. /\ gone' = [gone EXCEPT ![b] = @ \cup {[row |-> r, at |-> seq + 1]}]
          /\ seq' \in Nat /\ seq < seq' /\ seq <= seq' /\ GoneBy
        BY <1>0, <2>1, <2>2 DEF WholeInv
    <2>3. GoneBy' /\ Removes /\ seq <= seq'
        BY <2>1, <2>4, GoneNow
    <2>. QED  BY <2>1, <2>3, QuietWhole
<1>10. ASSUME NEW h \in Handles,
              \/ SettleOnly(h) \/ Select(h)
              \/ \E b \in Branches : SettleMoved(h, b) \/ SwitchBranch(h, b)
       PROVE  WholeInv'
    <2>1. UNCHANGED <<seq, body, rows, gone, log>>
        BY <1>10 DEF SettleOnly, Select, SettleMoved, SwitchBranch, store
    <2>2. GoneBy' /\ Removes /\ seq <= seq'
        BY <1>0, <2>1, SameGone DEF WholeInv
    <2>. QED  BY <2>1, <2>2, QuietWhole
<1>11. ASSUME NEW h \in Handles, NEW new \in Branches,
              \/ Fork(h, new)
              \/ \E r \in Held(cur[h]) : BranchAt(h, r, new)
              \/ \E g \in Handles : Derive(h, g, new)
       PROVE  WholeInv'
    <2>1. PICK t \in 0 .. seq : MakeBranch(cur[h], t, new)
        BY <1>11, BranchSteps
    <2>2. cur[h] \in Branches
        BY Facts
    <2>. QED  BY <2>1, <2>2, BranchWhole
<1>12. ASSUME NEW t \in Len(Bodies0) .. MaxSeq, Restart(t) PROVE WholeInv'
    <2>1. t \in Nat
        BY BodyAssumption, BoundAssumption, LenProperties
    <2>. QED  BY <1>12, <2>1, RestartWhole
<1>. QED  BY <1>1, <1>2, <1>3, <1>4, <1>5, <1>6, <1>7, <1>8, <1>9, <1>10, <1>11, <1>12 DEF Next

\* The logs the store starts with name rows it holds, and hold their bodies
\* whole in every cut between two records.
StartsWhole ==
    \A s \in Logs0 :
        /\ \A i \in 1 .. Len(s) : s[i].id <= Len(Bodies0)
        /\ \A n \in Nat : \A c : CutOf(c, s, n) /\ InEffect(c) =>
               \A x, y \in 1 .. Len(Bodies0) :
                   Bodies0[x] = Bodies0[y] => (InWindow(c, x) <=> InWindow(c, y))

\* The store starts with bodies whole.
LEMMA InitWhole ==
    ASSUME Init, StartsWhole
    PROVE  WholeInv
<1> DEFINE n0 == Len(Bodies0)
<1>1. PICK s \in Logs0 :
          /\ log = [b \in Branches |-> IF b = Main THEN s ELSE <<>>]
          /\ seq = IF s = <<>> THEN n0 ELSE Revision(s)
    BY DEF Init
<1>2. /\ body = Bodies0 /\ gone = [b \in Branches |-> {}]
      /\ rows = [b \in Branches |-> IF b = Main THEN 1 .. n0 ELSE {}]
    BY DEF Init
<1>3. /\ s \in Seq(Item) /\ n0 \in Nat /\ <<>> \in Seq(Item) /\ Len(<<>>) = 0
      /\ \A i \in 1 .. Len(s) : n0 < s[i].by
    BY LogAssumption, BodyAssumption, LenProperties, EmptySeq
<1>4. GoneBy
    BY <1>2 DEF GoneBy
<1>5. ASSUME NEW b \in Branches, NEW n \in Nat, NEW c, CutOf(c, log[b], n) PROVE Sound(c, b, n)
    <2> DEFINE t == IF b = Main THEN s ELSE <<>>
    <2>1. log[b] = t /\ t \in Seq(Item)
        BY <1>1, <1>3
    <2>2. /\ c \in Seq(Item) /\ Len(c) <= Len(t) /\ \A i \in 1 .. Len(c) : c[i] = t[i]
          /\ \A i \in 1 .. Len(t) : t[i].by <= n <=> i <= Len(c)
        <3>1. CutOf(c, t, n) /\ n \in Int
            BY <1>5, <2>1
        <3> HIDE DEF t
        <3>. QED  BY <2>1, <3>1, CutElements
    <2>3. Len(c) \in Nat /\ Len(t) \in Nat
        BY <2>1, <2>2, LenProperties
    <2>4. CASE c = <<>>
        <3>1. Len(c) = 0
            BY <2>4, EmptySeq
        <3>2. \A x : ~InWindow(c, x)
            BY <3>1 DEF InWindow
        <3>. QED  BY <3>2 DEF Sound, Whole
    <2>5. CASE c # <<>>
        <3>1. Len(c) # 0
            BY <2>2, <2>5, EmptySeq
        <3>2. 1 \in 1 .. Len(c) /\ 1 \in 1 .. Len(t)
            BY <2>2, <2>3, <3>1
        <3>3. b = Main /\ t = s
            BY <1>3, <2>3, <3>2
        <3>4. n0 < n
            <4>1. t[1].by <= n /\ t[1] \in Item /\ n0 < t[1].by
                BY <1>3, <2>1, <2>2, <3>2, <3>3, ElementOfSeq
            <4>. QED  BY <1>3, <4>1 DEF Item
        <3>5. \A x : InWindow(c, x) => x \in 0 .. n
            <4>1. ASSUME NEW x, InWindow(c, x) PROVE x \in 0 .. n
                <5>1. PICK i \in 1 .. Len(c) : c[i].id = x
                    BY <4>1 DEF InWindow, StandsAt, Presents
                <5>2. c[i] \in Item
                    BY <2>2, ElementOfSeq
                <5>3. x \in Nat
                    BY <5>1, <5>2 DEF Item
                <5>4. i \in 1 .. Len(s) /\ s[i].id = x
                    BY <2>2, <2>3, <3>3, <5>1
                <5>5. x <= n0
                    BY <5>4 DEF StartsWhole
                <5>. QED  BY <1>3, <3>4, <5>3, <5>5
            <4>. QED  BY <4>1
        <3>6. HeldAt(b, n) \subseteq 1 .. n0
            BY <1>2 DEF HeldAt
        <3>7. CutOf(c, s, n)
            BY <1>5, <2>1, <3>3
        <3>8. Whole(c, HeldAt(b, n))
            BY <1>2, <3>6, <3>7 DEF StartsWhole, Whole
        <3>. QED  BY <3>5, <3>8 DEF Sound
    <2>. QED  BY <2>4, <2>5
<1>6. seq \in Nat => 0 .. seq \subseteq Nat
    OBVIOUS
<1>7. seq \in Nat
    BY InitInv DEF IInv, RecordType
<1>. QED  BY <1>4, <1>5, <1>6, <1>7 DEF WholeInv

\* Bodies are whole in every cut, always.
LEMMA WholeHolds ==
    ASSUME StartsWhole
    PROVE  Spec => [](IInv /\ WholeInv)
<1>1. Init => IInv /\ WholeInv
    BY InitInv, InitWhole
<1>2. IInv /\ WholeInv /\ [Next]_vars => (IInv /\ WholeInv)'
    BY NextInv, NextWhole
<1>. QED  BY <1>1, <1>2, PTL DEF Spec

\* Bodies enter and leave the window whole: whatever calls are made, shards
\* removed, writes refused or lost, and wherever a branch is cut, every shard
\* of a body that the record holds is in the window, or none is.  It holds of
\* a branch because it holds of every cut of its parent's log with the record
\* as it was at the cut, which is what the induction is on.
THEOREM BodiesAreWhole ==
    ASSUME StartsWhole
    PROVE  Spec => []BodiesWhole
<1>1. ASSUME IInv, WholeInv PROVE BodiesWhole
    <2>1. live \subseteq Branches
        BY <1>1 DEF IInv, RecordType
    <2>2. \A b \in Branches : Whole(log[b], Held(b))
        BY <1>1, SoundNow
    <2>. QED  BY <2>1, <2>2 DEF BodiesWhole, Whole
<1>. QED  BY <1>1, WholeHolds, PTL

-----------------------------------------------------------------------------
(* The write-down stays where it was made.                                 *)

\* Logs whose write-down is the same: the same items to their headers.
SameHead(t, s) ==
    /\ HeaderIn(t) = HeaderIn(s)
    /\ SubSeq(t, 1, HeaderIn(t) - 1) = SubSeq(s, 1, HeaderIn(s) - 1)
    /\ t[HeaderIn(t)] = s[HeaderIn(s)]

\* Before its header, the window of s is the rows of H in record order.
DownAs(s, H) == InOrder(SubSeq(s, 1, HeaderIn(s) - 1), H)

\* Every log with a header was the record of its branch when it got it.
DownInv ==
    /\ GoneBy
    /\ \A b \in Branches :
         HeaderIn(log[b]) # 0 => DownAs(log[b], HeldAt(b, log[b][HeaderIn(log[b])].by))

\* The header of a log that has one.
LEMMA HeaderType ==
    ASSUME NEW s \in Seq(Item)
    PROVE  /\ (\E i \in 1 .. Len(s) : s[i].kind = "header") <=> HeaderIn(s) # 0
           /\ HeaderIn(s) # 0 => /\ HeaderIn(s) \in 1 .. Len(s) /\ s[HeaderIn(s)].kind = "header"
                                 /\ \A j \in 1 .. HeaderIn(s) - 1 : s[j].kind # "header"
<1>1. CASE \E i \in 1 .. Len(s) : s[i].kind = "header"
    <2>1. /\ HeaderIn(s) \in 1 .. Len(s) /\ s[HeaderIn(s)].kind = "header"
          /\ \A j \in 1 .. HeaderIn(s) - 1 : s[j].kind # "header"
        BY <1>1, HeaderStands
    <2>. QED  BY <1>1, <2>1
<1>2. CASE ~(\E i \in 1 .. Len(s) : s[i].kind = "header")
    BY <1>2 DEF HeaderIn
<1>. QED  BY <1>1, <1>2

\* A log that begins as s does, its header included, has s's write-down.
LEMMA HeadKept ==
    ASSUME NEW s \in Seq(Item), HeaderIn(s) # 0, NEW t \in Seq(Item), HeaderIn(s) <= Len(t),
           \A i \in 1 .. HeaderIn(s) : t[i] = s[i]
    PROVE  SameHead(t, s)
<1> DEFINE k == HeaderIn(s)
           l == HeaderIn(t)
<1>1. k \in 1 .. Len(s) /\ s[k].kind = "header" /\ \A j \in 1 .. k - 1 : s[j].kind # "header"
    BY HeaderType
<1>2. Len(s) \in Nat /\ Len(t) \in Nat
    BY LenProperties
<1>3. k \in 1 .. Len(t) /\ t[k] = s[k] /\ t[k].kind = "header"
    BY <1>1, <1>2
<1>4. l # 0
    BY <1>3, HeaderType
<1>5. l \in 1 .. Len(t) /\ t[l].kind = "header" /\ \A j \in 1 .. l - 1 : t[j].kind # "header"
    BY <1>4, HeaderType
<1> HIDE DEF k, l
<1>6. \A i \in 1 .. k : t[i] = s[i]
    BY DEF k
<1>7. k = l
    <2>1. ~(k < l)
        BY <1>2, <1>3, <1>5
    <2>2. ~(l < k)
        <3>1. SUFFICES ASSUME l < k PROVE FALSE
            OBVIOUS
        <3>2. l \in 1 .. k - 1 /\ t[l] = s[l]
            BY <1>1, <1>2, <1>5, <1>6, <3>1
        <3>. QED  BY <1>1, <1>5, <3>2
    <2>. QED  BY <1>1, <1>2, <1>5, <2>1, <2>2
<1>8. SubSeq(t, 1, k - 1) = SubSeq(s, 1, k - 1)
    <2>1. k - 1 \in 0 .. Len(s) /\ k - 1 \in 0 .. Len(t)
        BY <1>1, <1>2, <1>3
    <2>2. \A i \in 1 .. k - 1 : s[i] \in Item /\ t[i] \in Item
        BY <1>2, <2>1, ElementOfSeq
    <2>3. /\ SubSeq(s, 1, k - 1) \in Seq(Item) /\ Len(SubSeq(s, 1, k - 1)) = k - 1
          /\ \A i \in 1 .. k - 1 : SubSeq(s, 1, k - 1)[i] = s[i]
        BY <1>2, <2>1, <2>2, SubSeqProperties
    <2>4. /\ SubSeq(t, 1, k - 1) \in Seq(Item) /\ Len(SubSeq(t, 1, k - 1)) = k - 1
          /\ \A i \in 1 .. k - 1 : SubSeq(t, 1, k - 1)[i] = t[i]
        BY <1>2, <2>1, <2>2, SubSeqProperties
    <2>5. \A i \in 1 .. k - 1 : t[i] = s[i]
        BY <1>1, <1>6
    <2>. QED  BY <2>3, <2>4, <2>5, SeqEqual
<1>. QED  BY <1>3, <1>7, <1>8 DEF SameHead, k, l

\* What a write or a cut leaves of a header.
LEMMA HeadExtended ==
    ASSUME NEW s \in Seq(Item), HeaderIn(s) # 0, NEW t \in Seq(Item), NEW w, Extends(t, s, w)
    PROVE  SameHead(t, s)
<1>1. HeaderIn(s) \in 1 .. Len(s) /\ Len(s) \in Nat /\ Len(t) \in Nat
    BY HeaderType, LenProperties
<1>2. HeaderIn(s) <= Len(t) /\ \A i \in 1 .. HeaderIn(s) : t[i] = s[i]
    BY <1>1 DEF Extends
<1>. QED  BY <1>2, HeadKept

\* A cut that holds a header holds the log's, written by then.
LEMMA HeadCut ==
    ASSUME NEW s \in Seq(Item), NEW n \in Int, NEW t, CutOf(t, s, n), HeaderIn(t) # 0
    PROVE  /\ HeaderIn(s) # 0 /\ SameHead(t, s)
           /\ s[HeaderIn(s)].by <= n
<1>1. /\ t \in Seq(Item) /\ Len(t) <= Len(s) /\ \A i \in 1 .. Len(t) : t[i] = s[i]
      /\ \A i \in 1 .. Len(s) : s[i].by <= n <=> i <= Len(t)
    BY CutElements
<1>2. HeaderIn(t) \in 1 .. Len(t) /\ Len(s) \in Nat /\ Len(t) \in Nat
    BY <1>1, HeaderType, LenProperties
<1>3. HeaderIn(t) <= Len(s) /\ \A i \in 1 .. HeaderIn(t) : s[i] = t[i]
    BY <1>1, <1>2
<1>4. SameHead(s, t)
    BY <1>1, <1>3, HeadKept
<1>5. HeaderIn(s) = HeaderIn(t) /\ HeaderIn(s) \in 1 .. Len(s) /\ HeaderIn(s) <= Len(t)
    BY <1>1, <1>2, <1>4 DEF SameHead
<1>6. s[HeaderIn(s)].by <= n
    BY <1>1, <1>5
<1>7. HeaderIn(s) # 0
    BY <1>2, <1>5
<1>. QED  BY <1>4, <1>6, <1>7 DEF SameHead

\* A write-down puts the first header last, after the record in order.
LEMMA HeadWritten ==
    ASSUME NEW s \in Seq(Item), HeaderIn(s) = 0, NEW t \in Seq(Item), NEW H, NEW w, WrittenDown(t, s, H, w)
    PROVE  HeaderIn(t) # 0 /\ DownAs(t, H) /\ t[HeaderIn(t)].by = w
<1>1. PICK m \in Seq(Item) :
          /\ InOrder(m, H)
          /\ Len(t) = Len(m) + 1 /\ t[Len(t)].kind = "header" /\ t[Len(t)].by = w
          /\ \A i \in 1 .. Len(m) : t[i] = m[i]
          /\ \A i \in 1 .. Len(m) : m[i].kind = "header" => i \in 1 .. Len(s) /\ s[i].kind = "header"
    BY DEF WrittenDown
<1>2. Len(m) \in Nat /\ Len(t) \in Nat
    BY LenProperties
<1>3. \A i \in 1 .. Len(m) : t[i].kind # "header"
    BY <1>1, HeaderType
<1>4. HeaderIn(t) # 0
    <2>1. Len(t) \in 1 .. Len(t)
        BY <1>1, <1>2
    <2>. QED  BY <1>1, <2>1, HeaderType
<1>5. HeaderIn(t) \in 1 .. Len(t) /\ t[HeaderIn(t)].kind = "header"
    BY <1>4, HeaderType
<1>6. HeaderIn(t) = Len(t)
    BY <1>1, <1>2, <1>3, <1>5
<1>7. SubSeq(t, 1, Len(t) - 1) = m
    <2>1. Len(t) - 1 = Len(m) /\ Len(m) \in 0 .. Len(t)
        BY <1>1, <1>2
    <2>2. \A i \in 1 .. Len(m) : t[i] \in Item
        BY <1>2, <2>1, ElementOfSeq
    <2>3. /\ SubSeq(t, 1, Len(m)) \in Seq(Item) /\ Len(SubSeq(t, 1, Len(m))) = Len(m)
          /\ \A i \in 1 .. Len(m) : SubSeq(t, 1, Len(m))[i] = t[i]
        BY <1>2, <2>1, <2>2, SubSeqProperties
    <2>4. SubSeq(t, 1, Len(m)) = m
        BY <1>1, <2>3, SeqEqual
    <2>. QED  BY <2>1, <2>4
<1>. QED  BY <1>1, <1>4, <1>6, <1>7 DEF DownAs

-----------------------------------------------------------------------------
(* The write-down stays where it was made, action by action.               *)

\* What a step must show of a branch's header: another's, or its own, whose
\* record was the same when it was written; or a write-down of the record.
LEMMA DownStep ==
    ASSUME IInv, DownInv, GoneBy',
           \A b \in Branches : HeaderIn(log'[b]) # 0 =>
               \/ \E c \in Branches, n \in Nat :
                    /\ HeaderIn(log[c]) # 0 /\ SameHead(log'[b], log[c])
                    /\ n = log[c][HeaderIn(log[c])].by /\ HeldAt(b, n)' = HeldAt(c, n)
               \/ \E n \in Nat : n = log'[b][HeaderIn(log'[b])].by /\ DownAs(log'[b], HeldAt(b, n)')
    PROVE  DownInv'
<1>1. ASSUME NEW b \in Branches, HeaderIn(log'[b]) # 0
      PROVE  DownAs(log[b], HeldAt(b, log[b][HeaderIn(log[b])].by))'
    <2>1. PICK n \in Nat : n = log'[b][HeaderIn(log'[b])].by /\ DownAs(log'[b], HeldAt(b, n)')
        <3>1. CASE \E n \in Nat : n = log'[b][HeaderIn(log'[b])].by /\ DownAs(log'[b], HeldAt(b, n)')
            BY <3>1
        <3>2. CASE \E c \in Branches, n \in Nat :
                     /\ HeaderIn(log[c]) # 0 /\ SameHead(log'[b], log[c])
                     /\ n = log[c][HeaderIn(log[c])].by /\ HeldAt(b, n)' = HeldAt(c, n)
            <4>1. PICK c \in Branches, n \in Nat :
                     /\ HeaderIn(log[c]) # 0 /\ SameHead(log'[b], log[c])
                     /\ n = log[c][HeaderIn(log[c])].by /\ HeldAt(b, n)' = HeldAt(c, n)
                BY <3>2
            <4>2. DownAs(log[c], HeldAt(c, n))
                BY <4>1 DEF DownInv
            <4>3. n = log'[b][HeaderIn(log'[b])].by
                BY <4>1 DEF SameHead
            <4>4. DownAs(log'[b], HeldAt(b, n)')
                BY <4>1, <4>2 DEF SameHead, DownAs
            <4>. QED  BY <4>3, <4>4
        <3>. QED  BY <1>1, <3>1, <3>2
    <2>2. HeldAt(b, n)' = HeldAt(b, log[b][HeaderIn(log[b])].by)'
        BY <2>1 DEF HeldAt
    <2>. QED  BY <2>1, <2>2
<1>. QED  BY <1>1 DEF DownInv

\* The header of a branch is of a record the store holds.
LEMMA HeaderStamp ==
    ASSUME IInv, NEW b \in Branches, HeaderIn(log[b]) # 0
    PROVE  log[b][HeaderIn(log[b])].by \in 1 .. seq
<1>1. log[b] \in Seq(Item)
    BY DEF IInv, IndexType
<1>2. HeaderIn(log[b]) \in 1 .. Len(log[b])
    BY <1>1, HeaderType
<1>. QED  BY <1>2 DEF IInv, Coherent, History, Stamped, Logs

\* A step that stores no row and writes only after a header, if at all.
LEMMA KeepsDown ==
    ASSUME IInv, DownInv, IInv', GoneBy', Removes, NEW b \in Branches, NEW w, NEW W,
           log' = log \/ WritesTo(b, w, W), log' # log => HeaderIn(log[b]) # 0
    PROVE  DownInv'
<1>1. ASSUME NEW c \in Branches, HeaderIn(log'[c]) # 0
      PROVE  HeaderIn(log[c]) # 0 /\ SameHead(log'[c], log[c])
    <2>1. CASE log'[c] = log[c]
        BY <1>1, <2>1 DEF SameHead
    <2>2. CASE log'[c] # log[c]
        <3>1. PICK t : log' = [log EXCEPT ![b] = t] /\ Makes(t, log[b], w, W)
            BY <2>2 DEF WritesTo
        <3>2. c = b /\ log'[c] = t /\ log[b] \in Seq(Item) /\ HeaderIn(log[b]) # 0
            BY <2>2, <3>1 DEF IInv, IndexType
        <3>3. t \in Seq(Item) /\ Extends(t, log[b], w)
            BY <3>1 DEF Makes
        <3>. QED  BY <3>2, <3>3, HeadExtended
    <2>. QED  BY <2>1, <2>2
<1>2. ASSUME NEW c \in Branches, HeaderIn(log'[c]) # 0
      PROVE  \E d \in Branches, n \in Nat :
                 /\ HeaderIn(log[d]) # 0 /\ SameHead(log'[c], log[d])
                 /\ n = log[d][HeaderIn(log[d])].by /\ HeldAt(c, n)' = HeldAt(d, n)
    <2>1. PICK n : n = log[c][HeaderIn(log[c])].by
        OBVIOUS
    <2>2. HeaderIn(log[c]) # 0 /\ SameHead(log'[c], log[c]) /\ n \in 1 .. seq
        BY <1>1, <1>2, <2>1, HeaderStamp
    <2>3. seq \in Nat /\ n \in 0 .. seq /\ n \in Nat
        BY <2>2 DEF IInv, RecordType
    <2>4. HeldAt(c, n)' = HeldAt(c, n)
        BY <2>3, RemovesHeld DEF DownInv
    <2>. QED  BY <2>1, <2>2, <2>3, <2>4
<1>. QED  BY <1>2, DownStep

\* A step that leaves a branch a log written down as it holds the record.
LEMMA WritesDown ==
    ASSUME IInv, DownInv, IInv', UNCHANGED <<body, rows, gone>>, seq < seq', NEW b \in Branches,
           HeaderIn(log[b]) = 0, NEW m \in Seq(Item), WrittenDown(m, log[b], Held(b), seq + 1),
           SameHead(log'[b], m), \A c \in Branches \ {b} : log'[c] = log[c]
    PROVE  DownInv'
<1>1. /\ seq \in Nat /\ seq' \in Nat /\ log[b] \in Seq(Item)
      /\ gone \in [Branches -> SUBSET [row : Nat, at : Nat]]
    BY DEF IInv, RecordType, IndexType
<1>2. Removes /\ GoneBy'
    BY <1>1, SameGone DEF DownInv
<1>3. PICK n \in Nat : n = seq + 1
    BY <1>1
<1>4. HeldAt(b, n)' = Held(b)
    <2>1. HeldAt(b, n)' = Held(b)'
        BY <1>1, <1>2, <1>3, RemovesHeld DEF DownInv
    <2>. QED  BY <2>1 DEF Held
<1>5. HeaderIn(m) # 0 /\ DownAs(m, Held(b)) /\ m[HeaderIn(m)].by = n
    BY <1>1, <1>3, HeadWritten
<1>6. n = log'[b][HeaderIn(log'[b])].by /\ DownAs(log'[b], HeldAt(b, n)')
    BY <1>4, <1>5 DEF SameHead, DownAs
<1>7. ASSUME NEW c \in Branches \ {b}, HeaderIn(log'[c]) # 0
      PROVE  \E d \in Branches, k \in Nat :
                 /\ HeaderIn(log[d]) # 0 /\ SameHead(log'[c], log[d])
                 /\ k = log[d][HeaderIn(log[d])].by /\ HeldAt(c, k)' = HeldAt(d, k)
    <2>1. PICK k : k = log[c][HeaderIn(log[c])].by
        OBVIOUS
    <2>2. HeaderIn(log[c]) # 0 /\ SameHead(log'[c], log[c])
        BY <1>7 DEF SameHead
    <2>3. k \in 0 .. seq /\ k \in Nat
        BY <1>1, <2>1, <2>2, HeaderStamp
    <2>4. HeldAt(c, k)' = HeldAt(c, k)
        BY <1>2, <2>3, RemovesHeld DEF DownInv
    <2>. QED  BY <2>1, <2>2, <2>3, <2>4
<1>8. ASSUME NEW c \in Branches, HeaderIn(log'[c]) # 0
      PROVE  \/ \E d \in Branches, k \in Nat :
                  /\ HeaderIn(log[d]) # 0 /\ SameHead(log'[c], log[d])
                  /\ k = log[d][HeaderIn(log[d])].by /\ HeldAt(c, k)' = HeldAt(d, k)
             \/ \E k \in Nat : k = log'[c][HeaderIn(log'[c])].by /\ DownAs(log'[c], HeldAt(c, k)')
    BY <1>6, <1>7, <1>8
<1>. QED  BY <1>2, <1>8, DownStep

\* No header where the index is neither in effect nor another's.
LEMMA NoHeader ==
    ASSUME NEW s, ~InEffect(s), ~Foreign(s)
    PROVE  HeaderIn(s) = 0
BY DEF InEffect

\* The write-down puts its header after the record.
LEMMA WriteDownDown ==
    ASSUME IInv, DownInv, IInv', NEW h \in Handles, NEW o \in Outcomes, WriteDown(h, o)
    PROVE  DownInv'
<1>1. PICK b \in Branches : b = cur[h]
    BY Facts
<1>2. /\ seq \in Nat /\ Current(h).items = log[b] /\ log[b] \in Seq(Item)
      /\ log \in [Branches -> Seq(Item)] /\ log' \in [Branches -> Seq(Item)]
      /\ gone \in [Branches -> SUBSET [row : Nat, at : Nat]]
    BY <1>1, Facts DEF IInv, IndexType, RecordType
<1>3. HeaderIn(log[b]) = 0 /\ UNCHANGED <<body, rows, gone>>
    BY <1>2, NoHeader DEF WriteDown
<1>4. log' = log \/ DownTo(b, seq + 1, Held(b))
    BY <1>1, WriteDownLog
<1>5. CASE log' = log
    <2>1. seq' \in Nat /\ seq <= seq'
        BY <1>2 DEF WriteDown
    <2>2. Removes /\ GoneBy'
        BY <1>2, <1>3, <2>1, SameGone DEF DownInv
    <2>. QED  BY <1>5, <2>2, KeepsDown
<1>6. CASE log' # log
    <2>1. seq < seq'
        <3>1. o \in Landings
            BY <1>6 DEF WriteDown, Write
        <3>2. seq' = seq + 1
            BY <3>1 DEF WriteDown
        <3>. QED  BY <1>2, <3>2
    <2>2. PICK t : log' = [log EXCEPT ![b] = t] /\ WrittenDown(t, log[b], Held(b), seq + 1)
        BY <1>4, <1>6 DEF DownTo
    <2>3. log'[b] = t /\ t \in Seq(Item) /\ \A c \in Branches \ {b} : log'[c] = log[c]
        BY <1>2, <2>2
    <2>4. SameHead(log'[b], t)
        BY <2>3 DEF SameHead
    <2>. QED  BY <1>3, <2>1, <2>2, <2>3, <2>4, WritesDown
<1>. QED  BY <1>5, <1>6

\* So does the one retractRows makes in legacy mode, whether its tombstones land or not.
LEMMA RetractFirstDown ==
    ASSUME IInv, DownInv, IInv', NEW h \in Handles, NEW id \in Held(cur[h]), NEW kind \in {"retract", "undo"},
           NEW o \in Outcomes, RetractFirst(h, id, kind, o)
    PROVE  DownInv'
<1>1. PICK b \in Branches : b = cur[h]
    BY Facts
<1>2. /\ seq \in Nat /\ Current(h).items = log[b] /\ log[b] \in Seq(Item)
      /\ log \in [Branches -> Seq(Item)]
    BY <1>1, Facts DEF IInv, IndexType
<1>3. HeaderIn(log[b]) = 0 /\ UNCHANGED <<body, rows, gone>>
    BY <1>2, NoHeader DEF RetractFirst
<1>4. PICK m : /\ Makes(m, log[b], seq + 1, Held(b))
               /\ WrittenDown(m, log[b], Held(b), seq + 1)
               /\ \/ log' = [log EXCEPT ![b] = m] /\ seq' = seq + 1
                  \/ \E t : /\ log' = [log EXCEPT ![b] = t] /\ seq' = seq + 2
                            /\ Makes(t, m, seq + 2, Held(b) \ Rest(b, id))
    <2>1. \E m : /\ Makes(m, log[cur[h]], seq + 1, Held(cur[h]))
                 /\ WrittenDown(m, log[cur[h]], Held(cur[h]), seq + 1)
                 /\ \/ log' = [log EXCEPT ![cur[h]] = m] /\ seq' = seq + 1
                    \/ \E t : /\ log' = [log EXCEPT ![cur[h]] = t] /\ seq' = seq + 2
                              /\ Makes(t, m, seq + 2, Held(cur[h]) \ Rest(cur[h], id))
        BY RetractFirstLog
    <2>. QED  BY <1>1, <2>1
<1>5. m \in Seq(Item) /\ HeaderIn(m) # 0
    <2>1. m \in Seq(Item)
        BY <1>4 DEF Makes
    <2>. QED  BY <1>2, <1>3, <1>4, <2>1, HeadWritten
<1>6. SameHead(log'[b], m) /\ seq < seq' /\ \A c \in Branches \ {b} : log'[c] = log[c]
    <2>1. CASE log' = [log EXCEPT ![b] = m] /\ seq' = seq + 1
        <3>1. log'[b] = m /\ seq < seq' /\ \A c \in Branches \ {b} : log'[c] = log[c]
            BY <1>2, <2>1
        <3>2. SameHead(log'[b], m)
            BY <3>1 DEF SameHead
        <3>. QED  BY <3>1, <3>2
    <2>2. CASE \E t : /\ log' = [log EXCEPT ![b] = t] /\ seq' = seq + 2
                      /\ Makes(t, m, seq + 2, Held(b) \ Rest(b, id))
        <3>1. PICK t : /\ log' = [log EXCEPT ![b] = t] /\ seq' = seq + 2
                       /\ Makes(t, m, seq + 2, Held(b) \ Rest(b, id))
            BY <2>2
        <3>2. t \in Seq(Item) /\ Extends(t, m, seq + 2)
            BY <3>1 DEF Makes
        <3>3. SameHead(t, m)
            BY <1>5, <3>2, HeadExtended
        <3>. QED  BY <1>2, <3>1, <3>3
    <2>. QED  BY <1>4, <2>1, <2>2
<1>. QED  BY <1>3, <1>4, <1>5, <1>6, WritesDown

\* A row added comes after every header.
LEMMA AddDown ==
    ASSUME IInv, DownInv, IInv', NEW h \in Handles, NEW k \in 1 .. 2, AddMessage(h, k)
    PROVE  DownInv'
<1>1. /\ seq \in Nat /\ seq' = seq + k /\ log' = log /\ gone' = gone
      /\ rows \in [Branches -> SUBSET (DOMAIN body)]
      /\ gone \in [Branches -> SUBSET [row : Nat, at : Nat]]
      /\ rows' = [rows EXCEPT ![cur[h]] = @ \cup (seq + 1 .. seq + k)]
    BY DEF IInv, RecordType, AddMessage
<1>2. GoneBy'
    <2>1. ASSUME NEW b \in Branches, NEW g \in gone'[b] PROVE g.at <= seq'
        <3>1. g.at <= seq /\ g.at \in Nat
            BY <1>1, <2>1 DEF DownInv, GoneBy
        <3>. QED  BY <1>1, <3>1
    <2>. QED  BY <2>1 DEF GoneBy
<1>3. ASSUME NEW b \in Branches, HeaderIn(log'[b]) # 0
      PROVE  \E c \in Branches, n \in Nat :
                 /\ HeaderIn(log[c]) # 0 /\ SameHead(log'[b], log[c])
                 /\ n = log[c][HeaderIn(log[c])].by /\ HeldAt(b, n)' = HeldAt(c, n)
    <2>1. PICK n : n = log[b][HeaderIn(log[b])].by
        OBVIOUS
    <2>2. HeaderIn(log[b]) # 0 /\ SameHead(log'[b], log[b]) /\ n \in 1 .. seq
        BY <1>1, <1>3, <2>1, HeaderStamp DEF SameHead
    <2>3. rows[b] \subseteq rows'[b] /\ rows'[b] \ rows[b] \subseteq seq + 1 .. seq + k /\ rows[b] \subseteq 1 .. seq
        BY <1>1, RowsFinite
    <2>4. {r \in rows'[b] : r <= n} = {r \in rows[b] : r <= n}
        BY <1>1, <2>2, <2>3
    <2>5. HeldAt(b, n)' = HeldAt(b, n)
        BY <1>1, <2>4 DEF HeldAt
    <2>6. n \in Nat
        BY <2>2
    <2>. QED  BY <2>1, <2>2, <2>5, <2>6
<1>. QED  BY <1>2, <1>3, DownStep

\* A branch takes the header with the record that wrote it, or neither.
LEMMA BranchDown ==
    ASSUME IInv, DownInv, IInv', NEW b \in Branches, NEW t \in 0 .. seq, NEW new, MakeBranch(b, t, new)
    PROVE  DownInv'
<1>1. /\ seq \in Nat /\ seq' = seq /\ new \in Branches
      /\ rows' = [rows EXCEPT ![new] = {r \in rows[b] : r <= t}]
      /\ gone' = [gone EXCEPT ![new] = {g \in gone[b] : g.at <= t}]
      /\ rows \in [Branches -> SUBSET (DOMAIN body)] /\ DOMAIN body \subseteq 1 .. seq
      /\ gone \in [Branches -> SUBSET [row : Nat, at : Nat]]
      /\ log[b] \in Seq(Item)
    BY DEF IInv, RecordType, IndexType, MakeBranch
<1>2. CutOf(log'[new], log[b], t) /\ \A c \in Branches \ {new} : log'[c] = log[c]
    BY MakeBranchCuts
<1>3. \A c \in Branches \ {new} : rows'[c] = rows[c] /\ gone'[c] = gone[c]
    BY <1>1
<1>4. rows'[new] = {r \in rows[b] : r <= t} /\ gone'[new] = {g \in gone[b] : g.at <= t}
    BY <1>1
<1>5. GoneBy'
    <2>1. \A c \in Branches : \A g \in gone'[c] : \E d \in Branches : g \in gone[d]
        BY <1>3, <1>4
    <2>. QED  BY <1>1, <2>1 DEF DownInv, GoneBy
<1>6. ASSUME NEW c \in Branches, HeaderIn(log'[c]) # 0
      PROVE  \E d \in Branches, n \in Nat :
                 /\ HeaderIn(log[d]) # 0 /\ SameHead(log'[c], log[d])
                 /\ n = log[d][HeaderIn(log[d])].by /\ HeldAt(c, n)' = HeldAt(d, n)
    <2>1. CASE c = new
        <3>1. PICK n : n = log[b][HeaderIn(log[b])].by
            OBVIOUS
        <3>2. HeaderIn(log[b]) # 0 /\ SameHead(log'[c], log[b]) /\ n <= t
            BY <1>1, <1>2, <1>6, <2>1, <3>1, HeadCut
        <3>3. n \in 1 .. seq /\ n \in Nat
            BY <3>1, <3>2, HeaderStamp
        <3>4. {r \in rows'[new] : r <= n} = {r \in rows[b] : r <= n}
            BY <1>1, <1>4, <3>2, <3>3
        <3>5. {g \in gone'[new] : g.at <= n} = {g \in gone[b] : g.at <= n}
            BY <1>1, <1>4, <3>2, <3>3
        <3>6. HeldAt(c, n)' = HeldAt(b, n)
            BY <2>1, <3>4, <3>5 DEF HeldAt
        <3>. QED  BY <3>1, <3>2, <3>3, <3>6
    <2>2. CASE c # new
        <3>1. PICK n : n = log[c][HeaderIn(log[c])].by
            OBVIOUS
        <3>2. HeaderIn(log[c]) # 0 /\ SameHead(log'[c], log[c])
            BY <1>2, <1>6, <2>2 DEF SameHead
        <3>3. n \in Nat
            BY <3>1, <3>2, HeaderStamp
        <3>4. HeldAt(c, n)' = HeldAt(c, n)
            BY <1>3, <2>2 DEF HeldAt
        <3>. QED  BY <3>1, <3>2, <3>3, <3>4
    <2>. QED  BY <2>1, <2>2
<1>. QED  BY <1>5, <1>6, DownStep

\* What a crash leaves of a header, it leaves of the record that wrote it.
LEMMA RestartDown ==
    ASSUME IInv, DownInv, IInv', NEW t \in Nat, Restart(t)
    PROVE  DownInv'
<1>1. /\ seq \in Nat /\ seq' = t /\ t <= seq
      /\ rows' = [b \in Branches |-> {r \in rows[b] : r <= t}]
      /\ gone' = [b \in Branches |-> {g \in gone[b] : g.at <= t}]
      /\ rows \in [Branches -> SUBSET (DOMAIN body)] /\ DOMAIN body \subseteq 1 .. seq
      /\ gone \in [Branches -> SUBSET [row : Nat, at : Nat]]
    BY DEF IInv, RecordType, Restart
<1>2. GoneBy'
    BY <1>1 DEF GoneBy
<1>3. ASSUME NEW c \in Branches, HeaderIn(log'[c]) # 0
      PROVE  \E d \in Branches, n \in Nat :
                 /\ HeaderIn(log[d]) # 0 /\ SameHead(log'[c], log[d])
                 /\ n = log[d][HeaderIn(log[d])].by /\ HeldAt(c, n)' = HeldAt(d, n)
    <2>1. PICK n : n = log[c][HeaderIn(log[c])].by
        OBVIOUS
    <2>2. log[c] \in Seq(Item) /\ t \in Int /\ CutOf(log'[c], log[c], t)
        BY RestartCuts DEF IInv, IndexType
    <2>3. HeaderIn(log[c]) # 0 /\ SameHead(log'[c], log[c]) /\ n <= t
        BY <1>3, <2>1, <2>2, HeadCut
    <2>4. n \in 1 .. seq /\ n \in Nat
        BY <2>1, <2>3, HeaderStamp
    <2>5. {r \in rows'[c] : r <= n} = {r \in rows[c] : r <= n}
        BY <1>1, <2>3, <2>4
    <2>6. {g \in gone'[c] : g.at <= n} = {g \in gone[c] : g.at <= n}
        BY <1>1, <2>3, <2>4
    <2>7. HeldAt(c, n)' = HeldAt(c, n)
        BY <2>5, <2>6 DEF HeldAt
    <2>. QED  BY <2>1, <2>3, <2>4, <2>7
<1>. QED  BY <1>2, <1>3, DownStep

\* Every step keeps the write-downs.
LEMMA NextDown ==
    ASSUME IInv, DownInv, IInv', [Next]_vars
    PROVE  DownInv'
<1>0. seq \in Nat /\ seq' \in Nat /\ gone \in [Branches -> SUBSET [row : Nat, at : Nat]]
    BY DEF IInv, RecordType
\* A step that stores no row, and writes behind a header or nothing.
<1>1. ASSUME NEW h \in Handles, GoneBy', Removes, NEW w, NEW W, log' = log \/ WritesTo(cur[h], w, W),
             log' # log => InEffect(log[cur[h]])
      PROVE  DownInv'
    <2>1. PICK b \in Branches : b = cur[h]
        BY Facts
    <2>2. log' # log => HeaderIn(log[b]) # 0
        BY <1>1, <2>1 DEF InEffect
    <2>. QED  BY <1>1, <2>1, <2>2, KeepsDown
<1>2. CASE UNCHANGED vars
    BY <1>2 DEF DownInv, GoneBy, HeldAt, vars, store
<1>3. ASSUME NEW h \in Handles, NEW n \in 1 .. 2, AddMessage(h, n) PROVE DownInv'
    BY <1>3, AddDown
<1>4. ASSUME NEW h \in Handles, NEW o \in Outcomes, NEW r \in Held(cur[h]), RemoveMessage(h, r, o) PROVE DownInv'
    <2>1. PICK b \in Branches : b = cur[h]
        BY Facts
    <2>2. /\ gone' = [gone EXCEPT ![b] = @ \cup {[row |-> r, at |-> seq + 1]}]
          /\ seq' \in Nat /\ seq < seq' /\ GoneBy /\ UNCHANGED <<body, rows>>
        BY <1>0, <1>4, <2>1 DEF DownInv, RemoveMessage
    <2>3. GoneBy' /\ Removes
        BY <2>2, GoneNow
    <2>4. log' = log \/ WritesTo(cur[h], seq + 2, WindowOf(log[cur[h]]) \ {r})
        BY <1>4, RemoveMessageLog
    <2>5. log' # log => InEffect(log[cur[h]])
        BY <1>4, Facts DEF RemoveMessage
    <2>. QED  BY <1>1, <2>3, <2>4, <2>5
<1>5. ASSUME NEW h \in Handles, NEW o \in Outcomes, WriteDown(h, o) PROVE DownInv'
    BY <1>5, WriteDownDown
<1>6. ASSUME UNCHANGED <<body, rows, gone>>, seq <= seq' PROVE GoneBy' /\ Removes
    BY <1>0, <1>6, SameGone DEF DownInv
<1>7. ASSUME NEW h \in Handles, NEW o \in Outcomes, NEW names \in Calls(cur[h]), PresentRows(h, names, o)
      PROVE  DownInv'
    <2>1. GoneBy' /\ Removes /\ InEffect(log[cur[h]])
        BY <1>0, <1>6, <1>7, Facts DEF PresentRows
    <2>2. log' = log \/ WritesTo(cur[h], seq + 1, WindowOf(log[cur[h]]) \cup NamedRows(cur[h], names))
        BY <1>7, PresentRowsLog
    <2>. QED  BY <1>1, <2>1, <2>2
<1>8. ASSUME NEW h \in Handles, NEW o \in Outcomes, NEW names \in Calls(cur[h]),
             NEW kind \in {"retract", "undo"}, RetractRows(h, names, kind, o)
      PROVE  DownInv'
    <2>1. GoneBy' /\ Removes /\ InEffect(log[cur[h]])
        BY <1>0, <1>6, <1>8, Facts DEF RetractRows, WriteLeaving
    <2>2. log' = log \/ WritesTo(cur[h], seq + 1, WindowOf(log[cur[h]]) \ NamedRows(cur[h], names))
        BY <1>8, RetractRowsLog
    <2>. QED  BY <1>1, <2>1, <2>2
<1>9. ASSUME NEW h \in Handles, NEW o \in Outcomes, NEW id \in Held(cur[h]),
             NEW kind \in {"retract", "undo"}, RetractFirst(h, id, kind, o)
      PROVE  DownInv'
    BY <1>9, RetractFirstDown
<1>10. ASSUME NEW h \in Handles, NEW o \in Outcomes, NEW absent \in SUBSET AbsentRows(h), RetractGone(h, absent, o)
       PROVE  DownInv'
    <2>1. GoneBy' /\ Removes /\ InEffect(log[cur[h]])
        BY <1>0, <1>6, <1>10, Facts DEF RetractGone, WriteLeaving
    <2>2. log' = log \/ WritesTo(cur[h], seq + 1, WindowOf(log[cur[h]]) \ absent)
        BY <1>10, RetractGoneLog
    <2>. QED  BY <1>1, <2>1, <2>2
<1>11. ASSUME NEW h \in Handles, NEW r \in Held(cur[h]), RemoveUnread(h, r) \/ RemoveElsewhere(h, r)
       PROVE  DownInv'
    <2>1. PICK b \in Branches : b = cur[h]
        BY Facts
    <2>2. /\ gone' = [gone EXCEPT ![b] = @ \cup {[row |-> r, at |-> seq + 1]}]
          /\ seq' \in Nat /\ seq < seq' /\ GoneBy /\ UNCHANGED <<body, rows>> /\ log' = log
        BY <1>0, <1>11, <2>1 DEF DownInv, RemoveUnread, RemoveElsewhere
    <2>3. GoneBy' /\ Removes
        BY <2>2, GoneNow
    <2>. QED  BY <1>1, <2>2, <2>3
<1>12. ASSUME NEW h \in Handles,
              \/ SettleOnly(h) \/ Select(h)
              \/ \E b \in Branches : SettleMoved(h, b) \/ SwitchBranch(h, b)
       PROVE  DownInv'
    <2>1. UNCHANGED <<seq, body, rows, gone, log>>
        BY <1>12 DEF SettleOnly, Select, SettleMoved, SwitchBranch, store
    <2>2. GoneBy' /\ Removes
        BY <1>0, <1>6, <2>1
    <2>. QED  BY <1>1, <2>1, <2>2
<1>13. ASSUME NEW h \in Handles, NEW new \in Branches,
              \/ Fork(h, new)
              \/ \E r \in Held(cur[h]) : BranchAt(h, r, new)
              \/ \E g \in Handles : Derive(h, g, new)
       PROVE  DownInv'
    <2>1. PICK t \in 0 .. seq : MakeBranch(cur[h], t, new)
        BY <1>13, BranchSteps
    <2>2. cur[h] \in Branches
        BY Facts
    <2>. QED  BY <2>1, <2>2, BranchDown
<1>14. ASSUME NEW t \in Len(Bodies0) .. MaxSeq, Restart(t) PROVE DownInv'
    <2>1. t \in Nat
        BY BodyAssumption, BoundAssumption, LenProperties
    <2>. QED  BY <1>14, <2>1, RestartDown
<1>. QED  BY <1>2, <1>3, <1>4, <1>5, <1>7, <1>8, <1>9, <1>10, <1>11, <1>12, <1>13, <1>14 DEF Next

\* A log the store starts with that has a header was written down: its window
\* there is the rows stored at the start, in record order.
StartsWrittenDown == \A s \in Logs0 : HeaderIn(s) # 0 => DownAs(s, 1 .. Len(Bodies0))

\* The store starts with its write-downs.
LEMMA InitDown ==
    ASSUME Init, StartsWrittenDown
    PROVE  DownInv
<1> DEFINE n0 == Len(Bodies0)
<1>1. PICK s \in Logs0 : log = [b \in Branches |-> IF b = Main THEN s ELSE <<>>]
    BY DEF Init
<1>2. /\ gone = [b \in Branches |-> {}]
      /\ rows = [b \in Branches |-> IF b = Main THEN 1 .. n0 ELSE {}]
    BY DEF Init
<1>3. /\ s \in Seq(Item) /\ n0 \in Nat /\ <<>> \in Seq(Item) /\ Len(<<>>) = 0
      /\ \A i \in 1 .. Len(s) : n0 < s[i].by
    BY LogAssumption, BodyAssumption, LenProperties, EmptySeq
<1>4. GoneBy
    BY <1>2 DEF GoneBy
<1>5. ASSUME NEW b \in Branches, HeaderIn(log[b]) # 0
      PROVE  DownAs(log[b], HeldAt(b, log[b][HeaderIn(log[b])].by))
    <2>1. b = Main /\ log[b] = s
        <3>1. HeaderIn(<<>>) = 0
            BY <1>3 DEF HeaderIn
        <3>. QED  BY <1>1, <1>5, <3>1
    <2>2. HeaderIn(s) \in 1 .. Len(s) /\ HeaderIn(s) # 0
        BY <1>3, <1>5, <2>1, HeaderType
    <2>3. PICK n : n = s[HeaderIn(s)].by
        OBVIOUS
    <2>4. n0 < n /\ n \in Nat
        <3>1. s[HeaderIn(s)] \in Item
            BY <1>3, <2>2, ElementOfSeq
        <3>. QED  BY <1>3, <2>2, <2>3, <3>1 DEF Item
    <2>5. rows[b] = 1 .. n0 /\ gone[b] = {}
        BY <1>2, <2>1
    <2>6. HeldAt(b, n) = 1 .. n0
        BY <1>3, <2>4, <2>5 DEF HeldAt
    <2>. QED  BY <2>1, <2>2, <2>3, <2>6 DEF StartsWrittenDown
<1>. QED  BY <1>4, <1>5 DEF DownInv

\* The write-down changes no window: whatever handle made it, whatever an
\* earlier one cut short had left, and on whatever branch or after whatever
\* crash it is read, the rows before the header are the record's as it stood
\* when the header was written, in record order.
THEOREM WriteDownIsTheRecord ==
    ASSUME StartsWrittenDown
    PROVE  Spec => []WriteDownIsRecord
<1>1. Init => IInv /\ DownInv
    BY InitInv, InitDown
<1>2. IInv /\ DownInv /\ [Next]_vars => (IInv /\ DownInv)'
    BY NextInv, NextDown
<1>3. ASSUME IInv, DownInv PROVE WriteDownIsRecord
    <2>1. live \subseteq Branches
        BY <1>3 DEF IInv, RecordType
    <2>2. ASSUME NEW b \in live, HeaderIn(log[b]) # 0
          PROVE  LET s == log[b]
                     k == HeaderIn(s)
                     before == SubSeq(s, 1, k - 1)
                 IN /\ WindowOf(before) = HeldAt(b, s[k].by)
                    /\ \A x, y \in WindowOf(before) : x < y => OrdinalIn(before, x) < OrdinalIn(before, y)
        <3>1. PICK before : before = SubSeq(log[b], 1, HeaderIn(log[b]) - 1)
            OBVIOUS
        <3>2. PICK H : H = HeldAt(b, log[b][HeaderIn(log[b])].by)
            OBVIOUS
        <3>3. InOrder(before, H)
            BY <1>3, <2>1, <2>2, <3>1, <3>2 DEF DownInv, DownAs
        <3>4. \A x : x \in WindowOf(before) <=> x \in H
            BY <3>3, InWindowIn DEF InOrder
        <3>5. WindowOf(before) = H
            BY <3>4
        <3>6. \A x, y \in WindowOf(before) : x < y => OrdinalIn(before, x) < OrdinalIn(before, y)
            BY <3>3, <3>5 DEF InOrder
        <3>. QED  BY <3>1, <3>2, <3>5, <3>6
    <2>. QED  BY <2>2 DEF WriteDownIsRecord
<1>. QED  BY <1>1, <1>2, <1>3, PTL DEF Spec

-----------------------------------------------------------------------------
(* The strategy hears what the window came to hold.                        *)

\* What handle h's strategy will have been told of branch b once the writes
\* that wait there are settled.
SettledOn(h, b) ==
    (belief[b] \ UNION {LeftOf(u, log[b]) : u \in waiting[h][b]})
      \cup UNION {EnteredOf(u, log[b]) : u \in waiting[h][b]}

\* What a write that waits has to tell, it put there; and a row it took out
\* that stands again is one it put in.
WaitsOn(h, b) ==
    /\ b \notin live => waiting[h][b] = {}
    /\ \A u \in waiting[h][b] :
         /\ \A x \in LeftOf(u, log[b]) : u.landed /\ (InWindow(log[b], x) => x \in EnteredOf(u, log[b]))
         /\ \A x \in EnteredOf(u, log[b]) : u.landed

ToldOf(h, b) ==
    InEffect(log[b]) /\ ~lost[b] => \A x \in Held(b) : x \in SettledOn(h, b) <=> InWindow(log[b], x)

HearInv(h) ==
    /\ Main \in live /\ cur[h] \in live
    /\ \A b \in Branches : belief[b] \subseteq 0 .. seq
    /\ \A b \in Branches : WaitsOn(h, b)
    /\ \A b \in live : ToldOf(h, b)

\* A branch a step leaves alone.
SameOn(h, b) ==
    /\ UNCHANGED <<log[b], belief[b], waiting[h][b], lost[b], rows[b], gone[b]>>
    /\ b \in live' <=> b \in live

\* What holds of it goes on holding.
LEMMA StaysTold ==
    ASSUME NEW h, NEW b, SameOn(h, b), WaitsOn(h, b), b \in live => ToldOf(h, b)
    PROVE  WaitsOn(h, b)' /\ (b \in live' => ToldOf(h, b)')
<1>1. /\ log'[b] = log[b] /\ belief'[b] = belief[b] /\ waiting'[h][b] = waiting[h][b] /\ lost'[b] = lost[b]
      /\ rows'[b] = rows[b] /\ gone'[b] = gone[b] /\ (b \in live' <=> b \in live)
    BY DEF SameOn
<1>2. Held(b)' = Held(b)
    BY <1>1 DEF Held
<1>3. WaitsOn(h, b)'
    BY <1>1 DEF WaitsOn
<1>4. SettledOn(h, b)' = SettledOn(h, b)
    BY <1>1 DEF SettledOn
<1>5. ToldOf(h, b) => ToldOf(h, b)'
    BY <1>1, <1>2, <1>4 DEF ToldOf
<1>. QED  BY <1>1, <1>3, <1>5

\* A step on the handle's own branch.
LEMMA OneBranch ==
    ASSUME NEW h, HearInv(h), seq \in Nat, seq' \in Nat, seq <= seq', NEW b \in Branches,
           live' = live, live \subseteq Branches, cur'[h] \in live',
           \A c \in Branches \ {b} : SameOn(h, c),
           belief'[b] \subseteq 0 .. seq', WaitsOn(h, b)', b \in live => ToldOf(h, b)'
    PROVE  HearInv(h)'
<1>1. ASSUME NEW c \in Branches \ {b} PROVE WaitsOn(h, c)' /\ (c \in live' => ToldOf(h, c)') /\ belief'[c] \subseteq 0 .. seq'
    <2>1. WaitsOn(h, c) /\ (c \in live => ToldOf(h, c)) /\ belief[c] \subseteq 0 .. seq
        BY DEF HearInv
    <2>2. SameOn(h, c)
        OBVIOUS
    <2>3. WaitsOn(h, c)' /\ (c \in live' => ToldOf(h, c)')
        BY <2>1, <2>2, StaysTold
    <2>4. belief'[c] = belief[c]
        BY <2>2 DEF SameOn
    <2>5. 0 .. seq \subseteq 0 .. seq'
        OBVIOUS
    <2>. QED  BY <2>1, <2>3, <2>4, <2>5
<1>2. \A c \in Branches : WaitsOn(h, c)'
    BY <1>1
<1>3. \A c \in Branches : belief'[c] \subseteq 0 .. seq'
    BY <1>1
<1>4. \A c \in live' : ToldOf(h, c)'
    BY <1>1
<1>5. Main \in live' /\ cur'[h] \in live'
    BY DEF HearInv
<1>. QED  BY <1>2, <1>3, <1>4, <1>5 DEF HearInv

\* Write u makes the log s into t: the rows it takes out, each with the
\* ordinal it had, and those it puts in, at ordinals of their own.
Leavers(u) == {y.id : y \in u.leaving}
Moves(s, t, u) ==
    /\ \A x : InWindow(t, x) <=> (InWindow(s, x) /\ x \notin Leavers(u)) \/ x \in u.entering
    /\ \A y \in u.leaving : InWindow(s, y.id) /\ y.ordinal = OrdinalIn(s, y.id)
    /\ \A x \in u.entering : InWindow(s, x) => [id |-> x, ordinal |-> OrdinalIn(s, x)] \in u.leaving
    /\ \A y \in u.leaving : y.id \in u.entering => OrdinalIn(t, y.id) # y.ordinal

\* A write that landed has all of that to tell, one that did not nothing.
LEMMA TellsMoves ==
    ASSUME NEW s, NEW t, NEW u, Moves(s, t, u)
    PROVE  /\ EnteredOf(u, s) = {} /\ LeftOf(u, s) = {}
           /\ EnteredOf(u, t) = u.entering /\ LeftOf(u, t) = Leavers(u)
<1> USE DEF Moves
<1>1. EnteredOf(u, t) = u.entering
    <2>1. ASSUME NEW x \in u.entering PROVE InWindow(t, x) /\ [id |-> x, ordinal |-> OrdinalIn(t, x)] \notin u.leaving
        <3>1. InWindow(t, x)
            OBVIOUS
        <3>2. SUFFICES ASSUME [id |-> x, ordinal |-> OrdinalIn(t, x)] \in u.leaving PROVE FALSE
            BY <3>1
        <3> DEFINE y == [id |-> x, ordinal |-> OrdinalIn(t, x)]
        <3>3. y \in u.leaving /\ y.id = x /\ y.ordinal = OrdinalIn(t, x)
            BY <3>2
        <3> HIDE DEF y
        <3>. QED  BY <3>3
    <2>. QED  BY <2>1 DEF EnteredOf
<1>2. LeftOf(u, t) = Leavers(u)
    <2>1. ASSUME NEW y \in u.leaving PROVE ~(InWindow(t, y.id) /\ OrdinalIn(t, y.id) = y.ordinal)
        BY DEF Leavers
    <2>2. {y \in u.leaving : ~(InWindow(t, y.id) /\ OrdinalIn(t, y.id) = y.ordinal)} = u.leaving
        BY <2>1
    <2>. QED  BY <2>2 DEF LeftOf, Leavers
<1>3. EnteredOf(u, s) = {}
    BY DEF EnteredOf
<1>4. LeftOf(u, s) = {}
    <2>1. {y \in u.leaving : ~(InWindow(s, y.id) /\ OrdinalIn(s, y.id) = y.ordinal)} = {}
        OBVIOUS
    <2>. QED  BY <2>1 DEF LeftOf
<1>. QED  BY <1>1, <1>2, <1>3, <1>4

\* A write is told of as Tell has it: s the log before it, t with it, and S
\* what was told of s.
Tells(h, b, S, u, s, t, o) ==
    /\ log' = [log EXCEPT ![b] = IF o \in Landings THEN t ELSE s]
    /\ belief' = [belief EXCEPT ![b] =
          IF o = "ok" THEN (S \ Leavers(u)) \cup u.entering
          ELSE IF o \in Unread THEN S
          ELSE Hear(S, u, IF o \in Landings THEN t ELSE s)]
    /\ waiting' = [waiting EXCEPT ![h][b] = IF o \in Unread \ Blind THEN {u} ELSE {}]
    /\ lost' = [lost EXCEPT ![b] = @ \/ o \in Blind]
    /\ UNCHANGED <<rows, gone, live, cur>>

\* A write on branch b leaves the others alone.
LEMMA OtherBranches ==
    ASSUME IInv, NEW h \in Handles, NEW b \in Branches,
           \/ log' = log \/ \E x : log' = [log EXCEPT ![b] = x],
           \/ belief' = belief \/ \E x : belief' = [belief EXCEPT ![b] = x],
           \/ waiting' = waiting \/ \E x : waiting' = [waiting EXCEPT ![h][b] = x],
           \/ lost' = lost \/ \E x : lost' = [lost EXCEPT ![b] = x],
           \/ rows' = rows \/ \E x : rows' = [rows EXCEPT ![b] = x],
           \/ gone' = gone \/ \E x : gone' = [gone EXCEPT ![b] = x],
           live' = live
    PROVE  \A c \in Branches \ {b} : SameOn(h, c)
<1>1. /\ log \in [Branches -> Seq(Item)] /\ belief \in [Branches -> SUBSET Nat] /\ lost \in [Branches -> BOOLEAN]
      /\ rows \in [Branches -> SUBSET (DOMAIN body)] /\ gone \in [Branches -> SUBSET [row : Nat, at : Nat]]
      /\ waiting \in [Handles -> [Branches -> SUBSET Settlement]]
    BY DEF IInv, RecordType, IndexType, ToldType
<1>2. TAKE c \in Branches \ {b}
<1>3. log'[c] = log[c]
    BY <1>1
<1>4. belief'[c] = belief[c]
    BY <1>1
<1>5. lost'[c] = lost[c]
    BY <1>1
<1>6. rows'[c] = rows[c] /\ gone'[c] = gone[c]
    BY <1>1
<1>7. waiting'[h][c] = waiting[h][c]
    <2>1. CASE waiting' = waiting
        BY <2>1
    <2>2. CASE \E x : waiting' = [waiting EXCEPT ![h][b] = x]
        BY <1>1, <2>2
    <2>. QED  BY <2>1, <2>2
<1>. QED  BY <1>3, <1>4, <1>5, <1>6, <1>7 DEF SameOn

\* The write a call tells of, whatever became of it.
LEMMA TellStep ==
    ASSUME IInv, NEW h \in Handles, HearInv(h), NEW b \in Branches, b = cur[h], seq' \in Nat, seq <= seq',
           NEW S, S \subseteq 0 .. seq, NEW s, NEW t, NEW u, NEW o \in Outcomes,
           u.entering \subseteq 0 .. seq, u.landed <=> o \in Landings, Tells(h, b, S, u, s, t, o),
           ~lost[b] => \A x \in Held(b) : x \in S <=> InWindow(s, x),
           Moves(s, t, u)
    PROVE  HearInv(h)'
<1> DEFINE told == ~lost[b]
           e == IF o \in Landings THEN t ELSE s
<1>1. /\ seq \in Nat /\ log \in [Branches -> Seq(Item)] /\ belief \in [Branches -> SUBSET Nat]
      /\ lost \in [Branches -> BOOLEAN] /\ waiting \in [Handles -> [Branches -> SUBSET Settlement]]
      /\ live \subseteq Branches
    BY DEF IInv, RecordType, IndexType, ToldType
<1>2. /\ log'[b] = e
      /\ belief'[b] = IF o = "ok" THEN (S \ Leavers(u)) \cup u.entering ELSE IF o \in Unread THEN S ELSE Hear(S, u, e)
      /\ waiting'[h][b] = IF o \in Unread \ Blind THEN {u} ELSE {}
      /\ lost'[b] <=> (lost[b] \/ o \in Blind)
      /\ live' = live /\ cur' = cur /\ rows' = rows /\ gone' = gone
    BY <1>1 DEF Tells
<1>3. /\ told => \A x \in Held(b) : x \in (S \ Leavers(u)) \cup u.entering <=> InWindow(t, x)
      /\ told => \A x \in Held(b) : x \in Hear(S, u, t) <=> InWindow(t, x)
      /\ told => \A x \in Held(b) : x \in Hear(S, u, s) <=> InWindow(s, x)
      /\ EnteredOf(u, s) = {} /\ LeftOf(u, s) = {}
      /\ EnteredOf(u, t) = u.entering
      /\ \A x \in LeftOf(u, t) : InWindow(t, x) => x \in EnteredOf(u, t)
    <2>1. /\ EnteredOf(u, s) = {} /\ LeftOf(u, s) = {}
          /\ EnteredOf(u, t) = u.entering /\ LeftOf(u, t) = Leavers(u)
        BY TellsMoves
    <2>2. Hear(S, u, s) = S /\ Hear(S, u, t) = (S \ Leavers(u)) \cup u.entering
        BY <2>1 DEF Hear
    <2>3. \A x : InWindow(t, x) <=> (InWindow(s, x) /\ x \notin Leavers(u)) \/ x \in u.entering
        BY DEF Moves
    <2>. QED  BY <2>1, <2>2, <2>3
<1>4. \A c \in Branches \ {b} : SameOn(h, c)
    <2>1. /\ \E x : log' = [log EXCEPT ![b] = x]
          /\ \E x : belief' = [belief EXCEPT ![b] = x]
          /\ \E x : waiting' = [waiting EXCEPT ![h][b] = x]
          /\ \E x : lost' = [lost EXCEPT ![b] = x]
        BY Zenon DEF Tells
    <2>. QED  BY <1>2, <2>1, OtherBranches
<1>5. belief'[b] \subseteq 0 .. seq'
    <2>1. EnteredOf(u, s) \subseteq 0 .. seq /\ EnteredOf(u, t) \subseteq 0 .. seq
        BY <1>3
    <2>2. Hear(S, u, e) \subseteq 0 .. seq
        BY <2>1 DEF Hear
    <2>3. belief'[b] \subseteq 0 .. seq
        <3> HIDE DEF e
        <3>. QED  BY <1>2, <2>2
    <2>. QED  BY <1>1, <2>3
<1>6. Held(b)' = Held(b)
    BY <1>2 DEF Held
<1>7. WaitsOn(h, b)'
    <2>1. b \in live'
        BY <1>2 DEF HearInv
    <2>2. CASE waiting'[h][b] = {}
        BY <2>1, <2>2 DEF WaitsOn
    <2>3. CASE waiting'[h][b] = {u}
        <3>1. /\ \A x \in LeftOf(u, e) : u.landed /\ (InWindow(e, x) => x \in EnteredOf(u, e))
              /\ \A x \in EnteredOf(u, e) : u.landed
            BY <1>3
        <3> HIDE DEF e
        <3>. QED  BY <1>2, <2>1, <2>3, <3>1 DEF WaitsOn
    <2>. QED  BY <1>2, <2>2, <2>3
<1>8. ToldOf(h, b)'
    <2>1. SUFFICES ASSUME ~lost'[b], NEW x \in Held(b) PROVE x \in SettledOn(h, b)' <=> InWindow(e, x)
        BY <1>2, <1>6 DEF ToldOf
    <2>2. told /\ o \notin Blind
        BY <1>2, <2>1
    <2>3. CASE o = "ok"
        <3>1. o \in Landings /\ o \notin Unread
            BY <2>3 DEF Landings, Unread
        <3>2. SettledOn(h, b)' = (S \ Leavers(u)) \cup u.entering
            BY <1>2, <2>3, <3>1 DEF SettledOn
        <3>. QED  BY <1>3, <2>2, <3>1, <3>2
    <2>4. CASE o \in Unread
        <3>1. o # "ok" /\ o \in Unread \ Blind
            BY <2>2, <2>4 DEF Unread
        <3>2. SettledOn(h, b)' = Hear(S, u, e)
            <4>1. belief'[b] = S /\ waiting'[h][b] = {u}
                BY <1>2, <3>1
            <4> HIDE DEF e
            <4>. QED  BY <1>2, <4>1 DEF SettledOn, Hear
        <3>. QED  BY <1>3, <2>2, <3>2
    <2>5. CASE o # "ok" /\ o \notin Unread
        <3>1. SettledOn(h, b)' = Hear(S, u, e)
            <4>1. belief'[b] = Hear(S, u, e) /\ waiting'[h][b] = {}
                BY <1>2, <2>5
            <4> HIDE DEF e
            <4>. QED  BY <4>1 DEF SettledOn
        <3>. QED  BY <1>3, <2>2, <3>1
    <2>. QED  BY <2>3, <2>4, <2>5
<1>9. cur'[h] \in live'
    BY <1>2 DEF HearInv
<1>. QED  BY <1>1, <1>2, <1>4, <1>5, <1>7, <1>8, <1>9, OneBranch

\* What is due on the handle's branch, settled.
LEMMA SettledIs ==
    ASSUME IInv, WholeInv, NEW h \in Handles, HearInv(h), NEW b \in Branches, b = cur[h]
    PROVE  /\ b \in live /\ Settled(h) = SettledOn(h, b) /\ Settled(h) \subseteq 0 .. seq
           /\ InEffect(log[b]) /\ ~lost[b] => \A x \in Held(b) : x \in Settled(h) <=> InWindow(log[b], x)
           /\ \A u : EnteredOf(u, log[b]) \subseteq 0 .. seq
<1>1. Current(h).items = log[b]
    BY Facts
<1>2. Settled(h) = SettledOn(h, b)
    BY <1>1 DEF Settled, SettledOn, Due
<1>3. b \in live /\ belief[b] \subseteq 0 .. seq /\ ToldOf(h, b)
    BY DEF HearInv
<1>4. ASSUME NEW u PROVE EnteredOf(u, log[b]) \subseteq 0 .. seq
    <2>1. \A x : InWindow(log[b], x) => x \in 0 .. seq
        BY SoundNow
    <2>. QED  BY <2>1 DEF EnteredOf
<1>5. SettledOn(h, b) \subseteq 0 .. seq
    BY <1>3, <1>4 DEF SettledOn
<1>. QED  BY <1>2, <1>3, <1>4, <1>5 DEF ToldOf

\* Write and Tell, as TellStep takes them.
LEMMA TellTells ==
    ASSUME IInv, NEW h \in Handles, NEW b \in Branches, b = cur[h], NEW u, NEW batch, NEW o,
           Write(h, batch, o), Tell(h, u, batch, o), UNCHANGED <<rows, gone, live, cur>>
    PROVE  Tells(h, b, Settled(h), u, log[b], log[b] \o batch, o)
<1>1. log \in [Branches -> Seq(Item)]
    BY DEF IInv, IndexType
<1>2. log' = [log EXCEPT ![b] = IF o \in Landings THEN log[b] \o batch ELSE log[b]]
    BY <1>1 DEF Write
<1>3. belief' = [belief EXCEPT ![b] =
          IF o = "ok" THEN (Settled(h) \ Leavers(u)) \cup u.entering
          ELSE IF o \in Unread THEN Settled(h)
          ELSE Hear(Settled(h), u, IF o \in Landings THEN log[b] \o batch ELSE log[b])]
    BY DEF Tell, Leavers
<1>4. /\ waiting' = [waiting EXCEPT ![h][b] = IF o \in Unread \ Blind THEN {u} ELSE {}]
      /\ lost' = [lost EXCEPT ![b] = @ \/ o \in Blind]
    BY DEF Tell
<1>. QED  BY <1>2, <1>3, <1>4 DEF Tells

\* Rows of S that stand in s leave: what a settlement of them records.
LEMMA LeftLeave ==
    ASSUME NEW s, NEW S
    PROVE  /\ \A x : x \in {y.id : y \in LeftRows(s, S)} <=> x \in S /\ InWindow(s, x)
           /\ \A y \in LeftRows(s, S) : y.id \in S /\ InWindow(s, y.id) /\ y.ordinal = OrdinalIn(s, y.id)
           /\ \A x \in S : InWindow(s, x) => [id |-> x, ordinal |-> OrdinalIn(s, x)] \in LeftRows(s, S)
<1>1. \A x \in S : InWindow(s, x) => [id |-> x, ordinal |-> OrdinalIn(s, x)] \in LeftRows(s, S)
    BY DEF LeftRows
<1>2. ASSUME NEW y \in LeftRows(s, S) PROVE y.id \in S /\ InWindow(s, y.id) /\ y.ordinal = OrdinalIn(s, y.id)
    <2>1. PICK x \in S : InWindow(s, x) /\ y = [id |-> x, ordinal |-> OrdinalIn(s, x)]
        BY DEF LeftRows
    <2>. QED  BY <2>1
<1>3. ASSUME NEW x \in S, InWindow(s, x) PROVE x \in {y.id : y \in LeftRows(s, S)}
    <2> DEFINE y == [id |-> x, ordinal |-> OrdinalIn(s, x)]
    <2>1. y \in LeftRows(s, S) /\ y.id = x
        BY <1>1, <1>3
    <2> HIDE DEF y
    <2>. QED  BY <2>1
<1>4. ASSUME NEW x, x \in {y.id : y \in LeftRows(s, S)} PROVE x \in S /\ InWindow(s, x)
    BY <1>2, <1>4
<1>. QED  BY <1>1, <1>2, <1>3, <1>4

\* Rows that leave the log, and none that enter.
LEMMA LeavingMoves ==
    ASSUME NEW s, NEW t, NEW S, NEW landed, \A x : InWindow(t, x) <=> InWindow(s, x) /\ x \notin S
    PROVE  Moves(s, t, [entering |-> {}, leaving |-> LeftRows(s, S), landed |-> landed])
<1> DEFINE u == [entering |-> {}, leaving |-> LeftRows(s, S), landed |-> landed]
<1>1. u.entering = {} /\ u.leaving = LeftRows(s, S)
    OBVIOUS
<1> HIDE DEF u
<1>2. \A x : x \in Leavers(u) <=> x \in S /\ InWindow(s, x)
    BY <1>1, LeftLeave DEF Leavers
<1>3. \A y \in u.leaving : InWindow(s, y.id) /\ y.ordinal = OrdinalIn(s, y.id)
    BY <1>1, LeftLeave
<1>4. Moves(s, t, u)
    BY <1>1, <1>2, <1>3 DEF Moves
<1>. QED  BY <1>4 DEF u

\* Tombstones leave of the window what they don't name.
LEMMA LeavingWindow ==
    ASSUME NEW s \in Seq(Item), NEW leaving \in SUBSET Nat, IsFiniteSet(leaving), NEW w \in Nat,
           NEW kind \in {"retract", "undo"}, NEW off \in Ascending(leaving)
    PROVE  \A x : InWindow(s \o ItemsOf(kind, off, w), x) <=> InWindow(s, x) /\ x \notin leaving
<1> DEFINE t == s \o ItemsOf(kind, off, w)
<1>1. Written(t, s, ItemsOf(kind, off, w))
    BY DEF Written
<1> HIDE DEF t
<1>2. \A x : InWindow(t, x) <=> InWindow(s, x) /\ x \notin leaving
    BY <1>1, LeavingMakes
<1>. QED  BY <1>2 DEF t

\* Tombstones, told of.
LEMMA WriteLeavingTold ==
    ASSUME IInv, WholeInv, IInv', NEW h \in Handles, HearInv(h), InEffect(log[cur[h]]),
           NEW kind \in {"retract", "undo"}, NEW leaving \in SUBSET Nat,
           IsFiniteSet(leaving), NEW o \in Outcomes, WriteLeaving(h, kind, leaving, o)
    PROVE  HearInv(h)'
<1>1. PICK b \in Branches : b = cur[h]
    BY Facts
<1>2. /\ seq \in Nat /\ seq + 1 \in Nat /\ seq' \in Nat /\ seq <= seq'
      /\ log[b] \in Seq(Item) /\ Current(h).items = log[b]
      /\ UNCHANGED <<rows, gone, live, cur>>
    <2>1. seq \in Nat
        BY Facts
    <2>. QED  BY <1>1, <2>1, Facts DEF WriteLeaving
<1> DEFINE s == log[b]
           u == [entering |-> {}, leaving |-> LeftRows(s, leaving), landed |-> o \in Landings]
<1>3. PICK off \in Ascending(leaving) :
          Write(h, ItemsOf(kind, off, seq + 1), o) /\ Tell(h, u, ItemsOf(kind, off, seq + 1), o)
    BY <1>2 DEF WriteLeaving
<1> DEFINE batch == ItemsOf(kind, off, seq + 1)
           t == s \o batch
<1>5. u.entering = {} /\ (u.landed <=> o \in Landings)
    OBVIOUS
<1>4. \A x : InWindow(t, x) <=> InWindow(s, x) /\ x \notin leaving
    <2> HIDE DEF u
    <2>. QED  BY <1>2, LeavingWindow
<1> HIDE DEF batch
<1>6. Moves(s, t, u)
    <2> HIDE DEF t
    <2>. QED  BY <1>4, LeavingMoves, Zenon
<1> HIDE DEF u
<1>7. Tells(h, b, Settled(h), u, s, t, o)
    BY <1>1, <1>2, <1>3, TellTells DEF batch
<1>8. /\ Settled(h) \subseteq 0 .. seq
      /\ ~lost[b] => \A x \in Held(b) : x \in Settled(h) <=> InWindow(s, x)
    BY <1>1, SettledIs
<1> HIDE DEF t, s
<1>9. u.entering \subseteq 0 .. seq
    BY <1>5
<1>. QED  BY <1>1, <1>2, <1>5, <1>6, <1>7, <1>8, <1>9, TellStep

\* presentRows: a shard that stood and one that didn't enter together.
LEMMA PresentRowsTold ==
    ASSUME IInv, WholeInv, IInv', NEW h \in Handles, HearInv(h), NEW names \in Calls(cur[h]),
           NEW o \in Outcomes, PresentRows(h, names, o)
    PROVE  HearInv(h)'
<1>1. PICK b \in Branches : b = cur[h]
    BY Facts
<1>2. /\ seq \in Nat /\ seq + 1 \in Nat /\ seq' \in Nat /\ seq <= seq'
      /\ log[b] \in Seq(Item) /\ Current(h).items = log[b]
      /\ UNCHANGED <<rows, gone, live, cur>>
    <2>1. seq \in Nat
        BY Facts
    <2>. QED  BY <1>1, <2>1, Facts DEF PresentRows
<1> DEFINE s == log[b]
           M == Moving(b, s, names)
           E == Entering(b, s, names)
           u == [entering |-> E, leaving |-> LeftRows(s, M), landed |-> o \in Landings]
<1>3. InEffect(s) /\ NamedApart(b, names)
    BY <1>1, <1>2 DEF PresentRows
<1>4. PICK outs \in Ascending(M), ins \in InCallOrder(b, names, E) :
          Write(h, PresentItems(outs, ins, seq + 1), o) /\ Tell(h, u, PresentItems(outs, ins, seq + 1), o)
    BY <1>1, <1>2 DEF PresentRows
<1> DEFINE batch == PresentItems(outs, ins, seq + 1)
           t == s \o batch
<1>5. /\ \A x : InWindow(t, x) <=> (InWindow(s, x) /\ x \notin M) \/ x \in E
      /\ \A x \in E : Len(s) < OrdinalIn(t, x)
      /\ E \subseteq 1 .. seq
    <2>1. Written(t, s, batch)
        BY DEF Written
    <2> HIDE DEF t
    <2>. QED  BY <1>1, <1>2, <1>3, <2>1, PresentMakes
<1>6. u.entering = E /\ u.leaving = LeftRows(s, M) /\ (u.landed <=> o \in Landings)
    OBVIOUS
<1>7. \A x \in M : InWindow(s, x)
    BY DEF Moving
<1>8. \A x \in E : x \in M \/ ~InWindow(s, x)
    BY DEF Entering
<1> HIDE DEF batch, u, M, E
<1>9. Moves(s, t, u)
    <2> HIDE DEF t
    <2>1. \A x : x \in Leavers(u) <=> x \in M
        BY <1>6, <1>7, LeftLeave DEF Leavers
    <2>2. \A y \in u.leaving : y.id \in M /\ InWindow(s, y.id) /\ y.ordinal = OrdinalIn(s, y.id)
        BY <1>6, LeftLeave
    <2>3. \A x \in u.entering : InWindow(s, x) => [id |-> x, ordinal |-> OrdinalIn(s, x)] \in u.leaving
        BY <1>6, <1>8, LeftLeave
    <2>4. ASSUME NEW y \in u.leaving, y.id \in u.entering PROVE OrdinalIn(t, y.id) # y.ordinal
        <3>1. y.ordinal = OrdinalIn(s, y.id) /\ OrdinalIn(s, y.id) \in 1 .. Len(s) /\ Len(s) \in Nat
            BY <1>2, <2>2, OrdinalStands, LenProperties
        <3>2. Len(s) < OrdinalIn(t, y.id)
            BY <1>5, <1>6, <2>4
        <3>. QED  BY <3>1, <3>2
    <2>. QED  BY <1>5, <1>6, <2>1, <2>2, <2>3, <2>4 DEF Moves
<1>10. Tells(h, b, Settled(h), u, s, t, o)
    BY <1>1, <1>2, <1>4, TellTells DEF batch
<1>11. /\ Settled(h) \subseteq 0 .. seq
       /\ ~lost[b] => \A x \in Held(b) : x \in Settled(h) <=> InWindow(s, x)
    BY <1>1, <1>3, SettledIs
<1>12. u.entering \subseteq 0 .. seq
    BY <1>2, <1>5, <1>6
<1> HIDE DEF t, s
<1>. QED  BY <1>1, <1>2, <1>6, <1>9, <1>10, <1>11, <1>12, TellStep

\* What retractRows in legacy mode leaves, of the items it chose.
FirstTold(h, b, s, leaving, outs, ins, off, kind, o) ==
    LET down == WriteDownItems(outs, ins, seq + 1)
        now == s \o down
        off1 == ItemsOf(kind, off, seq + 2)
        end == IF o \in Landings THEN log[b] \o down \o off1 ELSE log[b] \o down
        u == [entering |-> {}, leaving |-> LeftRows(now, leaving), landed |-> o \in Landings]
    IN /\ log' = [log EXCEPT ![b] = end]
       /\ belief' = [belief EXCEPT ![b] =
            IF o = "ok" THEN Held(b) \ leaving
            ELSE IF o \in Unread THEN Held(b)
            ELSE Hear(Held(b), u, end)]
       /\ waiting' = [waiting EXCEPT ![h][b] = IF o \in Unread \ Blind THEN {u} ELSE {}]
       /\ lost' = [lost EXCEPT ![b] = @ \/ o \in Blind]

\* The write-down is told as the record, and the tombstones on top of it.
LEMMA RetractFirstTold ==
    ASSUME IInv, WholeInv, IInv', NEW h \in Handles, HearInv(h), NEW id \in Held(cur[h]),
           NEW kind \in {"retract", "undo"}, NEW o \in Outcomes, RetractFirst(h, id, kind, o)
    PROVE  HearInv(h)'
<1>1. PICK b \in Branches : b = cur[h]
    BY Facts
<1>2. /\ seq \in Nat /\ seq + 1 \in Nat /\ seq + 2 \in Nat /\ seq' \in Nat /\ seq <= seq'
      /\ log[b] \in Seq(Item) /\ Current(h).items = log[b] /\ Held(b) \subseteq 0 .. seq
      /\ UNCHANGED <<rows, gone, live, cur>>
    <2>1. seq \in Nat
        BY Facts
    <2>2. Held(b) \subseteq 0 .. seq
        BY <1>1, StoredRows
    <2>. QED  BY <1>1, <2>1, <2>2, Facts DEF RetractFirst
<1> DEFINE leaving == Rest(b, id)
<1>3. leaving \in SUBSET Nat /\ IsFiniteSet(leaving)
    BY <1>1, <1>2, RowsFinite DEF Held
<1>4. PICK outs \in Ascending(WriteDownOuts(b, log[b])), ins \in Ascending(WriteDownIns(b, log[b])),
           off \in Ascending(leaving) :
         FirstTold(h, b, log[b], leaving, outs, ins, off, kind, o)
    <2>1. PICK outs \in Ascending(WriteDownOuts(cur[h], Current(h).items)),
               ins \in Ascending(WriteDownIns(cur[h], Current(h).items)),
               off \in Ascending(Rest(cur[h], id)) :
            LET down == WriteDownItems(outs, ins, seq + 1)
                now == Current(h).items \o down
                off1 == ItemsOf(kind, off, seq + 2)
                end == IF o \in Landings THEN log[cur[h]] \o down \o off1 ELSE log[cur[h]] \o down
                u == [entering |-> {}, leaving |-> LeftRows(now, Rest(cur[h], id)), landed |-> o \in Landings]
            IN /\ log' = [log EXCEPT ![cur[h]] = end]
               /\ reading' = [reading EXCEPT ![h] =
                    IF o = "ok" THEN [rev |-> Revision(end), items |-> now \o off1]
                    ELSE IF o \in Unread THEN NoReading
                    ELSE [rev |-> Revision(end), items |-> end]]
               /\ o \in Blind => \A c \in Branches : waiting[h][c] = {}
               /\ belief' = [belief EXCEPT ![cur[h]] =
                    IF o = "ok" THEN Held(cur[h]) \ Rest(cur[h], id)
                    ELSE IF o \in Unread THEN Held(cur[h])
                    ELSE Hear(Held(cur[h]), u, end)]
               /\ waiting' = [waiting EXCEPT ![h][cur[h]] = IF o \in Unread \ Blind THEN {u} ELSE {}]
               /\ lost' = [lost EXCEPT ![cur[h]] = @ \/ o \in Blind]
        <3> HIDE DEF leaving
        <3>. QED  BY Zenon DEF RetractFirst
    <2>2. FirstTold(h, cur[h], Current(h).items, Rest(cur[h], id), outs, ins, off, kind, o)
        BY <2>1, Zenon DEF FirstTold
    <2> HIDE DEF FirstTold
    <2>3. FirstTold(h, b, log[b], leaving, outs, ins, off, kind, o)
        BY <1>1, <1>2, <2>2
    <2>. QED  BY <1>1, <1>2, <2>3
<1> HIDE DEF leaving
<1> DEFINE down == WriteDownItems(outs, ins, seq + 1)
           s == log[b] \o down
           batch == ItemsOf(kind, off, seq + 2)
           t == s \o batch
           u == [entering |-> {}, leaving |-> LeftRows(s, leaving), landed |-> o \in Landings]
<1>5. s \in Seq(Item) /\ \A x : InWindow(s, x) <=> x \in Held(b)
    <2>1. Written(s, log[b], down)
        BY DEF Written
    <2> HIDE DEF s
    <2>. QED  BY <1>2, <2>1, WriteDownMakes
<1>6. \A x : InWindow(t, x) <=> InWindow(s, x) /\ x \notin leaving
    <2>1. Written(t, s, batch)
        BY DEF Written
    <2> HIDE DEF t, s
    <2>. QED  BY <1>2, <1>3, <1>5, <2>1, LeavingMakes
<1>7. u.entering = {} /\ u.leaving = LeftRows(s, leaving) /\ (u.landed <=> o \in Landings)
    OBVIOUS
<1>8. /\ log' = [log EXCEPT ![b] = IF o \in Landings THEN t ELSE s]
      /\ belief' = [belief EXCEPT ![b] =
            IF o = "ok" THEN Held(b) \ leaving
            ELSE IF o \in Unread THEN Held(b)
            ELSE Hear(Held(b), u, IF o \in Landings THEN t ELSE s)]
      /\ waiting' = [waiting EXCEPT ![h][b] = IF o \in Unread \ Blind THEN {u} ELSE {}]
      /\ lost' = [lost EXCEPT ![b] = @ \/ o \in Blind]
    <2> HIDE DEF u
    <2>1. log[b] \o down \o batch = t
        OBVIOUS
    <2>2. FirstTold(h, b, log[b], leaving, outs, ins, off, kind, o)
        BY <1>4
    <2>. QED  BY <2>2, Zenon DEF FirstTold, u
<1> HIDE DEF down, batch, t, s
<1>9. Moves(s, t, u)
    BY <1>6, LeavingMoves, Zenon
<1> HIDE DEF u
<1>10. Held(b) \ leaving = (Held(b) \ Leavers(u)) \cup u.entering
    <2>1. \A x : x \in Leavers(u) <=> x \in leaving /\ x \in Held(b)
        BY <1>5, <1>7, LeftLeave DEF Leavers
    <2>. QED  BY <1>7, <2>1
<1>11. Tells(h, b, Held(b), u, s, t, o)
    <2>1. belief' = [belief EXCEPT ![b] =
            IF o = "ok" THEN (Held(b) \ Leavers(u)) \cup u.entering
            ELSE IF o \in Unread THEN Held(b)
            ELSE Hear(Held(b), u, IF o \in Landings THEN t ELSE s)]
        BY <1>8, <1>10
    <2>. QED  BY <1>2, <1>8, <2>1 DEF Tells
<1>12. u.entering \subseteq 0 .. seq
    BY <1>7
<1>. QED  BY <1>1, <1>2, <1>5, <1>7, <1>9, <1>11, <1>12, TellStep

\* With nothing left to settle on a branch, what was told is what counts.
LEMMA NothingWaits ==
    ASSUME NEW h, NEW b, waiting[h][b] = {}
    PROVE  SettledOn(h, b) = belief[b] /\ WaitsOn(h, b)
BY DEF SettledOn, WaitsOn

\* A step after which nothing waits on the handle's branch.
LEMMA AllSettled ==
    ASSUME IInv, NEW h \in Handles, HearInv(h), NEW b \in Branches, b = cur[h], cur' = cur, live' = live,
           seq' \in Nat, seq <= seq', waiting'[h][b] = {}, belief'[b] \subseteq 0 .. seq',
           \A c \in Branches \ {b} : SameOn(h, c),
           InEffect(log'[b]) /\ ~lost'[b] =>
               \A x \in Held(b)' : x \in belief'[b] <=> InWindow(log'[b], x)
    PROVE  HearInv(h)'
<1>1. SettledOn(h, b)' = belief'[b] /\ WaitsOn(h, b)'
    BY NothingWaits DEF SettledOn, WaitsOn
<1>2. ToldOf(h, b)'
    BY <1>1 DEF ToldOf
<1>3. seq \in Nat /\ live \subseteq Branches /\ cur'[h] \in live'
    BY DEF IInv, RecordType, HearInv
<1>. QED  BY <1>1, <1>2, <1>3, OneBranch

\* The write-down, told as the record; refused, there is no window yet.
LEMMA WriteDownTold ==
    ASSUME IInv, WholeInv, IInv', NEW h \in Handles, HearInv(h), NEW o \in Outcomes, WriteDown(h, o)
    PROVE  HearInv(h)'
<1>1. PICK b \in Branches : b = cur[h]
    BY Facts
<1> DEFINE s == log[b]
<1>2. /\ seq \in Nat /\ seq + 1 \in Nat /\ seq' \in Nat /\ seq <= seq'
      /\ log \in [Branches -> Seq(Item)] /\ belief \in [Branches -> SUBSET Nat]
      /\ waiting \in [Handles -> [Branches -> SUBSET Settlement]]
      /\ Current(h).items = s /\ Held(b) \subseteq 0 .. seq
    <2>1. seq \in Nat /\ log \in [Branches -> Seq(Item)] /\ belief \in [Branches -> SUBSET Nat]
          /\ waiting \in [Handles -> [Branches -> SUBSET Settlement]]
        BY Facts DEF RecordType, IndexType, ToldType
    <2>2. Held(b) \subseteq 0 .. seq
        BY <1>1, StoredRows
    <2>. QED  BY <1>1, <2>1, <2>2, Facts DEF WriteDown
<1>3. /\ ~InEffect(s) /\ UNCHANGED <<rows, gone, live, cur, lost>>
      /\ belief' = [belief EXCEPT ![b] = IF o \in Landings THEN Held(b) ELSE Settled(h)]
      /\ waiting' = [waiting EXCEPT ![h][b] = {}]
    BY <1>1, <1>2 DEF WriteDown
<1>4. PICK outs \in Ascending(WriteDownOuts(b, s)), ins \in Ascending(WriteDownIns(b, s)) :
          Write(h, WriteDownItems(outs, ins, seq + 1), o)
    BY <1>1, <1>2 DEF WriteDown
<1> DEFINE batch == WriteDownItems(outs, ins, seq + 1)
           t == s \o batch
<1>5. log' = IF o \in Landings THEN [log EXCEPT ![b] = t] ELSE log
    BY <1>1, <1>2, <1>4 DEF Write
<1>6. \A x : InWindow(t, x) <=> x \in Held(b)
    <2>1. Written(t, s, batch)
        BY DEF Written
    <2> HIDE DEF t
    <2>. QED  BY <1>2, <2>1, WriteDownMakes
<1> HIDE DEF batch, t
<1>7. \A c \in Branches \ {b} : SameOn(h, c)
    <2>1. log' = log \/ \E x : log' = [log EXCEPT ![b] = x]
        BY <1>5
    <2>2. (\E x : belief' = [belief EXCEPT ![b] = x]) /\ \E x : waiting' = [waiting EXCEPT ![h][b] = x]
        BY <1>3
    <2>. QED  BY <1>3, <2>1, <2>2, OtherBranches
<1>8. Settled(h) \subseteq 0 .. seq
    BY <1>1, SettledIs
<1>9. belief'[b] \subseteq 0 .. seq' /\ waiting'[h][b] = {}
    <2>1. belief'[b] \subseteq 0 .. seq
        BY <1>2, <1>3, <1>8
    <2>. QED  BY <1>2, <1>3, <2>1
<1>10. Held(b)' = Held(b)
    BY <1>3 DEF Held
<1>11. ASSUME InEffect(log'[b]), NEW x \in Held(b)' PROVE x \in belief'[b] <=> InWindow(log'[b], x)
    <2>1. o \in Landings
        BY <1>3, <1>5, <1>11
    <2>2. log'[b] = t /\ belief'[b] = Held(b)
        BY <1>2, <1>3, <1>5, <2>1
    <2>. QED  BY <1>6, <1>10, <1>11, <2>2
<1>. QED  BY <1>1, <1>2, <1>3, <1>7, <1>9, <1>11, AllSettled

\* The rows of the call that the window holds leave it.
LEMMA RetractRowsTold ==
    ASSUME IInv, WholeInv, IInv', NEW h \in Handles, HearInv(h), NEW names \in Calls(cur[h]),
           NEW kind \in {"retract", "undo"}, NEW o \in Outcomes, RetractRows(h, names, kind, o)
    PROVE  HearInv(h)'
<1> DEFINE b == cur[h]
           s == log[b]
           leaving == {x \in NamedRows(b, names) : InWindow(s, x)}
<1>1. b \in Branches /\ s \in Seq(Item) /\ Current(h).items = s
    BY Facts
<1>2. \A x \in leaving : x \in WindowOf(s)
    BY InWindowIn
<1>3. leaving \in SUBSET Nat /\ IsFiniteSet(leaving)
    BY <1>1, <1>2, WindowFinite, FS_Subset
<1>4. WriteLeaving(h, kind, leaving, o) /\ InEffect(log[cur[h]])
    BY <1>1 DEF RetractRows
<1> HIDE DEF leaving
<1>. QED  BY <1>3, <1>4, WriteLeavingTold

\* Rows the record lacks leave the window.
LEMMA RetractGoneTold ==
    ASSUME IInv, WholeInv, IInv', NEW h \in Handles, HearInv(h), NEW absent \in SUBSET AbsentRows(h),
           NEW o \in Outcomes, RetractGone(h, absent, o)
    PROVE  HearInv(h)'
<1>1. log[cur[h]] \in Seq(Item) /\ Current(h).items = log[cur[h]]
    BY Facts
<1>2. absent \subseteq WindowOf(log[cur[h]])
    BY <1>1 DEF AbsentRows
<1>3. absent \in SUBSET Nat /\ IsFiniteSet(absent)
    BY <1>1, <1>2, WindowFinite, FS_Subset
<1>4. WriteLeaving(h, "retract", absent, o) /\ "retract" \in {"retract", "undo"} /\ InEffect(log[cur[h]])
    BY <1>1 DEF RetractGone
<1>. QED  BY <1>3, <1>4, WriteLeavingTold

\* A removal: the tombstone may fail, the row is no longer the record's.
LEMMA RemoveMessageTold ==
    ASSUME IInv, WholeInv, IInv', NEW h \in Handles, HearInv(h), NEW r \in Held(cur[h]), NEW o \in Outcomes,
           RemoveMessage(h, r, o)
    PROVE  HearInv(h)'
<1>1. PICK b \in Branches : b = cur[h]
    BY Facts
<1> DEFINE s == log[b]
           stood == InEffect(s) /\ InWindow(s, r)
<1>2. /\ seq \in Nat /\ seq' \in Nat /\ seq < seq' /\ seq <= seq'
      /\ log \in [Branches -> Seq(Item)] /\ belief \in [Branches -> SUBSET Nat]
      /\ waiting \in [Handles -> [Branches -> SUBSET Settlement]]
      /\ Current(h).items = s /\ GoneBy
    <2>1. seq \in Nat /\ log \in [Branches -> Seq(Item)] /\ belief \in [Branches -> SUBSET Nat]
          /\ waiting \in [Handles -> [Branches -> SUBSET Settlement]]
        BY Facts DEF RecordType, IndexType, ToldType
    <2>. QED  BY <1>1, <2>1, Facts DEF RemoveMessage, WholeInv
<1>3. /\ UNCHANGED <<body, rows, live, cur, lost>>
      /\ gone' = [gone EXCEPT ![b] = @ \cup {[row |-> r, at |-> seq + 1]}]
      /\ belief' = [belief EXCEPT ![b] = IF stood THEN Settled(h) \ {r} ELSE Settled(h)]
      /\ waiting' = [waiting EXCEPT ![h][b] = {}]
      /\ ~stood => log' = log
    BY <1>1, <1>2 DEF RemoveMessage
<1>4. log' = log \/ WritesTo(b, seq + 2, WindowOf(s) \ {r})
    BY <1>1, RemoveMessageLog
<1>5. Held(b)' = Held(b) \ {r}
    BY <1>2, <1>3, GoneNow
<1>6. \A c \in Branches \ {b} : SameOn(h, c)
    <2>1. log' = log \/ \E x : log' = [log EXCEPT ![b] = x]
        BY <1>4 DEF WritesTo
    <2>2. /\ \E x : belief' = [belief EXCEPT ![b] = x]
          /\ \E x : waiting' = [waiting EXCEPT ![h][b] = x]
          /\ \E x : gone' = [gone EXCEPT ![b] = x]
        BY <1>3
    <2>. QED  BY <1>3, <2>1, <2>2, OtherBranches
<1>7. /\ Settled(h) \subseteq 0 .. seq
      /\ InEffect(s) /\ ~lost[b] => \A x \in Held(b) : x \in Settled(h) <=> InWindow(s, x)
    BY <1>1, SettledIs
<1>8. belief'[b] = (IF stood THEN Settled(h) \ {r} ELSE Settled(h)) /\ waiting'[h][b] = {}
    BY <1>2, <1>3
<1>9. belief'[b] \subseteq 0 .. seq'
    <2>1. belief'[b] \subseteq 0 .. seq
        BY <1>7, <1>8
    <2>. QED  BY <1>2, <2>1
<1>10. ASSUME InEffect(log'[b]), ~lost'[b], NEW x \in Held(b)' PROVE x \in belief'[b] <=> InWindow(log'[b], x)
    <2>1. x \in Held(b) /\ x # r /\ ~lost[b]
        BY <1>3, <1>5, <1>10
    <2>2. InEffect(s)
        BY <1>3, <1>10
    <2>3. x \in belief'[b] <=> InWindow(s, x)
        BY <1>7, <1>8, <2>1, <2>2
    <2>4. InWindow(log'[b], x) <=> InWindow(s, x)
        <3>1. CASE log' = log
            BY <3>1
        <3>2. CASE WritesTo(b, seq + 2, WindowOf(s) \ {r})
            <4>1. PICK t : log' = [log EXCEPT ![b] = t] /\ Makes(t, s, seq + 2, WindowOf(s) \ {r})
                BY <3>2 DEF WritesTo
            <4>2. log'[b] = t
                BY <1>2, <4>1
            <4>3. InWindow(t, x) <=> x \in WindowOf(s) \ {r}
                BY <4>1 DEF Makes
            <4>. QED  BY <2>1, <4>2, <4>3, InWindowIn
        <3>. QED  BY <1>4, <3>1, <3>2
    <2>. QED  BY <2>3, <2>4
<1>. QED  BY <1>1, <1>2, <1>3, <1>6, <1>8, <1>9, <1>10, AllSettled

\* A removal that settles nothing: the row leaves the record, and what was
\* told of it is not counted.
LEMMA RemoveQuietTold ==
    ASSUME IInv, WholeInv, IInv', NEW h \in Handles, HearInv(h), NEW r \in Held(cur[h]),
           RemoveUnread(h, r) \/ RemoveElsewhere(h, r)
    PROVE  HearInv(h)'
<1>1. PICK b \in Branches : b = cur[h]
    BY Facts
<1>2. /\ seq \in Nat /\ seq' \in Nat /\ seq < seq' /\ seq <= seq'
      /\ belief \in [Branches -> SUBSET Nat] /\ GoneBy /\ live \subseteq Branches
      /\ UNCHANGED <<body, rows, log, live, cur, waiting, lost>>
      /\ gone' = [gone EXCEPT ![b] = @ \cup {[row |-> r, at |-> seq + 1]}]
      /\ belief' = belief \/ belief' = [belief EXCEPT ![b] = @ \ {r}]
    <2>1. seq \in Nat /\ belief \in [Branches -> SUBSET Nat] /\ live \subseteq Branches
        BY Facts DEF RecordType, ToldType
    <2>. QED  BY <1>1, <2>1 DEF RemoveUnread, RemoveElsewhere, handle, history, WholeInv
<1>3. Held(b)' = Held(b) \ {r}
    BY <1>2, GoneNow
<1>4. \A c \in Branches \ {b} : SameOn(h, c)
    <2>1. gone' = gone \/ \E x : gone' = [gone EXCEPT ![b] = x]
        BY <1>2
    <2>2. belief' = belief \/ \E x : belief' = [belief EXCEPT ![b] = x]
        BY <1>2
    <2>. QED  BY <1>2, <2>1, <2>2, OtherBranches
<1>5. b \in live /\ belief[b] \subseteq 0 .. seq /\ ToldOf(h, b) /\ WaitsOn(h, b)
    BY <1>1 DEF HearInv
<1>6. belief'[b] = belief[b] \/ belief'[b] = belief[b] \ {r}
    BY <1>2
<1>7. belief'[b] \subseteq 0 .. seq'
    <2>1. belief'[b] \subseteq 0 .. seq
        BY <1>5, <1>6
    <2>. QED  BY <1>2, <2>1
<1>8. WaitsOn(h, b)'
    BY <1>2, <1>5 DEF WaitsOn
<1>9. \A x : x # r => (x \in SettledOn(h, b)' <=> x \in SettledOn(h, b))
    BY <1>2, <1>6 DEF SettledOn
<1>10. ToldOf(h, b)'
    BY <1>2, <1>3, <1>5, <1>9 DEF ToldOf
<1>. QED  BY <1>1, <1>2, <1>4, <1>5, <1>7, <1>8, <1>10, OneBranch

\* New rows are neither in the window nor told of.
LEMMA AddMessageTold ==
    ASSUME IInv, WholeInv, IInv', NEW h \in Handles, HearInv(h), NEW k \in 1 .. 2, AddMessage(h, k)
    PROVE  HearInv(h)'
<1>1. PICK b \in Branches : b = cur[h]
    BY Facts
<1>2. /\ seq \in Nat /\ seq' = seq + k /\ seq' \in Nat /\ seq <= seq'
      /\ rows \in [Branches -> SUBSET (DOMAIN body)] /\ live \subseteq Branches
      /\ UNCHANGED <<gone, log, live, cur, waiting, belief, lost>>
      /\ rows' = [rows EXCEPT ![b] = @ \cup (seq + 1 .. seq + k)]
    <2>1. seq \in Nat /\ rows \in [Branches -> SUBSET (DOMAIN body)] /\ live \subseteq Branches
        BY Facts DEF RecordType
    <2>. QED  BY <1>1, <2>1 DEF AddMessage, handle, history
<1>3. \A c \in Branches \ {b} : SameOn(h, c)
    <2>1. \E x : rows' = [rows EXCEPT ![b] = x]
        BY <1>2
    <2>. QED  BY <1>2, <2>1, OtherBranches
<1>4. b \in live /\ belief[b] \subseteq 0 .. seq /\ ToldOf(h, b) /\ WaitsOn(h, b)
    BY <1>1 DEF HearInv
<1>5. WaitsOn(h, b)' /\ SettledOn(h, b)' = SettledOn(h, b)
    BY <1>2, <1>4 DEF WaitsOn, SettledOn
<1>6. \A x : InWindow(log[b], x) => x \in 0 .. seq
    BY SoundNow
<1>7. SettledOn(h, b) \subseteq 0 .. seq
    BY <1>4, <1>6 DEF SettledOn, EnteredOf
<1>8. \A x \in Held(b)' : x \in Held(b) \/ x \in seq + 1 .. seq + k
    BY <1>2 DEF Held
<1>9. \A x \in seq + 1 .. seq + k : x \notin 0 .. seq
    BY <1>2
<1>10. ToldOf(h, b)'
    BY <1>2, <1>4, <1>5, <1>6, <1>7, <1>8, <1>9 DEF ToldOf
<1>11. belief'[b] \subseteq 0 .. seq'
    BY <1>2, <1>4
<1>. QED  BY <1>1, <1>2, <1>3, <1>4, <1>5, <1>10, <1>11, OneBranch

\* A call that settles: the branch it leaves holds what it heard.
LEMMA SettleTold ==
    ASSUME IInv, WholeInv, IInv', NEW h \in Handles, HearInv(h),
           SettleOnly(h) \/ \E c \in Branches : SettleMoved(h, c)
    PROVE  HearInv(h)'
<1>1. PICK b \in Branches : b = cur[h]
    BY Facts
<1>2. /\ seq \in Nat /\ belief \in [Branches -> SUBSET Nat] /\ live \subseteq Branches
      /\ waiting \in [Handles -> [Branches -> SUBSET Settlement]]
    BY Facts DEF RecordType, ToldType
<1>3. /\ UNCHANGED <<seq, body, rows, gone, log, live, lost>>
      /\ belief' = [belief EXCEPT ![b] = Settled(h)]
      /\ waiting' = [waiting EXCEPT ![h][b] = {}]
    BY <1>1 DEF SettleOnly, SettleMoved, store
<1>4. cur'[h] \in live
    <2>1. cur[h] \in live /\ cur \in [Handles -> Branches]
        BY Facts DEF RecordType, IndexType, HearInv
    <2>2. CASE SettleOnly(h)
        BY <2>1, <2>2 DEF SettleOnly
    <2>3. CASE \E c \in Branches : SettleMoved(h, c)
        BY <2>1, <2>3 DEF SettleMoved
    <2>. QED  BY <2>2, <2>3
<1>5. \A c \in Branches \ {b} : SameOn(h, c)
    <2>1. (\E x : belief' = [belief EXCEPT ![b] = x]) /\ \E x : waiting' = [waiting EXCEPT ![h][b] = x]
        BY <1>3
    <2>. QED  BY <1>3, <2>1, OtherBranches
<1>6. /\ Settled(h) \subseteq 0 .. seq
      /\ InEffect(log[b]) /\ ~lost[b] => \A x \in Held(b) : x \in Settled(h) <=> InWindow(log[b], x)
    BY <1>1, SettledIs
<1>7. belief'[b] = Settled(h) /\ waiting'[h][b] = {}
    BY <1>2, <1>3
<1>8. SettledOn(h, b)' = Settled(h) /\ WaitsOn(h, b)'
    BY <1>7 DEF SettledOn, WaitsOn
<1>9. Held(b)' = Held(b)
    BY <1>3 DEF Held
<1>10. ToldOf(h, b)'
    BY <1>3, <1>6, <1>8, <1>9 DEF ToldOf
<1>11. seq' \in Nat /\ seq <= seq' /\ live' = live /\ belief'[b] \subseteq 0 .. seq'
    BY <1>2, <1>3, <1>6, <1>7
<1>. QED  BY <1>2, <1>4, <1>5, <1>8, <1>10, <1>11, OneBranch

\* A hearing made good: the window, and what waits adds and takes nothing.
LEMMA SelectTold ==
    ASSUME IInv, WholeInv, IInv', NEW h \in Handles, HearInv(h), Select(h)
    PROVE  HearInv(h)'
<1>1. PICK b \in Branches : b = cur[h]
    BY Facts
<1> DEFINE s == log[b]
<1>2. /\ seq \in Nat /\ belief \in [Branches -> SUBSET Nat] /\ lost \in [Branches -> BOOLEAN]
      /\ live \subseteq Branches /\ Current(h).items = s
    BY <1>1, Facts DEF RecordType, ToldType
<1>3. /\ UNCHANGED <<seq, body, rows, gone, log, live, cur, waiting>>
      /\ belief' = [belief EXCEPT ![b] = IF lost[b] THEN WindowOf(s) ELSE @]
      /\ lost' = [lost EXCEPT ![b] = FALSE]
    BY <1>1, <1>2 DEF Select, store
<1>4. \A c \in Branches \ {b} : SameOn(h, c)
    <2>1. (\E x : belief' = [belief EXCEPT ![b] = x]) /\ \E x : lost' = [lost EXCEPT ![b] = x]
        BY <1>3
    <2>. QED  BY <1>3, <2>1, OtherBranches
<1>5. b \in live /\ belief[b] \subseteq 0 .. seq /\ ToldOf(h, b) /\ WaitsOn(h, b)
    BY <1>1 DEF HearInv
<1>6. belief'[b] = (IF lost[b] THEN WindowOf(s) ELSE belief[b])
    BY <1>2, <1>3
<1>7. Held(b)' = Held(b) /\ WaitsOn(h, b)'
    BY <1>3, <1>5 DEF Held, WaitsOn
<1>8. \A x : x \in WindowOf(s) <=> InWindow(s, x)
    BY InWindowIn
<1>9. belief'[b] \subseteq 0 .. seq'
    <2>1. \A x : InWindow(s, x) => x \in 0 .. seq
        BY SoundNow
    <2>. QED  BY <1>3, <1>5, <1>6, <1>8, <2>1
<1>10. ToldOf(h, b)'
    <2>1. CASE lost[b]
        <3>1. SettledOn(h, b)' = (WindowOf(s) \ UNION {LeftOf(u, s) : u \in waiting[h][b]})
                                   \cup UNION {EnteredOf(u, s) : u \in waiting[h][b]}
            BY <1>3, <1>6, <2>1 DEF SettledOn
        <3>2. \A u \in waiting[h][b] : \A x \in LeftOf(u, s) : InWindow(s, x) => x \in EnteredOf(u, s)
            BY <1>5 DEF WaitsOn
        <3>3. \A u \in waiting[h][b] : \A x \in EnteredOf(u, s) : InWindow(s, x)
            BY DEF EnteredOf
        <3>4. \A x : x \in SettledOn(h, b)' <=> InWindow(s, x)
            BY <1>8, <3>1, <3>2, <3>3
        <3>. QED  BY <1>3, <3>4 DEF ToldOf
    <2>2. CASE ~lost[b]
        <3>1. SettledOn(h, b)' = SettledOn(h, b)
            BY <1>3, <1>6, <2>2 DEF SettledOn
        <3>. QED  BY <1>3, <1>5, <1>7, <2>2, <3>1 DEF ToldOf
    <2>. QED  BY <2>1, <2>2
<1>11. seq' \in Nat /\ seq <= seq' /\ cur'[h] \in live'
    BY <1>1, <1>2, <1>3, <1>5
<1>. QED  BY <1>2, <1>3, <1>4, <1>7, <1>9, <1>10, <1>11, OneBranch

\* A step that moves the handle, or nothing.
LEMMA StillTold ==
    ASSUME IInv, NEW h \in Handles, HearInv(h),
           UNCHANGED <<store, waiting, history>>, cur'[h] \in live
    PROVE  HearInv(h)'
<1>1. UNCHANGED <<seq, body, rows, gone, log, live, waiting, belief, lost>>
    BY DEF store, history
<1>2. live \subseteq Branches
    BY DEF IInv, RecordType
<1>3. \A c \in Branches : SameOn(h, c)
    BY <1>1 DEF SameOn
<1>4. \A c \in Branches : WaitsOn(h, c)' /\ (c \in live' => ToldOf(h, c)') /\ belief'[c] \subseteq 0 .. seq'
    BY <1>1, <1>3, StaysTold DEF HearInv
<1>. QED  BY <1>1, <1>2, <1>4 DEF HearInv

\* A branch cut now starts with the window it holds, and with nothing waiting.
LEMMA CutTold ==
    ASSUME NEW h, NEW b, log'[b] \in Seq(Item), waiting'[h][b] = {},
           belief'[b] = WindowOf(log'[b])
    PROVE  WaitsOn(h, b)' /\ ToldOf(h, b)'
<1>1. SettledOn(h, b)' = belief'[b] /\ WaitsOn(h, b)'
    BY DEF SettledOn, WaitsOn
<1>2. \A x : x \in WindowOf(log'[b]) <=> InWindow(log'[b], x)
    BY InWindowIn
<1>. QED  BY <1>1, <1>2 DEF ToldOf

\* A branch made: nothing waits on a name that was no branch.
LEMMA BranchTold ==
    ASSUME IInv, WholeInv, IInv', NEW h \in Handles, HearInv(h), NEW t \in 0 .. seq, NEW new \in Branches,
           MakeBranch(cur[h], t, new), waiting' = waiting, cur'[h] \in live'
    PROVE  HearInv(h)'
<1>1. PICK b \in Branches : b = cur[h]
    BY Facts
<1>2. /\ seq \in Nat /\ seq' = seq /\ new \notin live /\ live' = live \cup {new}
      /\ rows \in [Branches -> SUBSET (DOMAIN body)] /\ gone \in [Branches -> SUBSET [row : Nat, at : Nat]]
      /\ log \in [Branches -> Seq(Item)] /\ log' \in [Branches -> Seq(Item)]
      /\ belief \in [Branches -> SUBSET Nat] /\ lost \in [Branches -> BOOLEAN]
      /\ \E x : rows' = [rows EXCEPT ![new] = x]
      /\ \E x : gone' = [gone EXCEPT ![new] = x]
      /\ \E x : lost' = [lost EXCEPT ![new] = x]
    <2>1. /\ seq \in Nat /\ rows \in [Branches -> SUBSET (DOMAIN body)]
          /\ gone \in [Branches -> SUBSET [row : Nat, at : Nat]]
          /\ log \in [Branches -> Seq(Item)] /\ log' \in [Branches -> Seq(Item)]
          /\ belief \in [Branches -> SUBSET Nat] /\ lost \in [Branches -> BOOLEAN]
        BY DEF IInv, RecordType, IndexType, ToldType
    <2>2. /\ \E x : rows' = [rows EXCEPT ![new] = x]
          /\ \E x : gone' = [gone EXCEPT ![new] = x]
          /\ \E x : lost' = [lost EXCEPT ![new] = x]
        BY Zenon DEF MakeBranch
    <2>. QED  BY <2>1, <2>2 DEF MakeBranch
<1>3. PICK n \in Boundary(b, t) :
          /\ log' = [log EXCEPT ![new] = SubSeq(log[b], 1, n)]
          /\ belief' = [belief EXCEPT ![new] = WindowOf(SubSeq(log[b], 1, n))]
    BY <1>1 DEF MakeBranch
<1>4. \A c \in Branches \ {new} : SameOn(h, c)
    BY <1>2, <1>3 DEF SameOn
<1>5. belief'[new] = WindowOf(log'[new]) /\ log'[new] \in Seq(Item)
    BY <1>2, <1>3
<1>6. waiting'[h][new] = {}
    BY <1>2 DEF HearInv, WaitsOn
<1>7. WaitsOn(h, new)' /\ ToldOf(h, new)'
    BY <1>5, <1>6, CutTold
<1>8. belief'[new] \subseteq 0 .. seq'
    <2>1. CutOf(log'[new], log[b], t)
        BY <1>1, MakeBranchCuts
    <2>2. Sound(log'[new], b, t)
        BY <2>1 DEF WholeInv
    <2>3. \A x : InWindow(log'[new], x) => x \in 0 .. seq
        BY <1>2, <2>2 DEF Sound
    <2>. QED  BY <1>2, <1>5, <2>3, InWindowIn
<1>9. \A c \in Branches \ {new} : WaitsOn(h, c)' /\ (c \in live' => ToldOf(h, c)') /\ belief'[c] \subseteq 0 .. seq'
    <2>1. TAKE c \in Branches \ {new}
    <2>2. SameOn(h, c) /\ WaitsOn(h, c) /\ (c \in live => ToldOf(h, c)) /\ belief[c] \subseteq 0 .. seq
        BY <1>4 DEF HearInv
    <2>3. belief'[c] = belief[c]
        BY <2>2 DEF SameOn
    <2>. QED  BY <1>2, <2>2, <2>3, StaysTold
<1>10. Main \in live' /\ live' \subseteq Branches
    BY <1>2 DEF HearInv, IInv, RecordType
<1>. QED  BY <1>7, <1>8, <1>9, <1>10 DEF HearInv

\* A restart: nothing waits, and every strategy starts from the window.
LEMMA RestartTold ==
    ASSUME IInv, WholeInv, IInv', NEW h \in Handles, HearInv(h), NEW t \in Nat, Restart(t)
    PROVE  HearInv(h)'
<1>1. /\ seq \in Nat /\ seq' = t /\ t \in 0 .. seq /\ live' = live /\ live \subseteq Branches
      /\ \A b \in Branches : log[b] \in Seq(Item) /\ log'[b] \in Seq(Item)
    BY DEF IInv, RecordType, IndexType, Restart
<1>2. cur'[h] = Main /\ \A b \in Branches : waiting'[h][b] = {}
    BY DEF Restart
<1>3. \A b \in Branches : belief'[b] = WindowOf(log'[b])
    BY DEF Restart
<1>4. ASSUME NEW b \in Branches PROVE WaitsOn(h, b)' /\ ToldOf(h, b)' /\ belief'[b] \subseteq 0 .. seq'
    <2>1. WaitsOn(h, b)' /\ ToldOf(h, b)'
        BY <1>1, <1>2, <1>3, CutTold
    <2>2. Sound(log'[b], b, t)
        BY <1>1, RestartCuts DEF WholeInv
    <2>3. \A x : InWindow(log'[b], x) => x \in 0 .. t
        BY <2>2 DEF Sound
    <2>. QED  BY <1>1, <1>3, <2>1, <2>3, InWindowIn
<1>5. Main \in live' /\ cur'[h] \in live'
    BY <1>1, <1>2 DEF HearInv
<1>. QED  BY <1>1, <1>4, <1>5 DEF HearInv

\* At the start the strategy knows the window.
LEMMA InitTold ==
    ASSUME Init, StartsWhole, NEW h \in Handles
    PROVE  HearInv(h)
<1>1. IInv /\ WholeInv
    BY InitInv, InitWhole
<1>2. PICK s \in Logs0 : /\ log = [b \in Branches |-> IF b = Main THEN s ELSE <<>>]
                         /\ belief = [b \in Branches |-> IF b = Main THEN WindowOf(s) ELSE {}]
    BY DEF Init
<1>3. live = {Main} /\ cur[h] = Main /\ \A b \in Branches : waiting[h][b] = {}
    BY DEF Init
<1>4. \A b \in Branches : belief[b] = {} \/ belief[b] = WindowOf(log[b])
    BY <1>2
<1>5. Main \in Branches /\ belief[Main] = WindowOf(log[Main])
    BY <1>2, BranchAssumption
<1>6. \A b \in Branches : belief[b] \subseteq 0 .. seq
    BY <1>1, <1>4, SoundNow, InWindowIn
<1>7. \A b \in Branches : WaitsOn(h, b) /\ SettledOn(h, b) = belief[b]
    BY <1>3, NothingWaits
<1>8. ToldOf(h, Main)
    BY <1>5, <1>7, InWindowIn DEF ToldOf
<1>. QED  BY <1>3, <1>6, <1>7, <1>8 DEF HearInv

\* Every step of the one handle keeps what it heard and what it will hear.
LEMMA NextTold ==
    ASSUME NEW h, Handles = {h}, IInv, WholeInv, IInv', HearInv(h), [Next]_vars
    PROVE  HearInv(h)'
<1>0. h \in Handles /\ cur[h] \in live /\ live \subseteq Branches /\ cur \in [Handles -> Branches]
    BY DEF HearInv, IInv, RecordType, IndexType
<1>1. CASE UNCHANGED vars
    <2>1. UNCHANGED <<store, waiting, history>> /\ cur'[h] \in live
        BY <1>0, <1>1 DEF vars, handle
    <2>. QED  BY <1>0, <2>1, StillTold
<1>2. ASSUME NEW n \in 1 .. 2, AddMessage(h, n) PROVE HearInv(h)'
    BY <1>0, <1>2, AddMessageTold
<1>3. ASSUME NEW o \in Outcomes, NEW r \in Held(cur[h]), RemoveMessage(h, r, o) PROVE HearInv(h)'
    BY <1>0, <1>3, RemoveMessageTold
<1>4. ASSUME NEW o \in Outcomes, WriteDown(h, o) PROVE HearInv(h)'
    BY <1>0, <1>4, WriteDownTold
<1>5. ASSUME NEW o \in Outcomes, NEW names \in Calls(cur[h]), PresentRows(h, names, o) PROVE HearInv(h)'
    BY <1>0, <1>5, PresentRowsTold
<1>6. ASSUME NEW o \in Outcomes, NEW names \in Calls(cur[h]), NEW kind \in {"retract", "undo"},
             RetractRows(h, names, kind, o)
      PROVE  HearInv(h)'
    BY <1>0, <1>6, RetractRowsTold
<1>7. ASSUME NEW o \in Outcomes, NEW id \in Held(cur[h]), NEW kind \in {"retract", "undo"},
             RetractFirst(h, id, kind, o)
      PROVE  HearInv(h)'
    BY <1>0, <1>7, RetractFirstTold
<1>8. ASSUME NEW o \in Outcomes, NEW absent \in SUBSET AbsentRows(h), RetractGone(h, absent, o)
      PROVE  HearInv(h)'
    BY <1>0, <1>8, RetractGoneTold
<1>9. ASSUME NEW r \in Held(cur[h]), RemoveUnread(h, r) \/ RemoveElsewhere(h, r) PROVE HearInv(h)'
    BY <1>0, <1>9, RemoveQuietTold
<1>10. CASE SettleOnly(h) \/ \E b \in Branches : SettleMoved(h, b)
    BY <1>0, <1>10, SettleTold
<1>11. CASE Select(h)
    BY <1>0, <1>11, SelectTold
<1>12. ASSUME NEW b \in Branches, SwitchBranch(h, b) PROVE HearInv(h)'
    <2>1. UNCHANGED <<store, waiting, history>> /\ cur'[h] \in live
        BY <1>0, <1>12 DEF SwitchBranch
    <2>. QED  BY <1>0, <2>1, StillTold
<1>13. ASSUME NEW new \in Branches, Fork(h, new) \/ \E r \in Held(cur[h]) : BranchAt(h, r, new) PROVE HearInv(h)'
    <2>1. PICK t \in 0 .. seq : MakeBranch(cur[h], t, new)
        BY <1>0, <1>13, BranchSteps
    <2>2. waiting' = waiting
        BY <1>13 DEF Fork, BranchAt
    <2>3. cur'[h] = new \/ cur'[h] = cur[h]
        BY <1>0, <1>13 DEF Fork, BranchAt
    <2>4. live' = live \cup {new}
        BY <2>1 DEF MakeBranch
    <2>. QED  BY <1>0, <2>1, <2>2, <2>3, <2>4, BranchTold
<1>14. ASSUME NEW t \in Len(Bodies0) .. MaxSeq, Restart(t) PROVE HearInv(h)'
    <2>1. t \in Nat
        BY BodyAssumption, BoundAssumption, LenProperties
    <2>. QED  BY <1>0, <1>14, <2>1, RestartTold
\* There is no other handle to derive a context for.
<1>15. ASSUME NEW g \in Handles, NEW new \in Branches, Derive(h, g, new) PROVE FALSE
    BY <1>15 DEF Derive
<1>. QED  BY <1>1, <1>2, <1>3, <1>4, <1>5, <1>6, <1>7, <1>8, <1>9, <1>10, <1>11, <1>12, <1>13, <1>14, <1>15 DEF Next

\* What the strategy's hooks have told it is the window: with one handle on
\* the store, on every branch with no write left to settle and no hearing
\* given up, the rows of the record it was told of are those the index holds;
\* and of a write the store did not keep it hears nothing.  The invariant is
\* of what it will have been told once the writes that wait are settled, for
\* a write whose outcome is unknown may wait over any number of other calls,
\* removals, branches and switches; a hearing given up is made good by the
\* next select, to which no write that waits may then add or take a row.
THEOREM TheWindowIsHeard ==
    ASSUME StartsWhole, NEW h, Handles = {h}
    PROVE  Spec => [](HeardIsWindow /\ HearsWhatLanded)
<1>1. Init => HearInv(h)
    BY InitTold
<1>2. IInv /\ WholeInv /\ IInv' /\ HearInv(h) /\ [Next]_vars => HearInv(h)'
    BY NextTold
<1>3. ASSUME IInv, HearInv(h) PROVE HeardIsWindow /\ HearsWhatLanded
    <2>1. ASSUME NEW b \in live, InEffect(log[b]), ~lost[b], waiting[h][b] = {}
          PROVE  belief[b] \cap Held(b) = WindowOf(log[b]) \cap Held(b)
        <3>1. SettledOn(h, b) = belief[b] /\ ToldOf(h, b)
            BY <1>3, <2>1, NothingWaits DEF HearInv
        <3>2. \A x \in Held(b) : x \in belief[b] <=> InWindow(log[b], x)
            BY <2>1, <3>1 DEF ToldOf
        <3>. QED  BY <3>2, InWindowIn
    <2>2. HeardIsWindow
        BY <2>1 DEF HeardIsWindow
    <2>3. \A b \in Branches : WaitsOn(h, b)
        BY <1>3 DEF HearInv
    <2>4. cur[h] \in Branches
        BY <1>3, Facts
    <2>5. HearsWhatLanded
        BY <2>3, <2>4 DEF HearsWhatLanded, Due, WaitsOn
    <2>. QED  BY <2>2, <2>5
<1>4. Spec => [](IInv /\ WholeInv)
    BY WholeHolds
<1>. QED  BY <1>1, <1>2, <1>3, <1>4, PTL DEF Spec
=============================================================================
