---------------------- MODULE WindowedPassthroughProofs ----------------------
(***************************************************************************)
(* The anchored window for every plan: any number of branches, rows, turns *)
(* and failed writes.  What the slot of the loaded branch holds, memory    *)
(* holds too, or the branch's start at its first row: so a reload sends    *)
(* from where memory would.                                                *)
(*                                                                         *)
(* By itself that is not inductive.  An ordinal must be of an index in     *)
(* effect that is as long, or the same slot would load as another anchor   *)
(* once rows are presented; a sequence must be stored by now; and no row   *)
(* may come to stand before the first: IInv.                               *)
(***************************************************************************)
EXTENDS WindowedPassthrough, SequenceTheorems, FiniteSetTheorems, WellFoundedInduction, TLAPS

Row == [id : Nat, seq : Nat]
Anchors == [anchor : Nat, ordinal : Nat \cup {None}, moved : BOOLEAN, unwritten : BOOLEAN]
Slots == Forms \cup {None, Newer}

TypeInv ==
    /\ plan \in Worlds /\ clock \in Nat /\ cur \in Branches /\ loaded \in Branches \cup {None}
    /\ record \in [Branches -> Seq(Row) \cup {None}]
    /\ log \in [Branches -> Seq(Item)]
    /\ slot \in [Branches -> Slots]
    /\ mem \in Anchors
    /\ record[cur] # None /\ (loaded # None => record[loaded] # None)

\* No row is stored after the store's sequence, and an index presents only
\* rows of its branch.
RowsInv ==
    \A b \in Branches : record[b] # None =>
        /\ \A n \in DOMAIN record[b] : record[b][n].seq <= clock
        /\ \A i \in 1 .. Len(log[b]) : log[b][i].kind = "present" => log[b][i].id \in ToSet(Ids(b))

\* An anchor that stands on branch b: it is stored by now, its ordinal is of
\* the branch's index, and only one of an ordinal says it was moved.
Fits(m, b) ==
    /\ m.anchor <= clock
    /\ m.ordinal # None => Presented(b) /\ m.ordinal <= Length(b)
    /\ m.moved => m.ordinal # None

\* No row of the branch stands before ordinal o.
NoneBefore(o, b) ==
    \A i \in 1 .. Len(log[b]) : \A id \in ToSet(Ids(b)) : StandsAt(log[b], i, id) => i >= o

\* Memory m is what slot s loads as; or the start of the branch, as slot s
\* has it, converted to the ordinal of the first row.
Agrees(m, s, b) ==
    \/ m = Load(b, s)
    \/ /\ Load(b, s) = Start
       /\ m.anchor = 0 /\ ~m.moved /\ m.ordinal # None
       /\ NoneBefore(m.ordinal, b)

SlotInv == \A b \in Branches : slot[b] \in Forms => Fits(slot[b], b)
MemInv ==
    loaded # None =>
        /\ Fits(mem, loaded)
        /\ ~mem.unwritten /\ slot[loaded] # Newer => Agrees(mem, slot[loaded], loaded)


-----------------------------------------------------------------------------
(* Numbers and logs.                                                       *)

\* A set of positions that isn't empty has a least one.
LEMMA Least ==
    ASSUME NEW S, S \subseteq Nat, S # {}
    PROVE  \E p \in S : \A q \in S : p <= q
<1>1. PICK p \in S : \A q \in S : ~(<<q, p>> \in OpToRel(<, Nat))
    BY NatLessThanWellFounded, WFMin
<1>2. \A q \in S : ~(q < p)
    BY <1>1 DEF OpToRel
<1>3. \A q \in S : p <= q
    BY <1>2
<1>. QED  BY <1>3

\* The places up to i.
UpTo(at, i) == {j \in at : j <= i}

\* Of n places one is the n-th.
LEMMA NthPlace ==
    ASSUME NEW m \in Nat, NEW at, at \subseteq 1..m, NEW n \in 1..Cardinality(at)
    PROVE  \E i \in at : Cardinality(UpTo(at, i)) = n
<1> DEFINE T == {i \in 0..m : Cardinality(UpTo(at, i)) >= n}
<1>1. \A i \in Int : IsFiniteSet(UpTo(at, i)) /\ Cardinality(UpTo(at, i)) \in Nat
    <2>1. IsFiniteSet(1..m)
        BY FS_Interval
    <2>2. \A i : UpTo(at, i) \in SUBSET (1..m)
        BY DEF UpTo
    <2>. QED  BY <2>1, <2>2, FS_Subset, FS_CardinalityType
<1>2. m \in T
    <2>1. UpTo(at, m) = at
        <3>1. \A j \in at : j <= m
            OBVIOUS
        <3>. QED  BY <3>1, Zenon DEF UpTo
    <2>2. Cardinality(at) \in Nat
        BY <1>1, <2>1
    <2>. QED  BY <2>1, <2>2
<1>3. PICK i \in T : \A j \in T : ~(<<j, i>> \in OpToRel(<, Nat))
    <2>1. T # {} /\ T \subseteq Nat
        BY <1>2
    <2> HIDE DEF T
    <2>. QED  BY <2>1, NatLessThanWellFounded, WFMin
<1>4. i \in 0..m /\ Cardinality(UpTo(at, i)) >= n
    OBVIOUS
<1>5. i # 0
    <2>1. UpTo(at, 0) = {}
        <3>1. \A j \in at : ~(j <= 0)
            OBVIOUS
        <3>. QED  BY <3>1, Zenon DEF UpTo
    <2>. QED  BY <1>4, <2>1, FS_EmptySet
<1>6. Cardinality(UpTo(at, i - 1)) < n
    <2>1. SUFFICES ASSUME i - 1 \in T PROVE FALSE
        <3>1. i - 1 \in 0..m
            BY <1>4, <1>5
        <3>2. Cardinality(UpTo(at, i - 1)) \in Nat /\ n \in Nat
            BY <1>1, <3>1
        <3>. QED  BY <3>1, <3>2
    <2>2. ~(<<i - 1, i>> \in OpToRel(<, Nat))
        <3> HIDE DEF T
        <3>. QED  BY <1>3, <2>1, Zenon
    <2>. QED  BY <1>4, <1>5, <2>2 DEF OpToRel
<1>7. i \in at
    <2>1. SUFFICES ASSUME i \notin at PROVE FALSE
        OBVIOUS
    <2>2. UpTo(at, i) = UpTo(at, i - 1)
        <3>1. \A j \in at : j <= i <=> j <= i - 1
            BY <1>4, <2>1
        <3>. QED  BY <3>1, Zenon DEF UpTo
    <2>. QED  BY <1>1, <1>4, <1>6, <2>2
<1>8. UpTo(at, i) = UpTo(at, i - 1) \cup {i} /\ i \notin UpTo(at, i - 1)
    <2>1. \A j \in at : (j <= i <=> j <= i - 1 \/ j = i) /\ ~(i <= i - 1)
        BY <1>4
    <2>. QED  BY <1>7, <2>1, Zenon DEF UpTo
<1>9. Cardinality(UpTo(at, i)) = Cardinality(UpTo(at, i - 1)) + 1
    <2>1. IsFiniteSet(UpTo(at, i - 1))
        BY <1>1, <1>4
    <2>. QED  BY <1>8, <2>1, FS_AddElement, Zenon
<1>. QED  BY <1>1, <1>4, <1>6, <1>7, <1>9

\* A row in the window stands at its ordinal, and nowhere before.
LEMMA OrdinalStands ==
    ASSUME NEW s \in Seq(Item), NEW id, InWindow(s, id)
    PROVE  /\ OrdinalIn(s, id) \in 1 .. Len(s) /\ StandsAt(s, OrdinalIn(s, id), id)
           /\ \A j \in 1 .. OrdinalIn(s, id) - 1 : ~StandsAt(s, j, id)
<1> DEFINE T == {i \in 1 .. Len(s) : StandsAt(s, i, id)}
<1>1. T # {} /\ T \subseteq Nat
    BY LenProperties DEF InWindow
<1>2. PICK k \in T : \A j \in T : k <= j
    <2> HIDE DEF T
    <2>. QED  BY <1>1, Least
<1>3. k \in 1 .. Len(s) /\ StandsAt(s, k, id) /\ \A j \in 1 .. k - 1 : ~StandsAt(s, j, id)
    BY <1>1, <1>2, LenProperties
<1>. QED  BY <1>3 DEF OrdinalIn

\* A log that holds a header holds its first one at its header's position.
LEMMA HeaderStands ==
    ASSUME NEW s \in Seq(Item), \E i \in 1 .. Len(s) : s[i].kind = "header"
    PROVE  /\ HeaderIn(s) \in 1 .. Len(s) /\ s[HeaderIn(s)].kind = "header"
           /\ \A j \in 1 .. HeaderIn(s) - 1 : s[j].kind # "header"
<1> DEFINE T == {i \in 1 .. Len(s) : s[i].kind = "header"}
<1>1. T # {} /\ T \subseteq Nat
    BY LenProperties
<1>2. PICK k \in T : \A j \in T : k <= j
    <2> HIDE DEF T
    <2>. QED  BY <1>1, Least
<1>3. k \in 1 .. Len(s) /\ s[k].kind = "header" /\ \A j \in 1 .. k - 1 : s[j].kind # "header"
    BY <1>1, <1>2, LenProperties
<1>. QED  BY <1>3 DEF HeaderIn

\* The least of some numbers is one of them, and none is less.
LEMMA MinIsLeast ==
    ASSUME NEW S, S \subseteq Nat, S # {}
    PROVE  Min(S) \in S /\ \A j \in S : Min(S) <= j
BY Least DEF Min

\* Items appended leave those before them where they stood.
LEMMA ConcatItems ==
    ASSUME NEW s \in Seq(Item), NEW t \in Seq(Item)
    PROVE  /\ s \o t \in Seq(Item) /\ Len(s \o t) = Len(s) + Len(t)
           /\ Len(s) \in Nat /\ Len(t) \in Nat
           /\ \A i \in 1 .. Len(s) : (s \o t)[i] = s[i]
           /\ \A i \in 1 .. Len(t) : (s \o t)[Len(s) + i] = t[i]
           /\ \A i \in 1 .. Len(s \o t) : i <= Len(s) \/ i - Len(s) \in 1 .. Len(t)
<1>1. Len(s) \in Nat /\ Len(t) \in Nat
    BY LenProperties
<1>2. s \o t \in Seq(Item) /\ Len(s \o t) = Len(s) + Len(t)
    BY ConcatProperties
<1>3. \A i \in 1 .. Len(s) : (s \o t)[i] = s[i]
    BY ConcatProperties, <1>1
<1>4. \A i \in 1 .. Len(t) : (s \o t)[Len(s) + i] = t[i]
    BY ConcatProperties, <1>1
<1>. QED  BY <1>1, <1>2, <1>3, <1>4

LEMMA StandsBefore ==
    ASSUME NEW s \in Seq(Item), NEW t \in Seq(Item), NEW i \in 1 .. Len(s), NEW id, StandsAt(s \o t, i, id)
    PROVE  StandsAt(s, i, id)
BY ConcatItems DEF StandsAt, Presents, TakesOut

\* A log in effect stays so under rows presented and retracted.
LEMMA EffectStays ==
    ASSUME NEW s \in Seq(Item), NEW t \in Seq(Item), InEffect(s),
           \A i \in 1 .. Len(t) : t[i].kind \in {"present", "retract"}
    PROVE  InEffect(s \o t)
<1> DEFINE r == s \o t
<1>1. /\ r \in Seq(Item) /\ Len(r) = Len(s) + Len(t) /\ Len(s) \in Nat /\ Len(t) \in Nat
      /\ \A i \in 1 .. Len(s) : r[i] = s[i]
      /\ \A i \in 1 .. Len(t) : r[Len(s) + i] = t[i]
      /\ \A i \in 1 .. Len(r) : i <= Len(s) \/ i - Len(s) \in 1 .. Len(t)
    BY ConcatItems
<1> HIDE DEF r
<1>2. \E i \in 1 .. Len(s) : s[i].kind = "header"
    BY DEF InEffect, HeaderIn
<1>3. \E i \in 1 .. Len(r) : r[i].kind = "header"
    BY <1>1, <1>2
<1>4. HeaderIn(r) \in 1 .. Len(r)
    BY <1>1, <1>3, HeaderStands
<1>5. ~\E i \in 1 .. Len(s) : s[i].kind = "otherFormat"
    BY DEF InEffect, Foreign
<1>6. ~\E i \in 1 .. Len(r) : r[i].kind = "otherFormat"
    <2>1. SUFFICES ASSUME NEW i \in 1 .. Len(r), r[i].kind = "otherFormat" PROVE FALSE
        OBVIOUS
    <2>2. CASE i <= Len(s)
        BY <1>1, <1>5, <2>1, <2>2
    <2>3. CASE i - Len(s) \in 1 .. Len(t)
        <3>1. r[i] = t[i - Len(s)]
            BY <1>1, <2>3
        <3>2. t[i - Len(s)].kind \in {"present", "retract"}
            BY <2>3
        <3>. QED  BY <2>1, <3>1, <3>2
    <2>. QED  BY <1>1, <2>2, <2>3
<1>7. HeaderIn(r) # 0
    BY <1>1, <1>4
<1>. QED  BY <1>6, <1>7 DEF InEffect, Foreign, r

-----------------------------------------------------------------------------
(* A branch's rows and ordinals.                                           *)

LEMMA BranchTypes ==
    ASSUME TypeInv, NEW b \in Branches, record[b] # None
    PROVE  /\ record[b] \in Seq(Row) /\ log[b] \in Seq(Item) /\ slot[b] \in Slots
           /\ Len(log[b]) \in Nat /\ Length(b) = Len(log[b]) + 1
           /\ DOMAIN record[b] = 1 .. Len(record[b]) /\ Len(record[b]) \in Nat
           /\ \A n \in DOMAIN record[b] : record[b][n].id \in Nat /\ record[b][n].seq \in Nat
<1>1. record[b] \in Seq(Row) /\ log[b] \in Seq(Item) /\ slot[b] \in Slots
    BY DEF TypeInv
<1>2. Len(log[b]) \in Nat /\ DOMAIN record[b] = 1 .. Len(record[b]) /\ Len(record[b]) \in Nat
    BY <1>1, LenProperties
<1>3. \A n \in DOMAIN record[b] : record[b][n] \in Row
    BY <1>1, <1>2, ElementOfSeq
<1>. QED  BY <1>1, <1>2, <1>3 DEF Length, Row

\* A row of a branch is stored by now.
LEMMA RowStored ==
    ASSUME TypeInv, RowsInv, NEW b \in Branches, record[b] # None, NEW id \in ToSet(Ids(b))
    PROVE  SequenceOf(b, id) \in 0 .. clock /\ id \in Nat
<1>1. PICK n \in DOMAIN record[b] : record[b][n].id = id
    BY DEF ToSet, Ids
<1> DEFINE k == CHOOSE n1 \in DOMAIN record[b] : record[b][n1].id = id
<1>2. k \in DOMAIN record[b]
    BY <1>1
<1>3. SequenceOf(b, id) = record[b][k].seq
    BY DEF SequenceOf
<1> HIDE DEF k
<1>4. record[b][k].seq \in Nat /\ record[b][k].seq <= clock /\ clock \in Nat
    BY <1>2, BranchTypes DEF RowsInv, TypeInv
<1>5. id \in Nat
    BY <1>1, BranchTypes
<1>. QED  BY <1>3, <1>4, <1>5

\* A row in the window stands at its ordinal, which is a place of the index.
LEMMA RowStands ==
    ASSUME TypeInv, NEW b \in Branches, record[b] # None, Presented(b), NEW id \in Viewed(b)
    PROVE  /\ id \in ToSet(Ids(b))
           /\ OrdinalIn(log[b], id) \in 1 .. Len(log[b]) /\ StandsAt(log[b], OrdinalIn(log[b], id), id)
           /\ log[b][OrdinalIn(log[b], id)].id = id
           /\ \A j \in 1 .. OrdinalIn(log[b], id) - 1 : ~StandsAt(log[b], j, id)
<1>1. id \in ToSet(Ids(b)) /\ InWindow(log[b], id)
    BY DEF Viewed
<1>2. log[b] \in Seq(Item)
    BY BranchTypes
<1>. QED  BY <1>1, <1>2, OrdinalStands DEF StandsAt, Presents

\* The ordinals of some rows of the window are places of the index.
LEMMA OrdinalsPlaces ==
    ASSUME TypeInv, NEW b \in Branches, record[b] # None, Presented(b), NEW ids, ids \subseteq Viewed(b)
    PROVE  /\ Ordinals(b, ids) \subseteq 1 .. Len(log[b]) /\ Ordinals(b, ids) \subseteq Nat
           /\ \A n \in Ordinals(b, ids) : log[b][n].id \in ids
<1>1. \A id \in ids : OrdinalIn(log[b], id) \in 1 .. Len(log[b]) /\ log[b][OrdinalIn(log[b], id)].id = id
    BY RowStands
<1>2. Ordinals(b, ids) \subseteq 1 .. Len(log[b]) /\ \A n \in Ordinals(b, ids) : log[b][n].id \in ids
    BY <1>1 DEF Ordinals
<1>3. 1 .. Len(log[b]) \subseteq Nat
    BY BranchTypes
<1>. QED  BY <1>2, <1>3

\* What is listed are rows of the branch, in the window where there is one.
LEMMA ListedRows ==
    ASSUME TypeInv, NEW b \in Branches, record[b] # None
    PROVE  \A n \in DOMAIN Listed(b) : Listed(b)[n] \in Viewed(b)
<1>1. CASE ~Presented(b)
    <2>1. Listed(b) = Ids(b)
        BY <1>1 DEF Listed
    <2>2. \A n \in DOMAIN Ids(b) : Ids(b)[n] \in ToSet(Ids(b))
        BY DEF ToSet
    <2>. QED  BY <1>1, <2>1, <2>2 DEF Viewed
<1>2. CASE Presented(b)
    <2> DEFINE at == Ordinals(b, Viewed(b))
               nth(n) == CHOOSE i \in at : Cardinality({j \in at : j <= i}) = n
    <2>1. Listed(b) = [n \in 1..Cardinality(at) |-> log[b][nth(n)].id]
        BY <1>2 DEF Listed
    <2>2. at \subseteq 1 .. Len(log[b]) /\ \A n \in at : log[b][n].id \in Viewed(b)
        BY <1>2, OrdinalsPlaces
    <2>3. Len(log[b]) \in Nat
        BY BranchTypes
    <2> HIDE DEF at
    <2>4. ASSUME NEW n \in 1..Cardinality(at) PROVE log[b][nth(n)].id \in Viewed(b)
        <3>1. \E i \in at : Cardinality(UpTo(at, i)) = n
            BY <2>2, <2>3, NthPlace
        <3>2. nth(n) \in at
            BY <3>1 DEF UpTo
        <3>. QED  BY <2>2, <3>2
    <2> HIDE DEF nth
    <2>. QED  BY <2>1, <2>4
<1>. QED  BY <1>1, <1>2

\* The ordinal an anchor's sequence is converted to is one the index issued or
\* issues next; of the branch's start, no row stands before it.
LEMMA OrdinalFromIs ==
    ASSUME TypeInv, RowsInv, NEW b \in Branches, record[b] # None, Presented(b), NEW s
    PROVE  /\ OrdinalFrom(b, s) \in Nat /\ OrdinalFrom(b, s) <= Length(b)
           /\ s = 0 => NoneBefore(OrdinalFrom(b, s), b)
<1> DEFINE ids == {id \in Viewed(b) : SequenceOf(b, id) >= s}
           at == Ordinals(b, ids)
<1>1. at \subseteq 1 .. Len(log[b]) /\ at \subseteq Nat
    BY OrdinalsPlaces
<1>2. OrdinalFrom(b, s) = IF at = {} THEN Length(b) ELSE Min(at)
    BY DEF OrdinalFrom
<1>3. Len(log[b]) \in Nat /\ Length(b) = Len(log[b]) + 1
    BY BranchTypes
<1>4. at # {} => Min(at) \in at /\ \A j \in at : Min(at) <= j
    <2> HIDE DEF at
    <2>. QED  BY <1>1, MinIsLeast
<1>5. OrdinalFrom(b, s) \in Nat /\ OrdinalFrom(b, s) <= Length(b)
    <2> HIDE DEF at
    <2>1. CASE at = {}
        BY <1>2, <1>3, <2>1
    <2>2. CASE at # {}
        <3>1. OrdinalFrom(b, s) = Min(at) /\ Min(at) \in 1 .. Len(log[b])
            BY <1>1, <1>2, <1>4, <2>2
        <3>. QED  BY <1>3, <3>1
    <2>. QED  BY <2>1, <2>2
<1>6. ASSUME s = 0 PROVE NoneBefore(OrdinalFrom(b, s), b)
    <2>1. SUFFICES ASSUME NEW i \in 1 .. Len(log[b]), NEW id \in ToSet(Ids(b)), StandsAt(log[b], i, id)
                   PROVE  i >= OrdinalFrom(b, s)
        BY DEF NoneBefore
    <2>2. id \in Viewed(b)
        BY <2>1 DEF Viewed, InWindow
    <2>3. SequenceOf(b, id) >= s
        BY <1>6, RowStored, <2>1 DEF TypeInv
    <2>4. OrdinalIn(log[b], id) \in at
        BY <2>2, <2>3 DEF Ordinals
    <2>5. OrdinalIn(log[b], id) \in 1 .. Len(log[b]) /\ ~(i < OrdinalIn(log[b], id))
        BY <2>1, <2>2, RowStands, <1>3
    <2> HIDE DEF at
    <2>6. OrdinalFrom(b, s) <= OrdinalIn(log[b], id)
        BY <1>2, <1>4, <2>4
    <2>. QED  BY <1>3, <1>5, <2>5, <2>6
<1>. QED  BY <1>5, <1>6

\* The sequence kept beside an ordinal is stored by now.
LEMMA SequenceFromIs ==
    ASSUME TypeInv, RowsInv, NEW b \in Branches, record[b] # None, Presented(b), NEW o
    PROVE  SequenceFrom(b, o) \in 0 .. clock
<1> DEFINE at == {n \in Ordinals(b, Viewed(b)) : n >= o}
<1>1. at \subseteq Nat /\ \A n \in at : log[b][n].id \in Viewed(b)
    BY OrdinalsPlaces
<1>2. SequenceFrom(b, o) = IF at = {} THEN clock ELSE SequenceOf(b, log[b][Min(at)].id)
    BY DEF SequenceFrom
<1> HIDE DEF at
<1>3. CASE at = {}
    BY <1>2, <1>3 DEF TypeInv
<1>4. CASE at # {}
    <2>1. log[b][Min(at)].id \in Viewed(b)
        BY <1>1, <1>4, MinIsLeast
    <2>2. log[b][Min(at)].id \in ToSet(Ids(b))
        BY <2>1 DEF Viewed
    <2>. QED  BY <1>2, <1>4, <2>2, RowStored
<1>. QED  BY <1>3, <1>4

-----------------------------------------------------------------------------
(* What a slot loads as.                                                   *)

LEMMA AnchorType ==
    ASSUME NEW a \in Nat, NEW o \in Nat \cup {None}, NEW moved \in BOOLEAN, NEW owed \in BOOLEAN
    PROVE  Anchor(a, o, moved, owed) \in Anchors
BY DEF Anchor, Anchors

LEMMA StartType == Start \in Anchors /\ Start.anchor = 0 /\ Start.ordinal = None /\ Start.moved = FALSE /\ Start.unwritten = FALSE
BY DEF Start, Anchor, Anchors

\* A slot of this version, as it loads where what it holds stands.
LEMMA FormLoads ==
    ASSUME clock \in Nat, NEW b, Len(log[b]) \in Nat, NEW s \in Forms, Fits(s, b)
    PROVE  Load(b, s) = Anchor(s.anchor, s.ordinal, s.moved, FALSE)
<1>1. s \notin {None, Newer} /\ s.anchor \in Nat /\ s.ordinal \in Nat \cup {None} /\ s.moved \in BOOLEAN
    BY NoneAssumption DEF Forms
<1>2. s.anchor <= clock /\ ~(s.anchor > clock)
    BY <1>1 DEF Fits
<1>3. CASE s.ordinal = None
    <2>1. s.moved = FALSE
        BY <1>1, <1>3 DEF Fits
    <2>2. Load(b, s) = Anchor(s.anchor, None, FALSE, FALSE)
        BY <1>1, <1>2, <1>3 DEF Load
    <2>. QED  BY <1>3, <2>1, <2>2
<1>4. CASE s.ordinal # None
    <2>1. Presented(b) /\ s.ordinal <= Length(b) /\ Length(b) \in Nat
        BY <1>4 DEF Fits, Length
    <2>2. ~(s.ordinal > Length(b))
        BY <1>1, <1>4, <2>1
    <2>3. ~(s.ordinal = None \/ ~Presented(b))
        BY <1>4, <2>1
    <2>. QED  BY <1>1, <1>2, <2>2, <2>3 DEF Load
<1>. QED  BY <1>3, <1>4

LEMMA NoFormLoads ==
    ASSUME NEW b, NEW s \in {None, Newer}
    PROVE  Load(b, s) = Start
BY DEF Load

\* What a slot loads as stands on its branch.
LEMMA LoadFits ==
    ASSUME TypeInv, NEW b \in Branches, record[b] # None, NEW s \in Slots, s \in Forms => Fits(s, b)
    PROVE  Load(b, s) \in Anchors /\ Fits(Load(b, s), b) /\ ~Load(b, s).unwritten
<1>1. clock \in Nat /\ Len(log[b]) \in Nat
    BY BranchTypes DEF TypeInv
<1>2. CASE s \in {None, Newer}
    <2>1. Load(b, s) = Start
        BY <1>2, NoFormLoads
    <2>. QED  BY <1>1, <2>1, StartType DEF Fits
<1>3. CASE s \in Forms
    <2>1. Load(b, s) = Anchor(s.anchor, s.ordinal, s.moved, FALSE)
        BY <1>1, <1>3, FormLoads
    <2>2. s.anchor \in Nat /\ s.ordinal \in Nat \cup {None} /\ s.moved \in BOOLEAN
        BY <1>3 DEF Forms
    <2>3. Load(b, s) \in Anchors
        BY <2>1, <2>2 DEF Anchor, Anchors
    <2>4. Load(b, s).anchor = s.anchor /\ Load(b, s).ordinal = s.ordinal /\ Load(b, s).moved = s.moved /\ ~Load(b, s).unwritten
        BY <2>1 DEF Anchor
    <2>. QED  BY <1>3, <2>3, <2>4 DEF Fits
<1>. QED  BY <1>2, <1>3 DEF Slots

\* An anchor written to a slot loads as itself.
LEMMA WrittenLoads ==
    ASSUME TypeInv, NEW b \in Branches, record[b] # None, NEW m \in Anchors, Fits(m, b)
    PROVE  /\ Form(m) \in Forms /\ Fits(Form(m), b) /\ Load(b, Form(m)) = Owed(m, FALSE)
<1>1. m.anchor \in Nat /\ m.ordinal \in Nat \cup {None} /\ m.moved \in BOOLEAN
    BY DEF Anchors
<1>2. Form(m) \in Forms /\ Form(m).anchor = m.anchor /\ Form(m).ordinal = m.ordinal /\ Form(m).moved = m.moved
    <2>1. Form(m) = [anchor |-> m.anchor, ordinal |-> m.ordinal, moved |-> m.moved]
        BY DEF Form
    <2>2. [anchor |-> m.anchor, ordinal |-> m.ordinal, moved |-> m.moved] \in Forms
        BY <1>1, Zenon DEF Forms
    <2>. QED  BY <2>1, <2>2
<1>3. Fits(Form(m), b)
    BY <1>2 DEF Fits
<1>4. clock \in Nat /\ Len(log[b]) \in Nat
    BY BranchTypes DEF TypeInv
<1>5. Load(b, Form(m)) = Anchor(Form(m).anchor, Form(m).ordinal, Form(m).moved, FALSE)
    BY <1>2, <1>3, <1>4, FormLoads
<1>. QED  BY <1>2, <1>3, <1>5 DEF Owed

-----------------------------------------------------------------------------
(* What an operation holds, from the anchor it finds to the one it leaves. *)

Good(x) ==
    /\ x.mem \in Anchors /\ Fits(x.mem, cur)
    /\ x.slot \in Slots /\ (x.slot \in Forms => Fits(x.slot, cur))
    /\ ~x.mem.unwritten /\ x.slot # Newer => Agrees(x.mem, x.slot, cur)

IInv == TypeInv /\ RowsInv /\ SlotInv /\ MemInv

LEMMA HeldFields ==
    ASSUME NEW m, NEW s, NEW n
    PROVE  Held(m, s, n).mem = m /\ Held(m, s, n).slot = s
BY DEF Held

LEMMA OwedFields ==
    ASSUME NEW m \in Anchors
    PROVE  /\ Owed(m, FALSE) \in Anchors /\ Owed(m, TRUE) \in Anchors
           /\ Owed(m, FALSE).anchor = m.anchor /\ Owed(m, TRUE).anchor = m.anchor
           /\ Owed(m, FALSE).ordinal = m.ordinal /\ Owed(m, TRUE).ordinal = m.ordinal
           /\ Owed(m, FALSE).moved = m.moved /\ Owed(m, TRUE).moved = m.moved
           /\ ~Owed(m, FALSE).unwritten /\ Owed(m, TRUE).unwritten
BY DEF Owed, Anchor, Anchors

LEMMA CurLive ==
    ASSUME TypeInv
    PROVE  cur \in Branches /\ record[cur] # None /\ clock \in Nat
BY DEF TypeInv

LEMMA FoundGood ==
    ASSUME IInv
    PROVE  Good(Found)
<1>1. cur \in Branches /\ record[cur] # None /\ TypeInv
    BY CurLive DEF IInv
<1>2. slot[cur] \in Slots /\ (slot[cur] \in Forms => Fits(slot[cur], cur))
    BY <1>1, BranchTypes DEF IInv, SlotInv
<1>3. Found.mem = Synced /\ Found.slot = slot[cur]
    BY HeldFields DEF Found
<1>4. CASE loaded = cur
    <2>1. Synced = mem /\ loaded # None
        BY <1>1, <1>4, NoneAssumption DEF Synced
    <2>2. mem \in Anchors
        BY DEF IInv, TypeInv
    <2>. QED  BY <1>2, <1>3, <1>4, <2>1, <2>2 DEF Good, IInv, MemInv
<1>5. CASE loaded # cur
    <2>1. Synced = Load(cur, slot[cur])
        BY <1>5 DEF Synced
    <2>2. Load(cur, slot[cur]) \in Anchors /\ Fits(Load(cur, slot[cur]), cur)
        BY <1>1, <1>2, LoadFits
    <2>. QED  BY <1>2, <1>3, <2>1, <2>2 DEF Good, Agrees
<1>. QED  BY <1>4, <1>5

\* A write, landed or owed, of an anchor that stands.
LEMMA PersistGood ==
    ASSUME TypeInv, NEW x, NEW lands, x.mem \in Anchors, Fits(x.mem, cur),
           x.slot \in Slots, x.slot \in Forms => Fits(x.slot, cur)
    PROVE  Good(Persist(x, lands))
<1> DEFINE y == Persist(x, lands)
<1>1. cur \in Branches /\ record[cur] # None
    BY CurLive
<1>2. CASE x.slot = Newer
    <2>1. y.mem = Owed(x.mem, FALSE) /\ y.slot = x.slot
        BY <1>2 DEF Persist, Held
    <2> HIDE DEF y
    <2>2. Good(y)
        BY <1>2, <2>1, OwedFields DEF Good, Fits
    <2>. QED  BY <2>2 DEF y
<1>3. CASE x.slot # Newer /\ lands
    <2>1. y.mem = Owed(x.mem, FALSE) /\ y.slot = Form(x.mem)
        BY <1>3 DEF Persist, Held
    <2>2. Form(x.mem) \in Forms /\ Fits(Form(x.mem), cur) /\ Load(cur, Form(x.mem)) = Owed(x.mem, FALSE)
        BY <1>1, WrittenLoads
    <2> HIDE DEF y
    <2>3. Good(y)
        BY <2>1, <2>2, OwedFields DEF Good, Fits, Agrees, Slots
    <2>. QED  BY <2>3 DEF y
<1>4. CASE x.slot # Newer /\ ~lands
    <2>1. y.mem = Owed(x.mem, TRUE) /\ y.slot = x.slot
        BY <1>4 DEF Persist, Held
    <2> HIDE DEF y
    <2>2. Good(y)
        BY <2>1, OwedFields DEF Good, Fits
    <2>. QED  BY <2>2 DEF y
<1>. QED  BY <1>2, <1>3, <1>4

LEMMA MovingGood ==
    ASSUME TypeInv, NEW x, NEW m \in Anchors, NEW lands, Fits(m, cur),
           x.slot \in Slots, x.slot \in Forms => Fits(x.slot, cur)
    PROVE  Good(Persist(Moving(x, m), lands))
<1>1. Moving(x, m).mem = m /\ Moving(x, m).slot = x.slot
    BY HeldFields DEF Moving
<1>. QED  BY <1>1, PersistGood

LEMMA RetriedGood ==
    ASSUME TypeInv, NEW x, NEW lands, Good(x)
    PROVE  Good(Retried(x, lands))
BY PersistGood DEF Good, Retried

\* The anchor converted: written, owed, or the start of the branch.
LEMMA ConvertedGood ==
    ASSUME TypeInv, RowsInv, NEW x, NEW lands, Good(x)
    PROVE  Good(Converted(x, lands))
<1>1. cur \in Branches /\ record[cur] # None /\ clock \in Nat
    BY CurLive
<1>2. SUFFICES ASSUME Presented(cur), x.mem.ordinal = None
               PROVE  Good(IF x.mem.anchor = 0 THEN Placed(x) ELSE Persist(Placed(x), lands))
    BY DEF Converted
<1> DEFINE o == OrdinalFrom(cur, x.mem.anchor)
           m == Anchor(x.mem.anchor, o, x.mem.moved, x.mem.unwritten)
<1>3. /\ x.mem \in Anchors /\ x.mem.anchor \in Nat /\ x.mem.moved \in BOOLEAN /\ x.mem.unwritten \in BOOLEAN
      /\ x.mem.anchor <= clock /\ x.mem.moved = FALSE
    BY <1>2 DEF Good, Anchors, Fits
<1>4. o \in Nat /\ o <= Length(cur) /\ (x.mem.anchor = 0 => NoneBefore(o, cur))
    BY <1>1, <1>2, OrdinalFromIs
<1>5. o # None
    BY <1>4, NoneAssumption
<1>6. Placed(x) = Moving(x, m) /\ Placed(x).mem = m /\ Placed(x).slot = x.slot
    BY HeldFields DEF Placed, Moving
<1> HIDE DEF o
<1>7. /\ m \in Anchors /\ m.anchor = x.mem.anchor /\ m.ordinal = o
      /\ m.moved = FALSE /\ m.unwritten = x.mem.unwritten
    BY <1>3, <1>4 DEF Anchor, Anchors
<1> HIDE DEF m
<1>8. Fits(m, cur)
    BY <1>2, <1>3, <1>4, <1>7 DEF Fits
<1>9. CASE x.mem.anchor = 0
    <2>1. ASSUME ~m.unwritten, x.slot # Newer PROVE Agrees(m, x.slot, cur)
        <3>1. Agrees(x.mem, x.slot, cur)
            BY <1>7, <2>1 DEF Good
        <3>2. x.mem = Load(cur, x.slot)
            BY <1>2, <3>1 DEF Agrees
        <3>3. x.mem = Start
            <4>1. x.mem = Anchor(x.mem.anchor, x.mem.ordinal, x.mem.moved, x.mem.unwritten)
                BY <1>3 DEF Anchor, Anchors
            <4>2. x.mem.unwritten = FALSE
                BY <1>3, <1>7, <2>1
            <4>. QED  BY <1>2, <1>3, <1>9, <4>1, <4>2 DEF Start
        <3>. QED  BY <1>4, <1>5, <1>7, <1>9, <3>2, <3>3 DEF Agrees
    <2>. QED  BY <1>6, <1>7, <1>8, <1>9, <2>1 DEF Good
<1>10. CASE x.mem.anchor # 0
    <2>1. Good(Persist(Moving(x, m), lands))
        BY <1>7, <1>8, MovingGood DEF Good
    <2>. QED  BY <1>6, <1>10, <2>1
<1>. QED  BY <1>9, <1>10

\* A selection moves the anchor to a row it lists.
LEMMA SelectionMoves ==
    ASSUME NEW m, NEW ms, Selection(m, ms).moved
    PROVE  Selection(m, ms).first \in DOMAIN ms
BY DEF Selection, ChosenFrom, Chosen, Choice

\* The anchor moved to a row of the branch, where a request starts.
LEMMA MovedFits ==
    ASSUME TypeInv, RowsInv, NEW m \in Anchors, NEW id \in Viewed(cur)
    PROVE  Moved(m, id) \in Anchors /\ Fits(Moved(m, id), cur)
<1>1. cur \in Branches /\ record[cur] # None /\ clock \in Nat
    BY CurLive
<1>2. SequenceOf(cur, id) \in 0 .. clock
    BY <1>1, RowStored DEF Viewed
<1>3. Len(log[cur]) \in Nat /\ Length(cur) = Len(log[cur]) + 1
    BY <1>1, BranchTypes
<1>4. m.unwritten \in BOOLEAN /\ Presented(cur) \in BOOLEAN
    BY DEF Anchors, Presented, InEffect
<1>5. CASE Presented(cur)
    <2>1. OrdinalIn(log[cur], id) \in 1 .. Len(log[cur])
        BY <1>1, <1>5, RowStands
    <2>2. Moved(m, id) = Anchor(SequenceOf(cur, id), OrdinalIn(log[cur], id), TRUE, m.unwritten)
        BY <1>4, <1>5 DEF Moved
    <2>3. OrdinalIn(log[cur], id) \in Nat \cup {None} /\ OrdinalIn(log[cur], id) # None /\ OrdinalIn(log[cur], id) <= Length(cur)
        BY <1>3, <2>1, NoneAssumption
    <2>4. TRUE \in BOOLEAN /\ SequenceOf(cur, id) \in Nat /\ SequenceOf(cur, id) <= clock
        BY <1>1, <1>2
    <2>5. Moved(m, id) \in Anchors
        BY <1>4, <2>2, <2>3, <2>4 DEF Anchor, Anchors
    <2>6. Moved(m, id).anchor = SequenceOf(cur, id) /\ Moved(m, id).ordinal = OrdinalIn(log[cur], id)
        BY <2>2 DEF Anchor
    <2>. QED  BY <1>5, <2>3, <2>4, <2>5, <2>6 DEF Fits
<1>6. CASE ~Presented(cur)
    <2>1. Moved(m, id) = Anchor(SequenceOf(cur, id), None, FALSE, m.unwritten)
        BY <1>4, <1>6 DEF Moved
    <2>4. FALSE \in BOOLEAN /\ SequenceOf(cur, id) \in Nat /\ SequenceOf(cur, id) <= clock /\ None \in Nat \cup {None}
        BY <1>1, <1>2
    <2>5. Moved(m, id) \in Anchors
        BY <1>4, <2>1, <2>4 DEF Anchor, Anchors
    <2>6. Moved(m, id).anchor = SequenceOf(cur, id) /\ Moved(m, id).ordinal = None /\ ~Moved(m, id).moved
        BY <2>1 DEF Anchor
    <2>. QED  BY <2>4, <2>5, <2>6 DEF Fits
<1>. QED  BY <1>5, <1>6

LEMMA KeptGood ==
    ASSUME TypeInv, RowsInv, NEW x, NEW lands, Good(x)
    PROVE  Good(Kept(x, Selection(x.mem, Listed(cur)), Listed(cur), lands))
<1> DEFINE ms == Listed(cur)
           s == Selection(x.mem, ms)
<1> SUFFICES Good(Kept(x, s, ms, lands))
    OBVIOUS
<1>1. cur \in Branches /\ record[cur] # None
    BY CurLive
<1>2. CASE s.moved
    <2>1. s.first \in DOMAIN ms
        BY <1>2, SelectionMoves
    <2>2. ms[s.first] \in Viewed(cur)
        BY <1>1, <2>1, ListedRows
    <2> HIDE DEF ms, s
    <2>3. Moved(x.mem, ms[s.first]) \in Anchors /\ Fits(Moved(x.mem, ms[s.first]), cur)
        BY <2>2, MovedFits DEF Good
    <2>4. Good(Persist(Moving(x, Moved(x.mem, ms[s.first])), lands))
        BY <2>3, MovingGood DEF Good
    <2>. QED  BY <1>2, <2>4 DEF Kept
<1>3. CASE ~s.moved
    <2> HIDE DEF ms, s
    <2>. QED  BY <1>3 DEF Kept
<1>. QED  BY <1>2, <1>3

-----------------------------------------------------------------------------
(* Steps.                                                                  *)

\* What a step may do to a branch under an anchor: time passes, the index may
\* take effect and grow, and no row comes to stand before one that stands.
Grown(b) ==
    /\ clock \in Nat /\ clock' \in Nat /\ clock <= clock'
    /\ Length(b) \in Nat /\ Length(b)' \in Nat /\ Length(b) <= Length(b)'
    /\ Presented(b) => Presented(b)'
    /\ \A o \in Nat : o <= Length(b) /\ NoneBefore(o, b) => NoneBefore(o, b)'

LEMMA GrownFits ==
    ASSUME NEW b, Grown(b), NEW m, m.anchor \in Nat, m.ordinal \in Nat \cup {None}, Fits(m, b)
    PROVE  Fits(m, b)'
<1>1. m.anchor <= clock'
    BY DEF Grown, Fits
<1>2. m.ordinal # None => Presented(b)' /\ m.ordinal <= Length(b)'
    BY DEF Grown, Fits
<1>. QED  BY <1>1, <1>2 DEF Fits

LEMMA GrownLoad ==
    ASSUME NEW b, Grown(b), NEW s \in Slots, s \in Forms => Fits(s, b)
    PROVE  Load(b, s)' = Load(b, s)
<1>1. CASE s \in {None, Newer}
    BY <1>1 DEF Load, Start, Anchor
<1>2. CASE s \in Forms
    <2>1. s \notin {None, Newer} /\ s.anchor \in Nat /\ s.ordinal \in Nat \cup {None}
        BY <1>2, NoneAssumption DEF Forms
    <2>2. s.anchor <= clock /\ s.anchor <= clock' /\ ~(s.anchor > clock) /\ ~(s.anchor > clock')
        BY <1>2, <2>1 DEF Fits, Grown
    <2>3. CASE s.ordinal = None
        BY <2>1, <2>2, <2>3 DEF Load, Anchor
    <2>4. CASE s.ordinal # None
        <3>1. /\ Presented(b) /\ Presented(b)'
              /\ ~(s.ordinal > Length(b)) /\ ~(s.ordinal > Length(b)')
            BY <1>2, <2>1, <2>4 DEF Fits, Grown
        <3>2. ~(s.ordinal = None \/ ~Presented(b)) /\ ~(s.ordinal = None \/ ~Presented(b)')
            BY <2>4, <3>1
        <3>3. Load(b, s) = Anchor(s.anchor, s.ordinal, s.moved, FALSE)
            BY <2>1, <2>2, <3>1, <3>2 DEF Load
        <3>4. Load(b, s)' = Anchor(s.anchor, s.ordinal, s.moved, FALSE)
            BY <2>1, <2>2, <3>1, <3>2 DEF Load, Anchor
        <3>. QED  BY <3>3, <3>4
    <2>. QED  BY <2>3, <2>4
<1>. QED  BY <1>1, <1>2 DEF Slots

LEMMA GrownAgrees ==
    ASSUME NEW b, Grown(b), NEW s \in Slots, s \in Forms => Fits(s, b),
           NEW m \in Anchors, Fits(m, b), Agrees(m, s, b)
    PROVE  Agrees(m, s, b)'
<1>1. Load(b, s)' = Load(b, s)
    BY GrownLoad
<1>2. CASE m = Load(b, s)
    BY <1>1, <1>2 DEF Agrees
<1>3. CASE m # Load(b, s)
    <2>1. Load(b, s) = Start /\ m.anchor = 0 /\ ~m.moved /\ m.ordinal # None /\ NoneBefore(m.ordinal, b)
        BY <1>3 DEF Agrees
    <2>2. m.ordinal \in Nat /\ m.ordinal <= Length(b)
        BY <2>1 DEF Anchors, Fits
    <2>3. NoneBefore(m.ordinal, b)'
        BY <2>1, <2>2 DEF Grown
    <2>4. Start' = Start
        BY DEF Start, Anchor
    <2>. QED  BY <1>1, <2>1, <2>3, <2>4 DEF Agrees
<1>. QED  BY <1>2, <1>3

\* Slots and memory stay right as their branches grow.
LEMMA GrownInv ==
    ASSUME IInv, slot' = slot, mem' = mem, loaded' = loaded, \A b \in Branches : Grown(b)
    PROVE  SlotInv' /\ MemInv'
<1>1. /\ \A b \in Branches : slot[b] \in Slots /\ (slot[b] \in Forms => Fits(slot[b], b))
      /\ mem \in Anchors /\ loaded \in Branches \cup {None}
    BY DEF IInv, TypeInv, SlotInv
<1>2. SlotInv'
    <2>1. SUFFICES ASSUME NEW b \in Branches, slot[b] \in Forms PROVE Fits(slot[b], b)'
        BY DEF SlotInv, Fits, Presented, Length
    <2>2. slot[b].anchor \in Nat /\ slot[b].ordinal \in Nat \cup {None}
        BY <2>1 DEF Forms
    <2>. QED  BY <1>1, <2>1, <2>2, GrownFits DEF Fits
<1>3. MemInv'
    <2>1. SUFFICES ASSUME loaded # None
                   PROVE  /\ Fits(mem, loaded)'
                          /\ ~mem.unwritten /\ slot[loaded] # Newer => Agrees(mem, slot[loaded], loaded)'
        BY DEF MemInv
    <2>2. loaded \in Branches /\ Grown(loaded) /\ Fits(mem, loaded)
        BY <1>1, <2>1 DEF IInv, MemInv
    <2>3. mem.anchor \in Nat /\ mem.ordinal \in Nat \cup {None}
        BY <1>1 DEF Anchors
    <2>4. Fits(mem, loaded)'
        BY <2>2, <2>3, GrownFits
    <2>5. ASSUME ~mem.unwritten, slot[loaded] # Newer PROVE Agrees(mem, slot[loaded], loaded)'
        <3>1. Agrees(mem, slot[loaded], loaded)
            BY <2>1, <2>5 DEF IInv, MemInv
        <3>. QED  BY <1>1, <2>2, <3>1, GrownAgrees
    <2>. QED  BY <2>4, <2>5
<1>. QED  BY <1>2, <1>3

\* Memory and a slot written, rows, index and clock as they were.
LEMMA LeavesInv ==
    ASSUME IInv, NEW x, Good(x), Leaves(x)
    PROVE  IInv'
<1>1. /\ plan' = plan /\ record' = record /\ log' = log /\ clock' = clock /\ cur' = cur
      /\ mem' = x.mem /\ loaded' = cur /\ slot' = [slot EXCEPT ![cur] = x.slot]
    BY DEF Leaves
<1>2. cur \in Branches /\ record[cur] # None /\ TypeInv
    BY CurLive DEF IInv
<1>3. x.mem \in Anchors /\ x.slot \in Slots
    BY DEF Good
<1>4. TypeInv'
    BY <1>1, <1>2, <1>3 DEF TypeInv
<1>5. RowsInv'
    BY <1>1 DEF IInv, RowsInv, Ids
<1>6. slot'[cur] = x.slot /\ \A b \in Branches : b # cur => slot'[b] = slot[b]
    BY <1>1, <1>2 DEF TypeInv
<1>7. SlotInv'
    <2>1. SUFFICES ASSUME NEW b \in Branches, slot'[b] \in Forms PROVE Fits(slot'[b], b)
        BY <1>1 DEF SlotInv, Fits, Presented, Length
    <2>. QED  BY <1>6, <2>1 DEF Good, IInv, SlotInv
<1>8. MemInv'
    <2>1. Fits(x.mem, cur) /\ (~x.mem.unwritten /\ x.slot # Newer => Agrees(x.mem, x.slot, cur))
        BY DEF Good
    <2>2. SUFFICES /\ Fits(x.mem, cur)'
                   /\ ~x.mem.unwritten /\ x.slot # Newer => Agrees(x.mem, x.slot, cur)'
        BY <1>1, <1>6 DEF MemInv, Agrees, Fits, Load, Start, Anchor, NoneBefore, Ids, Presented, Length
    <2>. QED  BY <1>1, <2>1 DEF Agrees, Fits, Load, Start, Anchor, NoneBefore, Ids, Presented, Length
<1>. QED  BY <1>4, <1>5, <1>7, <1>8 DEF IInv

LEMMA CompileInv ==
    ASSUME IInv, NEW l1, NEW l2, Compile(l1, l2)
    PROVE  IInv'
<1> DEFINE x == Converted(Retried(Found, l1), l2)
<1>1. Good(x)
    BY FoundGood, RetriedGood, ConvertedGood DEF IInv
<1>2. AnswerFrom(x, Listed(cur), l2)
    BY DEF Compile
<1> HIDE DEF x
<1>3. Leaves(x) \/ Leaves(Kept(x, Selection(x.mem, Listed(cur)), Listed(cur), l2))
    BY <1>2 DEF AnswerFrom, Answer, Request
<1>4. Good(Kept(x, Selection(x.mem, Listed(cur)), Listed(cur), l2))
    BY <1>1, KeptGood DEF IInv
<1>. QED  BY <1>1, <1>3, <1>4, LeavesInv

LEMMA ReadAnchorInv ==
    ASSUME IInv, NEW l1, NEW l2, ReadAnchor(l1, l2)
    PROVE  IInv'
<1> DEFINE x == Converted(Retried(Found, l1), l2)
<1>1. Good(x)
    BY FoundGood, RetriedGood, ConvertedGood DEF IInv
<1>2. Leaves(x)
    BY DEF ReadAnchor
<1> HIDE DEF x
<1>. QED  BY <1>1, <1>2, LeavesInv

LEMMA SetAnchorInv ==
    ASSUME IInv, NEW s \in plan.anchors, s <= clock, NEW l, SetAnchor(s, l)
    PROVE  IInv'
<1>1. cur \in Branches /\ record[cur] # None /\ clock \in Nat /\ s \in Nat /\ TypeInv /\ RowsInv
    BY CurLive, PlanAssumption DEF IInv, TypeInv
<1>2. CASE s = Synced.anchor /\ ~Synced.moved
    <2>1. Leaves(Retried(Found, l)) /\ Good(Retried(Found, l))
        BY <1>1, <1>2, FoundGood, RetriedGood DEF SetAnchor
    <2>. QED  BY <2>1, LeavesInv
<1>3. CASE ~(s = Synced.anchor /\ ~Synced.moved)
    <2> DEFINE o == IF Presented(cur) THEN OrdinalFrom(cur, s) ELSE None
               m == Anchor(s, o, FALSE, FALSE)
    <2>1. Leaves(Persist(Moving(Found, m), l))
        BY <1>3 DEF SetAnchor
    <2>2. o \in Nat \cup {None} /\ (o # None => Presented(cur) /\ o <= Length(cur))
        BY <1>1, OrdinalFromIs
    <2> HIDE DEF o
    <2>3. m \in Anchors /\ m.anchor = s /\ m.ordinal = o /\ ~m.moved
        BY <1>1, <2>2 DEF Anchor, Anchors
    <2> HIDE DEF m
    <2>4. Fits(m, cur)
        BY <1>1, <2>2, <2>3 DEF Fits
    <2>5. Good(Persist(Moving(Found, m), l))
        BY <1>1, <2>3, <2>4, FoundGood, MovingGood DEF Good
    <2>. QED  BY <2>1, <2>5, LeavesInv
<1>. QED  BY <1>2, <1>3

LEMMA SetAnchorOrdinalInv ==
    ASSUME IInv, NEW o \in plan.ordinals, NEW l1, NEW l2, SetAnchorOrdinal(o, l1, l2)
    PROVE  IInv'
<1>1. cur \in Branches /\ record[cur] # None /\ clock \in Nat /\ o \in Nat /\ TypeInv /\ RowsInv
    BY CurLive, PlanAssumption DEF IInv, TypeInv
<1> DEFINE x == Converted(Retried(Found, l1), l2)
<1>2. Good(x)
    BY FoundGood, RetriedGood, ConvertedGood DEF IInv
<1>3. Presented(cur) /\ o <= Length(cur) /\ MovesTo(o, x, l2)
    BY DEF SetAnchorOrdinal
<1> HIDE DEF x
<1>4. CASE o = x.mem.ordinal
    <2>1. Leaves(Retried(x, l2)) /\ Good(Retried(x, l2))
        BY <1>1, <1>2, <1>3, <1>4, RetriedGood DEF MovesTo
    <2>. QED  BY <2>1, LeavesInv
<1>5. CASE o # x.mem.ordinal
    <2> DEFINE a == SequenceFrom(cur, o)
               m == Anchor(a, o, TRUE, FALSE)
    <2>1. Leaves(Persist(Moving(x, m), l2))
        BY <1>3, <1>5 DEF MovesTo
    <2>2. a \in Nat /\ a <= clock /\ o # None
        BY <1>1, <1>3, SequenceFromIs, NoneAssumption
    <2> HIDE DEF a
    <2>3. m \in Anchors /\ m.anchor = a /\ m.ordinal = o
        BY <1>1, <2>2 DEF Anchor, Anchors
    <2> HIDE DEF m
    <2>4. Fits(m, cur)
        BY <1>3, <2>2, <2>3 DEF Fits
    <2>5. Good(Persist(Moving(x, m), l2))
        BY <1>1, <1>2, <2>3, <2>4, MovingGood DEF Good
    <2>. QED  BY <2>1, <2>5, LeavesInv
<1>. QED  BY <1>4, <1>5

LEMMA RestartInv ==
    ASSUME IInv, Restart
    PROVE  IInv'
<1> DEFINE x == Held(Load(cur, slot[cur]), slot[cur], faults)
<1>1. cur \in Branches /\ record[cur] # None /\ TypeInv
    BY CurLive DEF IInv
<1>2. slot[cur] \in Slots /\ (slot[cur] \in Forms => Fits(slot[cur], cur))
    BY <1>1, BranchTypes DEF IInv, SlotInv
<1>3. Load(cur, slot[cur]) \in Anchors /\ Fits(Load(cur, slot[cur]), cur)
    BY <1>1, <1>2, LoadFits
<1>4. /\ plan' = plan /\ record' = record /\ log' = log /\ clock' = clock /\ cur' = cur /\ slot' = slot
      /\ mem' = Load(cur, slot[cur]) /\ loaded' = cur
    BY DEF Restart, Turns
<1>5. TypeInv' /\ RowsInv' /\ SlotInv'
    BY <1>1, <1>3, <1>4 DEF IInv, TypeInv, RowsInv, SlotInv, Fits, Presented, Length, Ids
<1>6. MemInv'
    BY <1>3, <1>4 DEF MemInv, Agrees, Fits, Load, Start, Anchor, Presented, Length
<1>. QED  BY <1>5, <1>6 DEF IInv

LEMMA SwitchBranchInv ==
    ASSUME IInv, NEW b \in Branches, NEW seen \in BOOLEAN, SwitchBranch(b, seen)
    PROVE  IInv'
<1>1. /\ plan' = plan /\ record' = record /\ log' = log /\ clock' = clock /\ slot' = slot
      /\ cur' = b /\ record[b] # None
    BY DEF SwitchBranch, Turns, Live
<1>2. (loaded' = None /\ mem' = Start) \/ (loaded' = loaded /\ mem' = mem)
    <2>1. CASE seen
        BY <2>1 DEF SwitchBranch
    <2>2. CASE ~seen
        BY <2>2 DEF SwitchBranch
    <2>. QED  BY <2>1, <2>2
<1>3. TypeInv'
    BY <1>1, <1>2, StartType DEF IInv, TypeInv
<1>4. RowsInv' /\ SlotInv'
    BY <1>1 DEF IInv, RowsInv, SlotInv, Fits, Presented, Length, Ids
<1>5. MemInv'
    BY <1>1, <1>2 DEF IInv, MemInv, Agrees, Fits, Load, Start, Anchor, NoneBefore, Ids, Presented, Length
<1>. QED  BY <1>3, <1>4, <1>5 DEF IInv

LEMMA ForkInv ==
    ASSUME IInv, NEW b \in Branches, Fork(b)
    PROVE  IInv'
<1>1. cur \in Branches /\ record[cur] # None /\ TypeInv
    BY CurLive DEF IInv
<1>2. /\ plan' = plan /\ clock' = clock /\ cur' = cur /\ loaded' = loaded /\ mem' = mem /\ record[b] = None
      /\ record' = [record EXCEPT ![b] = record[cur]] /\ log' = [log EXCEPT ![b] = log[cur]]
      /\ slot' = [slot EXCEPT ![b] = slot[cur]]
    BY DEF Fork, Live
<1>3. /\ record'[b] = record[cur] /\ log'[b] = log[cur] /\ slot'[b] = slot[cur]
      /\ \A c \in Branches : c # b => record'[c] = record[c] /\ log'[c] = log[c] /\ slot'[c] = slot[c]
    BY <1>1, <1>2 DEF TypeInv
<1>4. cur # b /\ (loaded # None => loaded \in Branches /\ loaded # b)
    BY <1>1, <1>2 DEF TypeInv
<1>5. TypeInv'
    BY <1>1, <1>2, <1>3, <1>4 DEF TypeInv
<1>6. RowsInv'
    <2>1. SUFFICES ASSUME NEW c \in Branches, record'[c] # None
                   PROVE  /\ \A n \in DOMAIN record'[c] : record'[c][n].seq <= clock
                          /\ \A i \in 1 .. Len(log'[c]) : log'[c][i].kind = "present" => log'[c][i].id \in ToSet(Ids(c)')
        BY <1>2, Zenon DEF RowsInv
    <2>2. Ids(c)' = IF c = b THEN Ids(cur) ELSE Ids(c)
        BY <1>3, <2>1 DEF Ids
    <2>. QED  BY <1>1, <1>3, <2>1, <2>2 DEF IInv, RowsInv
<1>7. SlotInv'
    <2>1. SUFFICES ASSUME NEW c \in Branches, slot'[c] \in Forms PROVE Fits(slot[c], c)'
        BY DEF SlotInv
    <2> DEFINE d == IF c = b THEN cur ELSE c
    <2>2. slot'[c] = slot[d] /\ log'[c] = log[d] /\ d \in Branches
        BY <1>1, <1>3
    <2> HIDE DEF d
    <2>3. Fits(slot[d], d)
        BY <2>1, <2>2 DEF IInv, SlotInv
    <2>. QED  BY <1>2, <2>2, <2>3 DEF Fits, Presented, Length
<1>8. MemInv'
    <2>1. SUFFICES ASSUME loaded # None
                   PROVE  /\ Fits(mem, loaded)'
                          /\ ~mem.unwritten /\ slot'[loaded] # Newer => Agrees(mem, slot[loaded], loaded)'
        BY <1>2 DEF MemInv
    <2>2. record'[loaded] = record[loaded] /\ log'[loaded] = log[loaded] /\ slot'[loaded] = slot[loaded]
        BY <1>3, <1>4, <2>1
    <2>3. /\ Fits(mem, loaded)
          /\ ~mem.unwritten /\ slot[loaded] # Newer => Agrees(mem, slot[loaded], loaded)
        BY <2>1 DEF IInv, MemInv
    <2>4. Fits(mem, loaded)'
        BY <1>2, <2>2, <2>3 DEF Fits, Presented, Length
    <2>5. Agrees(mem, slot[loaded], loaded) => Agrees(mem, slot[loaded], loaded)'
        <3>1. Load(loaded, slot[loaded])' = Load(loaded, slot[loaded]) /\ Start' = Start
            BY <1>2, <2>2 DEF Load, Start, Anchor, Presented, Length
        <3>2. Ids(loaded)' = Ids(loaded)
            BY <1>2, <2>2 DEF Ids
        <3>3. NoneBefore(mem.ordinal, loaded)' <=> NoneBefore(mem.ordinal, loaded)
            BY <1>2, <2>2, <3>2 DEF NoneBefore
        <3>. QED  BY <1>2, <3>1, <3>3 DEF Agrees
    <2>. QED  BY <2>2, <2>3, <2>4, <2>5
<1>. QED  BY <1>5, <1>6, <1>7, <1>8 DEF IInv

\* A branch no row or item of which changes.
LEMMA StillGrown ==
    ASSUME TypeInv, clock' \in Nat, clock <= clock', NEW b \in Branches, record'[b] = record[b], log'[b] = log[b]
    PROVE  Grown(b)
<1>1. clock \in Nat /\ log[b] \in Seq(Item) /\ Len(log[b]) \in Nat
    BY LenProperties DEF TypeInv
<1>2. Ids(b)' = Ids(b)
    BY DEF Ids
<1>. QED  BY <1>1, <1>2 DEF Grown, Length, Presented, NoneBefore

\* A row's number is one of the plan's.
LEMMA RowNumber ==
    ASSUME TypeInv, NEW id \in DOMAIN plan.price
    PROVE  id \in Nat
<1>1. plan.price \in Seq(Nat)
    BY PlanAssumption DEF TypeInv
<1>2. DOMAIN plan.price = 1 .. Len(plan.price) /\ Len(plan.price) \in Nat
    BY <1>1, LenProperties
<1>. QED  BY <1>2

LEMMA AddMessageInv ==
    ASSUME IInv, NEW new \in DOMAIN plan.price, AddMessage(new)
    PROVE  IInv'
<1> DEFINE row == [id |-> new, seq |-> clock + 1]
<1>1. cur \in Branches /\ record[cur] # None /\ TypeInv /\ RowsInv /\ clock \in Nat
    BY CurLive DEF IInv
<1>2. /\ plan' = plan /\ log' = log /\ slot' = slot /\ cur' = cur /\ loaded' = loaded /\ mem' = mem
      /\ clock' = clock + 1 /\ record' = [record EXCEPT ![cur] = Append(@, row)]
    BY DEF AddMessage, Rest
<1>3. row \in Row /\ row.seq = clock + 1
    BY <1>1, RowNumber DEF Row
<1> HIDE DEF row
<1>4. record'[cur] = Append(record[cur], row) /\ \A b \in Branches : b # cur => record'[b] = record[b]
    BY <1>1, <1>2 DEF TypeInv
<1>5. /\ record'[cur] \in Seq(Row) /\ Len(record[cur]) \in Nat
      /\ DOMAIN record[cur] = 1 .. Len(record[cur]) /\ DOMAIN record'[cur] = 1 .. Len(record[cur]) + 1
      /\ \A n \in 1 .. Len(record[cur]) : record'[cur][n] = record[cur][n]
      /\ record'[cur][Len(record[cur]) + 1] = row
    <2>1. record[cur] \in Seq(Row)
        BY <1>1, BranchTypes
    <2>. QED  BY <1>3, <1>4, <2>1, AppendProperties, LenProperties
<1>6. record'[cur] # None
    BY <1>5, NoneAssumption DEF Row
<1>7. TypeInv'
    <2>1. record' \in [Branches -> Seq(Row) \cup {None}]
        BY <1>1, <1>2, <1>4, <1>5 DEF TypeInv
    <2>. QED  BY <1>1, <1>2, <1>4, <1>6, <2>1 DEF TypeInv
<1>8. ASSUME NEW b \in Branches, record[b] # None PROVE ToSet(Ids(b)) \subseteq ToSet(Ids(b)')
    <2>1. ASSUME NEW n \in DOMAIN record[b] PROVE n \in DOMAIN record'[b] /\ record'[b][n].id = record[b][n].id
        <3>1. CASE b = cur
            <4>1. n \in 1 .. Len(record[cur]) /\ n \in 1 .. Len(record[cur]) + 1
                BY <1>5, <2>1, <3>1
            <4>2. record'[b][n] = record[b][n]
                BY <1>5, <3>1, <4>1
            <4>. QED  BY <1>5, <3>1, <4>1, <4>2
        <3>2. CASE b # cur
            BY <1>4, <3>2
        <3>. QED  BY <3>1, <3>2
    <2>2. \A n \in DOMAIN Ids(b) : n \in DOMAIN Ids(b)' /\ Ids(b)'[n] = Ids(b)[n]
        BY <2>1 DEF Ids
    <2>. QED  BY <2>2, Zenon DEF ToSet
<1>9. RowsInv'
    <2>1. SUFFICES ASSUME NEW b \in Branches, record'[b] # None
                   PROVE  /\ \A n \in DOMAIN record'[b] : record'[b][n].seq <= clock + 1
                          /\ \A i \in 1 .. Len(log[b]) : log[b][i].kind = "present" => log[b][i].id \in ToSet(Ids(b)')
        BY <1>2, Zenon DEF RowsInv
    <2>2. CASE b = cur
        <3>1. \A n \in DOMAIN record[cur] : record[cur][n].seq \in Nat /\ record[cur][n].seq <= clock
            BY <1>1, BranchTypes DEF RowsInv
        <3>2. \A n \in DOMAIN record'[cur] : record'[cur][n].seq <= clock + 1
            <4>1. SUFFICES ASSUME NEW n \in 1 .. Len(record[cur]) + 1 PROVE record'[cur][n].seq <= clock + 1
                BY <1>5
            <4>2. CASE n \in 1 .. Len(record[cur])
                <5>1. record'[cur][n] = record[cur][n] /\ record[cur][n].seq \in Nat /\ record[cur][n].seq <= clock
                    BY <1>5, <3>1, <4>2
                <5>. QED  BY <1>1, <5>1
            <4>3. CASE n = Len(record[cur]) + 1
                BY <1>1, <1>3, <1>5, <4>3
            <4>. QED  BY <1>5, <4>2, <4>3
        <3>3. \A i \in 1 .. Len(log[b]) : log[b][i].kind = "present" => log[b][i].id \in ToSet(Ids(b))
            BY <1>1, <2>2 DEF RowsInv
        <3>4. ToSet(Ids(b)) \subseteq ToSet(Ids(b)')
            BY <1>1, <1>8, <2>2
        <3>5. \A i \in 1 .. Len(log[b]) : log[b][i].kind = "present" => log[b][i].id \in ToSet(Ids(b)')
            BY <3>3, <3>4
        <3>6. \A n \in DOMAIN record'[b] : record'[b][n].seq <= clock + 1
            BY <2>2, <3>2
        <3>. QED  BY <3>5, <3>6
    <2>3. CASE b # cur
        <3>1. record'[b] = record[b] /\ Ids(b)' = Ids(b)
            BY <1>4, <2>3 DEF Ids
        <3>2. \A n \in DOMAIN record[b] : record[b][n].seq \in Nat /\ record[b][n].seq <= clock
            BY <1>1, <2>1, <3>1, BranchTypes DEF RowsInv
        <3>. QED  BY <1>1, <2>1, <3>1, <3>2 DEF RowsInv
    <2>. QED  BY <2>2, <2>3
<1>10. ASSUME NEW b \in Branches PROVE Grown(b)
    <2>1. CASE b # cur
        BY <1>1, <1>2, <1>4, <2>1, StillGrown
    <2>2. CASE b = cur
        <3>1. ASSUME NEW o \in Nat, NoneBefore(o, cur) PROVE NoneBefore(o, cur)'
            <4>1. SUFFICES ASSUME NEW i \in 1 .. Len(log[cur]), NEW id \in ToSet(Ids(cur)'), StandsAt(log[cur], i, id)
                           PROVE  i >= o
                BY <1>2, Zenon DEF NoneBefore
            <4>2. id \in ToSet(Ids(cur))
                BY <1>1, <4>1 DEF RowsInv, StandsAt, Presents
            <4>. QED  BY <3>1, <4>1, <4>2 DEF NoneBefore
        <3>2. Len(log[cur]) \in Nat
            BY <1>1, BranchTypes
        <3>. QED  BY <1>1, <1>2, <2>2, <3>1, <3>2 DEF Grown, Length, Presented
    <2>. QED  BY <2>1, <2>2
<1>. QED  BY <1>2, <1>7, <1>9, <1>10, GrownInv DEF IInv

-----------------------------------------------------------------------------
(* The index written.                                                      *)

\* Items the manager appends to the branch's index: of rows the branch has,
\* and nothing but rows presented and retracted once it is in effect.
LEMMA LogsInv ==
    ASSUME IInv, NEW items \in Seq(Item), Logs(items),
           \A i \in 1 .. Len(items) : items[i].kind = "present" => items[i].id \in ToSet(Ids(cur)),
           Presented(cur) => \A i \in 1 .. Len(items) : items[i].kind \in {"present", "retract"}
    PROVE  IInv'
<1>1. cur \in Branches /\ record[cur] # None /\ TypeInv /\ RowsInv /\ clock \in Nat /\ log[cur] \in Seq(Item)
    BY CurLive, BranchTypes DEF IInv
<1>2. /\ plan' = plan /\ record' = record /\ slot' = slot /\ cur' = cur /\ loaded' = loaded /\ mem' = mem
      /\ clock' = clock + 1 /\ log' = [log EXCEPT ![cur] = @ \o items]
    BY DEF Logs, Rest
<1>3. log'[cur] = log[cur] \o items /\ \A b \in Branches : b # cur => log'[b] = log[b]
    BY <1>1, <1>2 DEF TypeInv
<1> DEFINE s == log[cur]
           r == log[cur] \o items
<1>4. /\ r \in Seq(Item) /\ Len(r) = Len(s) + Len(items) /\ Len(s) \in Nat /\ Len(items) \in Nat
      /\ \A i \in 1 .. Len(s) : r[i] = s[i]
      /\ \A i \in 1 .. Len(items) : r[Len(s) + i] = items[i]
      /\ \A i \in 1 .. Len(r) : i <= Len(s) \/ i - Len(s) \in 1 .. Len(items)
    BY <1>1, ConcatItems
<1>5. \A i \in 1 .. Len(s) : \A id : StandsAt(r, i, id) => StandsAt(s, i, id)
    BY <1>1, StandsBefore
<1>6. InEffect(s) => InEffect(r)
    BY <1>1, EffectStays DEF Presented
<1> HIDE DEF r
<1>7. log'[cur] = r /\ TypeInv'
    <2>1. log'[cur] = r
        BY <1>3 DEF r
    <2>. QED  BY <1>1, <1>2, <1>3, <1>4, <2>1 DEF TypeInv
<1>8. RowsInv'
    <2>1. SUFFICES ASSUME NEW b \in Branches, record[b] # None
                   PROVE  /\ \A n \in DOMAIN record[b] : record[b][n].seq <= clock + 1
                          /\ \A i \in 1 .. Len(log'[b]) : log'[b][i].kind = "present" => log'[b][i].id \in ToSet(Ids(b))
        <3>1. \A b \in Branches : Ids(b)' = Ids(b)
            BY <1>2 DEF Ids
        <3>. QED  BY <1>2, <3>1, Zenon DEF RowsInv
    <2>2. \A n \in DOMAIN record[b] : record[b][n].seq <= clock + 1
        <3>1. \A n \in DOMAIN record[b] : record[b][n].seq \in Nat /\ record[b][n].seq <= clock
            BY <1>1, <2>1, BranchTypes DEF RowsInv
        <3>. QED  BY <1>1, <3>1
    <2>3. \A i \in 1 .. Len(log[b]) : log[b][i].kind = "present" => log[b][i].id \in ToSet(Ids(b))
        BY <1>1, <2>1 DEF RowsInv
    <2>4. CASE b # cur
        BY <1>3, <2>2, <2>3, <2>4
    <2>5. CASE b = cur
        <3>1. SUFFICES ASSUME NEW i \in 1 .. Len(r), r[i].kind = "present" PROVE r[i].id \in ToSet(Ids(cur))
            BY <1>7, <2>2, <2>5
        <3>2. CASE i <= Len(s)
            <4>1. r[i] = s[i] /\ i \in 1 .. Len(s)
                BY <1>4, <3>2
            <4>. QED  BY <2>3, <2>5, <3>1, <4>1
        <3>3. CASE i - Len(s) \in 1 .. Len(items)
            <4>1. PICK k \in 1 .. Len(items) : k = i - Len(s)
                BY <3>3
            <4>2. Len(s) + k = i
                BY <1>4, <4>1
            <4>3. r[i] = items[k]
                BY <1>4, <4>2
            <4>. QED  BY <3>1, <4>3
        <3>. QED  BY <1>4, <3>2, <3>3
    <2>. QED  BY <2>4, <2>5
<1>9. ASSUME NEW b \in Branches PROVE Grown(b)
    <2>1. CASE b # cur
        BY <1>1, <1>2, <1>3, <2>1, StillGrown
    <2>2. CASE b = cur
        <3>1. ASSUME NEW o \in Nat, o <= Length(b), NoneBefore(o, b) PROVE NoneBefore(o, b)'
            <4>1. SUFFICES ASSUME NEW i \in 1 .. Len(r), NEW id \in ToSet(Ids(b)), StandsAt(r, i, id)
                           PROVE  i >= o
                <5>1. Ids(b)' = Ids(b) /\ log'[b] = r
                    BY <1>2, <1>7, <2>2 DEF Ids
                <5>. QED  BY <5>1, Zenon DEF NoneBefore
            <4>2. CASE i <= Len(s)
                <5>1. StandsAt(s, i, id) /\ i \in 1 .. Len(s)
                    BY <1>4, <1>5, <4>1, <4>2
                <5>. QED  BY <2>2, <3>1, <5>1 DEF NoneBefore
            <4>3. CASE ~(i <= Len(s))
                BY <1>4, <2>2, <3>1, <4>1, <4>3 DEF Length
            <4>. QED  BY <4>2, <4>3
        <3>2. Presented(b) => Presented(b)'
            BY <1>6, <1>7, <2>2 DEF Presented
        <3>3. Length(b) = Len(s) + 1 /\ Length(b)' = Len(r) + 1
            BY <1>7, <2>2 DEF Length
        <3>. QED  BY <1>1, <1>2, <1>4, <3>1, <3>2, <3>3 DEF Grown
    <2>. QED  BY <2>1, <2>2
<1>. QED  BY <1>2, <1>7, <1>8, <1>9, GrownInv DEF IInv

LEMMA WriteDownInv ==
    ASSUME IInv, WriteDown
    PROVE  IInv'
<1> DEFINE presented == [n \in DOMAIN Ids(cur) |-> Item_("present", Ids(cur)[n])]
           header == <<Item_("header", 0)>>
<1>1. cur \in Branches /\ record[cur] # None /\ TypeInv
    BY CurLive DEF IInv
<1>2. ~Presented(cur) /\ Logs(presented \o header)
    BY DEF WriteDown
<1>3. DOMAIN Ids(cur) = 1 .. Len(record[cur]) /\ Len(record[cur]) \in Nat /\ \A n \in DOMAIN Ids(cur) : Ids(cur)[n] \in Nat
    BY <1>1, BranchTypes DEF Ids
<1>4. /\ presented \in Seq(Item)
      /\ \A i \in 1 .. Len(presented) : presented[i].id \in ToSet(Ids(cur))
    <2>1. ASSUME NEW n \in DOMAIN Ids(cur) PROVE presented[n] \in Item /\ presented[n].id = Ids(cur)[n]
        BY <1>3 DEF Item_, Item, Kinds
    <2>2. DOMAIN presented = 1 .. Len(record[cur]) /\ \A i \in 1 .. Len(record[cur]) : presented[i] \in Item
        BY <1>3, <2>1
    <2>3. Len(presented) = Len(record[cur])
        BY <1>3, <2>2
    <2>4. \A n \in DOMAIN Ids(cur) : Ids(cur)[n] \in ToSet(Ids(cur))
        BY DEF ToSet
    <2>5. presented \in Seq(Item)
        <3>1. presented = [n \in 1 .. Len(record[cur]) |-> Item_("present", Ids(cur)[n])]
            BY <1>3
        <3>2. presented \in [1 .. Len(record[cur]) -> Item]
            BY <2>2, <3>1
        <3> HIDE DEF presented
        <3>. QED  BY <1>3, <3>2, SeqDef
    <2>. QED  BY <1>3, <2>1, <2>3, <2>4, <2>5
<1>5. header \in Seq(Item) /\ Len(header) = 1 /\ header[1].kind = "header"
    BY DEF Item_, Item, Kinds
<1> HIDE DEF presented, header
<1> DEFINE items == presented \o header
<1>6. items \in Seq(Item) /\ \A i \in 1 .. Len(items) : items[i].kind = "present" => items[i].id \in ToSet(Ids(cur))
    <2>1. /\ items \in Seq(Item)
          /\ \A i \in 1 .. Len(presented) : items[i] = presented[i]
          /\ \A i \in 1 .. Len(header) : items[Len(presented) + i] = header[i]
          /\ \A i \in 1 .. Len(items) : i <= Len(presented) \/ i - Len(presented) \in 1 .. Len(header)
          /\ Len(presented) \in Nat
        BY <1>4, <1>5, ConcatItems
    <2> HIDE DEF items
    <2>2. ASSUME NEW i \in 1 .. Len(items), items[i].kind = "present" PROVE items[i].id \in ToSet(Ids(cur))
        <3>1. CASE i <= Len(presented)
            BY <1>4, <2>1, <3>1
        <3>2. CASE i - Len(presented) \in 1 .. Len(header)
            <4>1. items[i] = header[1]
                BY <1>5, <2>1, <3>2
            <4>. QED  BY <1>5, <2>2, <4>1
        <3>. QED  BY <2>1, <3>1, <3>2
    <2>. QED  BY <2>1, <2>2
<1>. QED  BY <1>2, <1>6, LogsInv

LEMMA OneItem ==
    ASSUME NEW kind \in {"present", "retract"}, NEW id \in Nat
    PROVE  /\ <<Item_(kind, id)>> \in Seq(Item) /\ Len(<<Item_(kind, id)>>) = 1
           /\ <<Item_(kind, id)>>[1].kind = kind /\ <<Item_(kind, id)>>[1].id = id
BY DEF Item_, Item, Kinds

LEMMA PresentInv ==
    ASSUME IInv, NEW id \in DOMAIN plan.price, Present(id)
    PROVE  IInv'
<1>1. id \in Nat
    BY RowNumber DEF IInv
<1>2. id \in ToSet(Ids(cur)) /\ Logs(<<Item_("present", id)>>)
    BY DEF Present
<1> DEFINE items == <<Item_("present", id)>>
<1>3. items \in Seq(Item) /\ Len(items) = 1 /\ items[1].kind = "present" /\ items[1].id = id
    BY <1>1, OneItem
<1>4. Logs(items)
    BY <1>2
<1> HIDE DEF items
<1>5. /\ \A i \in 1 .. Len(items) : items[i].kind = "present" => items[i].id \in ToSet(Ids(cur))
      /\ \A i \in 1 .. Len(items) : items[i].kind \in {"present", "retract"}
    BY <1>2, <1>3
<1>. QED  BY <1>3, <1>4, <1>5, LogsInv

LEMMA RetractInv ==
    ASSUME IInv, NEW id \in DOMAIN plan.price, Retract(id)
    PROVE  IInv'
<1>1. id \in Nat
    BY RowNumber DEF IInv
<1>2. Logs(<<Item_("retract", id)>>)
    BY DEF Retract
<1> DEFINE items == <<Item_("retract", id)>>
<1>3. items \in Seq(Item) /\ Len(items) = 1 /\ items[1].kind = "retract" /\ items[1].id = id
    BY <1>1, OneItem
<1>4. Logs(items)
    BY <1>2
<1> HIDE DEF items
<1>5. /\ \A i \in 1 .. Len(items) : items[i].kind = "present" => items[i].id \in ToSet(Ids(cur))
      /\ \A i \in 1 .. Len(items) : items[i].kind \in {"present", "retract"}
    BY <1>2, <1>3
<1>. QED  BY <1>3, <1>4, <1>5, LogsInv

-----------------------------------------------------------------------------
(* The invariant, and what it gives.                                       *)

LEMMA InitInv == Init => IInv
<1> SUFFICES ASSUME Init PROVE IInv
    OBVIOUS
<1>1. plan.slot \in {None, Newer}
    BY PlanAssumption DEF Init
<1>2. << >> # None
    <2>1. << >> \in Seq([id : Nat, seq : Nat])
        OBVIOUS
    <2>. QED  BY <2>1, NoneAssumption
<1>3. TypeInv
    <2>1. record \in [Branches -> Seq(Row) \cup {None}] /\ log \in [Branches -> Seq(Item)]
        BY DEF Init
    <2>2. slot \in [Branches -> Slots]
        BY <1>1 DEF Init, Slots
    <2>. QED  BY <1>2, <2>1, <2>2, StartType, BranchAssumption DEF Init, TypeInv
<1>4. RowsInv
    <2>1. SUFFICES ASSUME NEW b \in Branches, record[b] # None
                   PROVE  DOMAIN record[b] = {} /\ Len(log[b]) = 0
        BY DEF RowsInv
    <2>2. record[b] = << >> /\ log[b] = << >>
        BY <2>1 DEF Init
    <2>. QED  BY <2>2
<1>5. SlotInv
    BY <1>1, NoneAssumption DEF Init, SlotInv
<1>6. MemInv
    <2>1. slot[Main] = plan.slot /\ loaded = Main /\ mem = Start /\ clock = 0
        BY BranchAssumption DEF Init
    <2>2. Load(Main, slot[Main]) = Start
        BY <1>1, <2>1, NoFormLoads
    <2>. QED  BY <2>1, <2>2, StartType DEF MemInv, Fits, Agrees
<1>. QED  BY <1>3, <1>4, <1>5, <1>6 DEF IInv

LEMMA NextInv == IInv /\ [Next]_vars => IInv'
<1> SUFFICES ASSUME IInv, [Next]_vars PROVE IInv'
    OBVIOUS
<1>1. ASSUME NEW l1 \in Lands, NEW l2 \in Lands, Compile(l1, l2) PROVE IInv'
    BY <1>1, CompileInv
<1>2. ASSUME NEW l1 \in Lands, NEW l2 \in Lands, ReadAnchor(l1, l2) PROVE IInv'
    BY <1>2, ReadAnchorInv
<1>3. ASSUME NEW l1 \in Lands, NEW s \in plan.anchors, s <= clock, SetAnchor(s, l1) PROVE IInv'
    BY <1>3, SetAnchorInv
<1>4. ASSUME NEW l1 \in Lands, NEW l2 \in Lands, NEW o \in plan.ordinals, SetAnchorOrdinal(o, l1, l2) PROVE IInv'
    BY <1>4, SetAnchorOrdinalInv
<1>5. CASE WriteDown
    BY <1>5, WriteDownInv
<1>6. CASE Restart
    BY <1>6, RestartInv
<1>7. ASSUME NEW id \in DOMAIN plan.price, AddMessage(id) PROVE IInv'
    BY <1>7, AddMessageInv
<1>8. ASSUME NEW id \in DOMAIN plan.price, Present(id) PROVE IInv'
    BY <1>8, PresentInv
<1>9. ASSUME NEW id \in DOMAIN plan.price, Retract(id) PROVE IInv'
    BY <1>9, RetractInv
<1>10. ASSUME NEW b \in Branches, Fork(b) PROVE IInv'
    BY <1>10, ForkInv
<1>11. ASSUME NEW b \in Branches, NEW seen \in BOOLEAN, SwitchBranch(b, seen) PROVE IInv'
    BY <1>11, SwitchBranchInv
<1>12. CASE UNCHANGED vars
    <2>1. TypeInv'
        BY <1>12 DEF vars, IInv, TypeInv
    <2>2. RowsInv' /\ SlotInv'
        BY <1>12 DEF vars, IInv, RowsInv, SlotInv, Ids, Fits, Presented, Length
    <2>3. MemInv'
        BY <1>12 DEF vars, IInv, MemInv, Agrees, Fits, Load, Start, Anchor, NoneBefore, Ids, Presented, Length
    <2>. QED  BY <2>1, <2>2, <2>3 DEF IInv
<1>. QED  BY <1>1, <1>2, <1>3, <1>4, <1>5, <1>6, <1>7, <1>8, <1>9, <1>10, <1>11, <1>12 DEF Next

\* An ordinal no row stands before shows every row listed, and so does the
\* branch's start.
LEMMA FirstShowsAll ==
    ASSUME TypeInv, RowsInv, Presented(cur), NEW m, m.ordinal # None, m.ordinal \in Nat, NoneBefore(m.ordinal, cur)
    PROVE  Shown(m) = ToSet(Listed(cur))
<1>1. cur \in Branches /\ record[cur] # None
    BY CurLive
<1>2. ASSUME NEW id \in ToSet(Listed(cur)) PROVE Shows(m, id)
    <2>1. id \in Viewed(cur)
        BY <1>1, <1>2, ListedRows DEF ToSet
    <2>2. /\ id \in ToSet(Ids(cur)) /\ OrdinalIn(log[cur], id) \in 1 .. Len(log[cur])
          /\ StandsAt(log[cur], OrdinalIn(log[cur], id), id)
        BY <1>1, <2>1, RowStands
    <2>. QED  BY <2>2 DEF NoneBefore, Shows
<1>. QED  BY <1>2, Zenon DEF Shown

LEMMA StartShowsAll ==
    ASSUME TypeInv, RowsInv, Presented(cur)
    PROVE  Shown(Start) = ToSet(Listed(cur))
<1>1. cur \in Branches /\ record[cur] # None
    BY CurLive
<1>2. Start.ordinal = None /\ Start.anchor = 0
    BY StartType
<1>3. OrdinalFrom(cur, 0) \in Nat /\ NoneBefore(OrdinalFrom(cur, 0), cur)
    BY <1>1, OrdinalFromIs
<1>4. ASSUME NEW id \in ToSet(Listed(cur)) PROVE Shows(Start, id)
    <2>1. id \in Viewed(cur)
        BY <1>1, <1>4, ListedRows DEF ToSet
    <2>2. /\ id \in ToSet(Ids(cur)) /\ OrdinalIn(log[cur], id) \in 1 .. Len(log[cur])
          /\ StandsAt(log[cur], OrdinalIn(log[cur], id), id)
        BY <1>1, <2>1, RowStands
    <2>. QED  BY <1>2, <1>3, <2>2 DEF NoneBefore, Shows
<1>. QED  BY <1>4, Zenon DEF Shown

\* What the invariant gives of memory and its slot.
LEMMA SlotIsMemoryFollows == IInv => SlotIsMemory
<1> SUFFICES ASSUME IInv, loaded = cur, ~mem.unwritten, slot[cur] # Newer
             PROVE  LET m == Load(cur, slot[cur]) IN Shown(m) = Shown(mem) /\ m.moved = mem.moved
    BY DEF SlotIsMemory
<1>1. cur \in Branches /\ record[cur] # None /\ TypeInv /\ RowsInv /\ mem \in Anchors
    BY CurLive DEF IInv, TypeInv
<1>2. loaded # None /\ Fits(mem, cur) /\ Agrees(mem, slot[cur], cur)
    BY <1>1, NoneAssumption DEF IInv, MemInv
<1>3. CASE mem = Load(cur, slot[cur])
    BY <1>3
<1>4. CASE mem # Load(cur, slot[cur])
    <2>1. Load(cur, slot[cur]) = Start /\ ~mem.moved /\ mem.ordinal # None /\ NoneBefore(mem.ordinal, cur)
        BY <1>2, <1>4 DEF Agrees
    <2>2. Presented(cur) /\ mem.ordinal \in Nat /\ mem.moved = FALSE
        BY <1>1, <1>2, <2>1 DEF Fits, Anchors
    <2>3. Shown(mem) = ToSet(Listed(cur)) /\ Shown(Start) = ToSet(Listed(cur))
        BY <1>1, <2>1, <2>2, FirstShowsAll, StartShowsAll
    <2>. QED  BY <2>1, <2>2, <2>3, StartType
<1>. QED  BY <1>3, <1>4

\* Over any number of conversions, moves, setters, switches, forks, restarts
\* and writes that threw, once no write is owed the slot of the branch memory
\* is of holds what it sends from (persistAnchor, presentedAnchor,
\* loadBranchState): a restart sends the same rows.
THEOREM SlotIsMemoryAlways == Spec => []SlotIsMemory
<1>1. Spec => []IInv
    BY InitInv, NextInv, PTL DEF Spec
<1>. QED  BY <1>1, SlotIsMemoryFollows, PTL

=============================================================================
