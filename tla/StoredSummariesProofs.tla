----------------------- MODULE StoredSummariesProofs -----------------------
(***************************************************************************)
(* What settling makes of any store at all, and what the cut of a run into *)
(* groups leaves, proved for every value of the constants.                 *)
(***************************************************************************)
EXTENDS StoredSummaries, SequenceTheorems, FiniteSetTheorems, WellFoundedInduction, TLAPS

\* What stays when missing and misplaced sources are dropped is part of what
\* was there, and each summary of it finds its sources in it.
LEMMA StandingStands ==
    ASSUME NEW kept
    PROVE  /\ Standing(kept) \subseteq kept
           /\ \A c \in Standing(kept) : Stands(Standing(kept), c)
<1> DEFINE largest == UNION {part \in SUBSET kept : \A c \in part : Stands(part, c)}
<1>1. CASE \A c \in kept : Stands(kept, c)
    BY <1>1 DEF Standing
<1>2. CASE ~\A c \in kept : Stands(kept, c)
    <2>1. Standing(kept) = largest /\ largest \subseteq kept
        BY <1>2 DEF Standing
    <2>2. ASSUME NEW c \in largest PROVE Stands(largest, c)
        <3>1. PICK part \in SUBSET kept : c \in part /\ \A d \in part : Stands(part, d)
            OBVIOUS
        <3>2. part \subseteq largest
            BY <3>1
        <3>. QED  BY <3>1, <3>2 DEF Stands
    <2>. QED  BY <2>1, <2>2
<1>. QED  BY <1>1, <1>2

\* The copies of a list that has n of them.
ListOf(q, n) == n \in Nat /\ DOMAIN q = 1..n /\ \A k \in 1..n : IsCopy(q[k])

\* A summary read in whole, and one copy of each.
Readable(c) ==
    /\ IsCopy(c) /\ c.text /\ IsWhole(c)
    /\ c.level = 1 => c.range = Ends(c.src)
OneEach(S) == \A c, d \in S : c.id = d.id => c = d

LEMMA FirstInIsFirst ==
    ASSUME NEW n \in Nat, NEW T, T \subseteq 1..n, T # {}
    PROVE  FirstIn(T) \in T /\ \A j \in T : FirstIn(T) <= j
<1>1. PICK i \in T : \A j \in T : ~(<<j, i>> \in OpToRel(<, Nat))
    <2>1. T \subseteq Nat
        OBVIOUS
    <2>. QED  BY <2>1, NatLessThanWellFounded, WFMin
<1>2. \A j \in T : i <= j
    <2>1. SUFFICES ASSUME NEW j \in T, ~(i <= j) PROVE FALSE
        OBVIOUS
    <2>2. i \in Nat /\ j \in Nat /\ j < i
        BY <2>1
    <2>3. <<j, i>> \in OpToRel(<, Nat)
        BY <2>2 DEF OpToRel
    <2>. QED  BY <1>1, <2>3
<1>. QED  BY <1>2, Zenon DEF FirstIn

LEMMA SourcedIsCopy ==
    ASSUME NEW d, IsCopy(d), NEW x, NEW y
    PROVE  LET r == Sourced(d, x, y) IN
           IsCopy(r) /\ r.id = d.id /\ r.level = d.level /\ r.text = d.text /\ r.src = x /\ r.range = y
BY DEF IsCopy, Sourced

\* What a list is read as: each summary once, and each from the list.
LEMMA ReadIsReadable ==
    ASSUME NEW q, NEW n, ListOf(q, n), NEW recs
    PROVE  /\ \A c \in Read(q, recs) : Readable(c) /\ \E k \in 1..n : q[k].id = c.id
           /\ OneEach(Read(q, recs))
<1>1. ASSUME NEW id, WithText(q, id) # {}
      PROVE  LET d == Preferred(q, id) IN
             IsCopy(d) /\ d.text /\ d.id = id /\ \E k \in 1..n : q[k].id = id
    <2> DEFINE T == IF Naming(q, id) # {} THEN Naming(q, id) ELSE WithText(q, id)
    <2>1. T # {} /\ T \subseteq WithText(q, id) /\ T \subseteq 1..n
        BY <1>1 DEF Naming, WithText, CopiesOf, ListOf
    <2>2. FirstIn(T) \in T
        BY <2>1, FirstInIsFirst DEF ListOf
    <2>3. FirstIn(T) \in 1..n /\ q[FirstIn(T)].id = id /\ q[FirstIn(T)].text
        BY <2>1, <2>2 DEF WithText, CopiesOf
    <2>. QED  BY <2>3 DEF Preferred, ListOf
<1>2. ASSUME NEW d, IsCopy(d), d.text, IsWhole(ReadFrom(q, recs, d))
      PROVE  Readable(ReadFrom(q, recs, d)) /\ ReadFrom(q, recs, d).id = d.id
    <2> DEFINE messages == MessagesFound(q, recs, d)
               donor == q[FirstIn(Donors(q, d.id))]
    <2>1. CASE d.level = 1
        <3>1. ReadFrom(q, recs, d) =
                Sourced(d, messages, IF messages = <<>> THEN <<>> ELSE Ends(messages))
            BY <2>1 DEF ReadFrom
        <3>2. messages # <<>>
            BY <1>2, <3>1 DEF IsWhole, Sourced
        <3> HIDE DEF messages
        <3>. QED  BY <1>2, <2>1, <3>1, <3>2, SourcedIsCopy DEF Readable
    <2>2. CASE d.level > 1 /\ (IsWhole(d) \/ Donors(q, d.id) = {})
        <3>1. ReadFrom(q, recs, d) = d
            BY <2>2, <1>2 DEF ReadFrom, IsCopy
        <3>. QED  BY <1>2, <2>2, <3>1 DEF Readable, IsCopy
    <2>3. CASE d.level > 1 /\ ~(IsWhole(d) \/ Donors(q, d.id) = {})
        <3>1. ReadFrom(q, recs, d) = Sourced(d, donor.src, donor.range)
            BY <1>2, <2>3 DEF ReadFrom, IsCopy
        <3> HIDE DEF donor
        <3>2. ReadFrom(q, recs, d).level # 1
            BY <1>2, <2>3, <3>1, SourcedIsCopy DEF IsCopy
        <3>. QED  BY <1>2, <3>1, <3>2, SourcedIsCopy DEF Readable
    <2>. QED  BY <1>2, <2>1, <2>2, <2>3 DEF IsCopy
<1>3. ASSUME NEW c \in Read(q, recs)
      PROVE  \E id : c = ReadFrom(q, recs, Preferred(q, id)) /\ WithText(q, id) # {} /\ IsWhole(c)
    BY DEF Read
<1>4. ASSUME NEW c \in Read(q, recs)
      PROVE  /\ Readable(c) /\ (\E k \in 1..n : q[k].id = c.id)
             /\ c = ReadFrom(q, recs, Preferred(q, c.id))
    BY <1>1, <1>2, <1>3
<1>. QED  BY <1>4 DEF OneEach

----------------------------------------------------------------------------
(* What settling leaves: the tree every reader takes.                      *)

\* The summaries of S are read in whole, each once; each finds the sources it
\* lists below it, with itself for their parent; and names one parent, which
\* lists it, or none.
Forest(S) ==
    /\ \A c \in S : Readable(c)
    /\ OneEach(S)
    /\ \A l \in S : l.level # 1 =>
         \A id \in Names(l) : \E c \in S :
            c.id = id /\ c.level < l.level /\ c.mergedInto = l.id /\ c.parentId \in {None, l.id}
    /\ \A c \in S : c.mergedInto = None \/ Covers(S, c.mergedInto, c)
    /\ \A c \in S : c.parentId \in {None, c.mergedInto}

\* A parent chosen among kept summaries lists its child.
LEMMA ParentCovers ==
    ASSUME NEW q, NEW n, ListOf(q, n), NEW S, NEW c, c.level \in Nat, ParentOf(q, S, c) # None
    PROVE  Covers(S, ParentOf(q, S, c), c)
<1> DEFINE copies == CopiesPointing(q, S, c)
           listers == ListersAbove(S, c)
<1>1. \A d : Points(S, d, c) => Covers(S, Pointer(S, d, c), c)
    BY DEF Points, Pointer
<1>2. CASE Points(S, c, c)
    BY <1>1, <1>2 DEF ParentOf
<1>3. CASE ~Points(S, c, c) /\ copies # {}
    <2>1. copies \subseteq 1..n
        BY DEF CopiesPointing, CopiesOf, ListOf
    <2>2. FirstIn(copies) \in copies
        BY <1>3, <2>1, FirstInIsFirst DEF ListOf
    <2>3. Points(S, q[FirstIn(copies)], c)
        BY <2>2 DEF CopiesPointing
    <2>. QED  BY <1>1, <1>3, <2>3 DEF ParentOf
<1>4. CASE ~Points(S, c, c) /\ copies = {} /\ Cardinality(listers) = 1
    <2>1. listers # {}
        BY <1>4, FS_EmptySet
    <2>2. PICK l \in listers : l = (CHOOSE k \in listers : TRUE)
        BY <2>1
    <2>3. ParentOf(q, S, c) = l.id
        BY <1>4, <2>2 DEF ParentOf
    <2>4. l \in S /\ l.level = c.level + 1 /\ c.id \in Names(l)
        BY <2>2 DEF ListersAbove
    <2>. QED  BY <2>3, <2>4 DEF Covers
<1>5. CASE ~Points(S, c, c) /\ copies = {} /\ Cardinality(listers) # 1
    BY <1>5 DEF ParentOf
<1>. QED  BY <1>2, <1>3, <1>4, <1>5

\* Whatever copies, pointers and records a store holds, what a load makes of
\* it is such a tree.
LEMMA SettledForest ==
    ASSUME NEW q, NEW n, ListOf(q, n), NEW recs
    PROVE  /\ Forest(Settled(q, recs))
           /\ \A c \in Settled(q, recs) : \E k \in 1..n : q[k].id = c.id
<1> DEFINE first == Standing(Read(q, recs))
           kept == Kept(q, first)
           up(c) == ParentKept(q, first, kept, c)
           S == Settled(q, recs)
<1>1. kept \subseteq first /\ first \subseteq Read(q, recs)
    BY StandingStands DEF Kept
<1>2. OneEach(kept) /\ OneEach(first) /\ \A c \in first : Readable(c) /\ \E k \in 1..n : q[k].id = c.id
    BY <1>1, ReadIsReadable DEF OneEach
<1>3. S = {PointedAt(c, up(c)) : c \in kept}
    BY DEF Settled
<1>4. ASSUME NEW c \in kept
      PROVE  LET d == PointedAt(c, up(c)) IN
             /\ Readable(d) /\ d.id = c.id /\ d.level = c.level /\ d.src = c.src /\ d.mergedInto = up(c)
             /\ d.parentId \in {None, up(c)}
    <2> HIDE DEF up
    <2>1. Readable(c)
        BY <1>1, <1>2
    <2>. QED  BY <2>1 DEF PointedAt, Readable, IsCopy, IsWhole
<1>5. ASSUME NEW d \in S PROVE \E c \in kept : d = PointedAt(c, up(c))
    BY <1>3
<1>6. ASSUME NEW d \in S
      PROVE  \E c \in kept :
               /\ d = PointedAt(c, up(c)) /\ d.id = c.id /\ d.level = c.level /\ d.src = c.src
               /\ d.mergedInto = up(c) /\ d.parentId \in {None, d.mergedInto} /\ Readable(d)
    <2>1. PICK c \in kept : d = PointedAt(c, up(c))
        BY <1>5
    <2> HIDE DEF up
    <2>. QED  BY <1>4, <2>1
<1> HIDE DEF S, kept, first
<1>7. OneEach(S)
    <2>. SUFFICES ASSUME NEW d \in S, NEW e \in S, d.id = e.id PROVE d = e
        BY DEF OneEach
    <2>1. PICK c \in kept : d = PointedAt(c, up(c)) /\ d.id = c.id
        BY <1>6
    <2>2. PICK b \in kept : e = PointedAt(b, up(b)) /\ e.id = b.id
        BY <1>6
    <2>3. c = b
        BY <1>2, <2>1, <2>2 DEF OneEach
    <2>. QED  BY <2>1, <2>2, <2>3
<1>8. ASSUME NEW l \in S, l.level # 1, NEW id \in Names(l)
      PROVE  \E c \in S : c.id = id /\ c.level < l.level /\ c.mergedInto = l.id /\ c.parentId \in {None, l.id}
    <2>1. PICK d \in kept : l.id = d.id /\ l.level = d.level /\ l.src = d.src
        BY <1>6
    <2>2. Names(l) = Names(d)
        BY <2>1 DEF Names
    <2>3. d \in first /\ KeepsItsChildren(q, first, d) /\ Stands(kept, d)
        BY <1>1, StandingStands DEF Kept, kept
    <2>4. PICK s \in kept : s.id = id /\ s.level < d.level
        BY <1>8, <2>1, <2>2, <2>3 DEF Stands
    <2>5. ParentOf(q, first, s) = d.id
        BY <1>1, <1>8, <2>1, <2>2, <2>3, <2>4 DEF KeepsItsChildren
    <2>6. up(s) = d.id
        BY <2>5 DEF ParentKept
    <2>7. PointedAt(s, up(s)) \in S
        BY <1>3
    <2>. QED  BY <1>4, <2>1, <2>4, <2>6, <2>7
<1>9. ASSUME NEW e \in S, e.mergedInto # None PROVE Covers(S, e.mergedInto, e)
    <2>1. PICK c \in kept : e.id = c.id /\ e.level = c.level /\ e.mergedInto = up(c)
        BY <1>6
    <2>2. up(c) = ParentOf(q, first, c) /\ \E l \in kept : l.id = up(c)
        BY <1>9, <2>1 DEF ParentKept
    <2>3. PICK l \in kept : l.id = up(c)
        BY <2>2
    <2>4. PICK f \in first : f.id = up(c) /\ f.level > c.level /\ c.id \in Names(f)
        BY <1>1, <1>2, <1>9, <2>1, <2>2, ParentCovers DEF Covers, Readable, IsCopy
    <2>5. f = l
        BY <1>1, <1>2, <2>3, <2>4 DEF OneEach
    <2> DEFINE g == PointedAt(l, up(l))
    <2>6. g \in S
        BY <1>3
    <2>7. g.id = l.id /\ g.level = l.level /\ Names(g) = Names(l)
        BY <1>4 DEF Names
    <2> HIDE DEF g
    <2>. QED  BY <2>1, <2>3, <2>4, <2>5, <2>6, <2>7 DEF Covers
<1>10. \A d \in S : Readable(d) /\ d.parentId \in {None, d.mergedInto}
    BY <1>6
<1>11. \A d \in S : \E k \in 1..n : q[k].id = d.id
    <2>. SUFFICES ASSUME NEW d \in S PROVE \E k \in 1..n : q[k].id = d.id
        OBVIOUS
    <2>1. PICK c \in kept : d.id = c.id
        BY <1>6
    <2>. QED  BY <1>1, <1>2, <2>1
<1>12. Forest(S)
    BY <1>7, <1>8, <1>9, <1>10 DEF Forest
<1>. QED  BY <1>11, <1>12 DEF S

----------------------------------------------------------------------------
(* Settling what was settled.                                              *)

\* A list that holds the summaries of S, each once.
Lists(list, S, m) ==
    /\ m \in Nat /\ list = [k \in 1..m |-> list[k]]
    /\ \A k \in 1..m : list[k] \in S
    /\ \A j, k \in 1..m : list[j].id = list[k].id => j = k
    /\ \A c \in S : \E k \in 1..m : list[k] = c

\* The least of a set of one.
LEMMA FirstInOne == ASSUME NEW k \in Nat PROVE FirstIn({k}) = k
BY DEF FirstIn

\* A list of a forest is read as it stands.
LEMMA ForestReads ==
    ASSUME NEW S, Forest(S), NEW list, NEW m, Lists(list, S, m), NEW recs
    PROVE  Read(list, recs) = S
<1>1. \A k \in 1..m : Readable(list[k]) /\ CopiesOf(list, list[k].id) = {k}
    BY DEF Lists, Forest, CopiesOf
<1>2. ASSUME NEW k \in 1..m
      PROVE  Preferred(list, list[k].id) = list[k] /\ WithText(list, list[k].id) # {}
    <2>1. WithText(list, list[k].id) = {k}
        BY <1>1 DEF WithText, Readable
    <2>2. Naming(list, list[k].id) \in {{}, {k}}
        BY <2>1 DEF Naming
    <2>3. k \in Nat
        BY DEF Lists
    <2>. QED  BY <2>1, <2>2, <2>3, FirstInOne DEF Preferred
<1>3. ASSUME NEW c \in S PROVE ReadFrom(list, recs, c) = c
    <2>1. Readable(c)
        BY DEF Forest
    <2>2. CASE c.level = 1
        <3>1. MessagesFound(list, recs, c) = c.src
            BY <2>1 DEF MessagesFound, Readable, IsWhole
        <3>2. ReadFrom(list, recs, c) = Sourced(c, c.src, Ends(c.src))
            BY <2>1, <2>2, <3>1 DEF ReadFrom, Readable, IsWhole
        <3>. QED  BY <2>1, <2>2, <3>2 DEF Sourced, Readable, IsCopy
    <2>3. CASE c.level # 1
        BY <2>1, <2>3 DEF ReadFrom, Readable, IsCopy
    <2>. QED  BY <2>2, <2>3
<1>4. ASSUME NEW c \in S PROVE c \in Read(list, recs)
    <2>1. PICK k \in 1..m : list[k] = c
        BY DEF Lists
    <2>2. c.id \in StoredIds(list)
        BY <2>1 DEF StoredIds, Lists
    <2>3. c = ReadFrom(list, recs, Preferred(list, c.id)) /\ WithText(list, c.id) # {}
        BY <1>2, <1>3, <2>1
    <2>4. IsWhole(c)
        BY DEF Forest, Readable
    <2>. QED  BY <2>2, <2>3, <2>4 DEF Read
<1>5. ASSUME NEW c \in Read(list, recs) PROVE c \in S
    <2>1. PICK id \in StoredIds(list) : c = ReadFrom(list, recs, Preferred(list, id))
        BY DEF Read
    <2>2. PICK k \in 1..m : list[k].id = id
        BY <2>1 DEF StoredIds, Lists
    <2>. QED  BY <1>2, <1>3, <2>1, <2>2 DEF Lists
<1>. QED  BY <1>4, <1>5

\* In a list of a forest each summary's parent is the one it names.
LEMMA ForestParents ==
    ASSUME NEW S, Forest(S), NEW list, NEW m, Lists(list, S, m), NEW c \in S
    PROVE  ParentOf(list, S, c) = c.mergedInto
<1>1. \A l \in S : l.id # None
    BY DEF Forest, Readable, IsCopy
<1>2. ~Covers(S, None, c)
    BY <1>1 DEF Covers
<1>3. c.parentId \in {None, c.mergedInto}
    BY DEF Forest
<1>4. CASE c.mergedInto # None
    <2>1. Covers(S, c.mergedInto, c)
        BY <1>4 DEF Forest
    <2>2. Points(S, c, c) /\ Pointer(S, c, c) = c.mergedInto
        BY <1>2, <1>3, <2>1 DEF Points, Pointer
    <2>. QED  BY <2>2 DEF ParentOf
<1>5. CASE c.mergedInto = None
    <2>1. ASSUME NEW l \in S, c.id \in Names(l), l.level > c.level PROVE FALSE
        <3>1. l.level # 1
            BY <2>1 DEF Forest, Readable, IsCopy
        <3>2. PICK d \in S : d.id = c.id /\ d.mergedInto = l.id
            BY <2>1, <3>1 DEF Forest
        <3>3. d = c
            BY <3>2 DEF Forest, OneEach
        <3>. QED  BY <1>1, <1>5, <3>2, <3>3
    <2>2. \A p : ~Covers(S, p, c)
        BY <2>1 DEF Covers
    <2>3. ListersAbove(S, c) = {}
        <3>1. c.level \in Nat
            BY DEF Forest, Readable, IsCopy
        <3>. QED  BY <2>1, <3>1 DEF ListersAbove
    <2>4. Cardinality(ListersAbove(S, c)) # 1
        BY <2>3, FS_EmptySet
    <2>5. \A d : ~Points(S, d, c)
        BY <2>2 DEF Points
    <2>6. CopiesPointing(list, S, c) = {}
        BY <2>5 DEF CopiesPointing
    <2>. QED  BY <1>5, <2>4, <2>5, <2>6 DEF ParentOf
<1>. QED  BY <1>4, <1>5

\* Settling a list of a forest gives that forest.
LEMMA ForestSettles ==
    ASSUME NEW S, Forest(S), NEW list, NEW m, Lists(list, S, m), NEW recs
    PROVE  Settled(list, recs) = S
<1>1. \A c \in S : Stands(S, c)
    <2>. SUFFICES ASSUME NEW c \in S, c.level # 1, NEW id \in Names(c)
                  PROVE  \E s \in S : s.id = id /\ s.level < c.level
        BY DEF Stands
    <2>. QED  BY DEF Forest
<1>2. Standing(S) = S
    BY <1>1 DEF Standing
<1>3. \A c \in S : KeepsItsChildren(list, S, c)
    <2>. SUFFICES ASSUME NEW c \in S, c.level # 1, NEW s \in S, s.id \in Names(c)
                  PROVE  ParentOf(list, S, s) = c.id
        BY DEF KeepsItsChildren
    <2>1. PICK d \in S : d.id = s.id /\ d.mergedInto = c.id
        BY DEF Forest
    <2>2. d = s
        BY <2>1 DEF Forest, OneEach
    <2>. QED  BY <2>1, <2>2, ForestParents
<1>4. Kept(list, S) = S
    <2>1. {c \in S : KeepsItsChildren(list, S, c)} = S
        BY <1>3
    <2>. QED  BY <1>2, <2>1 DEF Kept
<1>5. ASSUME NEW c \in S PROVE PointedAt(c, ParentKept(list, S, S, c)) = c
    <2>1. ParentOf(list, S, c) = c.mergedInto
        BY ForestParents
    <2>2. c.mergedInto = None \/ \E l \in S : l.id = c.mergedInto
        BY DEF Forest, Covers
    <2>3. ParentKept(list, S, S, c) = c.mergedInto
        BY <2>1, <2>2 DEF ParentKept
    <2>4. IsCopy(c) /\ c.parentId \in {None, c.mergedInto}
        BY DEF Forest, Readable
    <2>. QED  BY <2>3, <2>4 DEF PointedAt, IsCopy
<1>6. Settled(list, recs) = {PointedAt(c, ParentKept(list, S, S, c)) : c \in S}
    BY <1>2, <1>4, ForestReads DEF Settled
<1>. QED  BY <1>5, <1>6

----------------------------------------------------------------------------
(* The list a load writes.                                                 *)

\* The places up to i.
UpTo(at, i) == {j \in at : j <= i}

\* Of n places one is the n-th.
LEMMA NthPlace ==
    ASSUME NEW m \in Nat, NEW at, at \subseteq 1..m, NEW n \in 1..Cardinality(at)
    PROVE  \E i \in at : Cardinality(UpTo(at, i)) = n
<1> DEFINE T == {i \in 0..m : Cardinality(UpTo(at, i)) >= n}
<1>1. \A i \in Int : IsFiniteSet(UpTo(at, i)) /\ Cardinality(UpTo(at, i)) \in Nat
    <2>1. IsFiniteSet(1..m)
        BY FS_Interval
    <2>2. \A i : UpTo(at, i) \in SUBSET (1..m)
        BY DEF UpTo
    <2>. QED  BY <2>1, <2>2, FS_Subset, FS_CardinalityType
<1>2. m \in T
    <2>1. UpTo(at, m) = at
        <3>1. \A j \in at : j <= m
            OBVIOUS
        <3>. QED  BY <3>1, Zenon DEF UpTo
    <2>2. Cardinality(at) \in Nat
        BY <1>1, <2>1
    <2>. QED  BY <2>1, <2>2
<1>3. PICK i \in T : \A j \in T : ~(<<j, i>> \in OpToRel(<, Nat))
    <2>1. T # {} /\ T \subseteq Nat
        BY <1>2
    <2> HIDE DEF T
    <2>. QED  BY <2>1, NatLessThanWellFounded, WFMin
<1>4. i \in 0..m /\ Cardinality(UpTo(at, i)) >= n
    OBVIOUS
<1>5. i # 0
    <2>1. UpTo(at, 0) = {}
        <3>1. \A j \in at : ~(j <= 0)
            OBVIOUS
        <3>. QED  BY <3>1, Zenon DEF UpTo
    <2>. QED  BY <1>4, <2>1, FS_EmptySet
<1>6. Cardinality(UpTo(at, i - 1)) < n
    <2>1. SUFFICES ASSUME i - 1 \in T PROVE FALSE
        <3>1. i - 1 \in 0..m
            BY <1>4, <1>5
        <3>2. Cardinality(UpTo(at, i - 1)) \in Nat /\ n \in Nat
            BY <1>1, <3>1
        <3>. QED  BY <3>1, <3>2
    <2>2. ~(<<i - 1, i>> \in OpToRel(<, Nat))
        <3> HIDE DEF T
        <3>. QED  BY <1>3, <2>1, Zenon
    <2>. QED  BY <1>4, <1>5, <2>2 DEF OpToRel
<1>7. i \in at
    <2>1. SUFFICES ASSUME i \notin at PROVE FALSE
        OBVIOUS
    <2>2. UpTo(at, i) = UpTo(at, i - 1)
        <3>1. \A j \in at : j <= i <=> j <= i - 1
            BY <1>4, <2>1
        <3>. QED  BY <3>1, Zenon DEF UpTo
    <2>. QED  BY <1>1, <1>4, <1>6, <2>2
<1>8. UpTo(at, i) = UpTo(at, i - 1) \cup {i} /\ i \notin UpTo(at, i - 1)
    <2>1. \A j \in at : (j <= i <=> j <= i - 1 \/ j = i) /\ ~(i <= i - 1)
        BY <1>4
    <2>. QED  BY <1>7, <2>1, Zenon DEF UpTo
<1>9. Cardinality(UpTo(at, i)) = Cardinality(UpTo(at, i - 1)) + 1
    <2>1. IsFiniteSet(UpTo(at, i - 1))
        BY <1>1, <1>4
    <2>. QED  BY <1>8, <2>1, FS_AddElement, Zenon
<1>. QED  BY <1>1, <1>4, <1>6, <1>7, <1>9

LEMMA UpToCounts ==
    ASSUME NEW m \in Nat, NEW at, at \subseteq 1..m
    PROVE  /\ IsFiniteSet(at) /\ Cardinality(at) \in Nat
           /\ \A i \in at : Cardinality(UpTo(at, i)) \in 1..Cardinality(at)
           /\ \A i, k \in at : Cardinality(UpTo(at, i)) = Cardinality(UpTo(at, k)) => i = k
<1>1. \A X \in SUBSET at : IsFiniteSet(X) /\ Cardinality(X) \in Nat
    <2>1. IsFiniteSet(1..m)
        BY FS_Interval
    <2>. QED  BY <2>1, FS_Subset, FS_CardinalityType
<1>2. at \in SUBSET at /\ \A i : UpTo(at, i) \in SUBSET at
    BY DEF UpTo
<1>3. ASSUME NEW i \in at PROVE Cardinality(UpTo(at, i)) \in 1..Cardinality(at)
    <2>1. i \in UpTo(at, i)
        BY DEF UpTo
    <2>2. Cardinality(UpTo(at, i)) # 0
        BY <1>1, <1>2, <2>1, FS_EmptySet
    <2>3. Cardinality(UpTo(at, i)) <= Cardinality(at)
        BY <1>1, <1>2, FS_Subset
    <2>. QED  BY <1>1, <1>2, <2>2, <2>3
<1>4. ASSUME NEW i \in at, NEW k \in at, i < k PROVE Cardinality(UpTo(at, i)) # Cardinality(UpTo(at, k))
    <2> DEFINE X == UpTo(at, i)
    <2>1. X \cup {k} \subseteq UpTo(at, k) /\ k \notin X
        <3>1. k <= k /\ ~(k <= i) /\ \A j \in at : j <= i => j <= k
            BY <1>4
        <3>. QED  BY <3>1, Zenon DEF UpTo
    <2>2. Cardinality(X \cup {k}) = Cardinality(X) + 1
        BY <1>1, <1>2, <2>1, FS_AddElement
    <2>3. Cardinality(X \cup {k}) <= Cardinality(UpTo(at, k))
        BY <1>1, <1>2, <2>1, FS_Subset
    <2>. QED  BY <1>1, <1>2, <2>2, <2>3
<1>5. ASSUME NEW i \in at, NEW k \in at, Cardinality(UpTo(at, i)) = Cardinality(UpTo(at, k)) PROVE i = k
    <2>1. i \in Nat /\ k \in Nat
        OBVIOUS
    <2>. QED  BY <1>4, <1>5, <2>1
<1>. QED  BY <1>1, <1>2, <1>3, <1>5

\* What settling keeps of a list is listed whole, each once.
LEMMA ListedLists ==
    ASSUME NEW q, NEW n, ListOf(q, n), NEW S, Forest(S), \A c \in S : \E k \in 1..n : q[k].id = c.id
    PROVE  \E m : Lists(Listed(q, S), S, m)
<1> DEFINE at == FirstPlaces(q, S)
           N == Cardinality(at)
           list == Listed(q, S)
           place(i) == CHOOSE k \in at : Cardinality(UpTo(at, k)) = i
<1>1. n \in Nat /\ DOMAIN q = 1..n
    BY DEF ListOf
<1>2. at \subseteq 1..n
    BY <1>1 DEF FirstPlaces
<1>3. /\ N \in Nat
      /\ \A i \in at : Cardinality(UpTo(at, i)) \in 1..N
      /\ \A i, k \in at : Cardinality(UpTo(at, i)) = Cardinality(UpTo(at, k)) => i = k
    <2> HIDE DEF at
    <2>. QED  BY <1>1, <1>2, UpToCounts
<1>4. \A i \in 1..N : \E k \in at : Cardinality(UpTo(at, k)) = i
    <2> HIDE DEF at
    <2>. QED  BY <1>1, <1>2, NthPlace
<1>5. \A i \in 1..N : place(i) \in at /\ Cardinality(UpTo(at, place(i))) = i
    <2> HIDE DEF at, N
    <2>. QED  BY <1>4
<1>6. list = [i \in 1..N |-> CHOOSE c \in S : c.id = q[place(i)].id]
    BY DEF Listed, UpTo
<1>7. \A k \in at : (\E c \in S : c.id = q[k].id) /\ k = FirstIn(CopiesOf(q, q[k].id))
    BY DEF FirstPlaces
<1> HIDE DEF at, N, place, list
<1>8. \A i \in 1..N : list[i] \in S /\ list[i].id = q[place(i)].id
    BY <1>5, <1>6, <1>7
<1>9. ASSUME NEW j \in 1..N, NEW k \in 1..N, list[j].id = list[k].id PROVE j = k
    <2>1. place(j) = place(k)
        BY <1>5, <1>7, <1>8, <1>9
    <2>. QED  BY <1>5, <2>1
<1>10. ASSUME NEW c \in S PROVE \E i \in 1..N : list[i] = c
    <2> DEFINE copies == CopiesOf(q, c.id)
               k == FirstIn(copies)
    <2>1. copies # {} /\ copies \subseteq 1..n
        BY <1>1 DEF CopiesOf
    <2>2. k \in copies
        <3> HIDE DEF copies
        <3>. QED  BY <1>1, <2>1, FirstInIsFirst
    <2>3. k \in at
        BY <1>1, <2>2 DEF CopiesOf, FirstPlaces, at
    <2>4. q[k].id = c.id
        BY <2>2 DEF CopiesOf
    <2> HIDE DEF k
    <2>5. PICK i \in 1..N : i = Cardinality(UpTo(at, k))
        BY <1>3, <2>3
    <2>6. place(i) = k
        BY <1>3, <1>5, <2>3, <2>5
    <2>7. list[i].id = c.id
        BY <1>8, <2>4, <2>6
    <2>. QED  BY <1>8, <2>7 DEF Forest, OneEach
<1>11. list = [i \in 1..N |-> list[i]]
    BY <1>6
<1>12. Lists(list, S, N)
    BY <1>3, <1>8, <1>9, <1>10, <1>11 DEF Lists
<1>. QED  BY <1>12 DEF list

\* A list of a forest is listed as it stands.
LEMMA ForestListed ==
    ASSUME NEW S, Forest(S), NEW list, NEW m, Lists(list, S, m)
    PROVE  Listed(list, S) = list
<1> DEFINE at == FirstPlaces(list, S)
<1>1. m \in Nat /\ DOMAIN list = 1..m /\ \A k \in 1..m : list[k] \in S
    BY DEF Lists
<1>2. \A k \in 1..m : CopiesOf(list, list[k].id) = {k}
    BY DEF Lists, CopiesOf
<1>3. at = 1..m
    <2>1. \A k \in 1..m : FirstIn(CopiesOf(list, list[k].id)) = k /\ \E c \in S : c.id = list[k].id
        BY <1>1, <1>2, FirstInOne
    <2>. QED  BY <1>1, <2>1 DEF FirstPlaces
<1>4. \A k \in 1..m : Cardinality({j \in at : j <= k}) = k
    <2>. SUFFICES ASSUME NEW k \in 1..m PROVE Cardinality({j \in at : j <= k}) = k
        OBVIOUS
    <2>1. {j \in at : j <= k} = 1..k
        BY <1>1, <1>3
    <2>2. Cardinality(1..k) = k
        BY FS_Interval
    <2>. QED  BY <2>1, <2>2
<1>5. Cardinality(at) = m
    BY <1>1, <1>3, FS_Interval
<1>6. \A i \in 1..m : (CHOOSE k \in at : Cardinality({j \in at : j <= k}) = i) = i
    BY <1>3, <1>4
<1>7. \A i \in 1..m : (CHOOSE c \in S : c.id = list[i].id) = list[i]
    BY <1>1 DEF Forest, OneEach
<1>8. Listed(list, S) = [i \in 1..m |-> list[i]]
    BY <1>5, <1>6, <1>7 DEF Listed
<1>. QED  BY <1>8 DEF Lists

----------------------------------------------------------------------------
(* The store, as writers and loads leave it.                               *)

\* A load's list is of copies a load reads as they stand.
LEMMA LoadedOnce ==
    ASSUME NEW q, NEW n, ListOf(q, n), NEW recs
    PROVE  LET S == Settled(q, recs) IN
           /\ Forest(S) /\ \E m : Lists(SettledList(q, recs), S, m)
           /\ \A found : Settled(SettledList(q, recs), found) = S
           /\ \A found : SettledList(SettledList(q, recs), found) = SettledList(q, recs)
<1> DEFINE S == Settled(q, recs)
<1>1. Forest(S) /\ \A c \in S : \E k \in 1..n : q[k].id = c.id
    BY SettledForest
<1> HIDE DEF S
<1>2. PICK m : Lists(Listed(q, S), S, m)
    BY <1>1, ListedLists
<1>3. \A found : Settled(Listed(q, S), found) = S
    BY <1>1, <1>2, ForestSettles
<1>4. Listed(Listed(q, S), S) = Listed(q, S)
    BY <1>1, <1>2, ForestListed
<1>. QED  BY <1>1, <1>2, <1>3, <1>4 DEF SettledList, S

\* What settles again once released is as released.
LEMMA ReleasedOnce ==
    ASSUME NEW recs, \A k \in DOMAIN recs : IsRecord(recs[k]), NEW S
    PROVE  LET kept == Released(recs, S) IN
           /\ \A k \in DOMAIN kept : IsRecord(kept[k])
           /\ Released(kept, S) = kept
<1> DEFINE kept == Released(recs, S)
           free(r) == [r EXCEPT !.done = FALSE, !.sum = None]
           loose(r) == r.done /\ ~\E c \in S : c.id = r.sum /\ c.level = 1
<1>1. ASSUME NEW r, IsRecord(r) PROVE IsRecord(free(r)) /\ ~loose(free(r))
    BY <1>1 DEF IsRecord
<1>2. kept = [k \in DOMAIN recs |-> IF loose(recs[k]) THEN free(recs[k]) ELSE recs[k]]
    BY DEF Released
<1>3. Released(kept, S) = [k \in DOMAIN kept |-> IF loose(kept[k]) THEN free(kept[k]) ELSE kept[k]]
    BY DEF Released
<1> HIDE DEF kept, loose, free
<1>4. \A k \in DOMAIN kept : IsRecord(kept[k]) /\ ~loose(kept[k])
    BY <1>1, <1>2
<1>5. Released(kept, S) = kept
    BY <1>2, <1>3, <1>4
<1>. QED  BY <1>4, <1>5 DEF kept

\* The inductive invariant: the store holds copies and records.
StoreType ==
    /\ loaded \in Seq({loaded[k] : k \in DOMAIN loaded})
    /\ \A k \in DOMAIN loaded : IsCopy(loaded[k])
    /\ \A k \in DOMAIN records : IsRecord(records[k])

LEMMA StoreIsList ==
    ASSUME StoreType
    PROVE  ListOf(loaded, Len(loaded))
BY LenProperties DEF StoreType, ListOf

\* A list of copies is a store's.
LEMMA CopiesStored ==
    ASSUME NEW X, NEW q \in Seq(X), \A k \in 1..Len(q) : IsCopy(q[k])
    PROVE  q \in Seq({q[k] : k \in DOMAIN q}) /\ \A k \in DOMAIN q : IsCopy(q[k])
<1> DEFINE Y == {q[k] : k \in DOMAIN q}
<1>1. Len(q) \in Nat /\ DOMAIN q = 1..Len(q) /\ q \in [1..Len(q) -> Y]
    BY LenProperties
<1> HIDE DEF Y
<1>2. q \in Seq(Y)
    BY <1>1
<1>. QED  BY <1>1, <1>2 DEF Y

LEMMA WriteKeepsType ==
    ASSUME StoreType, NEW k \in DOMAIN Ids, NEW c \in Variants[k], Write(c)
    PROVE  StoreType'
<1> DEFINE X == {loaded[j] : j \in DOMAIN loaded} \cup {c}
<1>1. loaded \in Seq(X) /\ c \in X /\ IsCopy(c)
    BY WritersAssumption DEF StoreType
<1>2. loaded' = Append(loaded, c) /\ records' = records
    BY DEF Write
<1> HIDE DEF X
<1>3. /\ Len(loaded) \in Nat /\ DOMAIN loaded = 1..Len(loaded)
      /\ loaded' \in Seq(X) /\ Len(loaded') = Len(loaded) + 1
      /\ \A j \in 1..Len(loaded) + 1 : loaded'[j] = IF j <= Len(loaded) THEN loaded[j] ELSE c
    BY <1>1, <1>2, LenProperties, AppendProperties
<1>4. \A j \in 1..Len(loaded') : IsCopy(loaded'[j])
    BY <1>1, <1>3 DEF StoreType
<1>. QED  BY <1>2, <1>3, <1>4, CopiesStored DEF StoreType

LEMMA RepairKeepsType ==
    ASSUME StoreType, Repair
    PROVE  StoreType'
<1> DEFINE S == Settled(loaded, records)
<1>1. Forest(S) /\ \E m : Lists(loaded', S, m)
    BY StoreIsList, LoadedOnce DEF Repair
<1> HIDE DEF S
<1>2. PICK m : Lists(loaded', S, m)
    BY <1>1
<1>3. m \in Nat /\ loaded' \in [1..m -> S] /\ \A k \in 1..m : IsCopy(loaded'[k])
    BY <1>1, <1>2 DEF Lists, Forest, Readable
<1>4. loaded' \in Seq(S) /\ Len(loaded') = m
    BY <1>3
<1>5. loaded' \in Seq({loaded'[k] : k \in DOMAIN loaded'}) /\ \A k \in DOMAIN loaded' : IsCopy(loaded'[k])
    BY <1>3, <1>4, CopiesStored
<1>6. \A k \in DOMAIN records' : IsRecord(records'[k])
    <2>1. records' \in {records, Released(records, S)}
        BY DEF Repair, S
    <2>. QED  BY <2>1, ReleasedOnce DEF StoreType
<1>. QED  BY <1>5, <1>6 DEF StoreType

\* A store holds copies and records, whoever wrote it.
LEMMA StoreTyped == Spec => []StoreType
<1>1. Init => StoreType
    BY WritersAssumption DEF Init, StoreType
<1>2. StoreType /\ [Next]_vars => StoreType'
    <2>. SUFFICES ASSUME StoreType, [Next]_vars PROVE StoreType'
        OBVIOUS
    <2>1. CASE \E k \in DOMAIN Ids : \E c \in Variants[k] : Write(c)
        BY <2>1, WriteKeepsType
    <2>2. CASE Repair
        BY <2>2, RepairKeepsType
    <2>3. CASE UNCHANGED vars
        BY <2>3 DEF vars, StoreType
    <2>. QED  BY <2>1, <2>2, <2>3 DEF Next
<1>. QED  BY <1>1, <1>2, PTL DEF Spec

\* Whatever copies, pointers and records a store holds, what a load makes of
\* it covers no summary twice: each has the one parent that lists it
\* (settleStoredSummaries).
THEOREM OneParentAlways == Spec => []OneParent
<1>1. StoreType => OneParent
    <2>. SUFFICES ASSUME StoreType PROVE OneParent
        OBVIOUS
    <2>1. Forest(Settled(loaded, records))
        BY StoreIsList, SettledForest
    <2> HIDE DEF StoreType
    <2>. QED  BY <2>1 DEF OneParent, Forest
<1>. QED  BY <1>1, StoreTyped, PTL

\* A load repairs a store once: one that finds what a load wrote, or what a
\* crash left of its two writes, makes the same of it (settlingRepaired).
THEOREM SettlesOnceAlways == Spec => []SettlesOnce
<1>1. StoreType => SettlesOnce
    <2>. SUFFICES ASSUME StoreType PROVE SettlesOnce
        OBVIOUS
    <2> DEFINE settled == Settled(loaded, records)
               list == SettledList(loaded, records)
               kept == Released(records, settled)
    <2>1. \A found : Settled(list, found) = settled /\ SettledList(list, found) = list
        BY StoreIsList, LoadedOnce
    <2>2. Released(kept, settled) = kept
        BY ReleasedOnce DEF StoreType
    <2> HIDE DEF settled, list
    <2>3. \A found \in {records, kept} : SettledList(list, found) = list /\ Released(found, Settled(list, found)) = kept
        BY <2>1, <2>2
    <2>. QED  BY <2>3 DEF SettlesOnce, settled, list
<1>. QED  BY <1>1, StoreTyped, PTL


----------------------------------------------------------------------------
\* A quotient that rounds up is the least multiplier that reaches n.
LEMMA RoundedUp ==
    ASSUME NEW n \in Nat, NEW g \in Nat, g >= 1
    PROVE  LET q == (n + g - 1) \div g
           IN q \in Nat /\ g * q >= n /\ (q >= 1 => g * (q - 1) < n)
<1> DEFINE m == n + g - 1
           q == m \div g
<1>1. m \in Nat /\ q \in Nat /\ m = g * q + (m % g) /\ m % g \in 0 .. g - 1
    OBVIOUS
<1>2. g * q <= m /\ m <= g * q + g - 1
    BY <1>1
<1>3. g * (q - 1) = g * q - g
    BY <1>1
<1>. QED  BY <1>1, <1>2, <1>3

\* A run that can't grow is cut into groups of two or more that leave no
\* member alone, of a full group at most, or of three where that is two
\* (interiorGroupSize).
THEOREM InteriorLeavesNone ==
    ASSUME NEW n \in Nat, n >= 2
    PROVE  /\ InteriorGroupSize(n) \in 2 .. n
           /\ n - InteriorGroupSize(n) # 1
           /\ InteriorGroupSize(n) <= Higher(Threshold, 3)
<1> DEFINE T == Threshold
           full == (n + T - 1) \div T
           groups == IF n < 2 * full THEN n \div 2 ELSE full
           size == (n + groups - 1) \div groups
<1>1. CASE n <= T
    BY <1>1, MergeConfig DEF InteriorGroupSize, Higher
<1>2. CASE n > T
    <2>1. T \in Nat /\ T >= 2 /\ full \in Nat /\ T * full >= n /\ T * (full - 1) < n
      <3>1. T \in Nat /\ T >= 2 /\ full \in Nat /\ T * full >= n /\ (full >= 1 => T * (full - 1) < n)
        BY RoundedUp, MergeConfig
      <3>2. full >= 1
        BY <3>1
      <3>. QED  BY <3>1, <3>2
    <2>2. full >= 2
      <3>1. full # 0 /\ full # 1
        BY <1>2, <2>1
      <3>. QED  BY <2>1, <3>1
    <2>3. InteriorGroupSize(n) = size
      BY <1>2, <2>1 DEF InteriorGroupSize
    <2>4. CASE n >= 2 * full
      <3>1. groups = full
        BY <2>1, <2>4
      <3> HIDE DEF groups
      <3>2. size \in Nat /\ full * size >= n /\ (size >= 1 => full * (size - 1) < n)
        BY <2>1, <2>2, <3>1, RoundedUp
      <3> HIDE DEF size, full
      <3>3. size >= 2
        <4>1. size # 0 /\ size # 1
          BY <2>1, <2>2, <2>4, <3>2
        <4>. QED  BY <3>2, <4>1
      <3>4. size <= T
        <4>1. SUFFICES ASSUME size >= T + 1 PROVE FALSE
          BY <2>1, <3>2
        <4>2. full * (size - 1) >= full * T
          BY <2>1, <3>2, <4>1
        <4>. QED  BY <2>1, <3>2, <3>3, <4>2
      <3>5. n - size # 1
        <4>1. SUFFICES ASSUME size = n - 1 PROVE FALSE
          BY <3>2
        <4>2. full * (size - 1) >= 2 * (size - 1)
          BY <2>1, <2>2, <3>2, <3>3
        <4>. QED  BY <1>2, <2>1, <2>2, <2>4, <3>2, <3>3, <4>1, <4>2
      <3>. QED  BY <1>2, <2>1, <2>3, <3>2, <3>3, <3>4, <3>5 DEF Higher
    <2>5. CASE n < 2 * full
      <3>1. T = 2
        <4>1. SUFFICES ASSUME T >= 3 PROVE FALSE
          BY <2>1
        <4>2. T * (full - 1) >= 3 * (full - 1)
          BY <2>1, <2>2, <4>1
        <4>. QED  BY <1>2, <2>1, <2>2, <2>5, <4>1, <4>2
      <3>2. groups = n \div 2 /\ n \div 2 \in Nat /\ (n = 2 * (n \div 2) \/ n = 2 * (n \div 2) + 1)
        BY <2>5
      <3>3. n = 2 * (n \div 2) + 1
        BY <2>1, <2>5, <3>1, <3>2
      <3>4. groups \in Nat /\ groups >= 1 /\ n = 2 * groups + 1
        BY <1>2, <3>1, <3>2, <3>3
      <3> HIDE DEF groups
      <3>5. size \in Nat /\ groups * size >= n /\ (size >= 1 => groups * (size - 1) < n)
        BY <3>4, RoundedUp
      <3> HIDE DEF size, full
      <3>6. size # 0 /\ size # 1 /\ size # 2
        BY <3>4, <3>5
      <3>7. size = 3
        <4>1. SUFFICES ASSUME size >= 4 PROVE FALSE
          BY <3>5, <3>6
        <4>2. groups * (size - 1) >= groups * 3
          BY <3>4, <3>5, <4>1
        <4>. QED  BY <3>4, <3>5, <4>1, <4>2
      <3>. QED  BY <2>3, <3>1, <3>4, <3>7 DEF Higher
    <2>. QED  BY <2>1, <2>4, <2>5
<1>. QED  BY <1>1, <1>2, MergeConfig

\* A run that may grow gives groups of two or more, of a full group at most
\* or of three, and what it keeps back is never one member that a group left
\* behind (newestGroupSize).
THEOREM NewestLeavesNone ==
    ASSUME NEW n \in Nat, NewestGroupSize(n) # 0
    PROVE  /\ NewestGroupSize(n) \in 2 .. n
           /\ n - NewestGroupSize(n) # 1
           /\ NewestGroupSize(n) <= Higher(Threshold, 3)
<1>1. n >= Threshold
    BY MergeConfig DEF NewestGroupSize
<1>2. CASE n - Threshold = 1
    BY <1>1, <1>2, MergeConfig DEF NewestGroupSize, Higher
<1>3. CASE n - Threshold # 1
    BY <1>1, <1>3, MergeConfig DEF NewestGroupSize, Higher
<1>. QED  BY <1>2, <1>3
=============================================================================
