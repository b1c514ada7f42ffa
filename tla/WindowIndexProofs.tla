-------------------------- MODULE WindowIndexProofs --------------------------
(***************************************************************************)
(* Proofs about WindowIndex, for every set of handles, branches, stored    *)
(* rows, starting logs and outcomes, and every bound.                      *)
(*                                                                         *)
(* The histories are the logs of the branches and the items of the         *)
(* readings.  Their stamps rise, and two of them with an item of one stamp *)
(* hold the same items up to it (Coherent).  So a reading that continues a *)
(* log is a prefix of it, a handle's current reading is its branch's log,  *)
(* and every step appends to a log, cuts logs, or takes one as a reading.  *)
(***************************************************************************)
EXTENDS WindowIndex, SequenceTheorems, WellFoundedInduction, TLAPS

Rising(s) == \A i, j \in 1 .. Len(s) : i <= j => s[i].by <= s[j].by

Stamped(s, n) == \A i \in 1 .. Len(s) : s[i].by \in 1 .. n

\* A history: a log the store could hold at sequence n.
History(s, n) == s \in Seq(Item) /\ Rising(s) /\ Stamped(s, n)

\* Where s and t hold an item of one stamp, s's items up to it are t's.
Agree(s, t) ==
    \A i \in 1 .. Len(s), j \in 1 .. Len(t) :
        s[i].by = t[j].by =>
            \A k \in 1 .. Len(s) : s[k].by <= s[i].by => k <= Len(t) /\ t[k] = s[k]

Coherent(H, n) ==
    /\ \A s \in H : History(s, n)
    /\ \A s, t \in H : Agree(s, t)

Logs == {log[b] : b \in Branches}
Readings == {reading[h].items : h \in Handles}

\* A handle's reading names the revision of its items, or none.
ReadingKeyed == \A h \in Handles : reading[h] = NoReading \/ reading[h].rev = Revision(reading[h].items)

\* The parts of TypeOK that steps disturb apart: the record, the index, and
\* what the strategy was told.
RecordType ==
    /\ seq \in Nat
    /\ rows \in [Branches -> SUBSET (DOMAIN body)]
    /\ DOMAIN body \subseteq 1 .. seq /\ \A r \in DOMAIN body : body[r] \in 1 .. r
    /\ gone \in [Branches -> SUBSET [row : Nat, at : Nat]]
    /\ live \in SUBSET Branches
    /\ cur \in [Handles -> Branches]

IndexType ==
    /\ log \in [Branches -> Seq(Item)]
    /\ reading \in [Handles -> [rev : Int, items : Seq(Item)]]

ToldType ==
    /\ waiting \in [Handles -> [Branches -> SUBSET Settlement]]
    /\ belief \in [Branches -> SUBSET Nat]
    /\ lost \in [Branches -> BOOLEAN]

IInv ==
    /\ RecordType /\ IndexType /\ ToldType
    /\ Coherent(Logs \cup Readings, seq)
    /\ ReadingKeyed

-----------------------------------------------------------------------------
(* Histories.                                                              *)

\* t is the part of s written by sequence n.
CutOf(t, s, n) ==
    \E k \in 0 .. Len(s) :
        /\ \A i \in 1 .. Len(s) : s[i].by <= n <=> i <= k
        /\ t = SubSeq(s, 1, k)

LEMMA CutElements ==
    ASSUME NEW s \in Seq(Item), NEW n \in Int, NEW t, CutOf(t, s, n)
    PROVE  /\ t \in Seq(Item) /\ Len(t) <= Len(s)
           /\ \A i \in 1 .. Len(t) : t[i] = s[i]
           /\ \A i \in 1 .. Len(s) : s[i].by <= n <=> i <= Len(t)
<1>1. PICK k \in 0 .. Len(s) : /\ \A i \in 1 .. Len(s) : s[i].by <= n <=> i <= k
                               /\ t = SubSeq(s, 1, k)
    BY DEF CutOf
<1>2. /\ Len(s) \in Nat /\ k \in Int
      /\ \A i \in 1 .. k : s[i] \in Item
    BY LenProperties, ElementOfSeq, Z3
<1>3. /\ SubSeq(s, 1, k) \in Seq(Item)
      /\ Len(SubSeq(s, 1, k)) = IF 1 <= k THEN k ELSE 0
      /\ \A i \in 1 .. k : SubSeq(s, 1, k)[i] = s[i]
    BY <1>2, SubSeqProperties, Z3
<1>. QED  BY <1>1, <1>2, <1>3

\* A history is the cut of itself at the store's sequence.
LEMMA WholeIsCut ==
    ASSUME NEW n \in Nat, NEW s, History(s, n)
    PROVE  CutOf(s, s, n)
<1>1. Len(s) \in Nat /\ s = SubSeq(s, 1, Len(s))
    BY LenProperties, SubSeqFull DEF History
<1>2. \A i \in 1 .. Len(s) : s[i].by <= n
    BY DEF History, Stamped
<1>3. /\ \A i \in 1 .. Len(s) : s[i].by <= n <=> i <= Len(s)
      /\ Len(s) \in 0 .. Len(s)
    BY <1>1, <1>2
<1>. QED  BY <1>1, <1>3 DEF CutOf

\* Cuts of coherent histories are coherent, each at a sequence of its own.
LEMMA CutsCohere ==
    ASSUME NEW H, NEW n \in Nat, Coherent(H, n), NEW m \in Nat, NEW G,
           \A t \in G : \E s \in H, c \in 0 .. m : CutOf(t, s, c)
    PROVE  Coherent(G, m)
<1>1. ASSUME NEW t \in G PROVE History(t, m)
  <2>1. PICK s \in H, c \in 0 .. m : CutOf(t, s, c)
    OBVIOUS
  <2>2. History(s, n) /\ Len(s) \in Nat
    BY LenProperties DEF Coherent, History
  <2>3. /\ t \in Seq(Item) /\ Len(t) \in Nat /\ Len(t) <= Len(s)
        /\ \A i \in 1 .. Len(t) : t[i] = s[i]
        /\ \A i \in 1 .. Len(s) : s[i].by <= c <=> i <= Len(t)
    BY <2>1, <2>2, CutElements, LenProperties DEF History
  <2>4. \A i \in 1 .. Len(t) : i \in 1 .. Len(s) /\ s[i].by \in 1 .. n /\ s[i].by <= c
    BY <2>2, <2>3 DEF History, Stamped
  <2>5. Stamped(t, m)
    BY <2>3, <2>4 DEF Stamped
  <2>6. Rising(t)
    BY <2>2, <2>3, <2>4 DEF Rising, History
  <2>. QED  BY <2>3, <2>5, <2>6 DEF History
<1>2. ASSUME NEW t \in G, NEW u \in G PROVE Agree(t, u)
  <2>1. PICK s \in H, c \in 0 .. m : CutOf(t, s, c)
    OBVIOUS
  <2>2. PICK r \in H, d \in 0 .. m : CutOf(u, r, d)
    OBVIOUS
  <2>3. History(s, n) /\ History(r, n) /\ Agree(s, r) /\ Len(s) \in Nat /\ Len(r) \in Nat
    BY LenProperties DEF Coherent, History
  <2>4. /\ t \in Seq(Item) /\ Len(t) \in Nat /\ Len(t) <= Len(s)
        /\ \A i \in 1 .. Len(t) : t[i] = s[i]
    BY <2>1, <2>3, CutElements, LenProperties DEF History
  <2>5. /\ u \in Seq(Item) /\ Len(u) \in Nat /\ Len(u) <= Len(r)
        /\ \A i \in 1 .. Len(u) : u[i] = r[i]
        /\ \A i \in 1 .. Len(r) : r[i].by <= d <=> i <= Len(u)
    BY <2>2, <2>3, CutElements, LenProperties DEF History
  <2>6. SUFFICES ASSUME NEW i \in 1 .. Len(t), NEW j \in 1 .. Len(u), t[i].by = u[j].by,
                        NEW k \in 1 .. Len(t), t[k].by <= t[i].by
                 PROVE  k <= Len(u) /\ u[k] = t[k]
    BY DEF Agree
  <2>7. /\ i \in 1 .. Len(s) /\ k \in 1 .. Len(s) /\ t[i] = s[i] /\ t[k] = s[k]
        /\ j \in 1 .. Len(r) /\ u[j] = r[j]
    <3>1. \A x \in 1 .. Len(t) : x \in 1 .. Len(s) /\ t[x] = s[x]
      BY <2>3, <2>4
    <3>2. \A x \in 1 .. Len(u) : x \in 1 .. Len(r) /\ u[x] = r[x]
      BY <2>3, <2>5
    <3>. QED  BY <3>1, <3>2
  <2>a. s[i].by = r[j].by /\ s[k].by <= s[i].by /\ r[j].by <= d
    <3>1. s[i].by = r[j].by /\ s[k].by <= s[i].by
      BY <2>6, <2>7
    <3>2. r[j].by <= d <=> j <= Len(u)
      BY <2>5, <2>7
    <3>3. j <= Len(u)
      BY <2>5
    <3>. QED  BY <3>1, <3>2, <3>3, Zenon
  <2>b. s[k].by \in Nat /\ r[j].by \in Nat
    <3>1. \A x \in 1 .. Len(s) : s[x].by \in 1 .. n
      BY <2>3 DEF History, Stamped
    <3>2. \A x \in 1 .. Len(r) : r[x].by \in 1 .. n
      BY <2>3 DEF History, Stamped
    <3>3. 1 .. n \subseteq Nat
      OBVIOUS
    <3>. QED  BY <3>1, <3>2, <3>3, <2>7, Zenon
  <2>8. k <= Len(r) /\ r[k] = s[k]
    <3>1. Agree(s, r)
      BY <2>3
    <3>. QED  BY <3>1, <2>7, <2>a DEF Agree
  <2>9. k \in 1 .. Len(r)
    BY <2>3, <2>7, <2>8
  <2>c. r[k].by <= d
    <3>1. d \in Int
      OBVIOUS
    <3>2. r[k].by = s[k].by
      BY <2>8
    <3>3. s[k].by <= d
      <4>1. s[i].by \in Int /\ s[k].by \in Int
        BY <2>a, <2>b
      <4>2. s[k].by <= s[i].by /\ s[i].by <= d
        BY <2>a
      <4>3. \A x, y, z \in Int : x <= y /\ y <= z => x <= z
        OBVIOUS
      <4>. QED  BY <4>1, <4>2, <4>3, <3>1, Zenon
    <3>. QED  BY <3>2, <3>3
  <2>d. k <= Len(u)
    BY <2>5, <2>9, <2>c
  <2>e. u[k] = r[k]
    <3>1. k \in 1 .. Len(u)
      BY <2>5, <2>9, <2>d
    <3>. QED  BY <3>1, <2>5
  <2>. QED  BY <2>7, <2>8, <2>d, <2>e
<1>. QED  BY <1>1, <1>2 DEF Coherent

LEMMA CoherentSubset ==
    ASSUME NEW H, NEW n \in Nat, Coherent(H, n), NEW G, G \subseteq H, NEW m \in Nat, n <= m
    PROVE  Coherent(G, m)
<1>1. \A s \in G : History(s, m)
    BY DEF Coherent, History, Stamped
<1>. QED  BY <1>1 DEF Coherent

\* A write at the next sequence: the log with the batch agrees with every
\* history, since no history holds an item of that sequence.
LEMMA AppendCoheres ==
    ASSUME NEW H, NEW n \in Nat, Coherent(H, n), NEW s \in H,
           NEW batch \in Seq(Item), \A i \in 1 .. Len(batch) : batch[i].by = n + 1
    PROVE  Coherent(H \cup {s \o batch}, n + 1)
<1> DEFINE t == s \o batch
<1>1. History(s, n) /\ Len(s) \in Nat /\ Len(batch) \in Nat
    BY LenProperties DEF Coherent, History
<1>2. /\ t \in Seq(Item) /\ Len(t) = Len(s) + Len(batch)
      /\ \A i \in 1 .. Len(t) : t[i] = IF i <= Len(s) THEN s[i] ELSE batch[i - Len(s)]
    BY <1>1, ConcatProperties DEF History
<1> HIDE DEF t
<1>3. \A i \in 1 .. Len(t) :
        /\ i <= Len(s) => i \in 1 .. Len(s) /\ t[i] = s[i] /\ t[i].by \in 1 .. n
        /\ ~(i <= Len(s)) => t[i].by = n + 1
  <2>1. TAKE i \in 1 .. Len(t)
  <2>2. CASE i <= Len(s)
    BY <1>1, <1>2, <2>2 DEF History, Stamped
  <2>3. CASE ~(i <= Len(s))
    <3>1. i - Len(s) \in 1 .. Len(batch) /\ t[i] = batch[i - Len(s)]
      BY <1>1, <1>2, <2>3
    <3>. QED  BY <3>1, <2>3
  <2>. QED  BY <2>2, <2>3
<1>4. History(t, n + 1)
  <2>1. Stamped(t, n + 1)
    BY <1>3 DEF Stamped
  <2>2. ASSUME NEW i \in 1 .. Len(t), NEW j \in 1 .. Len(t), i <= j PROVE t[i].by <= t[j].by
    <3>1. CASE j <= Len(s)
      BY <1>1, <1>2, <1>3, <2>2, <3>1 DEF Rising, History
    <3>2. CASE ~(j <= Len(s))
      BY <1>1, <1>3, <2>2, <3>2
    <3>. QED  BY <3>1, <3>2
  <2>3. Rising(t)
    BY <2>2 DEF Rising
  <2>. QED  BY <1>2, <2>1, <2>3 DEF History
<1>5. \A u \in H : History(u, n + 1)
  <2>1. Coherent(H, n + 1)
    <3>1. n + 1 \in Nat /\ n <= n + 1
      OBVIOUS
    <3>. QED  BY <3>1, CoherentSubset
  <2>. QED  BY <2>1 DEF Coherent
<1>6. ASSUME NEW u \in H PROVE Agree(t, u) /\ Agree(u, t)
  <2>1. History(u, n) /\ Agree(s, u) /\ Agree(u, s) /\ Len(u) \in Nat
    BY LenProperties DEF Coherent, History
  <2>2. ASSUME NEW i \in 1 .. Len(t), NEW j \in 1 .. Len(u), t[i].by = u[j].by
        PROVE  i \in 1 .. Len(s) /\ t[i] = s[i]
    BY <1>3, <2>1, <2>2 DEF History, Stamped
  <2>3. Agree(t, u)
    <3>1. SUFFICES ASSUME NEW i \in 1 .. Len(t), NEW j \in 1 .. Len(u), t[i].by = u[j].by,
                          NEW k \in 1 .. Len(t), t[k].by <= t[i].by
                   PROVE  k <= Len(u) /\ u[k] = t[k]
      BY DEF Agree
    <3>2. i \in 1 .. Len(s) /\ t[i] = s[i] /\ s[i].by \in 1 .. n
      BY <2>2, <3>1, <1>3
    <3>3. k \in 1 .. Len(s) /\ t[k] = s[k]
      BY <1>3, <3>1, <3>2
    <3>. QED  BY <2>1, <3>1, <3>2, <3>3 DEF Agree
  <2>4. Agree(u, t)
    <3>1. SUFFICES ASSUME NEW j \in 1 .. Len(u), NEW i \in 1 .. Len(t), u[j].by = t[i].by,
                          NEW k \in 1 .. Len(u), u[k].by <= u[j].by
                   PROVE  k <= Len(t) /\ t[k] = u[k]
      BY DEF Agree
    <3>2. i \in 1 .. Len(s) /\ t[i] = s[i]
      BY <2>2, <3>1
    <3>3. k <= Len(s) /\ s[k] = u[k]
      BY <2>1, <3>1, <3>2 DEF Agree
    <3>4. k \in 1 .. Len(t) /\ t[k] = s[k]
      BY <1>1, <1>2, <3>3
    <3>. QED  BY <3>3, <3>4
  <2>. QED  BY <2>3, <2>4
<1>7. Agree(t, t)
    <2>1. SUFFICES ASSUME NEW i \in 1 .. Len(t), NEW j \in 1 .. Len(t), t[i].by = t[j].by,
                          NEW k \in 1 .. Len(t), t[k].by <= t[i].by
                   PROVE  k <= Len(t) /\ t[k] = t[k]
      BY DEF Agree
    <2>. QED  BY <1>1, <1>2
<1>. QED  BY <1>4, <1>5, <1>6, <1>7 DEF Coherent, t

LEMMA RevisionType ==
    ASSUME NEW s \in Seq(Item)
    PROVE  Revision(s) \in Int
<1>1. CASE s = <<>>
    BY <1>1 DEF Revision
<1>2. CASE s # <<>>
  <2>1. Len(s) \in 1 .. Len(s)
    BY <1>2, EmptySeq, LenProperties
  <2>2. s[Len(s)] \in Item
    BY <2>1, ElementOfSeq
  <2>. QED  BY <1>2, <2>2 DEF Revision, Item
<1>. QED  BY <1>1, <1>2

LEMMA NoReadingType == NoReading \in [rev : Int, items : Seq(Item)]
<1>1. <<>> \in Seq(Item)
    BY EmptySeq
<1>. QED  BY <1>1 DEF NoReading

\* Two coherent histories of one revision are the same.
LEMMA SameRevision ==
    ASSUME NEW n \in Nat, NEW s, History(s, n), NEW t, History(t, n), Agree(s, t), Agree(t, s),
           Revision(s) = Revision(t)
    PROVE  s = t
<1>1. /\ s \in Seq(Item) /\ Len(s) \in Nat /\ (s # <<>> => Len(s) \in 1 .. Len(s))
      /\ t \in Seq(Item) /\ Len(t) \in Nat /\ (t # <<>> => Len(t) \in 1 .. Len(t))
    BY LenProperties, EmptySeq DEF History
<1>2. CASE s = <<>>
    BY <1>1, <1>2 DEF Revision, History, Stamped
<1>3. CASE t = <<>>
    BY <1>1, <1>3 DEF Revision, History, Stamped
<1>4. CASE s # <<>> /\ t # <<>>
  <2>1. s[Len(s)].by = t[Len(t)].by
    BY <1>4 DEF Revision
  <2>2. \A k \in 1 .. Len(s) : k <= Len(t) /\ t[k] = s[k]
    BY <1>1, <1>4, <2>1 DEF Agree, History, Rising
  <2>3. \A k \in 1 .. Len(t) : k <= Len(s) /\ s[k] = t[k]
    BY <1>1, <1>4, <2>1 DEF Agree, History, Rising
  <2>4. Len(s) = Len(t)
    BY <1>1, <1>4, <2>2, <2>3
  <2>. QED  BY <1>1, <2>2, <2>4, SeqEqual
<1>. QED  BY <1>2, <1>3, <1>4

\* WindowIndex.current: a reading brought up to a log, kept where its
\* revision is the log's, continued where the log continues it, or read
\* again, is the whole log.
LEMMA ReadOverIsLog ==
    ASSUME NEW n \in Nat, NEW s, History(s, n),
           NEW r \in [rev : Int, items : Seq(Item)], History(r.items, n),
           Agree(s, r.items), Agree(r.items, s), r = NoReading \/ r.rev = Revision(r.items)
    PROVE  ReadOver(r, s) = [rev |-> Revision(s), items |-> s]
<1>1. s \in Seq(Item) /\ Len(s) \in Nat /\ r.items \in Seq(Item) /\ Len(r.items) \in Nat
      /\ (s # <<>> => Len(s) \in 1 .. Len(s)) /\ (r.items # <<>> => Len(r.items) \in 1 .. Len(r.items))
    BY LenProperties, EmptySeq DEF History
<1>2. CASE r.rev = Revision(s)
  <2>1. Revision(s) # -1
    BY <1>1 DEF Revision, History, Stamped
  <2>2. r.rev = Revision(r.items)
    BY <1>2, <2>1 DEF NoReading
  <2>3. r.items = s
    BY <1>2, <2>2, SameRevision
  <2>. QED  BY <1>2, <2>3 DEF ReadOver
<1>3. CASE r.rev # Revision(s) /\ ~Continues(r, s)
    BY <1>3 DEF ReadOver
<1>4. CASE r.rev # Revision(s) /\ Continues(r, s)
  <2> DEFINE k == Len(r.items)
  <2>1. k \in 1 .. Len(s) /\ k \in 1 .. Len(r.items) /\ s[k].by = r.items[k].by
    BY <1>1, <1>4 DEF Continues
  <2>2. \A i \in 1 .. k : r.items[i] = s[i]
    BY <1>1, <2>1 DEF Agree, History, Rising
  <2>3. /\ SubSeq(s, 1, k) \in Seq(Item) /\ Len(SubSeq(s, 1, k)) = k
        /\ \A i \in 1 .. k : SubSeq(s, 1, k)[i] = s[i]
    BY <1>1, <2>1, SubSeqProperties, ElementOfSeq
  <2>4. r.items = SubSeq(s, 1, k)
    BY <1>1, <2>2, <2>3, SeqEqual
  <2>5. SubSeq(s, 1, k) \o SubSeq(s, k + 1, Len(s)) = SubSeq(s, 1, Len(s))
    BY <1>1, <2>1, ConcatAdjacentSubSeq
  <2>6. r.items \o SubSeq(s, k + 1, Len(s)) = s
    BY <1>1, <2>4, <2>5, SubSeqFull
  <2>. QED  BY <1>4, <2>6 DEF ReadOver
<1>. QED  BY <1>2, <1>3, <1>4

-----------------------------------------------------------------------------
(* Types of what the actions write.                                        *)

\* A row in the window has an ordinal: a nonempty set of positions has a
\* least one.
LEMMA OrdinalType ==
    ASSUME NEW s \in Seq(Item), NEW id, InWindow(s, id)
    PROVE  OrdinalIn(s, id) \in 1 .. Len(s)
<1> DEFINE T == {i \in 1 .. Len(s) : StandsAt(s, i, id)}
<1>1. T # {} /\ T \subseteq Nat
    BY LenProperties DEF InWindow
<1>2. PICK i \in T : \A j \in T : ~(<<j, i>> \in OpToRel(<, Nat))
    <2> HIDE DEF T
    <2>. QED  BY <1>1, NatLessThanWellFounded, WFMin
<1>3. \A j \in T : ~(j < i)
    BY <1>1, <1>2 DEF OpToRel
<1>4. \A j \in 1 .. i - 1 : ~StandsAt(s, j, id)
    BY <1>3, LenProperties
<1>5. i \in 1 .. Len(s) /\ StandsAt(s, i, id)
    OBVIOUS
<1>6. \E k \in 1 .. Len(s) : StandsAt(s, k, id) /\ \A j \in 1 .. k - 1 : ~StandsAt(s, j, id)
    BY <1>4, <1>5
<1>. QED  BY <1>6 DEF OrdinalIn

LEMMA LeftRowsType ==
    ASSUME NEW s \in Seq(Item), NEW S \in SUBSET Nat
    PROVE  LeftRows(s, S) \in SUBSET [id : Nat, ordinal : Nat]
<1>1. \A x \in S : InWindow(s, x) => OrdinalIn(s, x) \in Nat
    <2>1. SUFFICES ASSUME NEW x \in S, InWindow(s, x) PROVE OrdinalIn(s, x) \in Nat
        OBVIOUS
    <2>2. OrdinalIn(s, x) \in 1 .. Len(s)
        BY <2>1, OrdinalType, Zenon
    <2>3. 1 .. Len(s) \subseteq Nat
        OBVIOUS
    <2>. QED  BY <2>2, <2>3, Zenon
<1>2. SUFFICES ASSUME NEW r \in LeftRows(s, S)
      PROVE  r \in [id : Nat, ordinal : Nat]
    OBVIOUS
<1>3. PICK x \in S : InWindow(s, x) /\ r = [id |-> x, ordinal |-> OrdinalIn(s, x)]
    BY <1>2 DEF LeftRows
<1>4. OrdinalIn(s, x) \in Nat /\ x \in Nat
    BY <1>1, <1>3
<1>. QED  BY <1>3, <1>4

\* A bounded set of numbers has a greatest one.
LEMMA Greatest ==
    ASSUME NEW n \in Nat, NEW S, S \subseteq 0 .. n, S # {}
    PROVE  \E p \in S : \A q \in S : q <= p
<1> DEFINE T == {n - p : p \in S}
<1>1. T # {} /\ T \subseteq Nat
    <2>1. \A p \in S : n - p \in Nat
      OBVIOUS
    <2>. QED  BY <2>1
<1>2. PICK x \in T : \A y \in T : ~(<<y, x>> \in OpToRel(<, Nat))
    <2> HIDE DEF T
    <2>. QED  BY <1>1, NatLessThanWellFounded, WFMin
<1>3. \A y \in T : ~(y < x)
    BY <1>1, <1>2 DEF OpToRel
<1>4. PICK p \in S : x = n - p
    OBVIOUS
<1>5. ASSUME NEW q \in S PROVE ~(n - q < n - p)
    <2>1. n - q \in T
        OBVIOUS
    <2> HIDE DEF T
    <2>. QED  BY <1>3, <1>4, <2>1
<1>6. \A q \in S : q \in Int /\ (~(n - q < n - p) => q <= p)
    OBVIOUS
<1>. QED  BY <1>5, <1>6

LEMMA WindowType ==
    ASSUME NEW s \in Seq(Item)
    PROVE  WindowOf(s) \in SUBSET Nat
<1>1. \A i \in 1 .. Len(s) : s[i] \in Item
    BY ElementOfSeq
<1>2. \A i \in 1 .. Len(s) : s[i].id \in Nat
    BY <1>1 DEF Item
<1>. QED  BY <1>2 DEF WindowOf

\* The items of one write: all of one stamp.
Batch(f, w) == f \in Seq(Item) /\ \A i \in 1 .. Len(f) : f[i].by = w

LEMMA ItemsBatch ==
    ASSUME NEW S \in SUBSET Nat, NEW f \in Seq(S), NEW w \in Nat, NEW kind \in Kinds
    PROVE  Batch(ItemsOf(kind, f, w), w)
<1>1. Len(f) \in Nat /\ \A i \in 1 .. Len(f) : f[i] \in Nat
    BY LenProperties, ElementOfSeq
<1>2. \A i \in 1 .. Len(f) : [kind |-> kind, id |-> f[i], by |-> w] \in Item
    BY <1>1 DEF Item
<1>3. ItemsOf(kind, f, w) \in [1 .. Len(f) -> Item]
    BY <1>2 DEF ItemsOf
<1>4. ItemsOf(kind, f, w) \in Seq(Item) /\ Len(ItemsOf(kind, f, w)) = Len(f)
    BY <1>1, <1>3, SeqDef, LenProperties
<1>5. \A i \in 1 .. Len(f) : ItemsOf(kind, f, w)[i].by = w
    BY DEF ItemsOf
<1>. QED  BY <1>4, <1>5 DEF Batch

LEMMA ConcatBatch ==
    ASSUME NEW w, NEW f, Batch(f, w), NEW g, Batch(g, w)
    PROVE  Batch(f \o g, w)
<1>1. /\ f \o g \in Seq(Item) /\ Len(f \o g) = Len(f) + Len(g) /\ Len(f) \in Nat /\ Len(g) \in Nat
      /\ \A i \in 1 .. Len(f) + Len(g) : (f \o g)[i] = IF i <= Len(f) THEN f[i] ELSE g[i - Len(f)]
    BY ConcatProperties, LenProperties DEF Batch
<1>2. ASSUME NEW i \in 1 .. Len(f) + Len(g) PROVE (f \o g)[i].by = w
    <2>1. CASE i <= Len(f)
      BY <1>1, <2>1 DEF Batch
    <2>2. CASE ~(i <= Len(f))
      BY <1>1, <2>2 DEF Batch
    <2>. QED  BY <2>1, <2>2
<1>. QED  BY <1>1, <1>2 DEF Batch

LEMMA HeaderBatch ==
    ASSUME NEW w \in Nat
    PROVE  Batch(Header(w), w)
BY DEF Batch, Header, Item, Kinds

-----------------------------------------------------------------------------
(* Steps.                                                                  *)

\* A handle reads its branch's log, whatever its reading was.
LEMMA CurrentIsLog ==
    ASSUME IInv, NEW h \in Handles
    PROVE  /\ cur[h] \in Branches /\ log[cur[h]] \in Seq(Item)
           /\ Current(h) = [rev |-> Revision(log[cur[h]]), items |-> log[cur[h]]]
<1>1. /\ seq \in Nat /\ cur[h] \in Branches /\ log[cur[h]] \in Seq(Item)
      /\ reading[h] \in [rev : Int, items : Seq(Item)]
    BY DEF IInv, RecordType, IndexType
<1>2. log[cur[h]] \in Logs \cup Readings /\ reading[h].items \in Logs \cup Readings
    BY <1>1 DEF Logs, Readings
<1>3. /\ History(log[cur[h]], seq) /\ History(reading[h].items, seq)
      /\ Agree(log[cur[h]], reading[h].items) /\ Agree(reading[h].items, log[cur[h]])
    BY <1>2 DEF IInv, Coherent
<1>4. reading[h] = NoReading \/ reading[h].rev = Revision(reading[h].items)
    BY DEF IInv, ReadingKeyed
<1>. QED  BY <1>1, <1>3, <1>4, ReadOverIsLog DEF Current

\* What a step may do to the histories: each log afterwards is one of G, and
\* each reading is kept, dropped, or one of G whole, at its revision.
LEMMA HistoriesStep ==
    ASSUME IInv, seq' \in Nat, NEW G, Coherent(G, seq'),
           \A b \in Branches : log'[b] \in G,
           \A h \in Handles :
               \/ reading'[h] = NoReading
               \/ reading'[h] = reading[h] /\ reading[h].items \in G
               \/ \E s \in G : reading'[h] = [rev |-> Revision(s), items |-> s]
    PROVE  Coherent(Logs \cup Readings, seq)' /\ ReadingKeyed'
<1> DEFINE K == G \cup {<<>>}
<1>1. Coherent(K, seq')
    <2>1. Len(<<>>) = 0 /\ <<>> \in Seq(Item)
      BY EmptySeq
    <2>2. History(<<>>, seq')
      BY <2>1 DEF History, Rising, Stamped
    <2>3. \A s : Agree(<<>>, s) /\ Agree(s, <<>>)
      BY <2>1 DEF Agree
    <2>. QED  BY <2>2, <2>3 DEF Coherent
<1>2. ASSUME NEW h \in Handles PROVE reading'[h].items \in K
    <2>1. CASE reading'[h] = NoReading
      BY <2>1 DEF NoReading
    <2>2. CASE reading'[h] = reading[h] /\ reading[h].items \in G
      BY <2>2
    <2>3. ASSUME NEW s \in G, reading'[h] = [rev |-> Revision(s), items |-> s]
          PROVE  reading'[h].items \in K
      BY <2>3
    <2>. QED  BY <2>1, <2>2, <2>3
<1>3. (Logs \cup Readings)' \subseteq K
    BY <1>2 DEF Logs, Readings
<1>4. Coherent((Logs \cup Readings)', seq')
    BY <1>1, <1>3, CoherentSubset
<1>5. ASSUME NEW h \in Handles
      PROVE  reading'[h] = NoReading \/ reading'[h].rev = Revision(reading'[h].items)
    <2>1. CASE reading'[h] = reading[h]
      BY <2>1 DEF IInv, ReadingKeyed
    <2>2. ASSUME NEW s \in G, reading'[h] = [rev |-> Revision(s), items |-> s]
          PROVE  reading'[h].rev = Revision(reading'[h].items)
      BY <2>2
    <2>. QED  BY <2>1, <2>2
<1>. QED  BY <1>4, <1>5 DEF ReadingKeyed, Revision

\* The reading a write leaves: none, the log after it, or, of a write the
\* store refused, the log before it.
LEMMA WriteReading ==
    ASSUME IInv, NEW h \in Handles, NEW o \in Outcomes, NEW batch
    PROVE  LET s == log[cur[h]]
               t == IF o \in Landings THEN s \o batch ELSE s
           IN ReadAfter(h, batch, o) \in {NoReading, [rev |-> Revision(t), items |-> t]}
<1>1. Current(h).items = log[cur[h]]
    BY CurrentIsLog
<1>2. o = "ok" => o \in Landings
    BY DEF Landings
<1>. QED  BY <1>1, <1>2 DEF ReadAfter

\* A write of items of the next sequence on a handle's branch.
LEMMA WriteStep ==
    ASSUME IInv, NEW h \in Handles, NEW o \in Outcomes,
           NEW n \in Nat, seq <= n, NEW batch, Batch(batch, n + 1),
           log' = IF o \in Landings THEN [log EXCEPT ![cur[h]] = @ \o batch] ELSE log,
           \E r \in {NoReading, ReadAfter(h, batch, o)} : reading' = [reading EXCEPT ![h] = r],
           seq' = IF o \in Landings THEN n + 1 ELSE n
    PROVE  IndexType' /\ Coherent(Logs \cup Readings, seq)' /\ ReadingKeyed'
<1> DEFINE H == Logs \cup Readings
           s == log[cur[h]]
           t == s \o batch
<1>1. seq \in Nat /\ Coherent(H, seq) /\ cur[h] \in Branches /\ s \in Seq(Item) /\ s \in H
    BY CurrentIsLog DEF IInv, RecordType, IndexType, Logs
<1>2. Coherent(H, n)
    BY <1>1, CoherentSubset
<1>3. Coherent(H \cup {t}, n + 1) /\ t \in Seq(Item)
    BY <1>1, <1>2, AppendCoheres, ConcatProperties DEF Batch
<1>4. log \in [Branches -> Seq(Item)] /\ reading \in [Handles -> [rev : Int, items : Seq(Item)]]
    BY DEF IInv, RecordType, IndexType
<1> DEFINE G == IF o \in Landings THEN H \cup {t} ELSE H
           u == IF o \in Landings THEN t ELSE s
<1>5. Coherent(G, seq') /\ seq' \in Nat /\ u \in G /\ u \in Seq(Item) /\ H \subseteq G
    <2>1. CASE o \in Landings
      BY <1>1, <1>3, <2>1
    <2>2. CASE o \notin Landings
      BY <1>1, <1>2, <2>2
    <2>. QED  BY <2>1, <2>2
<1>6. log' = [log EXCEPT ![cur[h]] = u]
    BY <1>1, <1>4
<1>7. \E r \in {NoReading, [rev |-> Revision(u), items |-> u]} : reading' = [reading EXCEPT ![h] = r]
    BY WriteReading
<1>8. Revision(u) \in Int /\ NoReading \in [rev : Int, items : Seq(Item)]
    BY <1>5, RevisionType, NoReadingType
<1> HIDE DEF u, G, t
<1>9. log' \in [Branches -> Seq(Item)] /\ \A b \in Branches : log'[b] \in G
    BY <1>1, <1>4, <1>5, <1>6 DEF Logs
<1>10. reading' \in [Handles -> [rev : Int, items : Seq(Item)]]
    BY <1>4, <1>5, <1>7, <1>8
<1>11. \A g \in Handles :
           \/ reading'[g] = NoReading
           \/ reading'[g] = reading[g] /\ reading[g].items \in G
           \/ \E x \in G : reading'[g] = [rev |-> Revision(x), items |-> x]
    BY <1>4, <1>5, <1>7 DEF Readings
<1>. QED  BY <1>5, <1>9, <1>10, <1>11, HistoriesStep DEF IndexType

LEMMA WriteIndexStep ==
    ASSUME IInv, NEW h \in Handles, NEW o \in Outcomes, NEW n \in Nat, seq <= n,
           NEW batch, Batch(batch, n + 1), Write(h, batch, o), seq' = IF o \in Landings THEN n + 1 ELSE n
    PROVE  IndexType' /\ Coherent(Logs \cup Readings, seq)' /\ ReadingKeyed'
<1>1. log' = IF o \in Landings THEN [log EXCEPT ![cur[h]] = @ \o batch] ELSE log
    BY DEF Write
<1>2. \E r \in {NoReading, ReadAfter(h, batch, o)} : reading' = [reading EXCEPT ![h] = r]
    BY DEF Write
<1>. QED  BY <1>1, <1>2, WriteStep

LEMMA RecordKept ==
    ASSUME RecordType, seq' \in Nat, seq <= seq', UNCHANGED <<body, rows, gone, live, cur>>
    PROVE  RecordType'
BY DEF RecordType

LEMMA HeldType ==
    ASSUME RecordType, NEW b \in Branches
    PROVE  /\ Held(b) \in SUBSET Nat /\ rows[b] \in SUBSET Nat
           /\ \A id \in Nat : Rest(b, id) \in SUBSET Nat
<1>1. rows[b] \in SUBSET Nat
    BY DEF RecordType
<1>2. Held(b) \in SUBSET Nat
    BY <1>1 DEF Held
<1>. QED  BY <1>1, <1>2 DEF Rest, BodyOf

LEMMA HearType ==
    ASSUME NEW B \in SUBSET Nat, NEW u \in Settlement, NEW s
    PROVE  EnteredOf(u, s) \in SUBSET Nat /\ Hear(B, u, s) \in SUBSET Nat
BY DEF Hear, EnteredOf, Settlement

LEMMA SettledType ==
    ASSUME IInv, NEW h \in Handles
    PROVE  Settled(h) \in SUBSET Nat
<1>1. cur[h] \in Branches /\ belief[cur[h]] \in SUBSET Nat /\ Due(h) \in SUBSET Settlement
    BY DEF IInv, RecordType, ToldType, Due
<1>2. \A u \in Due(h) : EnteredOf(u, Current(h).items) \in SUBSET Nat
    BY <1>1, HearType
<1>. QED  BY <1>1, <1>2 DEF Settled

LEMMA TellType ==
    ASSUME IInv, NEW h \in Handles, NEW u \in Settlement, NEW batch, NEW o, Tell(h, u, batch, o)
    PROVE  ToldType'
<1>1. cur[h] \in Branches /\ ToldType
    BY DEF IInv, RecordType
<1>2. /\ Settled(h) \in SUBSET Nat /\ u.entering \in SUBSET Nat
      /\ \A s : Hear(Settled(h), u, s) \in SUBSET Nat
    BY SettledType, HearType DEF Settlement
<1>3. belief' \in [Branches -> SUBSET Nat]
    BY <1>1, <1>2 DEF Tell, ToldType
<1>4. waiting' \in [Handles -> [Branches -> SUBSET Settlement]]
    BY <1>1 DEF Tell, ToldType
<1>5. lost' \in [Branches -> BOOLEAN]
    BY <1>1 DEF Tell, ToldType
<1>. QED  BY <1>3, <1>4, <1>5 DEF ToldType

\* A step that writes no index, and may read it.
LEMMA ReadStep ==
    ASSUME IInv, seq' \in Nat, seq <= seq', NEW h \in Handles, log' = log,
           \/ reading' = reading
           \/ reading' = [reading EXCEPT ![h] = Current(h)]
           \/ reading' = [reading EXCEPT ![h] = NoReading]
    PROVE  IndexType' /\ Coherent(Logs \cup Readings, seq)' /\ ReadingKeyed'
<1> DEFINE H == Logs \cup Readings
<1>1. /\ seq \in Nat /\ Coherent(H, seq) /\ cur[h] \in Branches /\ log[cur[h]] \in H
      /\ Current(h) = [rev |-> Revision(log[cur[h]]), items |-> log[cur[h]]]
      /\ IndexType
    BY CurrentIsLog DEF IInv, RecordType, IndexType, Logs
<1>2. Coherent(H, seq')
    BY <1>1, CoherentSubset
<1>3. Revision(log[cur[h]]) \in Int /\ log[cur[h]] \in Seq(Item)
    <2>1. log[cur[h]] \in Seq(Item)
      BY <1>1 DEF IndexType
    <2>. QED  BY <2>1, RevisionType
<1>4. IndexType'
    <2>1. Current(h) \in [rev : Int, items : Seq(Item)]
      BY <1>1, <1>3
    <2>2. reading' \in [Handles -> [rev : Int, items : Seq(Item)]]
      BY <1>1, <2>1, NoReadingType DEF IndexType
    <2>. QED  BY <1>1, <2>2 DEF IndexType
<1>5. \A b \in Branches : log'[b] \in H
    BY DEF Logs
<1>6. \A g \in Handles :
           \/ reading'[g] = NoReading
           \/ reading'[g] = reading[g] /\ reading[g].items \in H
           \/ \E x \in H : reading'[g] = [rev |-> Revision(x), items |-> x]
    BY <1>1 DEF Readings, IndexType
<1>. QED  BY <1>2, <1>4, <1>5, <1>6, HistoriesStep

\* Where branchAt cuts is a sequence the store has reached.
LEMMA BranchPointType ==
    ASSUME IInv, NEW h \in Handles, NEW r \in Held(cur[h])
    PROVE  BranchPoint(cur[h], Current(h).items, r) \in 0 .. seq
<1> DEFINE b == cur[h]
           s == log[cur[h]]
           shards == BodyOf(b, r)
           written == \A x \in shards : InWindow(s, x) /\ OrdinalIn(s, x) < HeaderIn(s)
           stamps == {s[OrdinalIn(s, x)].by : x \in {y \in shards : InWindow(s, y)}}
           points == shards \cup IF written THEN {} ELSE stamps
<1>1. /\ seq \in Nat /\ b \in Branches /\ s \in Seq(Item) /\ Current(h).items = s
      /\ rows[b] \subseteq 1 .. seq
    BY CurrentIsLog DEF IInv, RecordType, IndexType
<1>2. r \in shards /\ shards \subseteq 0 .. seq
    BY <1>1 DEF BodyOf, Held
<1>3. \A i \in 1 .. Len(s) : s[i].by \in 1 .. seq
    BY <1>1 DEF IInv, Coherent, History, Stamped, Logs
<1>4. stamps \subseteq 0 .. seq
    BY <1>1, <1>3, OrdinalType
<1>5. points \subseteq 0 .. seq /\ points # {}
    <2> HIDE DEF shards, stamps, written
    <2>. QED  BY <1>2, <1>4
<1>6. \E p \in points : \A q \in points : q <= p
    <2> HIDE DEF points
    <2>. QED  BY <1>1, <1>5, Greatest
<1>7. (CHOOSE p \in points : \A q \in points : q <= p) \in 0 .. seq
    <2> HIDE DEF points
    <2>. QED  BY <1>5, <1>6
<1>8. r \in 0 .. seq
    BY <1>2
<1>. QED  BY <1>1, <1>7, <1>8 DEF BranchPoint

\* A branch made of another: its log is a cut of that one's.
LEMMA MakeBranchStep ==
    ASSUME IInv, NEW b \in Branches, NEW t \in 0 .. seq, NEW new, MakeBranch(b, t, new),
           reading' \in [Handles -> [rev : Int, items : Seq(Item)]],
           \A g \in Handles :
               \/ reading'[g] = NoReading
               \/ reading'[g] = reading[g]
               \/ \E x \in Logs \cup Readings : reading'[g] = [rev |-> Revision(x), items |-> x]
    PROVE  IndexType' /\ Coherent(Logs \cup Readings, seq)' /\ ReadingKeyed'
<1> DEFINE H == Logs \cup Readings
<1>1. /\ seq' = seq /\ seq \in Nat /\ Coherent(H, seq) /\ new \in Branches
      /\ log \in [Branches -> Seq(Item)] /\ log[b] \in H /\ History(log[b], seq)
    <2>1. seq' = seq /\ new \in Branches
      BY DEF MakeBranch
    <2>2. seq \in Nat /\ Coherent(H, seq) /\ log \in [Branches -> Seq(Item)]
      BY DEF IInv, RecordType, IndexType
    <2>3. log[b] \in H
      BY DEF Logs
    <2>. QED  BY <2>1, <2>2, <2>3 DEF Coherent
<1>2. PICK k \in Boundary(b, t) : log' = [log EXCEPT ![new] = SubSeq(log[b], 1, k)]
    BY DEF MakeBranch
<1> DEFINE cut == SubSeq(log[b], 1, k)
           G == H \cup {cut}
<1>3. CutOf(cut, log[b], t)
    BY DEF Boundary, CutOf
<1>4. \A x \in G : \E s \in H, c \in 0 .. seq : CutOf(x, s, c)
    <2>1. \A x \in H : CutOf(x, x, seq)
      BY <1>1, WholeIsCut DEF Coherent
    <2> HIDE DEF cut
    <2>. QED  BY <1>1, <1>3, <2>1
<1>5. Coherent(G, seq')
    <2> HIDE DEF G
    <2>. QED  BY <1>1, <1>4, CutsCohere
<1>6. cut \in Seq(Item)
    BY <1>5 DEF Coherent, History
<1> HIDE DEF cut
<1>7. IndexType' /\ \A c \in Branches : log'[c] \in G
    BY <1>1, <1>2, <1>6 DEF IndexType, Logs, cut
<1>8. \A g \in Handles : reading[g].items \in G
    BY DEF Readings
<1>9. \A g \in Handles :
           \/ reading'[g] = NoReading
           \/ reading'[g] = reading[g] /\ reading[g].items \in G
           \/ \E x \in G : reading'[g] = [rev |-> Revision(x), items |-> x]
    BY <1>8
<1>. QED
    <2> HIDE DEF G
    <2>. QED  BY <1>1, <1>5, <1>7, <1>9, HistoriesStep

\* A crash: every log is cut at one sequence, and no reading survives.
LEMMA RestartStep ==
    ASSUME IInv, NEW t \in Nat, Restart(t)
    PROVE  IndexType' /\ Coherent(Logs \cup Readings, seq)' /\ ReadingKeyed'
<1> DEFINE H == Logs \cup Readings
           G == {log'[b] : b \in Branches}
<1>1. /\ seq' = t /\ seq \in Nat /\ Coherent(H, seq)
      /\ reading' = [h \in Handles |-> NoReading]
    BY DEF Restart, IInv, RecordType, IndexType
<1>2. PICK n \in [Branches -> 0 .. LongestLog] :
          /\ \A b \in Branches : n[b] \in Boundary(b, t)
          /\ log' = [b \in Branches |-> SubSeq(log[b], 1, n[b])]
    BY DEF Restart
<1>3. \A b \in Branches : CutOf(log'[b], log[b], t)
    BY <1>2 DEF Boundary, CutOf
<1>4. \A x \in G : \E s \in H, c \in 0 .. t : CutOf(x, s, c)
    BY <1>3 DEF Logs
<1>5. Coherent(G, t)
    <2> HIDE DEF G
    <2>. QED  BY <1>1, <1>4, CutsCohere
<1>6. \A b \in Branches : log'[b] \in Seq(Item)
    BY <1>5 DEF Coherent, History
<1>7. IndexType'
    BY <1>1, <1>2, <1>6, NoReadingType DEF IndexType
<1>8. \A g \in Handles : reading'[g] = NoReading
    BY <1>1
<1>9. \A b \in Branches : log'[b] \in G
    OBVIOUS
<1>. QED
    <2> HIDE DEF G
    <2>. QED  BY <1>1, <1>5, <1>7, <1>8, <1>9, HistoriesStep

-----------------------------------------------------------------------------
(* The invariant, action by action.                                        *)

\* What every step of a handle starts from.
LEMMA Facts ==
    ASSUME IInv, NEW h \in Handles
    PROVE  /\ RecordType /\ IndexType /\ ToldType
           /\ seq \in Nat /\ cur[h] \in Branches /\ log[cur[h]] \in Seq(Item)
           /\ Current(h).items = log[cur[h]]
           /\ Held(cur[h]) \in SUBSET Nat /\ WindowOf(log[cur[h]]) \in SUBSET Nat
           /\ rows[cur[h]] \in SUBSET Nat
<1>1. RecordType /\ IndexType /\ ToldType
    BY DEF IInv
<1>2. seq \in Nat /\ cur[h] \in Branches /\ log[cur[h]] \in Seq(Item)
    BY <1>1 DEF RecordType, IndexType
<1>. QED  BY <1>1, <1>2, CurrentIsLog, HeldType, WindowType

LEMMA AddMessageInv ==
    ASSUME IInv, NEW h \in Handles, NEW n \in 1 .. 2, AddMessage(h, n)
    PROVE  IInv'
<1>1. RecordType /\ ToldType /\ seq \in Nat /\ cur[h] \in Branches
    BY Facts
<1>2. seq' \in Nat /\ seq <= seq' /\ seq' = seq + n
    BY <1>1 DEF AddMessage
<1>3. IndexType' /\ Coherent(Logs \cup Readings, seq)' /\ ReadingKeyed'
    BY <1>2, ReadStep DEF AddMessage, handle
<1>4. RecordType'
    <2>1. DOMAIN body' = DOMAIN body \cup (seq + 1 .. seq + n)
      BY DEF AddMessage
    <2>2. \A r \in DOMAIN body' : body'[r] \in 1 .. r
      BY <1>1, <2>1 DEF AddMessage, RecordType
    <2>3. DOMAIN body' \subseteq 1 .. seq'
      BY <1>1, <1>2, <2>1 DEF RecordType
    <2>4. rows' \in [Branches -> SUBSET (DOMAIN body')]
      BY <1>1, <2>1 DEF AddMessage, RecordType
    <2>. QED  BY <1>1, <1>2, <2>2, <2>3, <2>4 DEF AddMessage, RecordType, handle
<1>5. ToldType'
    BY <1>1 DEF AddMessage, ToldType, handle, history
<1>. QED  BY <1>3, <1>4, <1>5 DEF IInv

\* A removal is a record of its own: it keeps the types of the record.
LEMMA RemovalRecord ==
    ASSUME IInv, NEW h \in Handles, NEW r \in Held(cur[h]), seq' \in Nat, seq <= seq',
           gone' = [gone EXCEPT ![cur[h]] = @ \cup {[row |-> r, at |-> seq + 1]}],
           UNCHANGED <<body, rows, live, cur>>
    PROVE  RecordType'
<1>1. RecordType /\ seq \in Nat /\ cur[h] \in Branches /\ r \in Nat
    BY Facts
<1>2. gone' \in [Branches -> SUBSET [row : Nat, at : Nat]]
    BY <1>1 DEF RecordType
<1>. QED  BY <1>1, <1>2 DEF RecordType

LEMMA RemoveMessageInv ==
    ASSUME IInv, NEW h \in Handles, NEW r \in Held(cur[h]), NEW o \in Outcomes, RemoveMessage(h, r, o)
    PROVE  IInv'
<1> DEFINE b == cur[h]
           batch == ItemsOf("retract", <<r>>, seq + 2)
           inWindow == InEffect(Current(h).items) /\ InWindow(Current(h).items, r)
<1>1. ToldType /\ seq \in Nat /\ b \in Branches /\ r \in Nat /\ Settled(h) \in SUBSET Nat
    BY Facts, SettledType
<1>2. seq' \in Nat /\ seq <= seq' /\ seq' = IF inWindow /\ o \in Landings THEN seq + 2 ELSE seq + 1
    BY <1>1 DEF RemoveMessage
<1>3. RecordType'
    BY <1>2, RemovalRecord DEF RemoveMessage
<1>4. ToldType'
    <2>1. waiting' \in [Handles -> [Branches -> SUBSET Settlement]] /\ lost' = lost
      BY <1>1 DEF RemoveMessage, ToldType
    <2>2. \E B \in SUBSET Nat : belief' = [belief EXCEPT ![b] = B]
      BY <1>1 DEF RemoveMessage
    <2>. QED  BY <1>1, <2>1, <2>2 DEF ToldType
<1>5. IndexType' /\ Coherent(Logs \cup Readings, seq)' /\ ReadingKeyed'
    <2>1. CASE inWindow
      <3>1. <<r>> \in Seq(Nat) /\ "retract" \in Kinds
        BY <1>1 DEF Kinds
      <3>2. Batch(batch, (seq + 1) + 1)
        <4>1. seq + 2 \in Nat /\ (seq + 1) + 1 = seq + 2
          BY <1>1
        <4>2. Batch(batch, seq + 2)
          BY <3>1, <4>1, ItemsBatch
        <4>. QED  BY <4>1, <4>2
      <3>3. log' = IF o \in Landings THEN [log EXCEPT ![b] = @ \o batch] ELSE log
        BY <2>1 DEF RemoveMessage
      <3>4. \E x \in {NoReading, ReadAfter(h, batch, o)} : reading' = [reading EXCEPT ![h] = x]
        BY <2>1 DEF RemoveMessage
      <3>5. seq + 1 \in Nat /\ seq <= seq + 1 /\ seq' = IF o \in Landings THEN (seq + 1) + 1 ELSE seq + 1
        BY <1>1, <1>2, <2>1
      <3> HIDE DEF batch
      <3>. QED  BY <3>2, <3>3, <3>4, <3>5, WriteStep
    <2>2. CASE ~inWindow
      BY <1>2, <2>2, ReadStep DEF RemoveMessage
    <2>. QED  BY <2>1, <2>2
<1>. QED  BY <1>3, <1>4, <1>5 DEF IInv

LEMMA RemoveUnreadInv ==
    ASSUME IInv, NEW h \in Handles, NEW r \in Held(cur[h]),
           RemoveUnread(h, r) \/ RemoveElsewhere(h, r)
    PROVE  IInv'
<1>1. ToldType /\ seq \in Nat /\ cur[h] \in Branches
    BY Facts
<1>2. seq' \in Nat /\ seq <= seq'
    BY <1>1 DEF RemoveUnread, RemoveElsewhere
<1>3. RecordType'
    BY <1>2, RemovalRecord DEF RemoveUnread, RemoveElsewhere, handle
<1>4. ToldType'
    BY <1>1 DEF RemoveUnread, RemoveElsewhere, ToldType, handle, history
<1>5. IndexType' /\ Coherent(Logs \cup Readings, seq)' /\ ReadingKeyed'
    BY <1>2, ReadStep DEF RemoveUnread, RemoveElsewhere, handle
<1>. QED  BY <1>3, <1>4, <1>5 DEF IInv

LEMMA WriteDownInv ==
    ASSUME IInv, NEW h \in Handles, NEW o \in Outcomes, WriteDown(h, o)
    PROVE  IInv'
<1> DEFINE b == cur[h]
           s == Current(h).items
<1>1. /\ RecordType /\ ToldType /\ seq \in Nat /\ b \in Branches
      /\ Held(b) \in SUBSET Nat /\ WindowOf(s) \in SUBSET Nat /\ Settled(h) \in SUBSET Nat
    BY Facts, SettledType
<1>2. seq' \in Nat /\ seq <= seq' /\ seq' = IF o \in Landings THEN seq + 1 ELSE seq
    BY <1>1 DEF WriteDown
<1>3. RecordType'
    BY <1>1, <1>2, RecordKept DEF WriteDown
<1>4. ToldType'
    <2>1. waiting' \in [Handles -> [Branches -> SUBSET Settlement]] /\ lost' = lost
      BY <1>1 DEF WriteDown, ToldType
    <2>2. \E B \in SUBSET Nat : belief' = [belief EXCEPT ![b] = B]
      BY <1>1 DEF WriteDown
    <2>. QED  BY <1>1, <2>1, <2>2 DEF ToldType
<1>5. WriteDownOuts(b, s) \in SUBSET Nat /\ WriteDownIns(b, s) \in SUBSET Nat
    BY <1>1 DEF WriteDownOuts, WriteDownIns
<1>6. PICK outs \in Ascending(WriteDownOuts(b, s)), ins \in Ascending(WriteDownIns(b, s)) :
          Write(h, WriteDownItems(outs, ins, seq + 1), o)
    BY DEF WriteDown
<1>7. outs \in Seq(WriteDownOuts(b, s)) /\ ins \in Seq(WriteDownIns(b, s))
    BY <1>6 DEF Ascending
<1>8. Batch(WriteDownItems(outs, ins, seq + 1), seq + 1)
    <2>1. "retract" \in Kinds /\ "present" \in Kinds /\ seq + 1 \in Nat
      BY <1>1 DEF Kinds
    <2>2. Batch(ItemsOf("retract", outs, seq + 1), seq + 1) /\ Batch(ItemsOf("present", ins, seq + 1), seq + 1)
      BY <1>5, <1>7, <2>1, ItemsBatch
    <2>. QED  BY <2>1, <2>2, HeaderBatch, ConcatBatch DEF WriteDownItems
<1>9. IndexType' /\ Coherent(Logs \cup Readings, seq)' /\ ReadingKeyed'
    BY <1>1, <1>2, <1>6, <1>8, WriteIndexStep
<1>. QED  BY <1>3, <1>4, <1>9 DEF IInv

\* A write of the index and what is told of it, as presentRows and the
\* retractions end.
LEMMA ToldWriteInv ==
    ASSUME IInv, NEW h \in Handles, NEW o \in Outcomes, NEW u \in Settlement,
           NEW batch, Batch(batch, seq + 1), Write(h, batch, o), Tell(h, u, batch, o),
           seq' = IF o \in Landings THEN seq + 1 ELSE seq, UNCHANGED <<body, rows, gone, live, cur>>
    PROVE  IInv'
<1>1. RecordType /\ seq \in Nat /\ seq' \in Nat /\ seq <= seq'
    BY Facts
<1>2. RecordType'
    BY <1>1, RecordKept
<1>3. ToldType'
    BY TellType
<1>4. IndexType' /\ Coherent(Logs \cup Readings, seq)' /\ ReadingKeyed'
    BY <1>1, WriteIndexStep
<1>. QED  BY <1>2, <1>3, <1>4 DEF IInv

LEMMA NamesType ==
    ASSUME IInv, NEW h \in Handles, NEW names \in Calls(cur[h])
    PROVE  names \in Seq(Nat)
<1>1. PICK n \in 1 .. MaxNames : names \in [1 .. n -> rows[cur[h]]]
    BY DEF Calls
<1>2. n \in Nat /\ rows[cur[h]] \in SUBSET Nat
    BY Facts, BoundAssumption
<1>3. names \in [1 .. n -> Nat]
    BY <1>1, <1>2
<1>. QED  BY <1>2, <1>3, SeqDef

LEMMA PresentRowsInv ==
    ASSUME IInv, NEW h \in Handles, NEW names \in Calls(cur[h]), NEW o \in Outcomes,
           PresentRows(h, names, o)
    PROVE  IInv'
<1> DEFINE b == cur[h]
           s == Current(h).items
           moving == Moving(b, s, names)
           entering == Entering(b, s, names)
           u == [entering |-> entering, leaving |-> LeftRows(s, moving), landed |-> o \in Landings]
<1>1. seq \in Nat /\ b \in Branches /\ s \in Seq(Item) /\ RecordType
    BY Facts
<1>2. names \in Seq(Nat)
    BY NamesType
<1>3. \A i \in 1 .. Len(names) : Rest(b, names[i]) \in SUBSET Nat
    BY <1>1, <1>2, HeldType, ElementOfSeq
<1>4. moving \in SUBSET Nat /\ entering \in SUBSET Nat
    BY <1>3 DEF Moving, Entering, NamedRows
<1>5. u \in Settlement
    BY <1>1, <1>4, LeftRowsType DEF Settlement
<1>6. PICK outs \in Ascending(moving), ins \in InCallOrder(b, names, entering) :
          LET batch == PresentItems(outs, ins, seq + 1)
          IN Write(h, batch, o) /\ Tell(h, u, batch, o)
    BY DEF PresentRows
<1>7. outs \in Seq(moving) /\ ins \in Seq(entering)
    BY <1>6 DEF Ascending, InCallOrder
<1>8. Batch(PresentItems(outs, ins, seq + 1), seq + 1)
    <2>1. "retract" \in Kinds /\ "present" \in Kinds /\ seq + 1 \in Nat
      BY <1>1 DEF Kinds
    <2> HIDE DEF moving, entering
    <2>2. Batch(ItemsOf("retract", outs, seq + 1), seq + 1) /\ Batch(ItemsOf("present", ins, seq + 1), seq + 1)
      BY <1>4, <1>7, <2>1, ItemsBatch
    <2>. QED  BY <2>2, ConcatBatch DEF PresentItems
<1>9. seq' = (IF o \in Landings THEN seq + 1 ELSE seq) /\ UNCHANGED <<body, rows, gone, live, cur>>
    BY DEF PresentRows
<1> HIDE DEF u
<1>. QED  BY <1>5, <1>6, <1>8, <1>9, ToldWriteInv

LEMMA WriteLeavingInv ==
    ASSUME IInv, NEW h \in Handles, NEW kind \in {"retract", "undo"}, NEW leaving \in SUBSET Nat,
           NEW o \in Outcomes, WriteLeaving(h, kind, leaving, o)
    PROVE  IInv'
<1> DEFINE u == [entering |-> {}, leaving |-> LeftRows(Current(h).items, leaving), landed |-> o \in Landings]
<1>1. seq \in Nat /\ Current(h).items \in Seq(Item)
    BY Facts
<1>2. u \in Settlement
    BY <1>1, LeftRowsType DEF Settlement
<1>3. PICK outs \in Ascending(leaving) :
          LET batch == ItemsOf(kind, outs, seq + 1)
          IN Write(h, batch, o) /\ Tell(h, u, batch, o)
    BY DEF WriteLeaving
<1>4. Batch(ItemsOf(kind, outs, seq + 1), seq + 1)
    <2>1. kind \in Kinds /\ seq + 1 \in Nat /\ outs \in Seq(leaving)
      BY <1>1, <1>3 DEF Kinds, Ascending
    <2>. QED  BY <2>1, ItemsBatch
<1>5. seq' = (IF o \in Landings THEN seq + 1 ELSE seq) /\ UNCHANGED <<body, rows, gone, live, cur>>
    BY DEF WriteLeaving
<1> HIDE DEF u
<1>. QED  BY <1>2, <1>3, <1>4, <1>5, ToldWriteInv

LEMMA RetractRowsInv ==
    ASSUME IInv, NEW h \in Handles, NEW names \in Calls(cur[h]), NEW kind \in {"retract", "undo"},
           NEW o \in Outcomes, RetractRows(h, names, kind, o)
    PROVE  IInv'
<1> DEFINE leaving == {x \in NamedRows(cur[h], names) : InWindow(Current(h).items, x)}
<1>1. names \in Seq(Nat)
    BY NamesType
<1>2. \A i \in 1 .. Len(names) : Rest(cur[h], names[i]) \in SUBSET Nat
    BY <1>1, Facts, HeldType, ElementOfSeq
<1>3. leaving \in SUBSET Nat
    BY <1>2 DEF NamedRows
<1>4. WriteLeaving(h, kind, leaving, o)
    BY DEF RetractRows
<1> HIDE DEF leaving
<1>. QED  BY <1>3, <1>4, WriteLeavingInv

LEMMA RetractGoneInv ==
    ASSUME IInv, NEW h \in Handles, NEW absent \in SUBSET AbsentRows(h), NEW o \in Outcomes,
           RetractGone(h, absent, o)
    PROVE  IInv'
<1>1. absent \in SUBSET Nat
    BY Facts DEF AbsentRows
<1>. QED  BY <1>1, WriteLeavingInv DEF RetractGone

LEMMA RetractFirstInv ==
    ASSUME IInv, NEW h \in Handles, NEW id \in Held(cur[h]), NEW kind \in {"retract", "undo"},
           NEW o \in Outcomes, RetractFirst(h, id, kind, o)
    PROVE  IInv'
<1> DEFINE b == cur[h]
           s == log[b]
           leaving == Rest(b, id)
           H == Logs \cup Readings
<1>1. /\ RecordType /\ IndexType /\ ToldType /\ seq \in Nat /\ b \in Branches /\ s \in Seq(Item)
      /\ Current(h).items = s /\ Held(b) \in SUBSET Nat /\ WindowOf(s) \in SUBSET Nat
      /\ leaving \in SUBSET Nat
    BY Facts, HeldType
<1>2. WriteDownOuts(b, s) \in SUBSET Nat /\ WriteDownIns(b, s) \in SUBSET Nat
    BY <1>1 DEF WriteDownOuts, WriteDownIns
<1>3. PICK outs \in Ascending(WriteDownOuts(b, s)), ins \in Ascending(WriteDownIns(b, s)),
           off \in Ascending(leaving) :
         LET down == WriteDownItems(outs, ins, seq + 1)
             now == Current(h).items \o down
             off1 == ItemsOf(kind, off, seq + 2)
             end == IF o \in Landings THEN log[b] \o down \o off1 ELSE log[b] \o down
             u == [entering |-> {}, leaving |-> LeftRows(now, leaving), landed |-> o \in Landings]
         IN /\ log' = [log EXCEPT ![b] = end]
            /\ reading' = [reading EXCEPT ![h] =
                 IF o = "ok" THEN [rev |-> Revision(end), items |-> now \o off1]
                 ELSE IF o \in Unread THEN NoReading
                 ELSE [rev |-> Revision(end), items |-> end]]
            /\ o \in Blind => \A c \in Branches : waiting[h][c] = {}
            /\ belief' = [belief EXCEPT ![b] =
                 IF o = "ok" THEN Held(b) \ leaving
                 ELSE IF o \in Unread THEN Held(b)
                 ELSE Hear(Held(b), u, end)]
            /\ waiting' = [waiting EXCEPT ![h][b] = IF o \in Unread \ Blind THEN {u} ELSE {}]
            /\ lost' = [lost EXCEPT ![b] = @ \/ o \in Blind]
    BY <1>1 DEF RetractFirst
<1> DEFINE down == WriteDownItems(outs, ins, seq + 1)
           now == s \o down
           off1 == ItemsOf(kind, off, seq + 2)
           end == IF o \in Landings THEN now \o off1 ELSE now
           u == [entering |-> {}, leaving |-> LeftRows(now, leaving), landed |-> o \in Landings]
<1>4. Batch(down, seq + 1)
    <2>1. "retract" \in Kinds /\ "present" \in Kinds /\ seq + 1 \in Nat
      BY <1>1 DEF Kinds
    <2>2. outs \in Seq(WriteDownOuts(b, s)) /\ ins \in Seq(WriteDownIns(b, s))
      BY <1>3 DEF Ascending
    <2>3. Batch(ItemsOf("retract", outs, seq + 1), seq + 1) /\ Batch(ItemsOf("present", ins, seq + 1), seq + 1)
      BY <1>2, <2>1, <2>2, ItemsBatch
    <2>. QED  BY <2>1, <2>3, HeaderBatch, ConcatBatch DEF WriteDownItems
<1>5. Batch(off1, (seq + 1) + 1)
    <2>1. kind \in Kinds /\ seq + 2 \in Nat /\ (seq + 1) + 1 = seq + 2 /\ off \in Seq(leaving)
      BY <1>1, <1>3 DEF Kinds, Ascending
    <2>2. Batch(off1, seq + 2)
      BY <1>1, <2>1, ItemsBatch
    <2>. QED  BY <2>1, <2>2
<1> HIDE DEF down, off1
<1>6. Coherent(H, seq) /\ s \in H
    BY <1>1 DEF IInv, Logs
<1>7. Coherent(H \cup {now}, seq + 1) /\ now \in Seq(Item)
    BY <1>1, <1>4, <1>6, AppendCoheres, ConcatProperties DEF Batch
<1>8. Coherent(H \cup {now} \cup {now \o off1}, (seq + 1) + 1) /\ now \o off1 \in Seq(Item)
    <2>1. now \in H \cup {now} /\ seq + 1 \in Nat
      BY <1>1
    <2> HIDE DEF now
    <2>. QED  BY <1>5, <1>7, <2>1, AppendCoheres, ConcatProperties DEF Batch
<1>9. seq' = (IF o \in Landings THEN seq + 2 ELSE seq + 1) /\ UNCHANGED <<body, rows, gone, live, cur>>
    BY DEF RetractFirst
<1> DEFINE G == IF o \in Landings THEN H \cup {now} \cup {now \o off1} ELSE H \cup {now}
<1>10. Coherent(G, seq') /\ seq' \in Nat /\ seq <= seq' /\ H \subseteq G /\ end \in G /\ end \in Seq(Item)
    <2>1. CASE o \in Landings
      BY <1>1, <1>8, <1>9, <2>1
    <2>2. CASE o \notin Landings
      BY <1>1, <1>7, <1>9, <2>2
    <2>. QED  BY <2>1, <2>2
<1>11. log' = [log EXCEPT ![b] = end]
    BY <1>1, <1>3 DEF down, off1
<1>12. \E r \in {NoReading, [rev |-> Revision(end), items |-> end]} : reading' = [reading EXCEPT ![h] = r]
    <2>1. o = "ok" => o \in Landings
      BY DEF Landings
    <2>. QED  BY <1>1, <1>3, <2>1 DEF down, off1
<1>13. u \in Settlement
    <2> HIDE DEF now, leaving
    <2>. QED  BY <1>1, <1>7, LeftRowsType DEF Settlement
<1>14. ToldType'
    <2>1. belief' \in [Branches -> SUBSET Nat]
      <3>1. Held(b) \in SUBSET Nat /\ Held(b) \ leaving \in SUBSET Nat /\ Hear(Held(b), u, end) \in SUBSET Nat
        BY <1>1, <1>13, HearType
      <3> DEFINE B == IF o = "ok" THEN Held(b) \ leaving
                      ELSE IF o \in Unread THEN Held(b)
                      ELSE Hear(Held(b), u, end)
      <3>2. belief' = [belief EXCEPT ![b] = B]
        <4>1. Current(h).items = s
          BY <1>1
        <4>. QED  BY <1>3, <4>1 DEF down, off1
      <3>3. B \in SUBSET Nat
        BY <3>1
      <3> HIDE DEF B
      <3>. QED  BY <1>1, <3>2, <3>3 DEF ToldType
    <2> DEFINE W == IF o \in Unread \ Blind THEN {u} ELSE {}
    <2>2. waiting' = [waiting EXCEPT ![h][b] = W]
      <3>1. Current(h).items = s
        BY <1>1
      <3>. QED  BY <1>3, <3>1 DEF down, off1
    <2>3. waiting' \in [Handles -> [Branches -> SUBSET Settlement]]
      <3>1. W \in SUBSET Settlement
        BY <1>13
      <3> HIDE DEF W
      <3>. QED  BY <1>1, <2>2, <3>1 DEF ToldType
    <2>4. lost' \in [Branches -> BOOLEAN]
      BY <1>1, <1>3 DEF ToldType
    <2>. QED  BY <2>1, <2>3, <2>4 DEF ToldType
<1>15. RecordType'
    BY <1>1, <1>9, <1>10, RecordKept
<1> HIDE DEF end, G
<1>16. IndexType'
    <2>1. [rev |-> Revision(end), items |-> end] \in [rev : Int, items : Seq(Item)]
      BY <1>10, RevisionType
    <2>2. reading' \in [Handles -> [rev : Int, items : Seq(Item)]]
      BY <1>1, <1>12, <2>1, NoReadingType DEF IndexType
    <2>. QED  BY <1>1, <1>10, <1>11, <2>2 DEF IndexType
<1>17. \A c \in Branches : log'[c] \in G
    BY <1>1, <1>10, <1>11 DEF IndexType, Logs
<1>18. \A g \in Handles :
           \/ reading'[g] = NoReading
           \/ reading'[g] = reading[g] /\ reading[g].items \in G
           \/ \E x \in G : reading'[g] = [rev |-> Revision(x), items |-> x]
    BY <1>1, <1>10, <1>12 DEF IndexType, Readings
<1>19. Coherent(Logs \cup Readings, seq)' /\ ReadingKeyed'
    BY <1>10, <1>17, <1>18, HistoriesStep
<1>. QED  BY <1>14, <1>15, <1>16, <1>19 DEF IInv

LEMMA SettleInv ==
    ASSUME IInv, NEW h \in Handles, NEW b \in Branches, SettleOnly(h) \/ SettleMoved(h, b)
    PROVE  IInv'
<1>1. RecordType /\ ToldType /\ seq \in Nat /\ cur[h] \in Branches /\ Settled(h) \in SUBSET Nat
    BY Facts, SettledType
<1>2. seq' = seq /\ log' = log /\ reading' = [reading EXCEPT ![h] = Current(h)]
    BY DEF SettleOnly, SettleMoved, store
<1>3. IndexType' /\ Coherent(Logs \cup Readings, seq)' /\ ReadingKeyed'
    <2>1. seq' \in Nat /\ seq <= seq'
      BY <1>1, <1>2
    <2>. QED  BY <1>2, <2>1, ReadStep
<1>4. RecordType'
    <2>1. UNCHANGED <<body, rows, gone, live>> /\ cur' \in [Handles -> Branches]
      BY <1>1 DEF SettleOnly, SettleMoved, store, RecordType
    <2>. QED  BY <1>1, <1>2, <2>1 DEF RecordType
<1>5. ToldType'
    <2>1. /\ belief' = [belief EXCEPT ![cur[h]] = Settled(h)]
          /\ waiting' = [waiting EXCEPT ![h][cur[h]] = {}]
          /\ lost' = lost
      BY DEF SettleOnly, SettleMoved
    <2>2. belief' \in [Branches -> SUBSET Nat]
      BY <1>1, <2>1 DEF ToldType
    <2>3. waiting' \in [Handles -> [Branches -> SUBSET Settlement]]
      BY <1>1, <2>1 DEF ToldType
    <2>. QED  BY <1>1, <2>1, <2>2, <2>3 DEF ToldType
<1>. QED  BY <1>3, <1>4, <1>5 DEF IInv

LEMMA SelectInv ==
    ASSUME IInv, NEW h \in Handles, Select(h)
    PROVE  IInv'
<1>1. /\ RecordType /\ ToldType /\ seq \in Nat /\ cur[h] \in Branches
      /\ WindowOf(Current(h).items) \in SUBSET Nat
    BY Facts
<1>2. seq' = seq /\ log' = log /\ reading' = [reading EXCEPT ![h] = Current(h)]
    BY DEF Select, store
<1>3. IndexType' /\ Coherent(Logs \cup Readings, seq)' /\ ReadingKeyed'
    <2>1. seq' \in Nat /\ seq <= seq'
      BY <1>1, <1>2
    <2>. QED  BY <1>2, <2>1, ReadStep
<1>4. RecordType'
    BY <1>1, <1>2 DEF Select, store, RecordType
<1>5. ToldType'
    BY <1>1 DEF Select, ToldType
<1>. QED  BY <1>3, <1>4, <1>5 DEF IInv

LEMMA SwitchBranchInv ==
    ASSUME IInv, NEW h \in Handles, NEW b \in Branches, SwitchBranch(h, b)
    PROVE  IInv'
<1>1. RecordType /\ ToldType /\ seq \in Nat
    BY Facts
<1>2. seq' = seq /\ log' = log /\ reading' = reading
    BY DEF SwitchBranch, store
<1>3. IndexType' /\ Coherent(Logs \cup Readings, seq)' /\ ReadingKeyed'
    BY <1>1, <1>2, ReadStep
<1>4. RecordType'
    BY <1>1 DEF SwitchBranch, store, RecordType
<1>5. ToldType'
    BY <1>1 DEF SwitchBranch, ToldType, history
<1>. QED  BY <1>3, <1>4, <1>5 DEF IInv

\* What a new branch keeps of the record, and what it is told.
LEMMA MakeBranchTypes ==
    ASSUME IInv, NEW h \in Handles, NEW t \in 0 .. seq, NEW new, MakeBranch(cur[h], t, new),
           cur' \in [Handles -> Branches],
           waiting' \in [Handles -> [Branches -> SUBSET Settlement]]
    PROVE  RecordType' /\ ToldType'
<1> DEFINE b == cur[h]
<1>1. RecordType /\ ToldType /\ seq \in Nat /\ b \in Branches /\ log[b] \in Seq(Item) /\ new \in Branches
    BY Facts DEF MakeBranch
<1>2. UNCHANGED <<seq, body>> /\ live' = live \cup {new}
    BY DEF MakeBranch
<1>3. rows' \in [Branches -> SUBSET (DOMAIN body')]
    BY <1>1, <1>2 DEF MakeBranch, RecordType
<1>4. gone' \in [Branches -> SUBSET [row : Nat, at : Nat]]
    BY <1>1 DEF MakeBranch, RecordType
<1>5. RecordType'
    BY <1>1, <1>2, <1>3, <1>4 DEF RecordType
<1>6. PICK n \in Boundary(b, t) : belief' = [belief EXCEPT ![new] = WindowOf(SubSeq(log[b], 1, n))]
    BY DEF MakeBranch
<1>7. n \in 0 .. Len(log[b])
    BY <1>6 DEF Boundary
<1>8. SubSeq(log[b], 1, n) \in Seq(Item)
    <2>1. n \in Int /\ \A i \in 1 .. n : log[b][i] \in Item
      BY <1>1, <1>7, LenProperties, ElementOfSeq
    <2>. QED  BY <2>1, SubSeqProperties
<1>9. belief' \in [Branches -> SUBSET Nat]
    BY <1>1, <1>6, <1>8, WindowType DEF ToldType
<1>10. lost' \in [Branches -> BOOLEAN]
    BY <1>1 DEF MakeBranch, ToldType
<1>. QED  BY <1>5, <1>9, <1>10 DEF ToldType

LEMMA BranchAtInv ==
    ASSUME IInv, NEW h \in Handles, NEW r \in Held(cur[h]), NEW new, BranchAt(h, r, new)
    PROVE  IInv'
<1> DEFINE t == BranchPoint(cur[h], Current(h).items, r)
           s == log[cur[h]]
<1>1. /\ RecordType /\ IndexType /\ ToldType /\ cur[h] \in Branches /\ t \in 0 .. seq
      /\ s \in Seq(Item) /\ Current(h) = [rev |-> Revision(s), items |-> s]
    BY Facts, BranchPointType, CurrentIsLog
<1>2. /\ MakeBranch(cur[h], t, new) /\ reading' = [reading EXCEPT ![h] = Current(h)]
      /\ UNCHANGED <<cur, waiting>>
    BY DEF BranchAt
<1> HIDE DEF t
<1>3. RecordType' /\ ToldType'
    BY <1>1, <1>2, MakeBranchTypes DEF RecordType, ToldType
<1>4. Current(h) \in [rev : Int, items : Seq(Item)]
    BY <1>1, RevisionType
<1>5. reading' \in [Handles -> [rev : Int, items : Seq(Item)]]
    BY <1>1, <1>2, <1>4 DEF IndexType
<1>6. s \in Logs \cup Readings
    BY <1>1 DEF Logs
<1>7. \A g \in Handles :
           \/ reading'[g] = NoReading
           \/ reading'[g] = reading[g]
           \/ \E x \in Logs \cup Readings : reading'[g] = [rev |-> Revision(x), items |-> x]
    BY <1>1, <1>2, <1>6 DEF IndexType
<1>8. IndexType' /\ Coherent(Logs \cup Readings, seq)' /\ ReadingKeyed'
    BY <1>1, <1>2, <1>5, <1>7, MakeBranchStep
<1>. QED  BY <1>3, <1>8 DEF IInv

LEMMA ForkInv ==
    ASSUME IInv, NEW h \in Handles, NEW new, Fork(h, new)
    PROVE  IInv'
<1>1. RecordType /\ IndexType /\ ToldType /\ cur[h] \in Branches /\ seq \in 0 .. seq
    BY Facts
<1>2. MakeBranch(cur[h], seq, new) /\ UNCHANGED <<reading, waiting>> /\ cur' = [cur EXCEPT ![h] = new]
      /\ new \in Branches
    BY DEF Fork, MakeBranch
<1>3. RecordType' /\ ToldType'
    BY <1>1, <1>2, MakeBranchTypes DEF RecordType, ToldType
<1>4. IndexType' /\ Coherent(Logs \cup Readings, seq)' /\ ReadingKeyed'
    BY <1>1, <1>2, MakeBranchStep DEF IndexType
<1>. QED  BY <1>3, <1>4 DEF IInv

LEMMA DeriveInv ==
    ASSUME IInv, NEW h \in Handles, NEW g \in Handles, NEW new, Derive(h, g, new)
    PROVE  IInv'
<1>1. RecordType /\ IndexType /\ ToldType /\ cur[h] \in Branches /\ seq \in 0 .. seq
    BY Facts
<1>2. /\ MakeBranch(cur[h], seq, new) /\ cur' = [cur EXCEPT ![g] = new] /\ new \in Branches
      /\ waiting' = [waiting EXCEPT ![g] = [b \in Branches |-> {}]]
      /\ reading' = [reading EXCEPT ![g] =
            IF reading[h].rev = Revision(log[cur[h]]) THEN reading[h] ELSE NoReading]
    BY DEF Derive, MakeBranch
<1>3. waiting' \in [Handles -> [Branches -> SUBSET Settlement]] /\ cur' \in [Handles -> Branches]
    BY <1>1, <1>2 DEF ToldType, RecordType
<1>4. RecordType' /\ ToldType'
    BY <1>1, <1>2, <1>3, MakeBranchTypes
<1>5. reading' \in [Handles -> [rev : Int, items : Seq(Item)]]
    BY <1>1, <1>2, NoReadingType DEF IndexType
<1>6. \/ reading[h] = NoReading
      \/ \E x \in Logs \cup Readings : reading[h] = [rev |-> Revision(x), items |-> x]
    <2>1. reading[h].items \in Logs \cup Readings
      BY DEF Readings
    <2>2. reading[h] = NoReading \/ reading[h] = [rev |-> Revision(reading[h].items), items |-> reading[h].items]
      BY <1>1 DEF IInv, ReadingKeyed, IndexType
    <2>. QED  BY <2>1, <2>2
<1>7. \A k \in Handles :
           \/ reading'[k] = NoReading
           \/ reading'[k] = reading[k]
           \/ \E x \in Logs \cup Readings : reading'[k] = [rev |-> Revision(x), items |-> x]
    <2>1. \A k \in Handles : reading'[k] \in {reading[k], reading[h], NoReading}
      BY <1>1, <1>2 DEF IndexType
    <2>. QED  BY <1>6, <2>1
<1>8. IndexType' /\ Coherent(Logs \cup Readings, seq)' /\ ReadingKeyed'
    BY <1>1, <1>2, <1>5, <1>7, MakeBranchStep
<1>. QED  BY <1>4, <1>8 DEF IInv

LEMMA RestartInv ==
    ASSUME IInv, NEW t \in Nat, Restart(t)
    PROVE  IInv'
<1>1. RecordType /\ ToldType /\ Main \in Branches /\ seq' = t /\ t <= seq /\ seq \in Nat
    BY BranchAssumption DEF IInv, RecordType, Restart
<1>2. IndexType' /\ Coherent(Logs \cup Readings, seq)' /\ ReadingKeyed'
    BY RestartStep
<1>3. RecordType'
    <2>1. /\ body' = [r \in {x \in DOMAIN body : x <= t} |-> body[r]]
          /\ rows' = [b \in Branches |-> {r \in rows[b] : r <= t}]
          /\ gone' = [b \in Branches |-> {g \in gone[b] : g.at <= t}]
          /\ live' = live /\ cur' = [h \in Handles |-> Main]
      BY DEF Restart
    <2>2. DOMAIN body' = {x \in DOMAIN body : x <= t} /\ \A r \in DOMAIN body' : body'[r] = body[r]
      BY <2>1
    <2>3. DOMAIN body' \subseteq 1 .. seq' /\ \A r \in DOMAIN body' : body'[r] \in 1 .. r
      BY <1>1, <2>2 DEF RecordType
    <2>4. rows' \in [Branches -> SUBSET (DOMAIN body')]
      BY <1>1, <2>1, <2>2 DEF RecordType
    <2>5. gone' \in [Branches -> SUBSET [row : Nat, at : Nat]]
      BY <1>1, <2>1 DEF RecordType
    <2>. QED  BY <1>1, <2>1, <2>3, <2>4, <2>5 DEF RecordType
<1>4. ToldType'
    <2>1. PICK n \in [Branches -> 0 .. LongestLog] :
              /\ log' = [b \in Branches |-> SubSeq(log[b], 1, n[b])]
              /\ belief' = [b \in Branches |-> WindowOf(SubSeq(log[b], 1, n[b]))]
      BY DEF Restart
    <2>2. \A b \in Branches : log'[b] \in Seq(Item) /\ log'[b] = SubSeq(log[b], 1, n[b])
      BY <1>2, <2>1 DEF IndexType
    <2>3. \A b \in Branches : WindowOf(SubSeq(log[b], 1, n[b])) \in SUBSET Nat
      BY <2>2, WindowType
    <2>4. belief' \in [Branches -> SUBSET Nat]
      BY <2>1, <2>3
    <2>. QED  BY <2>4 DEF Restart, ToldType
<1>. QED  BY <1>2, <1>3, <1>4 DEF IInv

-----------------------------------------------------------------------------
(* The invariant.                                                          *)

\* The main branch's log is the only history that isn't empty.
LEMMA InitInv == Init => IInv
<1> SUFFICES ASSUME Init PROVE IInv
    OBVIOUS
<1> DEFINE n0 == Len(Bodies0)
<1>1. PICK s \in Logs0 :
          /\ log = [b \in Branches |-> IF b = Main THEN s ELSE <<>>]
          /\ seq = IF s = <<>> THEN n0 ELSE Revision(s)
          /\ belief = [b \in Branches |-> IF b = Main THEN WindowOf(s) ELSE {}]
    BY DEF Init
<1>2. n0 \in Nat /\ Bodies0 \in Seq(Nat) /\ DOMAIN Bodies0 = 1 .. n0
    BY BodyAssumption, LenProperties
<1>3. /\ s \in Seq(Item) /\ Len(s) \in Nat /\ <<>> \in Seq(Item) /\ Len(<<>>) = 0
      /\ \A i, j \in 1 .. Len(s) : i < j => s[i].by <= s[j].by
      /\ \A i \in 1 .. Len(s) : s[i] \in Item /\ n0 < s[i].by
    <2>1. s \in Seq(Item) /\ <<>> \in Seq(Item) /\ Len(<<>>) = 0
      BY LogAssumption, EmptySeq
    <2>2. Len(s) \in Nat /\ \A i \in 1 .. Len(s) : s[i] \in Item
      BY <2>1, LenProperties, ElementOfSeq
    <2>. QED  BY <2>1, <2>2, LogAssumption
<1>4. \A i \in 1 .. Len(s) : s[i].by \in Nat
    BY <1>3 DEF Item
<1>5. s # <<>> => Len(s) \in 1 .. Len(s) /\ Revision(s) = s[Len(s)].by
    BY <1>3, EmptySeq DEF Revision
<1>6. seq \in Nat /\ n0 <= seq /\ \A i \in 1 .. Len(s) : s[i].by \in 1 .. seq
    <2>1. CASE s = <<>>
      BY <1>1, <1>2, <1>3, <2>1
    <2>2. CASE s # <<>>
      <3>1. seq = s[Len(s)].by /\ Len(s) \in 1 .. Len(s)
        BY <1>1, <1>5, <2>2
      <3>2. seq \in Nat /\ n0 < seq
        BY <1>3, <1>4, <3>1
      <3>3. ASSUME NEW i \in 1 .. Len(s) PROVE s[i].by <= seq /\ s[i].by \in Nat /\ n0 < s[i].by
        <4>1. CASE i < Len(s)
          BY <1>3, <1>4, <3>1, <4>1
        <4>2. CASE i = Len(s)
          BY <1>3, <1>4, <3>1, <3>2, <4>2
        <4>. QED  BY <1>3, <4>1, <4>2
      <3>. QED  BY <1>2, <3>2, <3>3
    <2>. QED  BY <2>1, <2>2
<1>7. History(s, seq) /\ History(<<>>, seq)
    <2>1. Rising(s)
      <3>1. ASSUME NEW i \in 1 .. Len(s), NEW j \in 1 .. Len(s), i <= j PROVE s[i].by <= s[j].by
        <4>1. CASE i < j
          BY <1>3, <4>1
        <4>2. CASE i = j
          BY <1>4, <4>2
        <4>. QED  BY <1>3, <3>1, <4>1, <4>2
      <3>. QED  BY <3>1 DEF Rising
    <2>2. Stamped(s, seq)
      BY <1>6 DEF Stamped
    <2>3. Rising(<<>>) /\ Stamped(<<>>, seq)
      BY <1>3 DEF Rising, Stamped
    <2>. QED  BY <1>3, <2>1, <2>2, <2>3 DEF History
<1>8. Agree(s, s) /\ Agree(s, <<>>) /\ Agree(<<>>, s) /\ Agree(<<>>, <<>>)
    BY <1>3 DEF Agree
<1>9. Coherent({s, <<>>}, seq)
    BY <1>7, <1>8 DEF Coherent
<1>10. reading = [h \in Handles |-> NoReading]
    BY DEF Init
<1>11. Logs \cup Readings \subseteq {s, <<>>}
    <2>1. \A b \in Branches : log[b] \in {s, <<>>}
      BY <1>1
    <2>2. \A h \in Handles : reading[h].items = <<>>
      BY <1>10 DEF NoReading
    <2>. QED  BY <2>1, <2>2 DEF Logs, Readings
<1>12. Coherent(Logs \cup Readings, seq)
    <2>1. seq <= seq
      BY <1>6
    <2>. QED  BY <1>6, <1>9, <1>11, <2>1, CoherentSubset
<1>13. RecordType
    <2>1. /\ body = Bodies0 /\ live = {Main} /\ gone = [b \in Branches |-> {}]
          /\ rows = [b \in Branches |-> IF b = Main THEN 1 .. n0 ELSE {}]
          /\ cur = [h \in Handles |-> Main]
      BY DEF Init
    <2>2. /\ DOMAIN body \subseteq 1 .. seq /\ \A r \in DOMAIN body : body[r] \in 1 .. r
      BY <1>2, <1>6, <2>1, BodyAssumption
    <2>3. rows \in [Branches -> SUBSET (DOMAIN body)]
      BY <1>2, <2>1
    <2>. QED  BY <1>6, <2>1, <2>2, <2>3, BranchAssumption DEF RecordType
<1>14. IndexType
    <2>1. log \in [Branches -> Seq(Item)]
      BY <1>1, <1>3
    <2>. QED  BY <1>10, <2>1, NoReadingType DEF IndexType
<1>15. ToldType
    <2>1. WindowOf(s) \in SUBSET Nat
      BY <1>3, WindowType
    <2>2. belief \in [Branches -> SUBSET Nat]
      BY <1>1, <2>1
    <2>. QED  BY <2>2 DEF Init, ToldType
<1>16. ReadingKeyed
    BY <1>10 DEF ReadingKeyed
<1>. QED  BY <1>12, <1>13, <1>14, <1>15, <1>16 DEF IInv

LEMMA StutterInv ==
    ASSUME IInv, UNCHANGED vars
    PROVE  IInv'
<1>1. /\ seq' = seq /\ body' = body /\ rows' = rows /\ gone' = gone /\ log' = log /\ live' = live
      /\ cur' = cur /\ reading' = reading /\ waiting' = waiting /\ belief' = belief /\ lost' = lost
    BY DEF vars, store, handle, history
<1>2. RecordType' /\ IndexType' /\ ToldType' /\ ReadingKeyed'
    BY <1>1 DEF IInv, RecordType, IndexType, ToldType, ReadingKeyed, Revision
<1>3. Logs' = Logs /\ Readings' = Readings
    BY <1>1 DEF Logs, Readings
<1>4. Coherent(Logs \cup Readings, seq)'
    BY <1>1, <1>3 DEF IInv, Coherent, History, Agree, Rising, Stamped
<1>. QED  BY <1>2, <1>4 DEF IInv

\* Every step keeps the invariant, whatever its operation.
LEMMA NextInv ==
    ASSUME IInv, [Next]_vars
    PROVE  IInv'
<1>1. ASSUME NEW h \in Handles, NEW n \in 1 .. 2, AddMessage(h, n) PROVE IInv'
    BY <1>1, AddMessageInv
<1>2. ASSUME NEW h \in Handles, NEW o \in Outcomes, NEW r \in Held(cur[h]), RemoveMessage(h, r, o)
      PROVE IInv'
    BY <1>2, RemoveMessageInv
<1>3. ASSUME NEW h \in Handles, NEW o \in Outcomes, WriteDown(h, o) PROVE IInv'
    BY <1>3, WriteDownInv
<1>4. ASSUME NEW h \in Handles, NEW o \in Outcomes, NEW names \in Calls(cur[h]), PresentRows(h, names, o)
      PROVE IInv'
    BY <1>4, PresentRowsInv
<1>5. ASSUME NEW h \in Handles, NEW o \in Outcomes, NEW names \in Calls(cur[h]),
             NEW kind \in {"retract", "undo"}, RetractRows(h, names, kind, o)
      PROVE IInv'
    BY <1>5, RetractRowsInv
<1>6. ASSUME NEW h \in Handles, NEW o \in Outcomes, NEW id \in Held(cur[h]),
             NEW kind \in {"retract", "undo"}, RetractFirst(h, id, kind, o)
      PROVE IInv'
    BY <1>6, RetractFirstInv
<1>7. ASSUME NEW h \in Handles, NEW o \in Outcomes, NEW absent \in SUBSET AbsentRows(h),
             RetractGone(h, absent, o)
      PROVE IInv'
    BY <1>7, RetractGoneInv
<1>8. ASSUME NEW h \in Handles, NEW r \in Held(cur[h]), RemoveUnread(h, r) \/ RemoveElsewhere(h, r)
      PROVE IInv'
    BY <1>8, RemoveUnreadInv
<1>9. ASSUME NEW h \in Handles, SettleOnly(h) PROVE IInv'
    BY <1>9, SettleInv, BranchAssumption
<1>10. ASSUME NEW h \in Handles, NEW b \in Branches, SettleMoved(h, b) PROVE IInv'
    BY <1>10, SettleInv
<1>11. ASSUME NEW h \in Handles, Select(h) PROVE IInv'
    BY <1>11, SelectInv
<1>12. ASSUME NEW h \in Handles, NEW b \in Branches, SwitchBranch(h, b) PROVE IInv'
    BY <1>12, SwitchBranchInv
<1>13. ASSUME NEW h \in Handles, NEW new \in Branches, Fork(h, new) PROVE IInv'
    BY <1>13, ForkInv
<1>14. ASSUME NEW h \in Handles, NEW new \in Branches, NEW r \in Held(cur[h]), BranchAt(h, r, new)
       PROVE IInv'
    BY <1>14, BranchAtInv
<1>15. ASSUME NEW h \in Handles, NEW new \in Branches, NEW g \in Handles, Derive(h, g, new) PROVE IInv'
    BY <1>15, DeriveInv
<1>16. ASSUME NEW t \in Len(Bodies0) .. MaxSeq, Restart(t) PROVE IInv'
    <2>1. t \in Nat
      BY BodyAssumption, BoundAssumption, LenProperties
    <2>. QED  BY <1>16, <2>1, RestartInv
<1>17. ASSUME UNCHANGED vars PROVE IInv'
    BY <1>17, StutterInv
<1>. QED
    BY <1>1, <1>2, <1>3, <1>4, <1>5, <1>6, <1>7, <1>8, <1>9, <1>10, <1>11, <1>12, <1>13,
       <1>14, <1>15, <1>16, <1>17 DEF Next

LEMMA IInvHolds == Spec => []IInv
<1>. QED  BY InitInv, NextInv, PTL DEF Spec

-----------------------------------------------------------------------------
(* The theorems.                                                           *)

\* Every variable keeps its type, whatever calls are made, writes fail,
\* branches are cut and records are lost.
THEOREM TypeCorrect == Spec => []TypeOK
<1>1. IInv => TypeOK
    BY DEF IInv, RecordType, IndexType, ToldType, TypeOK
<1>. QED  BY <1>1, IInvHolds, PTL

\* A reading whose revision is a branch's newest record is that branch's
\* index (WindowIndex.current takes it for the index without reading a
\* record): no cut, crash, failed write or other handle's write leaves a
\* reading keyed to a log it isn't.
THEOREM ReadingCorrect == Spec => []ReadingIsStore
<1>1. ASSUME IInv PROVE ReadingIsStore
  <2>1. SUFFICES ASSUME NEW h \in Handles, NEW b \in live, reading[h].rev = Revision(log[b])
                 PROVE  reading[h].items = log[b]
    BY DEF ReadingIsStore
  <2>2. /\ b \in Branches /\ seq \in Nat /\ log[b] \in Logs \cup Readings
        /\ reading[h].items \in Logs \cup Readings /\ Coherent(Logs \cup Readings, seq)
    BY <1>1 DEF IInv, RecordType, Logs, Readings
  <2>3. History(log[b], seq) /\ log[b] \in Seq(Item)
    BY <2>2 DEF Coherent, History
  <2>4. Revision(log[b]) # -1
    BY <2>2, <2>3, LenProperties, EmptySeq DEF Revision, History, Stamped
  <2>5. reading[h].rev = Revision(reading[h].items)
    BY <1>1, <2>1, <2>4 DEF IInv, ReadingKeyed, NoReading
  <2> DEFINE r == reading[h].items
             t == log[b]
  <2>6. /\ History(r, seq) /\ History(t, seq) /\ Agree(r, t) /\ Agree(t, r)
        /\ Revision(r) = Revision(t)
    BY <2>1, <2>2, <2>5 DEF Coherent
  <2> HIDE DEF r, t
  <2>7. r = t
    BY <2>2, <2>6, SameRevision
  <2>. QED  BY <2>7 DEF r, t
<1>. QED  BY <1>1, IInvHolds, PTL

=============================================================================
