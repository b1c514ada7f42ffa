-------------------------- MODULE WindowReadProofs --------------------------
(***************************************************************************)
(* A log of any length, read item by item, is the log read as a whole:     *)
(* what one item more does to each part of the whole (the lemmas), `apply` *)
(* does to the reading, so that every part of it follows: RInv.            *)
(***************************************************************************)
EXTENDS WindowRead, SequenceTheorems, WellFoundedInduction, TLAPS

Puts(e, id) == e.kind = "present" /\ e.id = id
Takes(e, id) == e.kind \in {"retract", "undo"} /\ e.id = id
Holds(s, kind) == \E i \in 1 .. Len(s) : s[i].kind = kind

-----------------------------------------------------------------------------
(* A log, and one item more.                                               *)

LEMMA AppendItems ==
    ASSUME NEW s \in Seq(Item), NEW e \in Item
    PROVE  /\ Append(s, e) \in Seq(Item) /\ Len(Append(s, e)) = Len(s) + 1 /\ Len(s) \in Nat
           /\ \A i \in 1 .. Len(s) : Append(s, e)[i] = s[i] /\ s[i] \in Item
           /\ Append(s, e)[Len(s) + 1] = e
<1>1. Append(s, e) \in Seq(Item) /\ Len(Append(s, e)) = Len(s) + 1 /\ Len(s) \in Nat
    BY AppendProperties, LenProperties
<1>2. \A i \in 1 .. Len(s) : Append(s, e)[i] = s[i]
    BY AppendProperties
<1>3. Append(s, e)[Len(s) + 1] = e
    BY AppendProperties
<1>4. \A i \in 1 .. Len(s) : s[i] \in Item
    BY ElementOfSeq
<1>. QED  BY <1>1, <1>2, <1>3, <1>4

\* A presentation stands while the item appended is no tombstone of its row.
LEMMA StandsAppended ==
    ASSUME NEW s \in Seq(Item), NEW e \in Item, NEW id
    PROVE  /\ \A i \in 1 .. Len(s) : StandsAt(Append(s, e), i, id) <=> StandsAt(s, i, id) /\ ~Takes(e, id)
           /\ StandsAt(Append(s, e), Len(s) + 1, id) <=> Puts(e, id)
<1> DEFINE t == Append(s, e)
<1>1. /\ t \in Seq(Item) /\ Len(t) = Len(s) + 1 /\ Len(s) \in Nat
      /\ \A i \in 1 .. Len(s) : t[i] = s[i]
      /\ t[Len(s) + 1] = e
    BY AppendItems
<1> HIDE DEF t
<1>2. \A i \in 1 .. Len(s) : /\ Presents(t, i, id) <=> Presents(s, i, id)
                             /\ TakesOut(t, i, id) <=> TakesOut(s, i, id)
    BY <1>1 DEF Presents, TakesOut
<1>3. Presents(t, Len(s) + 1, id) <=> Puts(e, id)
    BY <1>1 DEF Presents, Puts
<1>4. TakesOut(t, Len(s) + 1, id) <=> Takes(e, id)
    BY <1>1 DEF TakesOut, Takes
<1>5. ASSUME NEW i \in 1 .. Len(s)
      PROVE  StandsAt(t, i, id) <=> StandsAt(s, i, id) /\ ~Takes(e, id)
    <2>1. \A j : j \in i + 1 .. Len(t) <=> j \in i + 1 .. Len(s) \/ j = Len(s) + 1
        BY <1>1
    <2>2. (\A j \in i + 1 .. Len(t) : ~TakesOut(t, j, id)) <=> (\A j \in i + 1 .. Len(s) : ~TakesOut(t, j, id)) /\ ~TakesOut(t, Len(s) + 1, id)
        BY <2>1
    <2>3. \A j \in i + 1 .. Len(s) : j \in 1 .. Len(s)
        BY <1>1
    <2>. QED  BY <1>2, <1>4, <2>2, <2>3 DEF StandsAt
<1>6. StandsAt(t, Len(s) + 1, id) <=> Puts(e, id)
    BY <1>1, <1>3 DEF StandsAt
<1>. QED  BY <1>5, <1>6 DEF t

LEMMA InAppended ==
    ASSUME NEW s \in Seq(Item), NEW e \in Item, NEW id
    PROVE  InWindow(Append(s, e), id) <=> (InWindow(s, id) /\ ~Takes(e, id)) \/ Puts(e, id)
<1>1. Len(Append(s, e)) = Len(s) + 1 /\ Len(s) \in Nat
    BY AppendItems
<1>2. \A i : i \in 1 .. Len(Append(s, e)) <=> i \in 1 .. Len(s) \/ i = Len(s) + 1
    BY <1>1
<1>. QED  BY <1>2, StandsAppended DEF InWindow

\* The rows in the window, as a set.
LEMMA WindowIs ==
    ASSUME NEW s, NEW id
    PROVE  id \in WindowOf(s) <=> InWindow(s, id)
BY DEF WindowOf, InWindow, StandsAt, Presents

\* A set of positions that isn't empty has a least one.
LEMMA LeastPosition ==
    ASSUME NEW S, S \subseteq Nat, S # {}
    PROVE  \E p \in S : \A q \in S : p <= q
<1>1. PICK p \in S : \A q \in S : ~(<<q, p>> \in OpToRel(<, Nat))
    BY NatLessThanWellFounded, WFMin
<1>2. \A q \in S : ~(q < p)
    BY <1>1 DEF OpToRel
<1>. QED  BY <1>2

\* The ordinal of a row in the window is the first position it stands at.
LEMMA OrdinalIs ==
    ASSUME NEW s \in Seq(Item), NEW id, NEW k \in 1 .. Len(s), StandsAt(s, k, id), \A j \in 1 .. k - 1 : ~StandsAt(s, j, id)
    PROVE  OrdinalIn(s, id) = k
<1>1. Len(s) \in Nat
    BY LenProperties
<1>2. ASSUME NEW i \in 1 .. Len(s), StandsAt(s, i, id), \A j \in 1 .. i - 1 : ~StandsAt(s, j, id) PROVE i = k
    <2>1. ~(i < k) /\ ~(k < i)
        BY <1>1, <1>2
    <2>. QED  BY <1>1, <2>1
<1>. QED  BY <1>2 DEF OrdinalIn

LEMMA OrdinalOf ==
    ASSUME NEW s \in Seq(Item), NEW id, InWindow(s, id)
    PROVE  /\ OrdinalIn(s, id) \in 1 .. Len(s) /\ StandsAt(s, OrdinalIn(s, id), id)
           /\ \A j \in 1 .. OrdinalIn(s, id) - 1 : ~StandsAt(s, j, id)
<1> DEFINE T == {i \in 1 .. Len(s) : StandsAt(s, i, id)}
<1>1. T # {} /\ T \subseteq Nat
    BY LenProperties DEF InWindow
<1>2. PICK k \in T : \A j \in T : k <= j
    <2> HIDE DEF T
    <2>. QED  BY <1>1, LeastPosition
<1>3. k \in 1 .. Len(s) /\ StandsAt(s, k, id) /\ \A j \in 1 .. k - 1 : ~StandsAt(s, j, id)
    BY <1>1, <1>2, LenProperties
<1>. QED  BY <1>3 DEF OrdinalIn

\* A row keeps its ordinal while it stays; one that enters has the next.
LEMMA OrdinalAppended ==
    ASSUME NEW s \in Seq(Item), NEW e \in Item, NEW id
    PROVE  /\ InWindow(s, id) /\ ~Takes(e, id) => OrdinalIn(Append(s, e), id) = OrdinalIn(s, id)
           /\ ~InWindow(s, id) /\ Puts(e, id) => OrdinalIn(Append(s, e), id) = Len(s) + 1
<1> DEFINE t == Append(s, e)
<1>1. t \in Seq(Item) /\ Len(t) = Len(s) + 1 /\ Len(s) \in Nat
    BY AppendItems
<1>2. /\ \A i \in 1 .. Len(s) : StandsAt(t, i, id) <=> StandsAt(s, i, id) /\ ~Takes(e, id)
      /\ StandsAt(t, Len(s) + 1, id) <=> Puts(e, id)
    BY StandsAppended
<1> HIDE DEF t
<1>3. ASSUME InWindow(s, id), ~Takes(e, id) PROVE OrdinalIn(t, id) = OrdinalIn(s, id)
    <2> DEFINE k == OrdinalIn(s, id)
    <2>1. k \in 1 .. Len(s) /\ StandsAt(s, k, id) /\ \A j \in 1 .. k - 1 : ~StandsAt(s, j, id)
        BY <1>3, OrdinalOf
    <2> HIDE DEF k
    <2>2. k \in 1 .. Len(t) /\ StandsAt(t, k, id)
        BY <1>1, <1>2, <1>3, <2>1
    <2>3. \A j \in 1 .. k - 1 : ~StandsAt(t, j, id)
        BY <1>1, <1>2, <2>1
    <2>4. OrdinalIn(t, id) = k
        BY <1>1, <2>2, <2>3, OrdinalIs
    <2>. QED  BY <2>4 DEF k
<1>4. ASSUME ~InWindow(s, id), Puts(e, id) PROVE OrdinalIn(t, id) = Len(s) + 1
    <2>1. \A j \in 1 .. Len(s) : ~StandsAt(t, j, id)
        BY <1>2, <1>4 DEF InWindow
    <2>2. Len(s) + 1 \in 1 .. Len(t) /\ StandsAt(t, Len(s) + 1, id) /\ \A j \in 1 .. (Len(s) + 1) - 1 : ~StandsAt(t, j, id)
        BY <1>1, <1>2, <1>4, <2>1
    <2>. QED  BY <1>1, <2>2, OrdinalIs
<1>. QED  BY <1>3, <1>4 DEF t

\* No ordinal issued is issued again.
LEMMA IssuedAppended ==
    ASSUME NEW s \in Seq(Item), NEW e \in Item
    PROVE  /\ \A i \in 1 .. Len(s) : IssuedAt(Append(s, e), i) = IssuedAt(s, i)
           /\ IssuedAt(Append(s, e), Len(s) + 1) = IF e.kind = "present" /\ ~InWindow(s, e.id) THEN e.id ELSE 0
<1> DEFINE t == Append(s, e)
<1>1. /\ t \in Seq(Item) /\ Len(t) = Len(s) + 1 /\ Len(s) \in Nat
      /\ \A i \in 1 .. Len(s) : t[i] = s[i]
      /\ t[Len(s) + 1] = e
    BY AppendItems
<1> HIDE DEF t
<1>2. ASSUME NEW i \in 1 .. Len(s) + 1 PROVE SubSeq(t, 1, i - 1) = SubSeq(s, 1, i - 1)
    <2>1. \A k \in 1 .. i - 1 : k \in 1 .. Len(s) /\ t[k] = s[k] /\ s[k] \in Item /\ t[k] \in Item
        BY <1>1, AppendItems
    <2>2. /\ SubSeq(t, 1, i - 1) \in Seq(Item) /\ Len(SubSeq(t, 1, i - 1)) = i - 1
          /\ \A k \in 1 .. i - 1 : SubSeq(t, 1, i - 1)[k] = t[k]
        BY <1>1, <2>1, SubSeqProperties
    <2>3. /\ SubSeq(s, 1, i - 1) \in Seq(Item) /\ Len(SubSeq(s, 1, i - 1)) = i - 1
          /\ \A k \in 1 .. i - 1 : SubSeq(s, 1, i - 1)[k] = s[k]
        BY <1>1, <2>1, SubSeqProperties
    <2>. QED  BY <2>1, <2>2, <2>3, SeqEqual
<1>3. SubSeq(s, 1, Len(s)) = s
    <2>1. \A k \in 1 .. Len(s) : s[k] \in Item
        BY AppendItems
    <2>2. /\ SubSeq(s, 1, Len(s)) \in Seq(Item) /\ Len(SubSeq(s, 1, Len(s))) = Len(s)
          /\ \A k \in 1 .. Len(s) : SubSeq(s, 1, Len(s))[k] = s[k]
        BY <1>1, <2>1, SubSeqProperties
    <2>. QED  BY <2>2, SeqEqual
<1>4. ASSUME NEW i \in 1 .. Len(s) PROVE IssuedAt(t, i) = IssuedAt(s, i)
    <2>1. i \in 1 .. Len(t) /\ t[i] = s[i] /\ i \in 1 .. Len(s) + 1
        BY <1>1
    <2>2. SubSeq(t, 1, i - 1) = SubSeq(s, 1, i - 1)
        BY <1>2, <2>1
    <2>. QED  BY <2>1, <2>2, Zenon DEF IssuedAt
<1>5. SubSeq(t, 1, (Len(s) + 1) - 1) = s
    <2>1. (Len(s) + 1) - 1 = Len(s) /\ Len(s) + 1 \in 1 .. Len(s) + 1
        BY <1>1
    <2>2. SubSeq(t, 1, (Len(s) + 1) - 1) = SubSeq(s, 1, (Len(s) + 1) - 1)
        BY <1>2, <2>1
    <2>. QED  BY <1>3, <2>1, <2>2
<1>6. IssuedAt(t, Len(s) + 1) = IF e.kind = "present" /\ ~InWindow(s, e.id) THEN e.id ELSE 0
    <2>1. Len(s) + 1 \in 1 .. Len(t) /\ t[Len(s) + 1] = e
        BY <1>1
    <2>. QED  BY <1>5, <2>1, Zenon DEF IssuedAt
<1>. QED  BY <1>4, <1>6 DEF t

\* Rows undone, while nothing of them comes after.
LEMMA UndoneAppended ==
    ASSUME NEW s \in Seq(Item), NEW e \in Item, NEW id
    PROVE  UndoneIn(Append(s, e), id) <=>
             (e.kind = "undo" /\ e.id = id) \/ (UndoneIn(s, id) /\ ~Puts(e, id) /\ ~Takes(e, id))
<1> DEFINE t == Append(s, e)
           After(i) == \A j \in i + 1 .. Len(t) : ~Presents(t, j, id) /\ ~TakesOut(t, j, id)
<1>1. /\ t \in Seq(Item) /\ Len(t) = Len(s) + 1 /\ Len(s) \in Nat
      /\ \A i \in 1 .. Len(s) : t[i] = s[i]
      /\ t[Len(s) + 1] = e
    BY AppendItems
<1> HIDE DEF t
<1>2. \A i : i \in 1 .. Len(t) <=> i \in 1 .. Len(s) \/ i = Len(s) + 1
    BY <1>1
<1>3. ASSUME NEW i \in 1 .. Len(s)
      PROVE  After(i) <=> (\A j \in i + 1 .. Len(s) : ~Presents(s, j, id) /\ ~TakesOut(s, j, id)) /\ ~Puts(e, id) /\ ~Takes(e, id)
    <2>1. \A j : j \in i + 1 .. Len(t) <=> j \in i + 1 .. Len(s) \/ j = Len(s) + 1
        BY <1>1
    <2>2. \A j \in i + 1 .. Len(s) : t[j] = s[j]
        BY <1>1
    <2>. QED  BY <1>1, <2>1, <2>2 DEF Presents, TakesOut, Puts, Takes
<1>4. After(Len(s) + 1)
    BY <1>1
<1> HIDE DEF After
<1>5. UndoneIn(t, id) <=> \E i \in 1 .. Len(t) : t[i].kind = "undo" /\ t[i].id = id /\ After(i)
    BY DEF UndoneIn, After
<1>6. UndoneIn(t, id) <=> (\E i \in 1 .. Len(s) : s[i].kind = "undo" /\ s[i].id = id /\ After(i)) \/ (e.kind = "undo" /\ e.id = id)
    BY <1>1, <1>2, <1>4, <1>5
<1>. QED  BY <1>3, <1>6 DEF UndoneIn, t

\* The first header of a log, which one more leaves.
LEMMA HeaderIs ==
    ASSUME NEW s \in Seq(Item)
    PROVE  /\ HeaderIn(s) = 0 <=> ~Holds(s, "header")
           /\ HeaderIn(s) \in 0 .. Len(s)
           /\ \A k \in 1 .. Len(s) : s[k].kind = "header" /\ (\A j \in 1 .. k - 1 : s[j].kind # "header") => HeaderIn(s) = k
           /\ HeaderIn(s) # 0 => s[HeaderIn(s)].kind = "header" /\ \A j \in 1 .. HeaderIn(s) - 1 : s[j].kind # "header"
<1>1. Len(s) \in Nat
    BY LenProperties
<1>2. CASE ~Holds(s, "header")
    BY <1>1, <1>2 DEF HeaderIn, Holds
<1>3. CASE Holds(s, "header")
    <2> DEFINE T == {i \in 1 .. Len(s) : s[i].kind = "header"}
               First(i) == s[i].kind = "header" /\ \A j \in 1 .. i - 1 : s[j].kind # "header"
    <2>1. T # {} /\ T \subseteq Nat
        BY <1>1, <1>3 DEF Holds
    <2>2. PICK p \in T : \A j \in T : p <= j
        <3> HIDE DEF T
        <3>. QED  BY <2>1, LeastPosition
    <2>3. p \in 1 .. Len(s) /\ First(p)
        BY <1>1, <2>2
    <2>4. HeaderIn(s) = CHOOSE i \in 1 .. Len(s) : First(i)
        BY <1>3 DEF HeaderIn, Holds
    <2>5. HeaderIn(s) \in 1 .. Len(s) /\ First(HeaderIn(s))
        <3> HIDE DEF First
        <3>. QED  BY <2>3, <2>4
    <2>6. ASSUME NEW k \in 1 .. Len(s), First(k) PROVE HeaderIn(s) = k
        <3>1. ~(k < HeaderIn(s)) /\ ~(HeaderIn(s) < k)
            BY <1>1, <2>5, <2>6
        <3>. QED  BY <1>1, <2>5, <3>1
    <2>7. HeaderIn(s) # 0
        BY <2>5
    <2>. QED  BY <1>1, <1>3, <2>5, <2>6, <2>7
<1>. QED  BY <1>2, <1>3

LEMMA HoldsAppended ==
    ASSUME NEW s \in Seq(Item), NEW e \in Item, NEW kind
    PROVE  Holds(Append(s, e), kind) <=> Holds(s, kind) \/ e.kind = kind
<1>1. /\ Len(Append(s, e)) = Len(s) + 1 /\ Len(s) \in Nat
      /\ \A i \in 1 .. Len(s) : Append(s, e)[i] = s[i]
      /\ Append(s, e)[Len(s) + 1] = e
    BY AppendItems
<1>2. \A i : i \in 1 .. Len(Append(s, e)) <=> i \in 1 .. Len(s) \/ i = Len(s) + 1
    BY <1>1
<1>. QED  BY <1>1, <1>2 DEF Holds

LEMMA HeaderAppended ==
    ASSUME NEW s \in Seq(Item), NEW e \in Item
    PROVE  HeaderIn(Append(s, e)) =
             IF HeaderIn(s) # 0 THEN HeaderIn(s) ELSE IF e.kind = "header" THEN Len(s) + 1 ELSE 0
<1> DEFINE t == Append(s, e)
<1>1. /\ t \in Seq(Item) /\ Len(t) = Len(s) + 1 /\ Len(s) \in Nat
      /\ \A i \in 1 .. Len(s) : t[i] = s[i]
      /\ t[Len(s) + 1] = e
    BY AppendItems
<1>2. Holds(t, "header") <=> Holds(s, "header") \/ e.kind = "header"
    BY HoldsAppended
<1> HIDE DEF t
<1>3. CASE HeaderIn(s) # 0
    <2> DEFINE k == HeaderIn(s)
    <2>1. k \in 1 .. Len(s) /\ s[k].kind = "header" /\ \A j \in 1 .. k - 1 : s[j].kind # "header"
        BY <1>1, <1>3, HeaderIs
    <2> HIDE DEF k
    <2>2. k \in 1 .. Len(t) /\ t[k].kind = "header" /\ \A j \in 1 .. k - 1 : t[j].kind # "header"
        BY <1>1, <2>1
    <2>3. HeaderIn(t) = k
        BY <1>1, <2>2, HeaderIs
    <2>. QED  BY <1>3, <2>3 DEF k, t
<1>4. CASE HeaderIn(s) = 0 /\ e.kind = "header"
    <2>1. ~Holds(s, "header")
        BY <1>4, HeaderIs
    <2>2. Len(s) + 1 \in 1 .. Len(t) /\ t[Len(s) + 1].kind = "header" /\ \A j \in 1 .. (Len(s) + 1) - 1 : t[j].kind # "header"
        BY <1>1, <1>4, <2>1 DEF Holds
    <2>3. HeaderIn(t) = Len(s) + 1
        BY <1>1, <2>2, HeaderIs
    <2>. QED  BY <1>4, <2>3 DEF t
<1>5. CASE HeaderIn(s) = 0 /\ e.kind # "header"
    <2>1. ~Holds(t, "header")
        BY <1>2, <1>5, HeaderIs
    <2>2. HeaderIn(t) = 0
        BY <1>1, <2>1, HeaderIs
    <2>. QED  BY <1>5, <2>2 DEF t
<1>. QED  BY <1>3, <1>4, <1>5

\* Rows that left after the header, while none is put back.
LEMMA LeftAppended ==
    ASSUME NEW s \in Seq(Item), NEW e \in Item, NEW id
    PROVE  LeftIn(Append(s, e), id) <=>
             (Takes(e, id) /\ HeaderIn(s) # 0) \/ (LeftIn(s, id) /\ ~Puts(e, id))
<1> DEFINE t == Append(s, e)
           Back(i) == \A j \in i + 1 .. Len(t) : ~Presents(t, j, id)
<1>1. /\ t \in Seq(Item) /\ Len(t) = Len(s) + 1 /\ Len(s) \in Nat
      /\ \A i \in 1 .. Len(s) : t[i] = s[i]
      /\ t[Len(s) + 1] = e
    BY AppendItems
<1>2. HeaderIn(t) = IF HeaderIn(s) # 0 THEN HeaderIn(s) ELSE IF e.kind = "header" THEN Len(s) + 1 ELSE 0
    BY HeaderAppended
<1> HIDE DEF t
<1>3. HeaderIn(s) \in 0 .. Len(s)
    BY HeaderIs
<1>4. \A i : i \in 1 .. Len(t) <=> i \in 1 .. Len(s) \/ i = Len(s) + 1
    BY <1>1
<1>5. ASSUME NEW i \in 1 .. Len(s)
      PROVE  /\ Back(i) <=> (\A j \in i + 1 .. Len(s) : ~Presents(s, j, id)) /\ ~Puts(e, id)
             /\ HeaderIn(t) \in 1 .. i - 1 <=> HeaderIn(s) \in 1 .. i - 1
             /\ TakesOut(t, i, id) <=> TakesOut(s, i, id)
    <2>1. \A j : j \in i + 1 .. Len(t) <=> j \in i + 1 .. Len(s) \/ j = Len(s) + 1
        BY <1>1
    <2>2. \A j \in i + 1 .. Len(s) : t[j] = s[j]
        BY <1>1
    <2>3. Back(i) <=> (\A j \in i + 1 .. Len(s) : ~Presents(s, j, id)) /\ ~Puts(e, id)
        BY <1>1, <2>1, <2>2 DEF Presents, Puts
    <2>4. HeaderIn(t) \in 1 .. i - 1 <=> HeaderIn(s) \in 1 .. i - 1
        BY <1>1, <1>2, <1>3
    <2>5. TakesOut(t, i, id) <=> TakesOut(s, i, id)
        BY <1>1 DEF TakesOut
    <2>. QED  BY <2>3, <2>4, <2>5
<1>6. Back(Len(s) + 1) /\ (TakesOut(t, Len(s) + 1, id) <=> Takes(e, id))
    BY <1>1 DEF TakesOut, Takes
<1>7. Takes(e, id) => (HeaderIn(t) \in 1 .. (Len(s) + 1) - 1 <=> HeaderIn(s) # 0)
    <2>1. Takes(e, id) => e.kind # "header"
        BY DEF Takes
    <2>. QED  BY <1>1, <1>2, <1>3, <2>1
<1> HIDE DEF Back
<1>8. LeftIn(t, id) <=> \E i \in 1 .. Len(t) : TakesOut(t, i, id) /\ HeaderIn(t) \in 1 .. i - 1 /\ Back(i)
    BY DEF LeftIn, Back
<1>9. LeftIn(t, id) <=> (\E i \in 1 .. Len(s) : TakesOut(t, i, id) /\ HeaderIn(t) \in 1 .. i - 1 /\ Back(i)) \/ (Takes(e, id) /\ HeaderIn(s) # 0)
    BY <1>4, <1>6, <1>7, <1>8
<1>. QED  BY <1>5, <1>9 DEF LeftIn, t

\* A row undone, or left, is not in the window.
LEMMA OutOfWindow ==
    ASSUME NEW s \in Seq(Item), NEW id, UndoneIn(s, id) \/ LeftIn(s, id)
    PROVE  ~InWindow(s, id)
<1>1. PICK i \in 1 .. Len(s) : TakesOut(s, i, id) /\ \A j \in i + 1 .. Len(s) : ~Presents(s, j, id)
    BY DEF UndoneIn, LeftIn, TakesOut
<1>2. Len(s) \in Nat
    BY LenProperties
<1>3. SUFFICES ASSUME NEW k \in 1 .. Len(s), StandsAt(s, k, id) PROVE FALSE
    BY DEF InWindow
<1>4. ~(k > i)
    BY <1>1, <1>2, <1>3 DEF StandsAt
<1>5. ~(k < i)
    BY <1>1, <1>2, <1>3 DEF StandsAt
<1>6. k # i
    BY <1>1, <1>3 DEF StandsAt, Presents, TakesOut
<1>. QED  BY <1>2, <1>4, <1>5, <1>6

-----------------------------------------------------------------------------
(* The reading, part by part, against the log.                             *)

\* Items that name a row name one above 0, which is what a hole holds.
Names(s) == \A i \in 1 .. Len(s) : s[i].kind \in {"present", "retract", "undo"} => s[i].id # 0

Shaped(s, st) ==
    /\ st.rows \in Seq(Nat) /\ Len(st.rows) = Len(s)
    /\ st.issued \in Seq(Nat) /\ Len(st.issued) = Len(s)
    /\ st.otherFormat \in BOOLEAN /\ st.unreadable \in Nat

OrdinalsAre(s, st) ==
    /\ \A x : x \in DOMAIN st.ordinals <=> InWindow(s, x)
    /\ \A x \in DOMAIN st.ordinals : st.ordinals[x] = OrdinalIn(s, x)

RowsAre(s, st) ==
    /\ \A x : InWindow(s, x) => st.rows[OrdinalIn(s, x)] = x
    /\ \A i \in 1 .. Len(s) : st.rows[i] # 0 => InWindow(s, st.rows[i]) /\ OrdinalIn(s, st.rows[i]) = i

IssuedAre(s, st) == \A i \in 1 .. Len(s) : st.issued[i] = IssuedAt(s, i)

BesideAre(s, st) ==
    /\ \A x : x \in st.undone <=> UndoneIn(s, x)
    /\ \A x : x \in st.left <=> LeftIn(s, x)
    /\ st.header = HeaderIn(s)
    /\ st.otherFormat <=> Holds(s, "otherFormat")
    /\ st.unreadable > 0 <=> Holds(s, "unreadable")

LEMMA RowsAboveNought ==
    ASSUME NEW s \in Seq(Item), Names(s), NEW id, InWindow(s, id)
    PROVE  id # 0 /\ id \in Nat
<1>1. PICK i \in 1 .. Len(s) : Presents(s, i, id)
    BY DEF InWindow, StandsAt
<1>2. s[i] \in Item
    BY ElementOfSeq, LenProperties
<1>. QED  BY <1>1, <1>2 DEF Names, Presents, Item

LEMMA NamesAppended ==
    ASSUME NEW s \in Seq(Item), Names(s), NEW e \in Item, e.kind \in {"present", "retract", "undo"} => e.id # 0
    PROVE  Names(Append(s, e))
<1>1. \A i : i \in 1 .. Len(Append(s, e)) <=> i \in 1 .. Len(s) \/ i = Len(s) + 1
    BY AppendItems
<1>. QED  BY <1>1, AppendItems DEF Names

\* A present item read.
LEMMA PresentRead ==
    ASSUME NEW s \in Seq(Item), Names(s), NEW e \in Item, e.kind = "present", e.id # 0, NEW st,
           Shaped(s, st), OrdinalsAre(s, st), RowsAre(s, st), IssuedAre(s, st), BesideAre(s, st)
    PROVE  LET u == ApplyPresent(st, e.id, Len(s) + 1)
               t == Append(s, e)
           IN  Shaped(t, u) /\ OrdinalsAre(t, u) /\ RowsAre(t, u) /\ IssuedAre(t, u) /\ BesideAre(t, u)
<1> DEFINE id == e.id
           u == ApplyPresent(st, id, Len(s) + 1)
           t == Append(s, e)
           new == id \notin DOMAIN st.ordinals
           here == IF new THEN id ELSE 0
<1>1. /\ t \in Seq(Item) /\ Len(t) = Len(s) + 1 /\ Len(s) \in Nat
      /\ \A i : i \in 1 .. Len(t) <=> i \in 1 .. Len(s) \/ i = Len(s) + 1
      /\ id \in Nat
    BY AppendItems DEF Item
<1>2. \A x : (Puts(e, x) <=> x = id) /\ ~Takes(e, x)
    BY DEF Puts, Takes
<1>3. \A x : InWindow(t, x) <=> InWindow(s, x) \/ x = id
    BY <1>2, InAppended
<1>4. \A x : (InWindow(s, x) => OrdinalIn(t, x) = OrdinalIn(s, x)) /\ (x = id /\ ~InWindow(s, x) => OrdinalIn(t, x) = Len(s) + 1)
    BY <1>2, OrdinalAppended
<1>5. new <=> ~InWindow(s, id)
    BY DEF OrdinalsAre
<1>6. /\ u.rows = Append(st.rows, here) /\ u.issued = Append(st.issued, here)
      /\ u.ordinals = IF new THEN Placing(st, id, Len(s) + 1) ELSE st.ordinals
      /\ u.undone = st.undone \ {id} /\ u.left = st.left \ {id}
      /\ u.header = st.header /\ u.otherFormat = st.otherFormat /\ u.unreadable = st.unreadable
    BY DEF ApplyPresent, Reading
<1>7. here \in Nat
    BY <1>1
<1>8. /\ Append(st.rows, here) \in Seq(Nat) /\ Len(Append(st.rows, here)) = Len(s) + 1
      /\ \A i \in 1 .. Len(s) : Append(st.rows, here)[i] = st.rows[i]
      /\ Append(st.rows, here)[Len(s) + 1] = here
    BY <1>7, AppendProperties DEF Shaped
<1>9. /\ Append(st.issued, here) \in Seq(Nat) /\ Len(Append(st.issued, here)) = Len(s) + 1
      /\ \A i \in 1 .. Len(s) : Append(st.issued, here)[i] = st.issued[i]
      /\ Append(st.issued, here)[Len(s) + 1] = here
    BY <1>7, AppendProperties DEF Shaped
<1>10. \A x : InWindow(s, x) => OrdinalIn(s, x) \in 1 .. Len(s)
    BY OrdinalOf
<1> HIDE DEF t, u
<1>11. Shaped(t, u)
    BY <1>1, <1>6, <1>8, <1>9 DEF Shaped
<1>12. OrdinalsAre(t, u)
    <2>1. CASE new
        <3>1. DOMAIN u.ordinals = DOMAIN st.ordinals \cup {id} /\ \A x \in DOMAIN u.ordinals : u.ordinals[x] = IF x = id THEN Len(s) + 1 ELSE st.ordinals[x]
            BY <1>6, <2>1 DEF Placing
        <3>. QED  BY <1>3, <1>4, <1>5, <2>1, <3>1 DEF OrdinalsAre
    <2>2. CASE ~new
        BY <1>3, <1>4, <1>5, <1>6, <2>2 DEF OrdinalsAre
    <2>. QED  BY <2>1, <2>2
<1>13. RowsAre(t, u)
    <2>1. ASSUME NEW x, InWindow(t, x) PROVE u.rows[OrdinalIn(t, x)] = x
        <3>1. CASE InWindow(s, x)
            BY <1>4, <1>6, <1>8, <1>10, <3>1 DEF RowsAre
        <3>2. CASE ~InWindow(s, x)
            BY <1>3, <1>4, <1>5, <1>6, <1>8, <2>1, <3>2
        <3>. QED  BY <3>1, <3>2
    <2>2. ASSUME NEW i \in 1 .. Len(t), u.rows[i] # 0 PROVE InWindow(t, u.rows[i]) /\ OrdinalIn(t, u.rows[i]) = i
        <3>1. CASE i \in 1 .. Len(s)
            BY <1>3, <1>4, <1>6, <1>8, <2>2, <3>1 DEF RowsAre
        <3>2. CASE i = Len(s) + 1
            BY <1>3, <1>4, <1>5, <1>6, <1>8, <2>2, <3>2
        <3>. QED  BY <1>1, <3>1, <3>2
    <2>. QED  BY <2>1, <2>2 DEF RowsAre
<1>14. IssuedAre(t, u)
    <2>1. \A i \in 1 .. Len(s) : u.issued[i] = IssuedAt(t, i)
        BY <1>6, <1>9, IssuedAppended DEF IssuedAre, t
    <2>2. u.issued[Len(s) + 1] = IssuedAt(t, Len(s) + 1)
        BY <1>5, <1>6, <1>9, IssuedAppended DEF t
    <2>. QED  BY <1>1, <2>1, <2>2 DEF IssuedAre
<1>15. BesideAre(t, u)
    <2>1. \A x : UndoneIn(t, x) <=> UndoneIn(s, x) /\ x # id
        BY <1>2, UndoneAppended DEF t
    <2>2. \A x : LeftIn(t, x) <=> LeftIn(s, x) /\ x # id
        BY <1>2, LeftAppended DEF t
    <2>3. HeaderIn(t) = HeaderIn(s)
        BY HeaderAppended, HeaderIs DEF t
    <2>4. (Holds(t, "otherFormat") <=> Holds(s, "otherFormat")) /\ (Holds(t, "unreadable") <=> Holds(s, "unreadable"))
        BY HoldsAppended DEF t
    <2>. QED  BY <1>6, <2>1, <2>2, <2>3, <2>4 DEF BesideAre
<1>. QED  BY <1>11, <1>12, <1>13, <1>14, <1>15 DEF t, u

\* A tombstone read, an undone turn's or not.
LEMMA TombstoneRead ==
    ASSUME NEW s \in Seq(Item), Names(s), NEW e \in Item, e.kind \in {"retract", "undo"}, e.id # 0, NEW st,
           Shaped(s, st), OrdinalsAre(s, st), RowsAre(s, st), IssuedAre(s, st), BesideAre(s, st)
    PROVE  LET u == ApplyTombstone(st, e.id, e.kind = "undo")
               t == Append(s, e)
           IN  Shaped(t, u) /\ OrdinalsAre(t, u) /\ RowsAre(t, u) /\ IssuedAre(t, u) /\ BesideAre(t, u)
<1> DEFINE id == e.id
           u == ApplyTombstone(st, id, e.kind = "undo")
           t == Append(s, e)
           hole == Append(st.rows, 0)
           here == id \in DOMAIN st.ordinals
           rows == IF here THEN [hole EXCEPT ![st.ordinals[id]] = 0] ELSE hole
<1>1. /\ t \in Seq(Item) /\ Len(t) = Len(s) + 1 /\ Len(s) \in Nat
      /\ \A i : i \in 1 .. Len(t) <=> i \in 1 .. Len(s) \/ i = Len(s) + 1
    BY AppendItems
<1>2. \A x : (Takes(e, x) <=> x = id) /\ ~Puts(e, x)
    BY DEF Puts, Takes
<1>3. \A x : InWindow(t, x) <=> InWindow(s, x) /\ x # id
    BY <1>2, InAppended
<1>4. \A x : InWindow(s, x) /\ x # id => OrdinalIn(t, x) = OrdinalIn(s, x)
    BY <1>2, OrdinalAppended
<1>5. here <=> InWindow(s, id)
    BY DEF OrdinalsAre
<1>6. /\ u.rows = rows /\ u.issued = Append(st.issued, 0)
      /\ u.ordinals = [x \in DOMAIN st.ordinals \ {id} |-> st.ordinals[x]]
      /\ u.undone = IF e.kind = "undo" THEN st.undone \cup {id} ELSE st.undone \ {id}
      /\ u.left = IF st.header # 0 THEN st.left \cup {id} ELSE st.left
      /\ u.header = st.header /\ u.otherFormat = st.otherFormat /\ u.unreadable = st.unreadable
    BY DEF ApplyTombstone, Reading
<1>7. /\ hole \in Seq(Nat) /\ Len(hole) = Len(s) + 1
      /\ \A i \in 1 .. Len(s) : hole[i] = st.rows[i]
      /\ hole[Len(s) + 1] = 0
    BY AppendProperties DEF Shaped
<1>8. /\ Append(st.issued, 0) \in Seq(Nat) /\ Len(Append(st.issued, 0)) = Len(s) + 1
      /\ \A i \in 1 .. Len(s) : Append(st.issued, 0)[i] = st.issued[i]
      /\ Append(st.issued, 0)[Len(s) + 1] = 0
    BY AppendProperties DEF Shaped
<1>9. \A x : InWindow(s, x) => OrdinalIn(s, x) \in 1 .. Len(s)
    BY OrdinalOf
<1>10. here => st.ordinals[id] = OrdinalIn(s, id) /\ st.ordinals[id] \in 1 .. Len(s)
    BY <1>5, <1>9 DEF OrdinalsAre
<1> HIDE DEF hole
<1>11. /\ rows \in Seq(Nat) /\ Len(rows) = Len(s) + 1
       /\ \A i \in 1 .. Len(s) + 1 : rows[i] = IF here /\ i = OrdinalIn(s, id) THEN 0 ELSE hole[i]
    <2>1. CASE here
        <3> DEFINE k == st.ordinals[id]
        <3>1. k \in 1 .. Len(hole) /\ 0 \in Nat
            BY <1>1, <1>7, <1>10, <2>1
        <3> HIDE DEF k
        <3>2. /\ [hole EXCEPT ![k] = 0] \in Seq(Nat) /\ Len([hole EXCEPT ![k] = 0]) = Len(hole)
              /\ \A j \in 1 .. Len(hole) : [hole EXCEPT ![k] = 0][j] = IF j = k THEN 0 ELSE hole[j]
            BY <1>7, <3>1, ExceptSeq
        <3>. QED  BY <1>7, <1>10, <2>1, <3>2 DEF k
    <2>2. CASE ~here
        BY <1>7, <2>2
    <2>. QED  BY <2>1, <2>2
<1> HIDE DEF t, u, rows
<1>12. Shaped(t, u)
    BY <1>1, <1>6, <1>8, <1>11 DEF Shaped
<1>13. OrdinalsAre(t, u)
    <2>1. DOMAIN u.ordinals = DOMAIN st.ordinals \ {id} /\ \A x \in DOMAIN u.ordinals : u.ordinals[x] = st.ordinals[x]
        BY <1>6
    <2>. QED  BY <1>3, <1>4, <2>1 DEF OrdinalsAre
<1>14. RowsAre(t, u)
    <2>1. ASSUME NEW x, InWindow(t, x) PROVE u.rows[OrdinalIn(t, x)] = x
        <3>1. InWindow(s, x) /\ x # id /\ OrdinalIn(t, x) = OrdinalIn(s, x) /\ OrdinalIn(s, x) \in 1 .. Len(s)
            BY <1>3, <1>4, <1>9, <2>1
        <3>2. st.rows[OrdinalIn(s, x)] = x /\ (here => st.rows[OrdinalIn(s, id)] = id)
            BY <1>5, <3>1 DEF RowsAre
        <3>. QED  BY <1>1, <1>6, <1>7, <1>11, <3>1, <3>2
    <2>2. ASSUME NEW i \in 1 .. Len(t), u.rows[i] # 0 PROVE InWindow(t, u.rows[i]) /\ OrdinalIn(t, u.rows[i]) = i
        <3>1. i \in 1 .. Len(s) /\ u.rows[i] = st.rows[i] /\ ~(here /\ i = OrdinalIn(s, id))
            BY <1>1, <1>6, <1>7, <1>11, <2>2
        <3>2. InWindow(s, st.rows[i]) /\ OrdinalIn(s, st.rows[i]) = i
            BY <2>2, <3>1 DEF RowsAre
        <3>3. st.rows[i] # id
            BY <1>5, <3>1, <3>2
        <3>. QED  BY <1>3, <1>4, <3>1, <3>2, <3>3
    <2>. QED  BY <2>1, <2>2 DEF RowsAre
<1>15. IssuedAre(t, u)
    <2>1. \A i \in 1 .. Len(s) : u.issued[i] = IssuedAt(t, i)
        BY <1>6, <1>8, IssuedAppended DEF IssuedAre, t
    <2>2. u.issued[Len(s) + 1] = IssuedAt(t, Len(s) + 1)
        BY <1>6, <1>8, IssuedAppended DEF t
    <2>. QED  BY <1>1, <2>1, <2>2 DEF IssuedAre
<1>16. BesideAre(t, u)
    <2>1. \A x : UndoneIn(t, x) <=> (e.kind = "undo" /\ x = id) \/ (UndoneIn(s, x) /\ x # id)
        BY <1>2, UndoneAppended DEF t
    <2>2. \A x : LeftIn(t, x) <=> (x = id /\ HeaderIn(s) # 0) \/ LeftIn(s, x)
        BY <1>2, LeftAppended DEF t
    <2>3. HeaderIn(t) = HeaderIn(s)
        BY HeaderAppended, HeaderIs DEF t
    <2>4. (Holds(t, "otherFormat") <=> Holds(s, "otherFormat")) /\ (Holds(t, "unreadable") <=> Holds(s, "unreadable"))
        BY HoldsAppended DEF t
    <2>. QED  BY <1>6, <2>1, <2>2, <2>3, <2>4 DEF BesideAre
<1>. QED  BY <1>12, <1>13, <1>14, <1>15, <1>16 DEF t, u

\* An item read that names no row.
HoleOf(st, e, n) ==
    Hole(st, IF e.kind = "header" /\ st.header = 0 THEN n ELSE st.header,
         IF e.kind = "otherFormat" THEN TRUE ELSE st.otherFormat,
         IF e.kind = "unreadable" THEN st.unreadable + 1 ELSE st.unreadable)

LEMMA HoleRead ==
    ASSUME NEW s \in Seq(Item), Names(s), NEW e \in Item, e.kind \in {"header", "otherFormat", "unreadable"}, NEW st,
           Shaped(s, st), OrdinalsAre(s, st), RowsAre(s, st), IssuedAre(s, st), BesideAre(s, st)
    PROVE  LET u == HoleOf(st, e, Len(s) + 1)
               t == Append(s, e)
           IN  Shaped(t, u) /\ OrdinalsAre(t, u) /\ RowsAre(t, u) /\ IssuedAre(t, u) /\ BesideAre(t, u)
<1> DEFINE u == HoleOf(st, e, Len(s) + 1)
           t == Append(s, e)
<1>1. /\ t \in Seq(Item) /\ Len(t) = Len(s) + 1 /\ Len(s) \in Nat
      /\ \A i : i \in 1 .. Len(t) <=> i \in 1 .. Len(s) \/ i = Len(s) + 1
    BY AppendItems
<1>2. \A x : ~Takes(e, x) /\ ~Puts(e, x)
    BY DEF Puts, Takes
<1>3. \A x : InWindow(t, x) <=> InWindow(s, x)
    BY <1>2, InAppended
<1>4. \A x : InWindow(s, x) => OrdinalIn(t, x) = OrdinalIn(s, x)
    BY <1>2, OrdinalAppended
<1>5. /\ u.rows = Append(st.rows, 0) /\ u.issued = Append(st.issued, 0)
      /\ u.ordinals = st.ordinals /\ u.undone = st.undone /\ u.left = st.left
      /\ u.header = (IF e.kind = "header" /\ st.header = 0 THEN Len(s) + 1 ELSE st.header)
      /\ u.otherFormat = (IF e.kind = "otherFormat" THEN TRUE ELSE st.otherFormat)
      /\ u.unreadable = (IF e.kind = "unreadable" THEN st.unreadable + 1 ELSE st.unreadable)
    BY DEF HoleOf, Hole
<1>6. /\ Append(st.rows, 0) \in Seq(Nat) /\ Len(Append(st.rows, 0)) = Len(s) + 1
      /\ \A i \in 1 .. Len(s) : Append(st.rows, 0)[i] = st.rows[i]
      /\ Append(st.rows, 0)[Len(s) + 1] = 0
    BY AppendProperties DEF Shaped
<1>7. /\ Append(st.issued, 0) \in Seq(Nat) /\ Len(Append(st.issued, 0)) = Len(s) + 1
      /\ \A i \in 1 .. Len(s) : Append(st.issued, 0)[i] = st.issued[i]
      /\ Append(st.issued, 0)[Len(s) + 1] = 0
    BY AppendProperties DEF Shaped
<1>8. \A x : InWindow(s, x) => OrdinalIn(s, x) \in 1 .. Len(s)
    BY OrdinalOf
<1> HIDE DEF t, u
<1>9. Shaped(t, u)
    <2>1. u.otherFormat \in BOOLEAN
        <3>1. st.otherFormat \in BOOLEAN
            BY DEF Shaped
        <3>. QED  BY <1>5, <3>1
    <2>2. u.unreadable \in Nat
        <3>1. st.unreadable \in Nat
            BY DEF Shaped
        <3>. QED  BY <1>5, <3>1
    <2>. QED  BY <1>1, <1>5, <1>6, <1>7, <2>1, <2>2 DEF Shaped
<1>10. OrdinalsAre(t, u)
    BY <1>3, <1>4, <1>5 DEF OrdinalsAre
<1>11. RowsAre(t, u)
    <2>1. \A x : InWindow(t, x) => u.rows[OrdinalIn(t, x)] = x
        BY <1>3, <1>4, <1>5, <1>6, <1>8 DEF RowsAre
    <2>2. \A i \in 1 .. Len(t) : u.rows[i] # 0 => InWindow(t, u.rows[i]) /\ OrdinalIn(t, u.rows[i]) = i
        BY <1>1, <1>3, <1>4, <1>5, <1>6 DEF RowsAre
    <2>. QED  BY <2>1, <2>2 DEF RowsAre
<1>12. IssuedAre(t, u)
    <2>1. \A i \in 1 .. Len(s) : u.issued[i] = IssuedAt(t, i)
        BY <1>5, <1>7, IssuedAppended DEF IssuedAre, t
    <2>2. u.issued[Len(s) + 1] = IssuedAt(t, Len(s) + 1)
        BY <1>5, <1>7, IssuedAppended DEF t
    <2>. QED  BY <1>1, <2>1, <2>2 DEF IssuedAre
<1>13. BesideAre(t, u)
    <2>1. \A x : UndoneIn(t, x) <=> UndoneIn(s, x)
        BY <1>2, UndoneAppended DEF t
    <2>2. \A x : LeftIn(t, x) <=> LeftIn(s, x)
        BY <1>2, LeftAppended DEF t
    <2>3. u.header = HeaderIn(t)
        BY <1>5, HeaderAppended DEF BesideAre, t
    <2>4. u.otherFormat <=> Holds(t, "otherFormat")
        BY <1>5, HoldsAppended DEF BesideAre, t
    <2>5. u.unreadable > 0 <=> Holds(t, "unreadable")
        <3>1. Holds(t, "unreadable") <=> Holds(s, "unreadable") \/ e.kind = "unreadable"
            BY HoldsAppended DEF t
        <3>2. st.unreadable \in Nat /\ (st.unreadable > 0 <=> Holds(s, "unreadable"))
            BY DEF BesideAre, Shaped
        <3>. QED  BY <1>5, <3>1, <3>2
    <2>. QED  BY <1>5, <2>1, <2>2, <2>3, <2>4, <2>5 DEF BesideAre
<1>. QED  BY <1>9, <1>10, <1>11, <1>12, <1>13 DEF t, u

-----------------------------------------------------------------------------
(* The inductive invariant, and the theorem.                               *)

RInv ==
    /\ items \in Seq(Item) /\ Names(items)
    /\ Shaped(items, state) /\ OrdinalsAre(items, state) /\ RowsAre(items, state)
    /\ IssuedAre(items, state) /\ BesideAre(items, state)

LEMMA RInit == ReadInit => RInv
<1> SUFFICES ASSUME ReadInit PROVE RInv
    OBVIOUS
<1>1. /\ items = <<>> /\ state.rows = <<>> /\ state.issued = <<>> /\ state.ordinals = <<>> /\ state.undone = {}
      /\ state.left = {} /\ state.header = 0 /\ state.otherFormat = FALSE /\ state.unreadable = 0
    BY DEF ReadInit, NothingRead
<1>2. items \in Seq(Item) /\ Len(items) = 0
    BY <1>1
<1>3. \A x : ~InWindow(items, x) /\ ~UndoneIn(items, x) /\ ~LeftIn(items, x) /\ ~Holds(items, x)
    BY <1>2 DEF InWindow, UndoneIn, LeftIn, Holds
<1>4. HeaderIn(items) = 0
    BY <1>2, <1>3, HeaderIs
<1>5. DOMAIN state.ordinals = {}
    BY <1>1
<1>6. Names(items) /\ Shaped(items, state)
    <2>1. state.otherFormat \in BOOLEAN
        BY <1>1, Zenon
    <2>2. state.rows \in Seq(Nat) /\ Len(state.rows) = 0 /\ state.issued \in Seq(Nat) /\ Len(state.issued) = 0 /\ state.unreadable \in Nat
        BY <1>1
    <2>. QED  BY <1>2, <2>1, <2>2 DEF Names, Shaped
<1>7. OrdinalsAre(items, state) /\ RowsAre(items, state) /\ IssuedAre(items, state)
    BY <1>2, <1>3, <1>5 DEF OrdinalsAre, RowsAre, IssuedAre
<1>8. BesideAre(items, state)
    <2>1. \A x : (x \in state.undone <=> UndoneIn(items, x)) /\ (x \in state.left <=> LeftIn(items, x))
        BY <1>1, <1>3
    <2>2. (state.otherFormat <=> Holds(items, "otherFormat")) /\ (state.unreadable > 0 <=> Holds(items, "unreadable"))
        BY <1>1, <1>3
    <2>3. state.header = HeaderIn(items)
        BY <1>1, <1>4
    <2>. QED  BY <2>1, <2>2, <2>3 DEF BesideAre
<1>. QED  BY <1>2, <1>6, <1>7, <1>8 DEF RInv

LEMMA RStep == RInv /\ [ReadNext]_readVars => RInv'
<1> SUFFICES ASSUME RInv, [ReadNext]_readVars PROVE RInv'
    OBVIOUS
<1>1. CASE UNCHANGED readVars
    BY <1>1 DEF RInv, readVars
<1>2. CASE ReadNext
    <2>1. PICK e \in [kind : {"present", "retract", "undo"}, id : Named, by : {0}]
                       \cup [kind : {"header", "otherFormat", "unreadable"}, id : {0}, by : {0}] : Read(e)
        BY <1>2 DEF ReadNext
    <2>2. e \in Item /\ (e.kind \in {"present", "retract", "undo"} => e.id # 0)
        <3>1. CASE e \in [kind : {"present", "retract", "undo"}, id : Named, by : {0}]
            <4>1. e.kind \in {"present", "retract", "undo"} /\ e.id \in Named /\ e.by = 0
                BY <3>1
            <4>2. e = [kind |-> e.kind, id |-> e.id, by |-> e.by]
                BY <3>1, Zenon
            <4>3. e.kind \in Kinds
                BY <4>1 DEF Kinds
            <4>4. e.id \in Nat /\ e.id # 0
                BY <4>1, NamedAssumption, Zenon
            <4> HIDE DEF Kinds
            <4>5. [kind |-> e.kind, id |-> e.id, by |-> e.by] \in Item
                BY <4>1, <4>3, <4>4 DEF Item
            <4>. QED  BY <4>2, <4>4, <4>5
        <3>2. CASE e \in [kind : {"header", "otherFormat", "unreadable"}, id : {0}, by : {0}]
            BY <3>2 DEF Item, Kinds
        <3>. QED  BY <3>1, <3>2
    <2>3. items' = Append(items, e) /\ state' = Apply(state, e, Len(items) + 1)
        BY <2>1 DEF Read
    <2>4. items \in Seq(Item) /\ Names(items) /\ Append(items, e) \in Seq(Item) /\ Names(Append(items, e))
        BY <2>2, AppendItems, NamesAppended DEF RInv
    <2> DEFINE u == Apply(state, e, Len(items) + 1)
               t == Append(items, e)
    <2>5. Shaped(t, u) /\ OrdinalsAre(t, u) /\ RowsAre(t, u) /\ IssuedAre(t, u) /\ BesideAre(t, u)
        <3>1. CASE e.kind = "present"
            <4>1. u = ApplyPresent(state, e.id, Len(items) + 1)
                BY <3>1 DEF Apply
            <4>. QED  BY <2>2, <3>1, <4>1, PresentRead DEF RInv
        <3>2. CASE e.kind \in {"retract", "undo"}
            <4>1. u = ApplyTombstone(state, e.id, e.kind = "undo")
                BY <3>2 DEF Apply
            <4>. QED  BY <2>2, <3>2, <4>1, TombstoneRead DEF RInv
        <3>3. CASE e.kind \in {"header", "otherFormat", "unreadable"}
            <4>1. u = HoleOf(state, e, Len(items) + 1)
                BY <3>3 DEF Apply, HoleOf, Hole
            <4>. QED  BY <2>2, <3>3, <4>1, HoleRead DEF RInv
        <3>. QED  BY <2>2, <3>1, <3>2, <3>3 DEF Item, Kinds
    <2>. QED  BY <2>3, <2>4, <2>5 DEF RInv
<1>. QED  BY <1>1, <1>2

LEMMA ReadIsLog == RInv => LogAsRead
<1> SUFFICES ASSUME RInv PROVE LogAsRead
    OBVIOUS
<1> USE DEF RInv
<1>1. DOMAIN state.ordinals = WindowOf(items)
    BY WindowIs DEF OrdinalsAre
<1>2. WindowAsRead
    BY <1>1, WindowIs DEF WindowAsRead, OrdinalsAre, RowsAre, IssuedAre
<1>3. (state.undone \cup state.left) \cap DOMAIN state.ordinals = {}
    BY OutOfWindow DEF OrdinalsAre, BesideAre
<1>4. Foreignness(state) <=> Foreign(items)
    BY DEF Foreignness, Foreign, BesideAre, Holds
<1>5. ModeAsRead
    BY <1>3, <1>4 DEF ModeAsRead, InEffect, BesideAre
<1>. QED  BY <1>2, <1>5 DEF LogAsRead

\* A log read item by item gives the window, the ordinals and the mode that
\* the whole of it says: `apply`, over any log of any length.
THEOREM ReadAsAWhole == ReadSpec => []LogAsRead
<1>1. ReadInit => RInv
    BY RInit
<1>2. RInv /\ [ReadNext]_readVars => RInv'
    BY RStep
<1>3. RInv => LogAsRead
    BY ReadIsLog
<1>. QED  BY <1>1, <1>2, <1>3, PTL DEF ReadSpec

=============================================================================
