------------------------ MODULE CompressionLaneProofs ------------------------
(***************************************************************************)
(* The compression lane for every world: any number of chunks and merges,  *)
(* any settings, any number of loads.                                      *)
(*                                                                         *)
(* The invariant IInv has four parts, proved one after another, each from  *)
(* those before it.  TypeInv and StoreInv say what the lists hold and      *)
(* where the tick stands: a chunk out has no summary, a merge out heads    *)
(* mergeQueue, and no merge is queued twice or once written or parked.     *)
(* That makes every write a first one, with StaleInv: a call that an       *)
(* earlier load left out fails the check and writes nothing.  Evidence     *)
(* counts: the failures of a run beyond its first lie at distinct          *)
(* landings, after those the earlier decisions on the item stand on.       *)
(* KeptInv says where each open chunk is; a chunk out whose queue was      *)
(* rebuilt is on the new queue already.                                    *)
(*                                                                         *)
(* First, what the filters of KeptSequences hold: Only(q, S) is one to one *)
(* with the places of q whose element is in S, in the order of q, so       *)
(* filters of a queue lose no element, repeat none and commute.            *)
(***************************************************************************)
EXTENDS CompressionLane, SequenceTheorems, FiniteSetTheorems, WellFoundedInduction, TLAPS

-----------------------------------------------------------------------------
(* Filters of a list.                                                      *)

\* Places up to i; the places of q held in S, and how many.
UpTo(at, i) == {j \in at : j <= i}
Places(q, S) == {i \in DOMAIN q : q[i] \in S}
Count(q, S) == Cardinality(Places(q, S))

\* The n-th place kept is p[n]; each is one of p.
Keeps(q, S, p) ==
    /\ Only(q, S) = [n \in 1..Count(q, S) |-> q[p[n]]]
    /\ \A n, k \in 1..Count(q, S) : p[n] = p[k] => n = k
    /\ \A i \in Places(q, S) : \E n \in 1..Count(q, S) : p[n] = i

\* Of n places one is the n-th.
LEMMA NthPlace ==
    ASSUME NEW m \in Nat, NEW at, at \subseteq 1..m, NEW n \in 1..Cardinality(at)
    PROVE  \E i \in at : Cardinality(UpTo(at, i)) = n
<1> DEFINE T == {i \in 0..m : Cardinality(UpTo(at, i)) >= n}
<1>1. \A i \in Int : IsFiniteSet(UpTo(at, i)) /\ Cardinality(UpTo(at, i)) \in Nat
    <2>1. IsFiniteSet(1..m)
        BY FS_Interval
    <2>2. \A i : UpTo(at, i) \in SUBSET (1..m)
        BY DEF UpTo
    <2>. QED  BY <2>1, <2>2, FS_Subset, FS_CardinalityType
<1>2. m \in T
    <2>1. UpTo(at, m) = at
        <3>1. \A j \in at : j <= m
            OBVIOUS
        <3>. QED  BY <3>1, Zenon DEF UpTo
    <2>2. Cardinality(at) \in Nat
        BY <1>1, <2>1
    <2>. QED  BY <2>1, <2>2
<1>3. PICK i \in T : \A j \in T : ~(<<j, i>> \in OpToRel(<, Nat))
    <2>1. T # {} /\ T \subseteq Nat
        BY <1>2
    <2> HIDE DEF T
    <2>. QED  BY <2>1, NatLessThanWellFounded, WFMin
<1>4. i \in 0..m /\ Cardinality(UpTo(at, i)) >= n
    OBVIOUS
<1>5. i # 0
    <2>1. UpTo(at, 0) = {}
        <3>1. \A j \in at : ~(j <= 0)
            OBVIOUS
        <3>. QED  BY <3>1, Zenon DEF UpTo
    <2>. QED  BY <1>4, <2>1, FS_EmptySet
<1>6. Cardinality(UpTo(at, i - 1)) < n
    <2>1. SUFFICES ASSUME i - 1 \in T PROVE FALSE
        <3>1. i - 1 \in 0..m
            BY <1>4, <1>5
        <3>2. Cardinality(UpTo(at, i - 1)) \in Nat /\ n \in Nat
            BY <1>1, <3>1
        <3>. QED  BY <3>1, <3>2
    <2>2. ~(<<i - 1, i>> \in OpToRel(<, Nat))
        <3> HIDE DEF T
        <3>. QED  BY <1>3, <2>1, Zenon
    <2>. QED  BY <1>4, <1>5, <2>2 DEF OpToRel
<1>7. i \in at
    <2>1. SUFFICES ASSUME i \notin at PROVE FALSE
        OBVIOUS
    <2>2. UpTo(at, i) = UpTo(at, i - 1)
        <3>1. \A j \in at : j <= i <=> j <= i - 1
            BY <1>4, <2>1
        <3>. QED  BY <3>1, Zenon DEF UpTo
    <2>. QED  BY <1>1, <1>4, <1>6, <2>2
<1>8. UpTo(at, i) = UpTo(at, i - 1) \cup {i} /\ i \notin UpTo(at, i - 1)
    <2>1. \A j \in at : (j <= i <=> j <= i - 1 \/ j = i) /\ ~(i <= i - 1)
        BY <1>4
    <2>. QED  BY <1>7, <2>1, Zenon DEF UpTo
<1>9. Cardinality(UpTo(at, i)) = Cardinality(UpTo(at, i - 1)) + 1
    <2>1. IsFiniteSet(UpTo(at, i - 1))
        BY <1>1, <1>4
    <2>. QED  BY <1>8, <2>1, FS_AddElement, Zenon
<1>. QED  BY <1>1, <1>4, <1>6, <1>7, <1>9

\* The places Only keeps: each once, and all of S.
LEMMA OnlyPlaces ==
    ASSUME NEW X, NEW q \in Seq(X), NEW S
    PROVE  /\ Count(q, S) \in Nat
           /\ \E p \in [1..Count(q, S) -> Places(q, S)] : Keeps(q, S, p)
<1>0. CASE ToSet(q) \subseteq S
    <2> DEFINE p == [n \in 1..Len(q) |-> n]
    <2>1. Len(q) \in Nat /\ DOMAIN q = 1..Len(q) /\ q \in [1..Len(q) -> X]
        BY LenProperties
    <2>2. Only(q, S) = q
        BY <1>0, Zenon DEF Only
    <2>3. Places(q, S) = 1..Len(q)
        BY <1>0, <2>1, Zenon DEF Places, ToSet
    <2>4. Count(q, S) = Len(q)
        BY <2>1, <2>3, FS_Interval DEF Count
    <2>5. p \in [1..Len(q) -> 1..Len(q)] /\ \A n \in 1..Len(q) : p[n] = n
        BY Zenon
    <2> HIDE DEF p
    <2>6. q = [n \in 1..Len(q) |-> q[p[n]]]
        BY <2>1, <2>5
    <2>7. Keeps(q, S, p)
        BY <2>2, <2>3, <2>4, <2>5, <2>6, Zenon DEF Keeps
    <2>. QED  BY <2>1, <2>3, <2>4, <2>5, <2>7, Zenon
<1> SUFFICES ASSUME ~(ToSet(q) \subseteq S)
             PROVE  /\ Count(q, S) \in Nat
                    /\ \E p \in [1..Count(q, S) -> Places(q, S)] : Keeps(q, S, p)
    BY <1>0
<1> DEFINE at == Places(q, S)
           N == Count(q, S)
           p == [n \in 1..N |-> CHOOSE i \in at : Cardinality({j \in at : j <= i}) = n]
<1>1. Len(q) \in Nat /\ DOMAIN q = 1..Len(q)
    BY LenProperties
<1>2. IsFiniteSet(at) /\ N \in Nat
    <2>1. IsFiniteSet(1..Len(q))
        BY <1>1, FS_Interval
    <2>2. at \in SUBSET (1..Len(q))
        BY <1>1 DEF Places
    <2>. QED  BY <2>1, <2>2, FS_Subset, FS_CardinalityType DEF Count
<1>3. \A n \in 1..N : \E i \in at : Cardinality({j \in at : j <= i}) = n
    <2>1. TAKE n \in 1..N
    <2>2. at \subseteq 1..Len(q)
        BY <1>1 DEF Places
    <2>3. \E i \in at : Cardinality(UpTo(at, i)) = n
        BY <1>1, <2>2, NthPlace DEF Count
    <2>. QED  BY <2>3 DEF UpTo
<1>4. \A n \in 1..N : p[n] \in at /\ Cardinality({j \in at : j <= p[n]}) = n
    <2>1. TAKE n \in 1..N
    <2>2. p[n] = CHOOSE i \in at : Cardinality({j \in at : j <= i}) = n
        BY Zenon
    <2>3. PICK i \in at : Cardinality({j \in at : j <= i}) = n
        BY <1>3
    <2> HIDE DEF at, p
    <2>. QED  BY <2>2, <2>3, Zenon
<1>5. p \in [1..N -> at]
    BY <1>4, Zenon
<1>6. Only(q, S) = [n \in 1..N |-> q[p[n]]]
    <2>1. Only(q, S) = [n \in 1..N |-> q[CHOOSE i \in at : Cardinality({j \in at : j <= i}) = n]]
        BY Zenon DEF Only, Places, Count
    <2>. QED  BY <2>1, Zenon
<1>7. \A n, k \in 1..N : p[n] = p[k] => n = k
    <2>1. TAKE n, k \in 1..N
    <2>2. HAVE p[n] = p[k]
    <2> HIDE DEF at, p
    <2>. QED  BY <1>4, <2>2, Zenon
<1>8. \A i \in at : \E n \in 1..N : p[n] = i
    <2>1. TAKE i \in at
    <2>2. \A k \in at : IsFiniteSet({j \in at : j <= k}) /\ Cardinality({j \in at : j <= k}) \in 0..N
        <3>1. TAKE k \in at
        <3>2. {j \in at : j <= k} \in SUBSET at
            OBVIOUS
        <3> HIDE DEF at
        <3>3. N = Cardinality(at)
            BY Zenon DEF at, Count
        <3> HIDE DEF N
        <3>. QED  BY <1>2, <3>2, <3>3, FS_Subset, FS_CardinalityType
    <2>3. \A k \in at : k \in Int
        BY <1>1 DEF Places
    <2>4. Cardinality({j \in at : j <= i}) # 0
        <3>1. i \in {j \in at : j <= i}
            BY <2>3
        <3> HIDE DEF at
        <3>. QED  BY <2>2, <3>1, FS_EmptySet, Zenon
    <2>5. PICK n \in 1..N : n = Cardinality({j \in at : j <= i})
        <3>1. Cardinality({j \in at : j <= i}) \in 1..N
            <4> HIDE DEF at
            <4>1. Cardinality({j \in at : j <= i}) \in 0..N
                BY <2>2, Zenon
            <4> HIDE DEF N
            <4>. QED  BY <1>2, <2>4, <4>1
        <3> HIDE DEF at
        <3>. QED  BY <3>1, Zenon
    <2>6. \A k \in at : k < i => {j \in at : j <= k} # {j \in at : j <= i}
        <3>1. \A k \in at : k < i => ~(i <= k) /\ i <= i
            BY <2>3
        <3> HIDE DEF at
        <3>. QED  BY <3>1, Zenon
    <2>7. \A k, l \in at : k < l => Cardinality({j \in at : j <= k}) # Cardinality({j \in at : j <= l})
        <3>1. TAKE k, l \in at
        <3>2. HAVE k < l
        <3>3. \A j \in at : j <= k => j <= l
            BY <2>3, <3>2
        <3>4. ~(l <= k) /\ l <= l
            BY <2>3, <3>2
        <3> HIDE DEF at
        <3>5. {j \in at : j <= k} \in SUBSET {j \in at : j <= l}
            BY <3>3, Zenon
        <3>6. {j \in at : j <= k} # {j \in at : j <= l}
            BY <3>4, Zenon
        <3>. QED  BY <2>2, <3>5, <3>6, FS_Subset, Zenon
    <2>8. p[n] \in at /\ Cardinality({j \in at : j <= p[n]}) = n
        BY <1>4, Zenon
    <2>9. ~(p[n] < i) /\ ~(i < p[n])
        <3> HIDE DEF at, p
        <3>. QED  BY <2>5, <2>7, <2>8, Zenon
    <2>10. p[n] = i
        <3>1. p[n] \in Int /\ i \in Int
            <4> HIDE DEF at, p
            <4>. QED  BY <2>3, <2>8, Zenon
        <3> HIDE DEF at, p
        <3>. QED  BY <3>1, <2>9
    <2>. QED  BY <2>10, Zenon
<1>. QED
    <2> HIDE DEF p
    <2>. QED  BY <1>2, <1>5, <1>6, <1>7, <1>8, Zenon DEF Keeps

\* A filter keeps the type of a list, exactly the elements of the set, and
\* no element twice that stood once.
LEMMA OnlyKeeps ==
    ASSUME NEW X, NEW q \in Seq(X), NEW S
    PROVE  /\ Only(q, S) \in Seq(X)
           /\ ToSet(Only(q, S)) = ToSet(q) \cap S
           /\ IsInjective(q) => IsInjective(Only(q, S))
<1> DEFINE at == Places(q, S)
           N == Count(q, S)
<1>1. DOMAIN q = 1..Len(q) /\ \A i \in DOMAIN q : q[i] \in X
    BY LenProperties, ElementOfSeq
<1>2. N \in Nat
    BY OnlyPlaces
<1>. PICK p \in [1..N -> at] : Keeps(q, S, p)
    BY OnlyPlaces, Zenon
<1>3. /\ Only(q, S) = [n \in 1..N |-> q[p[n]]]
      /\ \A n, k \in 1..N : p[n] = p[k] => n = k
      /\ \A i \in at : \E n \in 1..N : p[n] = i
    BY Zenon DEF Keeps
<1>4. \A n \in 1..N : p[n] \in DOMAIN q /\ q[p[n]] \in S /\ q[p[n]] \in X
    BY <1>1 DEF Places
<1>5. Only(q, S) \in Seq(X) /\ DOMAIN Only(q, S) = 1..N
    <2> HIDE DEF at, N
    <2>1. Only(q, S) \in [1..N -> X]
        BY <1>3, <1>4, Zenon
    <2>2. DOMAIN Only(q, S) = 1..N
        BY <1>3, Zenon
    <2>3. Only(q, S) \in Seq(X)
        BY <1>2, <2>1, SeqDef
    <2>. QED  BY <2>2, <2>3
<1>6. \A n \in 1..N : Only(q, S)[n] = q[p[n]]
    <2> HIDE DEF at, N
    <2>. QED  BY <1>3, Zenon
<1>7. ToSet(Only(q, S)) = ToSet(q) \cap S
    <2>1. \A x \in ToSet(Only(q, S)) : x \in ToSet(q) /\ x \in S
        <3> HIDE DEF at, N
        <3>. QED  BY <1>4, <1>5, <1>6, Zenon DEF ToSet
    <2>2. \A x \in ToSet(q) : x \in S => x \in ToSet(Only(q, S))
        <3>1. TAKE x \in ToSet(q)
        <3>2. HAVE x \in S
        <3>3. PICK i \in DOMAIN q : x = q[i]
            BY Zenon DEF ToSet
        <3>4. i \in at
            BY <3>2, <3>3, Zenon DEF Places
        <3>5. PICK n \in 1..N : p[n] = i
            BY <1>3, <3>4, Zenon
        <3> HIDE DEF at, N
        <3>. QED  BY <1>5, <1>6, <3>3, <3>5, Zenon DEF ToSet
    <2>. QED  BY <2>1, <2>2, Zenon
<1>8. ASSUME IsInjective(q) PROVE IsInjective(Only(q, S))
    <2> HIDE DEF at, N
    <2>1. \A n, k \in 1..N : q[p[n]] = q[p[k]] => n = k
        BY <1>3, <1>4, <1>8, Zenon DEF IsInjective
    <2>. QED  BY <1>5, <1>6, <2>1, Zenon DEF IsInjective
<1>. QED  BY <1>5, <1>7, <1>8, Zenon

LEMMA WithoutKeeps ==
    ASSUME NEW X, NEW q \in Seq(X), NEW k
    PROVE  /\ Without(q, k) \in Seq(X)
           /\ ToSet(Without(q, k)) = ToSet(q) \ {k}
           /\ IsInjective(q) => IsInjective(Without(q, k))
<1> DEFINE S == ToSet(q) \ {k}
<1>1. /\ Only(q, S) \in Seq(X)
      /\ ToSet(Only(q, S)) = ToSet(q) \cap S
      /\ IsInjective(q) => IsInjective(Only(q, S))
    <2> HIDE DEF S
    <2>. QED  BY OnlyKeeps, Zenon
<1>2. ToSet(q) \cap S = ToSet(q) \ {k}
    BY Zenon
<1>3. Without(q, k) = Only(q, S)
    BY Zenon DEF Without
<1>. QED  BY <1>1, <1>2, <1>3, Zenon

\* The elements of a list built of others.
LEMMA ContainsIsElement ==
    ASSUME NEW X, NEW q \in Seq(X), NEW k
    PROVE  Contains(q, k) <=> k \in ToSet(q)
BY LenProperties, Zenon DEF Contains, ToSet

LEMMA ElementsTyped ==
    ASSUME NEW X, NEW q \in Seq(X)
    PROVE  /\ ToSet(q) \subseteq X
           /\ q \in Seq(ToSet(q))
           /\ \A S : ToSet(q) \subseteq S => q \in Seq(S)
<1>1. /\ Len(q) \in Nat /\ DOMAIN q = 1..Len(q)
      /\ \A i \in 1..Len(q) : q[i] \in X
      /\ q \in [1..Len(q) -> X]
    BY LenProperties, ElementOfSeq
<1>2. \A S : ToSet(q) \subseteq S => q \in [1..Len(q) -> S]
    BY <1>1 DEF ToSet
<1>3. \A S : ToSet(q) \subseteq S => q \in Seq(S)
    BY <1>1, <1>2, SeqDef
<1>4. ToSet(q) \subseteq X
    BY <1>1, Zenon DEF ToSet
<1>. QED  BY <1>3, <1>4, Zenon

LEMMA ConcatElements ==
    ASSUME NEW X, NEW s \in Seq(X), NEW t \in Seq(X)
    PROVE  /\ s \o t \in Seq(X)
           /\ ToSet(s \o t) = ToSet(s) \cup ToSet(t)
           /\ IsInjective(s) /\ IsInjective(t) /\ ToSet(s) \cap ToSet(t) = {} => IsInjective(s \o t)
<1> DEFINE m == Len(s)
           n == Len(t)
           r == s \o t
<1>1. m \in Nat /\ n \in Nat /\ DOMAIN s = 1..m /\ DOMAIN t = 1..n
    BY LenProperties
<1>2. r \in Seq(X) /\ Len(r) = m + n /\ \A i \in 1..m + n : r[i] = IF i <= m THEN s[i] ELSE t[i - m]
    BY ConcatProperties, Zenon
<1>3. DOMAIN r = 1..m + n
    BY <1>2, LenProperties, Zenon
<1> HIDE DEF m, n, r
<1>4. ToSet(r) = ToSet(s) \cup ToSet(t)
    <2>1. \A i \in DOMAIN r : (i \in DOMAIN s /\ r[i] = s[i]) \/ (i - m \in DOMAIN t /\ r[i] = t[i - m])
        BY <1>1, <1>2, <1>3
    <2>2. \A i \in DOMAIN s : i \in DOMAIN r /\ r[i] = s[i]
        BY <1>1, <1>2, <1>3
    <2>3. ASSUME NEW i \in DOMAIN t PROVE i + m \in DOMAIN r /\ r[i + m] = t[i]
        <3>1. i \in 1..n
            BY <1>1
        <3>2. i + m \in 1..m + n /\ ~(i + m <= m) /\ (i + m) - m = i
            BY <1>1, <3>1
        <3>. QED  BY <1>2, <1>3, <3>2
    <2>4. \A x \in ToSet(r) : x \in ToSet(s) \/ x \in ToSet(t)
        BY <2>1, Zenon DEF ToSet
    <2>5. \A x \in ToSet(s) : x \in ToSet(r)
        BY <2>2, Zenon DEF ToSet
    <2>6. \A x \in ToSet(t) : x \in ToSet(r)
        BY <2>3, Zenon DEF ToSet
    <2>. QED  BY <2>4, <2>5, <2>6, Zenon
<1>5. ASSUME IsInjective(s), IsInjective(t), ToSet(s) \cap ToSet(t) = {}
      PROVE  IsInjective(r)
    <2>1. SUFFICES ASSUME NEW i \in 1..m + n, NEW j \in 1..m + n, r[i] = r[j]
                   PROVE  i = j
        BY <1>3, Zenon DEF IsInjective
    <2>2. \A a \in 1..m, b \in 1..n : s[a] # t[b]
        BY <1>1, <1>5, Zenon DEF ToSet
    <2>3. \A a, b \in 1..m : s[a] = s[b] => a = b
        BY <1>1, <1>5, Zenon DEF IsInjective
    <2>4. \A a, b \in 1..n : t[a] = t[b] => a = b
        BY <1>1, <1>5, Zenon DEF IsInjective
    <2>. QED  BY <1>1, <1>2, <2>1, <2>2, <2>3, <2>4
<1>. QED  BY <1>2, <1>4, <1>5 DEF r

LEMMA OneElement ==
    ASSUME NEW X, NEW k \in X
    PROVE  <<k>> \in Seq(X) /\ ToSet(<<k>>) = {k} /\ IsInjective(<<k>>)
<1>1. <<k>> \in Seq(X) /\ Len(<<k>>) = 1 /\ <<k>>[1] = k /\ DOMAIN <<k>> = 1..1
    OBVIOUS
<1>2. \A i \in 1..1 : i = 1
    OBVIOUS
<1>3. 1 \in 1..1
    OBVIOUS
<1>. QED  BY <1>1, <1>2, <1>3, Zenon DEF ToSet, IsInjective

LEMMA AppendElements ==
    ASSUME NEW X, NEW q \in Seq(X), NEW k \in X
    PROVE  /\ Append(q, k) \in Seq(X) /\ Append(q, k) # <<>>
           /\ ToSet(Append(q, k)) = ToSet(q) \cup {k}
           /\ IsInjective(q) /\ k \notin ToSet(q) => IsInjective(Append(q, k))
<1>1. Append(q, k) = q \o <<k>>
    BY AppendIsConcat
<1>2. Append(q, k) # <<>>
    BY AppendProperties
<1>3. <<k>> \in Seq(X) /\ ToSet(<<k>>) = {k} /\ IsInjective(<<k>>)
    BY OneElement, Zenon
<1>4. /\ q \o <<k>> \in Seq(X)
      /\ ToSet(q \o <<k>>) = ToSet(q) \cup ToSet(<<k>>)
      /\ IsInjective(q) /\ IsInjective(<<k>>) /\ ToSet(q) \cap ToSet(<<k>>) = {} => IsInjective(q \o <<k>>)
    BY <1>3, ConcatElements, Zenon
<1>5. k \notin ToSet(q) => ToSet(q) \cap {k} = {}
    BY Zenon
<1>. QED  BY <1>1, <1>2, <1>3, <1>4, <1>5, Zenon

LEMMA TailElements ==
    ASSUME NEW X, NEW q \in Seq(X), q # <<>>
    PROVE  /\ Tail(q) \in Seq(X) /\ Head(q) \in ToSet(q)
           /\ ToSet(Tail(q)) \subseteq ToSet(q)
           /\ ToSet(q) = ToSet(Tail(q)) \cup {Head(q)}
           /\ IsInjective(q) => IsInjective(Tail(q)) /\ ToSet(Tail(q)) = ToSet(q) \ {Head(q)}
<1> DEFINE n == Len(q)
           r == Tail(q)
<1>1. n \in Nat \ {0} /\ DOMAIN q = 1..n
    BY EmptySeq, LenProperties
<1>2. r \in Seq(X) /\ Len(r) = n - 1 /\ \A i \in 1..n - 1 : r[i] = q[i + 1]
    BY HeadTailProperties, Zenon
<1>3. DOMAIN r = 1..n - 1
    BY <1>2, LenProperties, Zenon
<1>4. Head(q) = q[1]
    OBVIOUS
<1> HIDE DEF n, r
<1>5. \A i \in 1..n - 1 : i + 1 \in 1..n /\ i + 1 # 1 /\ r[i] = q[i + 1]
    BY <1>1, <1>2
<1>6. 1 \in 1..n /\ \A i \in 1..n : i = 1 \/ (i - 1 \in 1..n - 1 /\ r[i - 1] = q[i])
    BY <1>1, <1>2
<1>7. ToSet(r) \subseteq ToSet(q) /\ ToSet(q) = ToSet(r) \cup {Head(q)} /\ Head(q) \in ToSet(q)
    <2>1. \A x \in ToSet(r) : x \in ToSet(q)
        BY <1>1, <1>3, <1>5, Zenon DEF ToSet
    <2>2. Head(q) \in ToSet(q)
        BY <1>1, <1>4, <1>6, Zenon DEF ToSet
    <2>3. \A x \in ToSet(q) : x = Head(q) \/ x \in ToSet(r)
        <3>1. TAKE x \in ToSet(q)
        <3>2. PICK i \in 1..n : x = q[i]
            BY <1>1, Zenon DEF ToSet
        <3>3. CASE i = 1
            BY <1>4, <3>2, <3>3, Zenon
        <3>4. CASE i - 1 \in 1..n - 1 /\ r[i - 1] = q[i]
            BY <1>3, <3>2, <3>4, Zenon DEF ToSet
        <3>. QED  BY <1>6, <3>3, <3>4, Zenon
    <2>. QED  BY <2>1, <2>2, <2>3, Zenon
<1>8. ASSUME IsInjective(q) PROVE IsInjective(r) /\ Head(q) \notin ToSet(r)
    <2>1. \A i, j \in 1..n : q[i] = q[j] => i = j
        BY <1>1, <1>8, Zenon DEF IsInjective
    <2>2. \A i, j \in 1..n - 1 : r[i] = r[j] => i = j
        BY <1>1, <1>5, <2>1
    <2>3. \A i \in 1..n - 1 : r[i] # q[1]
        BY <1>5, <1>6, <2>1
    <2>. QED  BY <1>3, <1>4, <2>2, <2>3, Zenon DEF IsInjective, ToSet
<1>. QED  BY <1>2, <1>7, <1>8, Zenon DEF r

LEMMA InsertElements ==
    ASSUME NEW X, NEW q \in Seq(X), NEW k \in X, NEW i \in 1..Len(q) + 1
    PROVE  InsertAt(q, i, k) \in Seq(X) /\ ToSet(InsertAt(q, i, k)) = ToSet(q) \cup {k}
<1> DEFINE a == SubSeq(q, 1, i - 1)
           b == SubSeq(q, i, Len(q))
           o == <<k>>
           c == a \o o
<1>1. Len(q) \in Nat /\ \A j \in 1..Len(q) : q[j] \in X
    BY LenProperties, ElementOfSeq
<1>2. a \in Seq(X) /\ b \in Seq(X)
    BY <1>1, SubSeqProperties
<1>3. a \o b = q
    <2>1. SubSeq(q, 1, i - 1) \o SubSeq(q, (i - 1) + 1, Len(q)) = SubSeq(q, 1, Len(q))
        <3>1. 1 \in 1..Len(q) + 1 /\ i - 1 \in 1 - 1..Len(q) /\ Len(q) \in i - 1..Len(q)
            BY <1>1
        <3>. QED  BY <3>1, ConcatAdjacentSubSeq, Zenon
    <2>2. (i - 1) + 1 = i
        BY <1>1
    <2>. QED  BY <2>1, <2>2, SubSeqFull, Zenon
<1>4. o \in Seq(X) /\ ToSet(o) = {k}
    BY OneElement, Zenon
<1>5. InsertAt(q, i, k) = c \o b
    BY Zenon DEF InsertAt
<1> HIDE DEF a, b, o
<1>6. c \in Seq(X) /\ ToSet(c) = ToSet(a) \cup ToSet(o)
    BY <1>2, <1>4, ConcatElements, ZenonT(30)
<1>7. ToSet(q) = ToSet(a) \cup ToSet(b)
    BY <1>2, <1>3, ConcatElements, ZenonT(30)
<1> HIDE DEF c
<1>8. c \o b \in Seq(X) /\ ToSet(c \o b) = ToSet(c) \cup ToSet(b)
    <2>1. c \in Seq(X) /\ b \in Seq(X)
        BY <1>2, <1>6
    <2>. QED  BY <2>1, ConcatElements
<1>9. ToSet(c \o b) = ToSet(q) \cup {k}
    BY <1>4, <1>6, <1>7, <1>8, Zenon
<1>. QED  BY <1>5, <1>8, <1>9, Zenon

-----------------------------------------------------------------------------
(* The lane.                                                               *)

\* What the store holds, the lists and counters of the lane, and the tick.
StoreType ==
    /\ done \in SUBSET Chunk /\ merged \in SUBSET Merge /\ parked \in SUBSET Merge
    /\ written \in [Item -> Nat] /\ blamed \in [Item -> Nat]
    /\ merges \in Seq(Merge)

LaneType ==
    /\ closed \in 0..world.chunks /\ queue \in Seq(Chunk) /\ order \in Seq(Item)
    /\ runs \in [Item -> [n : Nat, at : Nat]] /\ landed \in Nat

Turn == [stage : {"idle", "scan", "out"}, item : Item \cup {None}, drain : BOOLEAN,
         progress : BOOLEAN, left : Seq(Chunk), at : Nat, superseded : BOOLEAN,
         kind : {"call", "tools", "skip", None}]

\* The load that left a call out ended before the one that stands began.
StaleInv == reloads \in Nat /\ \A s \in stale : s.load \in Nat /\ s.load < reloads

TypeInv == world \in Worlds /\ StoreType /\ LaneType /\ turn \in Turn /\ StaleInv

-----------------------------------------------------------------------------
(* Chunks, merges and the operators over the lists.                        *)

\* Chunks and merges are apart, finitely many, and none of them is None.
LEMMA Items ==
    ASSUME world \in Worlds
    PROVE  /\ world.chunks \in Nat /\ world.persistent \in Nat \ {0}
           /\ Chunk \subseteq Nat \ {0} /\ Merge \subseteq Int
           /\ \A c \in Chunk : c \notin Merge
           /\ IsFiniteSet(Chunk \cup Merge)
           /\ None \notin Item
           /\ [i \in 1..Len(world.groups) |-> -i] \in Seq(Merge)
           /\ ToSet([i \in 1..Len(world.groups) |-> -i]) = Merge
           /\ IsInjective([i \in 1..Len(world.groups) |-> -i])
<1> DEFINE n == Len(world.groups)
           s == [i \in 1..n |-> -i]
<1>1. /\ world.chunks \in Nat /\ world.persistent \in Nat \ {0}
      /\ world.groups \in Seq(SUBSET (1..world.chunks))
    BY WorldsAssumption, Zenon
<1>2. n \in Nat
    BY <1>1, LenProperties
<1>3. Merge = {-i : i \in 1..n}
    BY Zenon DEF Merge
<1> HIDE DEF n
<1>4. \A i \in 1..n : -i \in Int /\ -i < 0
    BY <1>2
<1>5. Chunk \subseteq Nat \ {0} /\ Merge \subseteq Int /\ \A c \in Chunk : c \notin Merge
    <2>1. \A m \in Merge : m \in Int /\ m < 0
        BY <1>3, <1>4, Zenon
    <2>2. \A c \in Chunk : c \in Nat \ {0} /\ ~(c < 0)
        BY <1>1 DEF Chunk
    <2>. QED  BY <2>1, <2>2, Zenon
<1>6. s \in [1..n -> Merge] /\ DOMAIN s = 1..n /\ \A i \in 1..n : s[i] = -i
    BY <1>3, Zenon
<1> HIDE DEF s
<1>7. s \in Seq(Merge)
    BY <1>2, <1>6, SeqDef
<1>8. ToSet(s) = Merge
    BY <1>3, <1>6, Zenon DEF ToSet
<1>9. IsInjective(s)
    <2>1. \A i, j \in 1..n : -i = -j => i = j
        BY <1>2
    <2>. QED  BY <1>6, <2>1, Zenon DEF IsInjective
<1>10. IsFiniteSet(Chunk \cup Merge)
    <2>1. Chunk \cup Merge \subseteq -n..(n + world.chunks)
        <3>1. \A c \in Chunk : c \in -n..(n + world.chunks)
            BY <1>1, <1>2 DEF Chunk
        <3>2. \A i \in 1..n : -i \in -n..(n + world.chunks)
            BY <1>1, <1>2
        <3>. QED  BY <1>3, <3>1, <3>2, Zenon
    <2>2. IsFiniteSet(-n..(n + world.chunks))
        <3>1. -n \in Int /\ n + world.chunks \in Int
            BY <1>1, <1>2
        <3>. QED  BY <3>1, FS_Interval, Zenon
    <2>. QED  BY <2>1, <2>2, FS_Subset, Zenon
<1>11. None \notin Item
    <2>1. \A k \in Item : k \in Int
        BY <1>5 DEF Item
    <2>. QED  BY <2>1, NoneAssumption, Zenon
<1>12. s = [i \in 1..Len(world.groups) |-> -i]
    BY DEF s, n
<1>. QED  BY <1>1, <1>5, <1>7, <1>8, <1>9, <1>10, <1>11, <1>12, Zenon

\* An ordered queue holds what it held; failures that are forgotten lose
\* their runs, and no other run changes.
LEMMA OrderQueueKeeps ==
    ASSUME NEW q \in Seq(Chunk), NEW o \in Seq(Item), NEW r \in [Item -> [n : Nat, at : Nat]],
           NEW w, NEW dn, NEW ms, OrderQueue(q, o, r, w, dn, ms)
    PROVE  /\ queue' \in Seq(Chunk) /\ ToSet(queue') = ToSet(q)
           /\ order' \in Seq(Item)
           /\ runs' \in [Item -> [n : Nat, at : Nat]]
           /\ \A k \in Item : runs'[k] = r[k] \/ runs'[k] = NoRun
<1> DEFINE a == Only(q, ToSet(q) \ ToSet(order'))
           b == Only(order', ToSet(q))
<1>1. order' = Only(o, Pending(dn, ms))
    BY Zenon DEF OrderQueue
<1>2. order' \in Seq(Item)
    BY <1>1, OnlyKeeps, Zenon
<1>3. a \in Seq(Chunk) /\ ToSet(a) = ToSet(q) \cap (ToSet(q) \ ToSet(order'))
    BY OnlyKeeps, Zenon
<1>4. b \in Seq(Item) /\ ToSet(b) = ToSet(order') \cap ToSet(q)
    BY <1>2, OnlyKeeps
<1>5. b \in Seq(Chunk)
    <2>1. ToSet(q) \subseteq Chunk
        BY ElementsTyped, Zenon
    <2>2. ToSet(b) \subseteq Chunk
        BY <1>4, <2>1, Zenon
    <2> HIDE DEF b
    <2>. QED  BY <1>4, <2>2, ElementsTyped, Zenon
<1>6. queue' = a \o b
    BY Zenon DEF OrderQueue, Ordered
<1> HIDE DEF a, b
<1>7. queue' \in Seq(Chunk) /\ ToSet(queue') = ToSet(q)
    <2>1. a \o b \in Seq(Chunk) /\ ToSet(a \o b) = ToSet(a) \cup ToSet(b)
        BY <1>3, <1>5, ConcatElements
    <2>. QED  BY <1>3, <1>4, <1>6, <2>1, Zenon
<1>8. runs' = [k \in Item |-> IF k \in Pending(dn, ms) THEN r[k] ELSE NoRun]
    BY Zenon DEF OrderQueue
<1>9. NoRun \in [n : Nat, at : Nat]
    BY DEF NoRun
<1>10. \A k \in Item : runs'[k] = r[k] \/ runs'[k] = NoRun
    BY <1>8, Zenon
<1>11. runs' \in [Item -> [n : Nat, at : Nat]]
    BY <1>8, <1>9, Zenon
<1>. QED  BY <1>2, <1>7, <1>10, <1>11, Zenon

\* A rebuilt queue holds exactly the chunks that may be queued.
Open(hs) == {c \in Closed' \ done : ~Blocked(c, hs) /\ c <= closed' - world.holdback}

LEMMA RebuildKeeps ==
    ASSUME closed' \in 0..world.chunks, world \in Worlds,
           NEW hs, NEW o \in Seq(Item), NEW r \in [Item -> [n : Nat, at : Nat]], NEW w,
           Rebuild(hs, o, r, w)
    PROVE  /\ queue' \in Seq(Chunk) /\ ToSet(queue') = Open(hs)
           /\ order' \in Seq(Item)
           /\ runs' \in [Item -> [n : Nat, at : Nat]]
           /\ \A k \in Item : runs'[k] = r[k] \/ runs'[k] = NoRun
<1> DEFINE s == [i \in 1..closed' |-> i]
           q == Queueable(done, hs)
<1>1. closed' \in Nat /\ 1..closed' \subseteq Chunk
    BY Items DEF Chunk
<1>2. s \in [1..closed' -> Chunk] /\ DOMAIN s = 1..closed' /\ \A i \in 1..closed' : s[i] = i
    BY <1>1, Zenon
<1>3. q = Only(s, Open(hs))
    BY Zenon DEF Queueable, Open
<1>. HIDE DEF s
<1>4. s \in Seq(Chunk)
    BY <1>1, <1>2, SeqDef
<1>5. ToSet(s) = Closed'
    BY <1>2, Zenon DEF ToSet, Closed
<1>6. q \in Seq(Chunk) /\ ToSet(q) = ToSet(s) \cap Open(hs)
    <2>1. Only(s, Open(hs)) \in Seq(Chunk) /\ ToSet(Only(s, Open(hs))) = ToSet(s) \cap Open(hs)
        BY <1>4, OnlyKeeps
    <2>. QED  BY <1>3, <2>1, Zenon
<1>7. ToSet(q) = Open(hs)
    BY <1>5, <1>6, Zenon DEF Open
<1>8. OrderQueue(q, o, r, w, done, merges)
    BY Zenon DEF Rebuild
<1>. HIDE DEF q
<1>9. /\ queue' \in Seq(Chunk) /\ ToSet(queue') = ToSet(q)
      /\ order' \in Seq(Item)
      /\ runs' \in [Item -> [n : Nat, at : Nat]]
      /\ \A k \in Item : runs'[k] = r[k] \/ runs'[k] = NoRun
    BY <1>6, <1>8, OrderQueueKeeps, Zenon
<1>. QED  BY <1>7, <1>9, Zenon

\* The merges a list gains are ready ones, each once, behind those it held.
LEMMA CheckMergeKeeps ==
    ASSUME world \in Worlds, NEW ms \in Seq(Merge), NEW dn, NEW mg, NEW pk
    PROVE  LET r == CheckMerge(dn, mg, ms, pk)
           IN  /\ r \in Seq(Merge)
               /\ ToSet(r) = ToSet(ms) \cup {m \in Merge : Ready(m, dn, mg, ms, pk)}
               /\ IsInjective(ms) => IsInjective(r)
               /\ ms # <<>> => r # <<>> /\ Head(r) = Head(ms)
<1> DEFINE s == [i \in 1..Len(world.groups) |-> -i]
           S == {m \in Merge : Ready(m, dn, mg, ms, pk)}
           t == Only(s, S)
           r == CheckMerge(dn, mg, ms, pk)
<1>1. s \in Seq(Merge) /\ ToSet(s) = Merge /\ IsInjective(s)
    BY Items, Zenon
<1>2. r = ms \o t
    BY Zenon DEF CheckMerge
<1>3. S \subseteq Merge /\ \A m \in S : m \notin ToSet(ms)
    BY ContainsIsElement, Zenon DEF Ready
<1> HIDE DEF s, S
<1>4. t \in Seq(Merge) /\ ToSet(t) = ToSet(s) \cap S /\ (IsInjective(s) => IsInjective(t))
    BY <1>1, OnlyKeeps, Zenon
<1>5. ToSet(t) = S /\ IsInjective(t)
    BY <1>1, <1>3, <1>4, Zenon
<1>6. ToSet(ms) \cap ToSet(t) = {}
    BY <1>3, <1>5, Zenon
<1> HIDE DEF t
<1>7. /\ ms \o t \in Seq(Merge) /\ ToSet(ms \o t) = ToSet(ms) \cup ToSet(t)
      /\ IsInjective(ms) /\ IsInjective(t) /\ ToSet(ms) \cap ToSet(t) = {} => IsInjective(ms \o t)
    BY <1>4, ConcatElements
<1>8. ms # <<>> => ms \o t # <<>> /\ Head(ms \o t) = Head(ms)
    BY <1>4, ConcatProperties, EmptySeq
<1>9. /\ r \in Seq(Merge) /\ ToSet(r) = ToSet(ms) \cup S
      /\ IsInjective(ms) => IsInjective(r)
      /\ ms # <<>> => r # <<>> /\ Head(r) = Head(ms)
    BY <1>2, <1>5, <1>6, <1>7, <1>8, Zenon
<1>. QED  BY <1>9, Zenon DEF S

-----------------------------------------------------------------------------
(* Types.                                                                  *)

LEMMA TurnForms ==
    ASSUME TypeInv
    PROVE  /\ Idle \in Turn
           /\ Idle.stage = "idle" /\ Idle.item = None
           /\ [turn EXCEPT !.superseded = TRUE] \in Turn
           /\ [turn EXCEPT !.stage = "scan", !.item = None] \in Turn
           /\ \A k \in Item, kind \in {"call", "tools", "skip"} : Out(k, kind) \in Turn
<1>1. turn \in Turn /\ <<>> \in Seq(Chunk)
    BY DEF TypeInv
<1>2. Idle \in Turn /\ Idle.stage = "idle" /\ Idle.item = None
    BY <1>1 DEF Idle, Turn
<1>3. [turn EXCEPT !.superseded = TRUE] \in Turn
    BY <1>1 DEF Turn
<1>4. [turn EXCEPT !.stage = "scan", !.item = None] \in Turn
    BY <1>1 DEF Turn
<1>5. \A k \in Item, kind \in {"call", "tools", "skip"} : Out(k, kind) \in Turn
    BY <1>1 DEF Turn, Out
<1>. QED  BY <1>2, <1>3, <1>4, <1>5, Zenon

\* The place of an element of a list is one of its places.
LEMMA PlaceType ==
    ASSUME NEW X, NEW q \in Seq(X), NEW k, k \in ToSet(q)
    PROVE  Place(k, q) \in Nat \ {0}
<1> DEFINE I == {i \in 1..Len(q) : q[i] = k}
<1>1. Len(q) \in Nat /\ DOMAIN q = 1..Len(q)
    BY LenProperties
<1>2. I # {} /\ I \subseteq Nat \ {0}
    BY <1>1 DEF ToSet
<1>3. Place(k, q) = IF I # {} THEN Min(I) ELSE 0
    BY Zenon DEF Place, SelectInSeq
<1> HIDE DEF I
<1>4. PICK i \in I : \A j \in I : ~(<<j, i>> \in OpToRel(<, Nat))
    <2>1. I # {} /\ I \subseteq Nat
        BY <1>2
    <2>. QED  BY <2>1, NatLessThanWellFounded, WFMin
<1>5. \A j \in I : i <= j
    <2>1. I \subseteq Nat
        BY <1>2
    <2>2. \A j \in I : ~(j < i)
        BY <1>4, <2>1 DEF OpToRel
    <2>. QED  BY <2>1, <2>2
<1>6. Min(I) \in I
    BY <1>5, Zenon DEF Min
<1>. QED  BY <1>2, <1>3, <1>6

\* The tick out is at an item: a chunk without a summary, or the head merge.
AtItem ==
    /\ turn.stage # "out" => turn.item = None
    /\ turn.stage = "out" => \/ turn.item \in Chunk /\ turn.item \notin done /\ turn.at # 0
                             \/ turn.item \in Merge /\ merges # <<>> /\ Head(merges) = turn.item

\* A chunk put back is on the queue with all that was, unless the queue was
\* rebuilt during its call.
BackOn(q, c) ==
    /\ q \in Seq(Chunk) /\ ToSet(queue) \subseteq ToSet(q)
    /\ ~turn.superseded => c \in ToSet(q)

LEMMA PutBack ==
    ASSUME TypeInv, NEW c \in Chunk
    PROVE  /\ BackOn(AtHead(c), c) /\ BackOn(AtBack(c), c)
           /\ turn.at # 0 => BackOn(AtPlace(c), c)
<1> DEFINE w == Without(queue, c)
           o == <<c>>
<1>1. queue \in Seq(Chunk) /\ turn.at \in Nat
    BY DEF TypeInv, LaneType, Turn
<1>2. w \in Seq(Chunk) /\ ToSet(w) = ToSet(queue) \ {c}
    BY <1>1, WithoutKeeps
<1>3. o \in Seq(Chunk) /\ ToSet(o) = {c}
    BY OneElement, Zenon
<1>4. AtHead(c) = IF turn.superseded THEN queue ELSE o \o w
    BY Zenon DEF AtHead
<1>5. AtPlace(c) = IF turn.superseded THEN queue ELSE InsertAt(w, IF turn.at <= Len(w) THEN turn.at ELSE Len(w) + 1, c)
    BY Zenon DEF AtPlace
<1> HIDE DEF w, o
<1>6. BackOn(AtHead(c), c)
    <2>1. o \o w \in Seq(Chunk) /\ ToSet(o \o w) = ToSet(o) \cup ToSet(w)
        BY <1>2, <1>3, ConcatElements
    <2>2. ToSet(o \o w) = ToSet(queue) \cup {c}
        BY <1>2, <1>3, <2>1, Zenon
    <2>. QED  BY <1>1, <1>4, <2>1, <2>2, Zenon DEF BackOn
<1>7. BackOn(AtBack(c), c)
    <2>1. Append(queue, c) \in Seq(Chunk) /\ ToSet(Append(queue, c)) = ToSet(queue) \cup {c}
        BY <1>1, AppendElements
    <2>2. Contains(queue, c) <=> c \in ToSet(queue)
        BY <1>1, ContainsIsElement, Zenon
    <2>. QED  BY <1>1, <2>1, <2>2, Zenon DEF BackOn, AtBack
<1>8. ASSUME turn.at # 0 PROVE BackOn(AtPlace(c), c)
    <2> DEFINE i == IF turn.at <= Len(w) THEN turn.at ELSE Len(w) + 1
    <2>1. i \in 1..Len(w) + 1
        <3>1. Len(w) \in Nat
            BY <1>2, LenProperties
        <3>. QED  BY <1>1, <1>8, <3>1
    <2>2. AtPlace(c) = IF turn.superseded THEN queue ELSE InsertAt(w, i, c)
        BY <1>5, Zenon
    <2> HIDE DEF i
    <2>3. InsertAt(w, i, c) \in Seq(Chunk) /\ ToSet(InsertAt(w, i, c)) = ToSet(w) \cup {c}
        BY <1>2, <2>1, InsertElements
    <2>4. ToSet(InsertAt(w, i, c)) = ToSet(queue) \cup {c}
        BY <1>2, <2>3, Zenon
    <2>. QED  BY <1>1, <2>2, <2>3, <2>4, Zenon DEF BackOn
<1>. QED  BY <1>6, <1>7, <1>8, Zenon

\* A failed or forgiven item leaves the rest of the order.
LEMMA OrderForms ==
    ASSUME order \in Seq(Item), NEW k \in Item
    PROVE  Failed(order, k) \in Seq(Item) /\ Forgiven(order, k) \in Seq(Item)
<1>1. Without(order, k) \in Seq(Item)
    BY WithoutKeeps
<1>2. Append(Without(order, k), k) \in Seq(Item)
    BY <1>1, AppendElements
<1>. QED  BY <1>1, <1>2, Zenon DEF Failed, Forgiven

LEMMA NextRunType ==
    ASSUME NEW r \in [n : Nat, at : Nat], landed \in Nat
    PROVE  NextRun(r) \in [n : Nat, at : Nat]
BY DEF NextRun

\* No load stands again, so a call of an earlier one is never current.
LEMMA StaleNext == StaleInv /\ [Next]_vars => StaleInv'
<1> SUFFICES ASSUME StaleInv, [Next]_vars PROVE StaleInv'
    OBVIOUS
<1>1. CASE UNCHANGED <<stale, reloads>>
    BY <1>1 DEF StaleInv
<1>2. CASE Reload
    <2>1. /\ reloads' = reloads + 1
          /\ \A s \in stale' : s \in stale \/ s = [item |-> turn.item, load |-> reloads]
        BY <1>2 DEF Reload
    <2>. QED  BY <2>1 DEF StaleInv
<1>3. CASE Restart
    BY <1>3 DEF Restart, StaleInv
<1>4. CASE \E s \in stale : ReturnStale(s)
    BY <1>4 DEF ReturnStale, StaleInv
<1>5. HostTick \/ DrainTick \/ Scan => UNCHANGED <<stale, reloads>>
    BY DEF HostTick, DrainTick, Scan
<1>6. Answer => UNCHANGED <<stale, reloads>>
    BY DEF Answer, LandL1, RejectL1, PersistL1, DecideRung, FailL1, NoCallL1, PassL1, SkipL1, DeferL1,
           LandMerge, DiscardMerge, RejectMerge, PersistMerge, CountRejection, FailMerge, NoCallMerge, DeferMerge
<1>7. /\ CloseChunk \/ ToolsArrive \/ PauseEnds => UNCHANGED <<stale, reloads>>
      /\ (\E c \in Chunk : TakeHold(c) \/ ReleaseHold(c) \/ WaitEnds(c)) => UNCHANGED <<stale, reloads>>
      /\ (\E m \in Merge : ClearParked(m)) => UNCHANGED <<stale, reloads>>
    BY DEF CloseChunk, ToolsArrive, PauseEnds, TakeHold, ReleaseHold, WaitEnds, ClearParked
<1>8. UNCHANGED vars => UNCHANGED <<stale, reloads>>
    BY DEF vars
<1>. QED  BY <1>1, <1>2, <1>3, <1>4, <1>5, <1>6, <1>7, <1>8 DEF Next, Host

\* Its answer fails the check and writes nothing.
LEMMA StaleWritesNothing ==
    ASSUME TypeInv, NEW s \in stale, ReturnStale(s)
    PROVE  UNCHANGED store
<1>1. ~Current(s.load)
    BY DEF TypeInv, StaleInv, Current
<1>2. UNCHANGED <<done, merged, written>>
    BY <1>1 DEF ReturnStale, Write
<1>. QED  BY <1>2 DEF ReturnStale, store

LEMMA TypeNext == TypeInv /\ AtItem /\ [Next]_vars => TypeInv'
<1> SUFFICES ASSUME TypeInv, AtItem, [Next]_vars PROVE TypeInv'
    OBVIOUS
<1>0. world' = world
    BY DEF Next, vars, HostTick, DrainTick, Scan, Answer, Host, LandL1, RejectL1, PersistL1, DecideRung, FailL1, NoCallL1,
           PassL1, SkipL1, DeferL1, LandMerge, DiscardMerge, RejectMerge, PersistMerge, CountRejection, FailMerge, NoCallMerge,
           DeferMerge, CloseChunk, TakeHold, ReleaseHold, PauseEnds, WaitEnds, ToolsArrive, ClearParked, Reload, ReturnStale, Restart
<1>1. Chunk' = Chunk /\ Merge' = Merge /\ Item' = Item /\ Turn' = Turn
    BY <1>0 DEF Chunk, Merge, Item, Turn
<1>2. /\ world \in Worlds /\ StoreType /\ LaneType /\ turn \in Turn
    BY DEF TypeInv
<1>3. /\ NoRun \in [n : Nat, at : Nat]
      /\ Chunk \subseteq Item /\ Merge \subseteq Item
      /\ \A c \in Chunk : c \notin Merge
    BY <1>2, Items DEF NoRun, Item
<1>4. /\ Idle \in Turn /\ [turn EXCEPT !.superseded = TRUE] \in Turn
      /\ [turn EXCEPT !.stage = "scan", !.item = None] \in Turn
      /\ \A k \in Item, kind \in {"call", "tools", "skip"} : Out(k, kind) \in Turn
    BY TurnForms, Zenon
<1>5. \A k \in Item : Failed(order, k) \in Seq(Item) /\ Forgiven(order, k) \in Seq(Item)
    BY <1>2, OrderForms DEF LaneType
<1>6. \A dn, mg, pk : \A ms \in Seq(Merge) : CheckMerge(dn, mg, ms, pk) \in Seq(Merge)
    BY <1>2, CheckMergeKeeps
<1>7. \A dn, mg, pk : \A ms \in Seq(Merge) : ms # <<>> => CheckMerge(dn, mg, ms, pk) # <<>>
    BY <1>2, CheckMergeKeeps
<1>8. \A ms \in Seq(Merge) : ms # <<>> => Tail(ms) \in Seq(Merge) /\ Head(ms) \in Merge
    BY HeadTailProperties
<1>9. \A ms \in Seq(Merge), m \in Merge : Append(ms, m) \in Seq(Merge)
    BY AppendProperties
\* It is enough to type what a step may write.
<1>10. ASSUME StoreType', LaneType', turn' \in Turn PROVE TypeInv'
    BY <1>0, <1>1, <1>2, <1>10, StaleNext DEF TypeInv
<1>11. UNCHANGED store => StoreType'
    BY <1>1, <1>2 DEF store, StoreType
<1>12. UNCHANGED <<closed, queue, order, runs, landed>> => LaneType'
    BY <1>0, <1>1, <1>2 DEF LaneType
<1>13. ASSUME NEW drain \in BOOLEAN, Begin(drain), UNCHANGED <<closed, order, runs, landed>>
       PROVE  LaneType' /\ turn' \in Turn
    <2>1. queue' \in Seq(Chunk)
        <3>1. queue' = Only(queue, ToSet(queue) \ done)
            BY <1>13, Zenon DEF Begin
        <3>. QED  BY <1>2, <3>1, OnlyKeeps DEF LaneType
    <2>2. turn' = Began(drain, Len(queue') < Len(queue))
        BY <1>13, Zenon DEF Begin
    <2>3. (Len(queue') < Len(queue)) \in BOOLEAN
        OBVIOUS
    <2>4. turn' \in Turn
        BY <1>4, <1>13, <2>1, <2>2, <2>3, ZenonT(30) DEF Began, Turn
    <2>. QED  BY <1>0, <1>1, <1>2, <1>13, <2>1, <2>4 DEF LaneType
<1>14. CASE HostTick
    <2>1. Begin(FALSE) /\ UNCHANGED store /\ UNCHANGED <<closed, order, runs, landed>>
        BY <1>14 DEF HostTick, host
    <2>. QED  BY <1>10, <1>11, <1>13, <2>1
<1>15. CASE DrainTick
    <2>1. CASE UNCHANGED <<turn, queue>>
        <3>1. UNCHANGED store /\ UNCHANGED <<closed, queue, order, runs, landed, turn>>
            BY <1>15, <2>1 DEF DrainTick, host
        <3>. QED  BY <1>2, <1>10, <1>11, <1>12, <3>1
    <2>2. CASE Begin(TRUE)
        <3>1. UNCHANGED store /\ UNCHANGED <<closed, order, runs, landed>>
            BY <1>15 DEF DrainTick, host
        <3>. QED  BY <1>10, <1>11, <1>13, <2>2, <3>1
    <2>. QED  BY <1>15, <2>1, <2>2 DEF DrainTick
\* The tick ends, goes to the head merge, or takes a chunk off the queue.
<1>16. \A p : EndTurn(p) => turn' \in Turn
    BY <1>4 DEF EndTurn
<1>17. GoMerge => turn' \in Turn
    <2>1. merges \in Seq(Merge)
        BY <1>2 DEF StoreType
    <2>. QED  BY <1>3, <1>4, <1>8, <1>16, <2>1 DEF GoMerge
<1>18. ASSUME NEW i \in Turns, TakeChunk(i) PROVE queue' \in Seq(Chunk) /\ turn' \in Turn
    <2> DEFINE c == turn.left[i]
               from == [turn EXCEPT !.left = SubSeq(@, i + 1, Len(@)), !.progress = TRUE,
                                    !.at = Place(c, queue), !.superseded = FALSE]
    <2>1. turn.left \in Seq(Chunk) /\ queue \in Seq(Chunk) /\ turn \in Turn
        BY <1>2 DEF LaneType, Turn
    <2>2. i \in 1..Len(turn.left) /\ Len(turn.left) \in Nat
        BY <2>1, LenProperties DEF Turns
    <2>3. c \in Chunk
        BY <2>1, <2>2, ElementOfSeq
    <2>4. c \in ToSet(queue)
        BY <1>18, <2>1, ContainsIsElement, Zenon DEF Turns, Workable
    <2>5. SubSeq(turn.left, i + 1, Len(turn.left)) \in Seq(Chunk)
        <3>1. \A j \in i + 1..Len(turn.left) : turn.left[j] \in Chunk
            BY <2>1, <2>2, ElementOfSeq
        <3>. QED  BY <2>2, <3>1, SubSeqProperties
    <2>6. Place(c, queue) \in Nat
        BY <2>1, <2>4, PlaceType
    <2>7. from \in Turn
        BY <2>1, <2>5, <2>6 DEF Turn
    <2> HIDE DEF from, c
    <2>8. \A kind \in {"call", "tools", "skip"} : [from EXCEPT !.stage = "out", !.item = c, !.kind = kind] \in Turn
        BY <1>3, <2>3, <2>7 DEF Turn
    <2>9. queue' = Without(queue, c)
        BY <1>18 DEF TakeChunk, c
    <2>10. \/ turn' = from \/ EndTurn(TRUE)
           \/ \E kind \in {"call", "tools", "skip"} : turn' = [from EXCEPT !.stage = "out", !.item = c, !.kind = kind]
        BY <1>18 DEF TakeChunk, c, from
    <2>11. turn' \in Turn
        BY <1>16, <2>7, <2>8, <2>10, Zenon
    <2>. QED  BY <2>1, <2>9, <2>11, WithoutKeeps
<1>19. CASE Scan
    <2>1. UNCHANGED store /\ UNCHANGED <<closed, order, runs, landed>>
        BY <1>19 DEF Scan, host
    <2>2. queue' \in Seq(Chunk) /\ turn' \in Turn
        <3>1. CASE GoMerge
            BY <1>2, <1>17, <3>1 DEF GoMerge, LaneType
        <3>2. CASE \E i \in Turns : TakeChunk(i)
            BY <1>18, <3>2
        <3>. QED  BY <1>19, <3>1, <3>2, Zenon DEF Scan
    <2>3. LaneType'
        BY <1>0, <1>1, <1>2, <2>1, <2>2 DEF LaneType
    <2>. QED  BY <1>10, <1>11, <2>1, <2>2, <2>3
\* What an answer writes.
<1>20. \A k \in Item, current \in BOOLEAN : Write(k, current) =>
           done' \in SUBSET Chunk /\ merged' \in SUBSET Merge /\ written' \in [Item -> Nat]
    <2>1. TAKE k \in Item, current \in BOOLEAN
    <2>2. HAVE Write(k, current)
    <2>3. [written EXCEPT ![k] = @ + 1] \in [Item -> Nat]
        BY <1>2 DEF StoreType
    <2>4. written' \in [Item -> Nat]
        BY <1>2, <2>2, <2>3 DEF Write, StoreType
    <2>5. done' \in SUBSET Chunk /\ merged' \in SUBSET Merge
        BY <1>2, <2>2, Zenon DEF Write, StoreType
    <2>. QED  BY <2>4, <2>5
<1>21. \A k \in Item : [blamed EXCEPT ![k] = @ + 1] \in [Item -> Nat]
    BY <1>2 DEF StoreType
<1>22. \A k \in Item : \A r \in [n : Nat, at : Nat] : [runs EXCEPT ![k] = r] \in [Item -> [n : Nat, at : Nat]]
    BY <1>2 DEF LaneType
<1>23. \A k \in Item : runs[k] \in [n : Nat, at : Nat] /\ NextRun(runs[k]) \in [n : Nat, at : Nat]
    <2>1. TAKE k \in Item
    <2>2. runs[k] \in [n : Nat, at : Nat] /\ landed \in Nat
        BY <1>2 DEF LaneType
    <2>. QED  BY <2>2, NextRunType
<1>24. turn.item \in Item => [turn EXCEPT !.stage = "scan", !.item = None].stage = "scan"
    BY <1>2 DEF Turn
<1>25. CASE LandL1
    <2>1. turn.item \in Chunk /\ turn.item \in Item
        BY <1>3, <1>25 DEF LandL1, L1Out
    <2>2. Write(turn.item, ~Blocked(turn.item, held))
        BY <1>25, Zenon DEF LandL1
    <2>3. done' \in SUBSET Chunk /\ merged' \in SUBSET Merge /\ written' \in [Item -> Nat]
        BY <1>20, <2>1, <2>2
    <2>4. merges' = CheckMerge(done', merged, merges, parked) /\ blamed' = blamed /\ parked' = parked
        BY <1>25 DEF LandL1
    <2>5. StoreType'
        BY <1>1, <1>2, <1>6, <2>3, <2>4 DEF StoreType
    <2>6. /\ closed' = closed /\ queue' = queue
          /\ order' = Forgiven(order, turn.item)
          /\ landed' \in Nat
          /\ runs' \in [Item -> [n : Nat, at : Nat]]
        <3>1. \E r \in [n : Nat, at : Nat] : runs' = [runs EXCEPT ![turn.item] = r]
            BY <1>3, <1>23, <1>25, <2>1 DEF LandL1
        <3>. QED  BY <1>2, <1>22, <1>25, <2>1, <3>1 DEF LandL1, host, LaneType
    <2>7. LaneType'
        BY <1>0, <1>1, <1>2, <1>5, <2>1, <2>6 DEF LaneType
    <2>. QED  BY <1>10, <1>16, <1>25, <2>5, <2>7 DEF LandL1
<1>26. ASSUME NEW c \in Chunk, DecideRung(c), blamed' \in [Item -> Nat] PROVE TypeInv'
    <2>1. StoreType'
        BY <1>1, <1>2, <1>26 DEF DecideRung, StoreType
    <2>2. /\ closed' = closed /\ queue' = queue /\ landed' = landed
          /\ order' = order \/ order' = Forgiven(order, c)
          /\ runs' = [runs EXCEPT ![c] = NoRun]
        BY <1>26 DEF DecideRung, host
    <2>3. LaneType'
        BY <1>0, <1>1, <1>2, <1>3, <1>5, <1>22, <2>2 DEF LaneType
    <2>4. turn' \in Turn
        BY <1>2, <1>16, <1>26 DEF DecideRung
    <2>. QED  BY <1>10, <2>1, <2>3, <2>4
<1>27. CASE RejectL1 \/ PersistL1
    <2>1. turn.item \in Chunk /\ turn.item \in Item /\ DecideRung(turn.item)
        BY <1>3, <1>27 DEF RejectL1, PersistL1, L1Out
    <2>2. blamed' = blamed \/ blamed' = [blamed EXCEPT ![turn.item] = @ + 1]
        BY <1>27 DEF RejectL1, PersistL1
    <2>3. blamed' \in [Item -> Nat]
        BY <1>2, <1>21, <2>1, <2>2 DEF StoreType
    <2>. QED  BY <1>26, <2>1, <2>3
\* The failure entries and the queue are ordered anew.
<1>28. ASSUME NEW q \in Seq(Chunk), NEW o \in Seq(Item), NEW r \in [Item -> [n : Nat, at : Nat]], NEW w,
              OrderQueue(q, o, r, w, done, merges), UNCHANGED <<closed, landed>>
       PROVE  LaneType'
    <2>1. /\ queue' \in Seq(Chunk) /\ order' \in Seq(Item)
          /\ runs' \in [Item -> [n : Nat, at : Nat]]
        BY <1>28, OrderQueueKeeps
    <2>. QED  BY <1>0, <1>1, <1>2, <1>28, <2>1 DEF LaneType
<1>29. ASSUME turn.item \in Chunk
       PROVE  /\ AtHead(turn.item) \in Seq(Chunk) /\ AtBack(turn.item) \in Seq(Chunk)
              /\ turn.stage = "out" => AtPlace(turn.item) \in Seq(Chunk)
    BY <1>3, <1>29, PutBack DEF BackOn, AtItem
<1>30. CASE FailL1
    <2>1. turn.item \in Chunk /\ turn.item \in Item
        BY <1>3, <1>30 DEF FailL1, L1Out
    <2>2. [runs EXCEPT ![turn.item] = NextRun(@)] \in [Item -> [n : Nat, at : Nat]]
        BY <1>22, <1>23, <2>1
    <2>3. OrderQueue(AtBack(turn.item), Failed(order, turn.item), [runs EXCEPT ![turn.item] = NextRun(@)], waits, done, merges)
        BY <1>30, Zenon DEF FailL1
    <2>4. UNCHANGED store /\ UNCHANGED <<closed, landed>> /\ turn' = Idle
        BY <1>30 DEF FailL1, host
    <2>5. LaneType'
        BY <1>5, <1>28, <1>29, <2>1, <2>2, <2>3, <2>4
    <2>. QED  BY <1>4, <1>10, <1>11, <2>4, <2>5
<1>31. CASE NoCallL1
    <2>1. turn.item \in Chunk
        BY <1>31 DEF NoCallL1, L1Out
    <2>2. OrderQueue(AtHead(turn.item), order, runs, waits, done, merges)
        BY <1>31, Zenon DEF NoCallL1
    <2>3. UNCHANGED store /\ UNCHANGED <<closed, landed>> /\ turn' = Idle
        BY <1>31 DEF NoCallL1, host
    <2>4. LaneType'
        BY <1>2, <1>28, <1>29, <2>1, <2>2, <2>3 DEF LaneType
    <2>. QED  BY <1>4, <1>10, <1>11, <2>3, <2>4
<1>32. CASE PassL1
    <2>1. turn.item \in Chunk
        BY <1>32 DEF PassL1, L1Out
    <2>2. PICK w : OrderQueue(AtHead(turn.item), order, runs, w, done, merges)
        BY <1>32, Zenon DEF PassL1
    <2>3. UNCHANGED store /\ UNCHANGED <<closed, landed>> /\ turn' = [turn EXCEPT !.stage = "scan", !.item = None]
        BY <1>32 DEF PassL1, host
    <2>4. LaneType'
        BY <1>2, <1>28, <1>29, <2>1, <2>2, <2>3 DEF LaneType
    <2>. QED  BY <1>4, <1>10, <1>11, <2>3, <2>4
<1>33. CASE SkipL1
    <2>1. turn.item \in Item
        BY <1>3, <1>33 DEF SkipL1, L1Out
    <2>2. OrderQueue(queue, Failed(order, turn.item), [runs EXCEPT ![turn.item] = NoRun], waits, done, merges)
        BY <1>33, Zenon DEF SkipL1
    <2>3. UNCHANGED store /\ UNCHANGED <<closed, landed>> /\ turn' = [turn EXCEPT !.stage = "scan", !.item = None]
        BY <1>33 DEF SkipL1, host
    <2>4. LaneType'
        BY <1>2, <1>3, <1>5, <1>22, <1>28, <2>1, <2>2, <2>3 DEF LaneType
    <2>. QED  BY <1>4, <1>10, <1>11, <2>3, <2>4
<1>34. CASE DeferL1
    <2>1. turn.item \in Chunk /\ turn.item \in Item /\ turn.stage = "out"
        BY <1>3, <1>34 DEF DeferL1, L1Out
    <2>2. OrderQueue(AtPlace(turn.item), Forgiven(order, turn.item), runs, waits, done, merges)
        BY <1>34, Zenon DEF DeferL1
    <2>3. UNCHANGED store /\ UNCHANGED <<closed, landed>> /\ EndTurn(TRUE)
        BY <1>34 DEF DeferL1, host
    <2>4. LaneType'
        BY <1>2, <1>5, <1>28, <1>29, <2>1, <2>2, <2>3 DEF LaneType
    <2>. QED  BY <1>10, <1>11, <1>16, <2>3, <2>4
<1>35. ASSUME turn.stage = "out", turn.item \in Merge
       PROVE  merges \in Seq(Merge) /\ merges # <<>> /\ turn.item \in Item
    BY <1>2, <1>3, <1>35 DEF AtItem, StoreType
<1>36. CASE LandMerge
    <2>1. turn.stage = "out" /\ turn.item \in Merge /\ turn.item \in Item
        BY <1>3, <1>36 DEF LandMerge, MergeOut
    <2>2. Write(turn.item, TRUE)
        BY <1>36, Zenon DEF LandMerge
    <2>3. done' \in SUBSET Chunk /\ merged' \in SUBSET Merge /\ written' \in [Item -> Nat]
        BY <1>20, <2>1, <2>2
    <2>4. merges' = Tail(CheckMerge(done, merged', merges, parked)) /\ blamed' = blamed /\ parked' = parked
        BY <1>36 DEF LandMerge
    <2>5. merges' \in Seq(Merge)
        BY <1>6, <1>7, <1>8, <1>35, <2>1, <2>4
    <2>6. StoreType'
        BY <1>1, <1>2, <2>3, <2>4, <2>5 DEF StoreType
    <2>7. closed' = closed /\ queue' = queue /\ order' = Forgiven(order, turn.item) /\ landed' = landed + 1 /\ runs' = runs
        BY <1>36 DEF LandMerge, host
    <2>8. LaneType'
        BY <1>0, <1>1, <1>2, <1>5, <2>1, <2>7 DEF LaneType
    <2>. QED  BY <1>10, <1>16, <1>36, <2>6, <2>8 DEF LandMerge
\* The item's entries change; the store may.
<1>37. ASSUME NEW k \in Item, order' = Forgiven(order, k) \/ order' = Failed(order, k),
              \E r \in [n : Nat, at : Nat] : runs' = [runs EXCEPT ![k] = r], UNCHANGED <<closed, queue, landed>>
       PROVE  LaneType'
    BY <1>0, <1>1, <1>2, <1>5, <1>22, <1>37 DEF LaneType
<1>38. CASE DiscardMerge
    <2>1. turn.item \in Item
        BY <1>3, <1>38 DEF DiscardMerge, MergeOut
    <2>2. LaneType'
        BY <1>3, <1>37, <1>38, <2>1 DEF DiscardMerge, host
    <2>. QED  BY <1>10, <1>11, <1>16, <1>38, <2>2 DEF DiscardMerge
<1>39. CASE RejectMerge \/ PersistMerge
    <2>1. turn.stage = "out" /\ turn.item \in Merge /\ turn.item \in Item /\ CountRejection(turn.item)
        BY <1>3, <1>39 DEF RejectMerge, PersistMerge, MergeOut
    <2>2. blamed' = blamed \/ blamed' = [blamed EXCEPT ![turn.item] = @ + 1]
        BY <1>39 DEF RejectMerge, PersistMerge
    <2>3. blamed' \in [Item -> Nat]
        BY <1>2, <1>21, <2>1, <2>2 DEF StoreType
    <2>4. LaneType'
        BY <1>3, <1>37, <2>1 DEF CountRejection, host
    <2>5. merges' \in Seq(Merge) /\ parked' \in SUBSET Merge
        <3>1. Tail(merges) \in Seq(Merge) /\ merges \in Seq(Merge)
            BY <1>8, <1>35, <2>1
        <3>2. \/ merges' = merges /\ parked' = parked
              \/ merges' = CheckMerge(done, merged, Tail(merges), parked') /\ parked' = parked \cup {turn.item}
            BY <2>1 DEF CountRejection
        <3>. QED  BY <1>2, <1>6, <2>1, <3>1, <3>2, ZenonT(30) DEF StoreType
    <2>6. StoreType'
        BY <1>1, <1>2, <2>1, <2>3, <2>5 DEF CountRejection, StoreType
    <2>. QED  BY <1>10, <1>16, <2>1, <2>4, <2>6 DEF CountRejection
<1>40. CASE FailMerge
    <2>1. turn.stage = "out" /\ turn.item \in Merge /\ turn.item \in Item
        BY <1>3, <1>40 DEF FailMerge, MergeOut
    <2>2. LaneType'
        BY <1>3, <1>23, <1>37, <1>40, <2>1 DEF FailMerge, host
    <2>3. merges' \in Seq(Merge)
        BY <1>8, <1>9, <1>35, <1>40, <2>1 DEF FailMerge
    <2>4. StoreType'
        BY <1>1, <1>2, <1>40, <2>3 DEF FailMerge, StoreType
    <2>. QED  BY <1>4, <1>10, <1>40, <2>2, <2>4 DEF FailMerge
<1>41. CASE NoCallMerge
    BY <1>4, <1>10, <1>11, <1>12, <1>41 DEF NoCallMerge, lane, host
<1>42. CASE DeferMerge
    BY <1>10, <1>11, <1>12, <1>16, <1>42 DEF DeferMerge, host
\* The host and the other loads.
<1>43. Supersede => turn' \in Turn
    BY <1>2, <1>4 DEF Supersede
<1>44. ASSUME closed' \in 0..world.chunks, NEW hs, NEW o \in Seq(Item), NEW r \in [Item -> [n : Nat, at : Nat]], NEW w,
              Rebuild(hs, o, r, w), landed' \in Nat
       PROVE  LaneType'
    <2>1. /\ queue' \in Seq(Chunk) /\ order' \in Seq(Item)
          /\ runs' \in [Item -> [n : Nat, at : Nat]]
        BY <1>2, <1>44, RebuildKeeps
    <2>. QED  BY <1>0, <1>1, <1>44, <2>1 DEF LaneType
<1>45. CASE CloseChunk
    <2>1. closed' \in 0..world.chunks /\ landed' \in Nat
        BY <1>2, <1>45, Items DEF CloseChunk, LaneType
    <2>2. LaneType'
        BY <1>2, <1>44, <1>45, <2>1 DEF CloseChunk, LaneType
    <2>. QED  BY <1>10, <1>11, <1>43, <1>45, <2>2 DEF CloseChunk
<1>46. CASE \E c \in Chunk : TakeHold(c) \/ WaitEnds(c)
    <2>1. UNCHANGED store /\ UNCHANGED <<closed, queue, order, runs, landed, turn>>
        BY <1>46 DEF TakeHold, WaitEnds, lane, host
    <2>. QED  BY <1>2, <1>10, <1>11, <1>12, <2>1
<1>47. CASE \E c \in Chunk : ReleaseHold(c)
    <2>1. PICK c \in Chunk : ReleaseHold(c)
        BY <1>47
    <2>2. closed' \in 0..world.chunks /\ landed' \in Nat
        BY <1>2, <2>1 DEF ReleaseHold, LaneType
    <2>3. LaneType'
        BY <1>2, <1>44, <2>1, <2>2 DEF ReleaseHold, LaneType
    <2>. QED  BY <1>10, <1>11, <1>43, <2>1, <2>3 DEF ReleaseHold
<1>48. CASE PauseEnds \/ ToolsArrive
    <2>1. UNCHANGED store /\ UNCHANGED <<closed, queue, order, runs, landed, turn>>
        BY <1>48 DEF PauseEnds, ToolsArrive, lane, host
    <2>. QED  BY <1>2, <1>10, <1>11, <1>12, <2>1
<1>49. CASE \E m \in Merge : ClearParked(m)
    <2>1. PICK m \in Merge : ClearParked(m)
        BY <1>49
    <2>2. merges' \in Seq(Merge)
        BY <1>2, <1>6, <1>9, <2>1 DEF ClearParked, StoreType
    <2>3. StoreType'
        BY <1>1, <1>2, <2>1, <2>2 DEF ClearParked, StoreType
    <2>. QED  BY <1>2, <1>10, <1>12, <2>1, <2>3 DEF ClearParked, lane, host
<1>50. CASE Reload
    <2>1. closed' \in 0..world.chunks /\ landed' \in Nat /\ UNCHANGED store /\ turn' = Idle
        BY <1>2, <1>50 DEF Reload, LaneType, host
    <2>2. LaneType'
        BY <1>2, <1>44, <1>50, <2>1 DEF Reload, LaneType
    <2>. QED  BY <1>4, <1>10, <1>11, <2>1, <2>2
<1>51. CASE \E s \in stale : ReturnStale(s)
    <2>1. PICK s \in stale : ReturnStale(s)
        BY <1>51
    <2>2. StoreType'
        BY <1>11, <2>1, StaleWritesNothing
    <2>3. UNCHANGED <<closed, queue, order, runs, landed, turn>>
        BY <2>1 DEF ReturnStale, lane, host
    <2>. QED  BY <1>2, <1>10, <1>12, <2>2, <2>3
<1>52. CASE Restart
    <2>1. closed' \in 0..world.chunks /\ landed' \in Nat /\ UNCHANGED store /\ turn' = Idle
        BY <1>2, <1>52 DEF Restart, LaneType
    <2>2. <<>> \in Seq(Item) /\ [k \in Item |-> NoRun] \in [Item -> [n : Nat, at : Nat]]
        BY <1>3
    <2>3. Rebuild({}, <<>>, [k \in Item |-> NoRun], {})
        BY <1>52, Zenon DEF Restart
    <2>4. LaneType'
        BY <1>44, <2>1, <2>2, <2>3
    <2>. QED  BY <1>4, <1>10, <1>11, <2>1, <2>4
<1>53. CASE UNCHANGED vars
    BY <1>0, <1>1, <1>2, <1>10, <1>11, <1>12, <1>53 DEF vars, lane, host
<1>. QED
    BY <1>14, <1>15, <1>19, <1>25, <1>27, <1>30, <1>31, <1>32, <1>33, <1>34, <1>36, <1>38, <1>39, <1>40, <1>41, <1>42,
       <1>45, <1>46, <1>47, <1>48, <1>49, <1>50, <1>51, <1>52, <1>53 DEF Next, Answer, Host

-----------------------------------------------------------------------------
(* What is written is written once.                                        *)

\* A merge waits once, and neither written nor parked.
MergesOnce ==
    /\ IsInjective(merges)
    /\ ToSet(merges) \cap (merged \cup parked) = {} /\ merged \cap parked = {}

WrittenIsStored == \A k \in Item : written[k] = IF k \in done \cup merged THEN 1 ELSE 0

StoreInv == AtItem /\ MergesOnce /\ WrittenIsStored

\* The merge out is the head of its queue, and stands there once.
LEMMA HeadOut ==
    ASSUME TypeInv, AtItem, MergesOnce, turn.stage = "out", turn.item \in Merge
    PROVE  /\ merges \in Seq(Merge) /\ merges # <<>> /\ Head(merges) = turn.item
           /\ Tail(merges) \in Seq(Merge) /\ IsInjective(Tail(merges))
           /\ ToSet(Tail(merges)) = ToSet(merges) \ {turn.item} /\ turn.item \in ToSet(merges)
           /\ turn.item \notin merged \cup parked
<1>1. merges \in Seq(Merge) /\ merges # <<>> /\ Head(merges) = turn.item /\ IsInjective(merges)
    BY Items DEF AtItem, TypeInv, StoreType, MergesOnce
<1>2. /\ Tail(merges) \in Seq(Merge) /\ IsInjective(Tail(merges))
      /\ ToSet(Tail(merges)) = ToSet(merges) \ {Head(merges)} /\ Head(merges) \in ToSet(merges)
    BY <1>1, TailElements
<1>3. turn.item \notin merged \cup parked
    BY <1>1, <1>2, Zenon DEF MergesOnce
<1>. QED  BY <1>1, <1>2, <1>3

LEMMA StoreNext == TypeInv /\ StoreInv /\ [Next]_vars => StoreInv'
<1> SUFFICES ASSUME TypeInv, StoreInv, [Next]_vars PROVE StoreInv'
    OBVIOUS
<1>0. world' = world
    BY DEF Next, vars, HostTick, DrainTick, Scan, Answer, Host, LandL1, RejectL1, PersistL1, DecideRung, FailL1, NoCallL1,
           PassL1, SkipL1, DeferL1, LandMerge, DiscardMerge, RejectMerge, PersistMerge, CountRejection, FailMerge, NoCallMerge,
           DeferMerge, CloseChunk, TakeHold, ReleaseHold, PauseEnds, WaitEnds, ToolsArrive, ClearParked, Reload, ReturnStale, Restart
<1>1. Chunk' = Chunk /\ Merge' = Merge /\ Item' = Item
    BY <1>0 DEF Chunk, Merge, Item
<1>2. /\ world \in Worlds /\ StoreType /\ LaneType /\ turn \in Turn
      /\ AtItem /\ MergesOnce /\ WrittenIsStored
    BY DEF TypeInv, StoreInv
<1>3. /\ Chunk \subseteq Item /\ Merge \subseteq Item
      /\ \A c \in Chunk : c \notin Merge
      /\ None \notin Item
    BY <1>2, Items DEF Item
<1>4. Idle.stage = "idle" /\ Idle.item = None
    BY DEF Idle
\* What the store holds stays, but for the turn.
<1>5. UNCHANGED <<merges, merged, parked>> => MergesOnce'
    BY <1>2 DEF MergesOnce
<1>6. UNCHANGED <<written, done, merged>> => WrittenIsStored'
    BY <1>1, <1>2 DEF WrittenIsStored
<1>7. UNCHANGED store => MergesOnce' /\ WrittenIsStored'
    BY <1>5, <1>6 DEF store
<1>8. turn' = Idle => AtItem'
    BY <1>4 DEF AtItem
<1>9. \A p : EndTurn(p) => AtItem'
    BY <1>8 DEF EndTurn
<1>10. turn' = [turn EXCEPT !.stage = "scan", !.item = None] => AtItem'
    BY <1>2 DEF AtItem, Turn
<1>11. UNCHANGED <<turn, done, merges>> => AtItem'
    BY <1>1, <1>2 DEF AtItem
<1>12. UNCHANGED <<done, merges>> /\ Supersede => AtItem'
    BY <1>1, <1>2, <1>4 DEF AtItem, Supersede, Turn
\* The merges the list gains are ready.
<1>13. ASSUME NEW ms \in Seq(Merge), NEW mg, NEW dn, NEW pk,
              IsInjective(ms), ToSet(ms) \cap (mg \cup pk) = {}
       PROVE  /\ CheckMerge(dn, mg, ms, pk) \in Seq(Merge) /\ IsInjective(CheckMerge(dn, mg, ms, pk))
              /\ ToSet(CheckMerge(dn, mg, ms, pk)) \cap (mg \cup pk) = {}
              /\ ms # <<>> => CheckMerge(dn, mg, ms, pk) # <<>> /\ Head(CheckMerge(dn, mg, ms, pk)) = Head(ms)
    <2> DEFINE r == CheckMerge(dn, mg, ms, pk)
    <2>1. /\ r \in Seq(Merge)
          /\ ToSet(r) = ToSet(ms) \cup {m \in Merge : Ready(m, dn, mg, ms, pk)}
          /\ IsInjective(ms) => IsInjective(r)
          /\ ms # <<>> => r # <<>> /\ Head(r) = Head(ms)
        BY <1>2, CheckMergeKeeps, Zenon
    <2>2. \A m \in Merge : Ready(m, dn, mg, ms, pk) => m \notin mg \cup pk
        BY Zenon DEF Ready
    <2>. QED  BY <1>13, <2>1, <2>2, Zenon
<1>14. turn.stage = "out" /\ turn.item \in Merge =>
           /\ merges \in Seq(Merge) /\ merges # <<>> /\ Head(merges) = turn.item
           /\ Tail(merges) \in Seq(Merge) /\ IsInjective(Tail(merges))
           /\ ToSet(Tail(merges)) = ToSet(merges) \ {turn.item} /\ turn.item \in ToSet(merges)
           /\ turn.item \notin merged \cup parked
    BY <1>2, HeadOut
\* An item that was not in the store is written.
<1>15. ASSUME NEW k \in Item, k \notin done \cup merged, Write(k, TRUE) PROVE WrittenIsStored'
    <2>1. written' = [written EXCEPT ![k] = @ + 1] /\ done' \cup merged' = done \cup merged \cup {k}
        BY <1>15, Zenon DEF Write, Item
    <2>2. /\ written \in [Item -> Nat] /\ \A j \in Item : written[j] = IF j \in done \cup merged THEN 1 ELSE 0
        BY <1>2 DEF StoreType, WrittenIsStored
    <2>. QED  BY <1>1, <1>15, <2>1, <2>2 DEF WrittenIsStored
<1>16. \A s \in stale : ReturnStale(s) => UNCHANGED store
    BY StaleWritesNothing
<1>17. CASE HostTick \/ DrainTick
    <2>1. UNCHANGED store
        BY <1>17 DEF HostTick, DrainTick
    <2>2. turn' = turn \/ (turn'.stage # "out" /\ turn'.item = None)
        BY <1>17 DEF HostTick, DrainTick, Begin, Began, Idle
    <2>3. AtItem'
        BY <1>11, <2>1, <2>2 DEF store, AtItem
    <2>. QED  BY <1>7, <2>1, <2>3 DEF StoreInv
<1>18. ASSUME NEW i \in Turns, TakeChunk(i), turn.stage = "scan", UNCHANGED done PROVE AtItem'
    <2> DEFINE c == turn.left[i]
               from == [turn EXCEPT !.left = SubSeq(@, i + 1, Len(@)), !.progress = TRUE,
                                    !.at = Place(c, queue), !.superseded = FALSE]
    <2>1. turn.left \in Seq(Chunk) /\ queue \in Seq(Chunk) /\ turn \in Turn /\ turn.item = None
        BY <1>2, <1>18 DEF LaneType, Turn, AtItem
    <2>2. i \in 1..Len(turn.left) /\ Len(turn.left) \in Nat
        BY <2>1, LenProperties DEF Turns
    <2>3. c \in Chunk
        BY <2>1, <2>2, ElementOfSeq
    <2>4. c \in ToSet(queue)
        BY <1>18, <2>1, ContainsIsElement, Zenon DEF Turns, Workable
    <2>5. Place(c, queue) # 0
        BY <2>1, <2>4, PlaceType
    <2>6. from.stage = "scan" /\ from.item = None
        BY <1>18, <2>1 DEF Turn
    <2>7. \A kind : LET t == [from EXCEPT !.stage = "out", !.item = c, !.kind = kind] IN
              t.stage = "out" /\ t.item = c /\ t.at # 0
        BY <2>1, <2>5 DEF Turn
    <2>8. \/ c \in done /\ turn' = from
          \/ EndTurn(TRUE)
          \/ c \notin done /\ \E kind : turn' = [from EXCEPT !.stage = "out", !.item = c, !.kind = kind]
        BY <1>18 DEF TakeChunk, c, from
    <2> HIDE DEF from, c
    <2>9. CASE turn' = from
        BY <2>6, <2>9, Zenon DEF AtItem
    <2>10. CASE c \notin done /\ \E kind : turn' = [from EXCEPT !.stage = "out", !.item = c, !.kind = kind]
        <3>1. turn'.stage = "out" /\ turn'.item = c /\ turn'.at # 0
            BY <2>7, <2>10, Zenon
        <3>2. turn'.item \in Chunk' /\ turn'.item \notin done'
            BY <1>1, <1>18, <2>3, <2>10, <3>1
        <3>. QED  BY <3>1, <3>2 DEF AtItem
    <2>. QED  BY <1>9, <2>8, <2>9, <2>10
<1>19. CASE Scan
    <2>1. UNCHANGED store /\ UNCHANGED <<done, merges>> /\ turn.stage = "scan"
        BY <1>19 DEF Scan, store
    <2>2. ASSUME GoMerge PROVE AtItem'
        <3>1. EndTurn(FALSE) \/ (merges # <<>> /\ \E kind : turn' = Out(Head(merges), kind))
            BY <2>2 DEF GoMerge
        <3>2. CASE merges # <<>> /\ \E kind : turn' = Out(Head(merges), kind)
            <4>1. merges \in Seq(Merge) /\ Head(merges) \in Merge
                BY <1>2, <3>2, HeadTailProperties DEF StoreType
            <4>2. turn'.stage = "out" /\ turn'.item = Head(merges)
                BY <1>2, <3>2 DEF Out, Turn
            <4>. QED  BY <1>1, <2>1, <3>2, <4>1, <4>2 DEF AtItem
        <3>. QED  BY <1>9, <3>1, <3>2
    <2>3. \A i \in Turns : TakeChunk(i) => AtItem'
        BY <1>18, <2>1
    <2>4. AtItem'
        BY <1>19, <2>2, <2>3, Zenon DEF Scan
    <2>. QED  BY <1>7, <2>1, <2>4 DEF StoreInv
<1>20. CASE LandL1
    <2> DEFINE c == turn.item
    <2>1. c \in Chunk /\ c \in Item /\ turn.stage = "out"
        BY <1>3, <1>20 DEF LandL1, L1Out
    <2>2. c \notin done /\ c \notin merged
        BY <1>2, <1>3, <2>1 DEF AtItem, StoreType
    <2>3. Write(c, ~Blocked(c, held)) /\ EndTurn(TRUE) /\ parked' = parked
        BY <1>20 DEF LandL1
    <2>4. merged' = merged
        BY <1>3, <2>1, <2>3, Zenon DEF Write
    <2>5. merges' = CheckMerge(done', merged, merges, parked)
        BY <1>20, Zenon DEF LandL1
    <2>6. WrittenIsStored'
        <3>1. CASE Blocked(c, held)
            <4>1. UNCHANGED <<done, merged, written>>
                BY <2>3, <3>1 DEF Write
            <4>. QED  BY <1>6, <4>1
        <3>2. CASE ~Blocked(c, held)
            BY <1>15, <2>1, <2>2, <2>3, <3>2
        <3>. QED  BY <3>1, <3>2
    <2>7. MergesOnce'
        <3>1. merges \in Seq(Merge) /\ IsInjective(merges) /\ ToSet(merges) \cap (merged \cup parked) = {} /\ merged \cap parked = {}
            BY <1>2 DEF StoreType, MergesOnce
        <3>2. IsInjective(merges') /\ ToSet(merges') \cap (merged \cup parked) = {}
            BY <1>13, <2>5, <3>1, Zenon
        <3>. QED  BY <2>3, <2>4, <3>1, <3>2, Zenon DEF MergesOnce
    <2>. QED  BY <1>9, <2>3, <2>6, <2>7 DEF StoreInv
<1>21. CASE RejectL1 \/ PersistL1
    <2>1. DecideRung(turn.item)
        BY <1>21 DEF RejectL1, PersistL1
    <2>2. UNCHANGED <<done, merged, written, merges, parked>> /\ (turn' = turn \/ EndTurn(TRUE))
        BY <2>1 DEF DecideRung
    <2>. QED  BY <1>5, <1>6, <1>9, <1>11, <2>2 DEF StoreInv
<1>22. CASE FailL1 \/ NoCallL1 \/ PassL1 \/ SkipL1 \/ DeferL1
    <2>1. UNCHANGED store /\ (turn' = Idle \/ EndTurn(TRUE) \/ turn' = [turn EXCEPT !.stage = "scan", !.item = None])
        BY <1>22 DEF FailL1, NoCallL1, PassL1, SkipL1, DeferL1
    <2>. QED  BY <1>7, <1>8, <1>9, <1>10, <2>1 DEF StoreInv
<1>23. CASE LandMerge
    <2> DEFINE m == turn.item
               r == CheckMerge(done, merged', merges, parked)
    <2>1. m \in Merge /\ m \in Item /\ turn.stage = "out" /\ m \notin Chunk
        BY <1>3, <1>23 DEF LandMerge, MergeOut
    <2>2. Write(m, TRUE) /\ EndTurn(TRUE) /\ parked' = parked /\ merges' = Tail(r)
        BY <1>23 DEF LandMerge
    <2>3. merged' = merged \cup {m} /\ done' = done
        BY <2>1, <2>2, Zenon DEF Write
    <2>4. /\ merges \in Seq(Merge) /\ merges # <<>> /\ Head(merges) = m /\ m \notin merged \cup parked
          /\ IsInjective(merges) /\ ToSet(merges) \cap (merged \cup parked) = {} /\ merged \cap parked = {}
        BY <1>2, <1>14, <2>1 DEF MergesOnce
    <2>5. m \notin done
        BY <1>2, <2>1 DEF StoreType
    <2>6. WrittenIsStored'
        BY <1>15, <2>1, <2>2, <2>4, <2>5
    <2>7. /\ r \in Seq(Merge)
          /\ ToSet(r) = ToSet(merges) \cup {x \in Merge : Ready(x, done, merged', merges, parked)}
          /\ IsInjective(r) /\ r # <<>> /\ Head(r) = m
        BY <1>2, <2>4, CheckMergeKeeps
    <2>8. \A x \in ToSet(r) : x \notin merged \cup parked
        BY <2>3, <2>4, <2>7, Zenon DEF Ready
    <2> HIDE DEF r, m
    <2>9. IsInjective(Tail(r)) /\ ToSet(Tail(r)) = ToSet(r) \ {m}
        BY <2>7, TailElements, Zenon
    <2>10. MergesOnce'
        BY <2>2, <2>3, <2>4, <2>8, <2>9, Zenon DEF MergesOnce
    <2>. QED  BY <1>9, <2>2, <2>6, <2>10 DEF StoreInv
<1>24. CASE DiscardMerge \/ NoCallMerge \/ DeferMerge
    <2>1. UNCHANGED store /\ (turn' = Idle \/ EndTurn(TRUE) \/ EndTurn(FALSE))
        BY <1>24 DEF DiscardMerge, NoCallMerge, DeferMerge
    <2>. QED  BY <1>7, <1>8, <1>9, <2>1 DEF StoreInv
<1>25. CASE RejectMerge \/ PersistMerge
    <2> DEFINE m == turn.item
    <2>1. m \in Merge /\ turn.stage = "out" /\ CountRejection(m)
        BY <1>25 DEF RejectMerge, PersistMerge, MergeOut
    <2>2. /\ UNCHANGED <<done, merged, written>> /\ EndTurn(TRUE)
          /\ \/ merges' = merges /\ parked' = parked
             \/ merges' = CheckMerge(done, merged, Tail(merges), parked') /\ parked' = parked \cup {m}
        BY <2>1 DEF CountRejection
    <2>3. /\ merges \in Seq(Merge) /\ Tail(merges) \in Seq(Merge) /\ IsInjective(Tail(merges))
          /\ ToSet(Tail(merges)) = ToSet(merges) \ {m} /\ m \notin merged \cup parked
          /\ ToSet(merges) \cap (merged \cup parked) = {} /\ merged \cap parked = {}
        BY <1>2, <1>14, <2>1 DEF MergesOnce
    <2> HIDE DEF m
    <2>4. MergesOnce'
        <3>1. CASE merges' = merges /\ parked' = parked
            BY <1>5, <2>2, <3>1
        <3>2. CASE merges' = CheckMerge(done, merged, Tail(merges), parked') /\ parked' = parked \cup {m}
            <4>1. ToSet(Tail(merges)) \cap (merged \cup parked') = {} /\ merged \cap parked' = {}
                BY <2>3, <3>2, Zenon
            <4>2. IsInjective(merges') /\ ToSet(merges') \cap (merged \cup parked') = {}
                <5> DEFINE q == Tail(merges)
                <5>1. q \in Seq(Merge) /\ IsInjective(q) /\ ToSet(q) \cap (merged \cup parked') = {}
                    BY <2>3, <4>1, Zenon
                <5>2. merges' = CheckMerge(done, merged, q, parked')
                    BY <3>2, Zenon
                <5> HIDE DEF q
                <5>. QED  BY <1>13, <5>1, <5>2, Zenon
            <4>. QED  BY <2>2, <4>1, <4>2, Zenon DEF MergesOnce
        <3>. QED  BY <2>2, <3>1, <3>2
    <2>. QED  BY <1>6, <1>9, <2>2, <2>4 DEF StoreInv
<1>26. CASE FailMerge
    <2> DEFINE m == turn.item
    <2>1. m \in Merge /\ turn.stage = "out"
        BY <1>26 DEF FailMerge, MergeOut
    <2>2. UNCHANGED <<done, merged, written, parked>> /\ turn' = Idle /\ merges' = Append(Tail(merges), m)
        BY <1>26 DEF FailMerge
    <2>3. /\ Tail(merges) \in Seq(Merge) /\ IsInjective(Tail(merges))
          /\ ToSet(Tail(merges)) = ToSet(merges) \ {m} /\ m \in ToSet(merges)
          /\ ToSet(merges) \cap (merged \cup parked) = {} /\ merged \cap parked = {}
        BY <1>2, <1>14, <2>1 DEF MergesOnce
    <2>4. IsInjective(Append(Tail(merges), m)) /\ ToSet(Append(Tail(merges), m)) = ToSet(Tail(merges)) \cup {m}
        <3>1. m \notin ToSet(Tail(merges))
            BY <2>3, Zenon
        <3> DEFINE q == Tail(merges)
        <3>2. q \in Seq(Merge) /\ IsInjective(q) /\ m \notin ToSet(q) /\ m \in Merge
            BY <2>1, <2>3, <3>1, Zenon
        <3> HIDE DEF q, m
        <3>3. /\ Append(q, m) \in Seq(Merge) /\ Append(q, m) # <<>>
              /\ ToSet(Append(q, m)) = ToSet(q) \cup {m}
              /\ IsInjective(q) /\ m \notin ToSet(q) => IsInjective(Append(q, m))
            BY <3>2, AppendElements
        <3>. QED  BY <3>2, <3>3, Zenon DEF q
    <2>5. MergesOnce'
        BY <2>2, <2>3, <2>4, Zenon DEF MergesOnce
    <2>. QED  BY <1>6, <1>8, <2>2, <2>5 DEF StoreInv
<1>27. CASE CloseChunk \/ (\E c \in Chunk : ReleaseHold(c)) \/ (\E c \in Chunk : TakeHold(c) \/ WaitEnds(c))
            \/ PauseEnds \/ ToolsArrive \/ Reload \/ Restart
    <2>1. UNCHANGED store /\ (turn' = turn \/ turn' = Idle \/ Supersede)
        BY <1>27 DEF CloseChunk, ReleaseHold, TakeHold, WaitEnds, PauseEnds, ToolsArrive, Reload, Restart
    <2>2. UNCHANGED <<done, merges>>
        BY <2>1 DEF store
    <2>. QED  BY <1>7, <1>8, <1>11, <1>12, <2>1, <2>2 DEF StoreInv
<1>28. CASE \E m \in Merge : ClearParked(m)
    <2>1. PICK m \in Merge : ClearParked(m)
        BY <1>28
    <2>2. /\ UNCHANGED <<done, merged, written, turn>> /\ m \in parked /\ parked' = parked \ {m}
          /\ merges' = CheckMerge(done, merged, Append(merges, m), parked')
        BY <2>1 DEF ClearParked
    <2>3. /\ merges \in Seq(Merge) /\ IsInjective(merges)
          /\ ToSet(merges) \cap (merged \cup parked) = {} /\ merged \cap parked = {}
        BY <1>2 DEF StoreType, MergesOnce
    <2>4. m \notin ToSet(merges) /\ m \notin merged
        BY <2>2, <2>3, Zenon
    <2> DEFINE ms == Append(merges, m)
    <2>5. ms \in Seq(Merge) /\ ms # <<>> /\ IsInjective(ms) /\ ToSet(ms) = ToSet(merges) \cup {m}
        BY <2>3, <2>4, AppendElements, ZenonT(30)
    <2>6. merges # <<>> => Head(ms) = Head(merges)
        BY <2>3, HeadTailAppend
    <2> HIDE DEF ms
    <2>7. ToSet(ms) \cap (merged \cup parked') = {} /\ merged \cap parked' = {}
        BY <2>2, <2>3, <2>4, <2>5, Zenon
    <2>8. /\ IsInjective(merges') /\ ToSet(merges') \cap (merged \cup parked') = {}
          /\ merges' # <<>> /\ Head(merges') = Head(ms)
        <3>1. /\ IsInjective(CheckMerge(done, merged, ms, parked'))
              /\ ToSet(CheckMerge(done, merged, ms, parked')) \cap (merged \cup parked') = {}
            <4>1. ms \in Seq(Merge) /\ IsInjective(ms) /\ ToSet(ms) \cap (merged \cup parked') = {}
                BY <2>5, <2>7, Zenon
            <4>. QED  BY <1>13, <4>1, Zenon
        <3>2. CheckMerge(done, merged, ms, parked') # <<>> /\ Head(CheckMerge(done, merged, ms, parked')) = Head(ms)
            BY <1>2, <2>5, CheckMergeKeeps
        <3>. QED  BY <2>2, <2>5, <3>1, <3>2, Zenon DEF ms
    <2>9. MergesOnce'
        BY <2>2, <2>7, <2>8, Zenon DEF MergesOnce
    <2>10. AtItem'
        BY <1>1, <1>2, <2>2, <2>6, <2>8 DEF AtItem
    <2>. QED  BY <1>6, <2>2, <2>9, <2>10 DEF StoreInv
<1>29. CASE \E s \in stale : ReturnStale(s)
    <2>1. UNCHANGED <<done, merged, written, merges, parked, turn>>
        BY <1>16, <1>29 DEF ReturnStale, store
    <2>. QED  BY <1>5, <1>6, <1>11, <2>1 DEF StoreInv
<1>30. CASE UNCHANGED vars
    BY <1>7, <1>11, <1>30 DEF vars, store, StoreInv
<1>. QED
    BY <1>17, <1>19, <1>20, <1>21, <1>22, <1>23, <1>24, <1>25, <1>26, <1>27, <1>28, <1>29, <1>30 DEF Next, Answer, Host

-----------------------------------------------------------------------------
(* An outage decides nothing.                                              *)

Stored == Cardinality(done \cup merged)
Spent(k) == blamed[k] * (world.persistent - 1)

\* Each failure of a run but its first was counted on a landing since the one
\* before; with those the decided runs stand on, they are among the landings.
EvidenceFor(r, spent, stored, landings) ==
    /\ r.n < world.persistent /\ r.at <= landings
    /\ IF r.n = 0 THEN spent <= stored ELSE spent + (r.n - 1) + (landings - r.at) <= stored
Evidence == \A k \in Item : EvidenceFor(runs[k], Spent(k), Stored, landed)

LEMMA EvidenceForms ==
    ASSUME NEW r \in [n : Nat, at : Nat], NEW spent \in Int, NEW stored \in Nat, landed \in Nat,
           world.persistent \in Nat \ {0}, EvidenceFor(r, spent, stored, landed)
    PROVE  /\ \A l \in Nat : EvidenceFor(NoRun, spent, stored, l)
           /\ EvidenceFor(r, spent, stored + 1, landed + 1)
           /\ NextRun(r).n < world.persistent => EvidenceFor(NextRun(r), spent, stored, landed)
           /\ NextRun(r).n >= world.persistent => spent + (world.persistent - 1) <= stored
<1>1. \A l \in Nat : EvidenceFor(NoRun, spent, stored, l)
    BY DEF EvidenceFor, NoRun
<1>2. EvidenceFor(r, spent, stored + 1, landed + 1)
    BY DEF EvidenceFor
<1>3. NextRun(r).n < world.persistent => EvidenceFor(NextRun(r), spent, stored, landed)
    BY DEF EvidenceFor, NextRun
<1>4. NextRun(r).n >= world.persistent => spent + (world.persistent - 1) <= stored
    BY DEF EvidenceFor, NextRun
<1>. QED  BY <1>1, <1>2, <1>3, <1>4

\* One more decision is one more run of persistent failures spent.
LEMMA OneMore ==
    ASSUME NEW b \in Nat, NEW p \in Nat
    PROVE  (b + 1) * p = b * p + p /\ b * p \in Nat
OBVIOUS

LEMMA EvidenceNext == TypeInv /\ StoreInv /\ Evidence /\ [Next]_vars => Evidence'
<1> SUFFICES ASSUME TypeInv, StoreInv, Evidence, [Next]_vars PROVE Evidence'
    OBVIOUS
<1>0. world' = world
    BY DEF Next, vars, HostTick, DrainTick, Scan, Answer, Host, LandL1, RejectL1, PersistL1, DecideRung, FailL1, NoCallL1,
           PassL1, SkipL1, DeferL1, LandMerge, DiscardMerge, RejectMerge, PersistMerge, CountRejection, FailMerge, NoCallMerge,
           DeferMerge, CloseChunk, TakeHold, ReleaseHold, PauseEnds, WaitEnds, ToolsArrive, ClearParked, Reload, ReturnStale, Restart
<1>1. Item' = Item /\ world'.persistent = world.persistent
    BY <1>0 DEF Chunk, Merge, Item
<1>2. /\ world \in Worlds /\ StoreType /\ LaneType /\ AtItem /\ MergesOnce /\ world.persistent \in Nat \ {0}
      /\ Chunk \subseteq Item /\ Merge \subseteq Item /\ \A c \in Chunk : c \notin Merge
    BY Items DEF TypeInv, StoreInv, Item
<1>3. landed \in Nat /\ \A k \in Item : runs[k] \in [n : Nat, at : Nat] /\ blamed[k] \in Nat
    BY <1>2 DEF LaneType, StoreType
<1>4. \A k \in Item : Spent(k) \in Nat
    BY <1>2, <1>3, OneMore DEF Spent
<1>5. IsFiniteSet(done \cup merged) /\ Stored \in Nat
    <2>1. IsFiniteSet(Chunk \cup Merge) /\ done \cup merged \in SUBSET (Chunk \cup Merge)
        BY <1>2, Items DEF StoreType
    <2>2. IsFiniteSet(done \cup merged)
        BY <2>1, FS_Subset, Zenon
    <2>. QED  BY <2>2, FS_CardinalityType DEF Stored
<1>6. \A k \in Item :
          /\ EvidenceFor(runs[k], Spent(k), Stored, landed)
          /\ \A l \in Nat : EvidenceFor(NoRun, Spent(k), Stored, l)
          /\ EvidenceFor(runs[k], Spent(k), Stored + 1, landed + 1)
          /\ NextRun(runs[k]).n < world.persistent => EvidenceFor(NextRun(runs[k]), Spent(k), Stored, landed)
          /\ NextRun(runs[k]).n >= world.persistent => Spent(k) + (world.persistent - 1) <= Stored
    <2>1. TAKE k \in Item
    <2>2. EvidenceFor(runs[k], Spent(k), Stored, landed)
        BY DEF Evidence
    <2>. QED  BY <1>2, <1>3, <1>4, <1>5, <2>2, EvidenceForms
\* It is enough to give the evidence over what a step leaves.
<1>7. ASSUME NEW st, NEW l, Stored' = st, landed' = l, UNCHANGED blamed,
             \A k \in Item : EvidenceFor(runs'[k], Spent(k), st, l)
      PROVE  Evidence'
    BY <1>0, <1>1, <1>7, Zenon DEF Evidence, EvidenceFor, Spent
<1>8. UNCHANGED <<done, merged>> => Stored' = Stored
    BY Zenon DEF Stored
<1>9. ASSUME UNCHANGED <<done, merged, blamed, landed>>, \A k \in Item : runs'[k] = runs[k] \/ runs'[k] = NoRun
      PROVE  Evidence'
    <2>1. \A k \in Item : EvidenceFor(runs'[k], Spent(k), Stored, landed)
        BY <1>3, <1>6, <1>9, Zenon
    <2>. QED  BY <1>7, <1>8, <1>9, <2>1
<1>10. UNCHANGED <<store, runs, landed>> => Evidence'
    BY <1>9 DEF store
\* A landing of an item the store did not hold.
<1>11. ASSUME NEW k \in Item, k \notin done \cup merged, done' \cup merged' = done \cup merged \cup {k},
              landed' = landed + 1, UNCHANGED blamed, \A j \in Item : runs'[j] = runs[j] \/ runs'[j] = NoRun
       PROVE  Evidence'
    <2>1. Stored' = Stored + 1
        <3>1. Cardinality(done \cup merged \cup {k}) = Cardinality(done \cup merged) + 1
            BY <1>5, <1>11, FS_AddElement
        <3>. QED  BY <1>11, <3>1 DEF Stored
    <2>2. \A j \in Item : EvidenceFor(NoRun, Spent(j), Stored + 1, landed + 1)
        <3>1. \A j \in Item : EvidenceFor(NoRun, Spent(j), Stored, landed)
            BY <1>3, <1>6
        <3>. QED  BY <1>3, <1>4, <1>5, <3>1 DEF EvidenceFor, NoRun
    <2>3. \A j \in Item : EvidenceFor(runs'[j], Spent(j), Stored + 1, landed + 1)
        BY <1>6, <1>11, <2>2, Zenon
    <2>. QED  BY <1>7, <1>11, <2>1, <2>3
<1>12. CASE LandL1
    <2> DEFINE c == turn.item
    <2>1. c \in Chunk /\ c \in Item /\ c \notin done /\ c \notin merged
        BY <1>2, <1>12 DEF LandL1, L1Out, AtItem, StoreType
    <2>2. /\ Write(c, ~Blocked(c, held)) /\ blamed' = blamed
          /\ landed' = IF c \in done' THEN landed + 1 ELSE landed
          /\ runs' = [runs EXCEPT ![c] = IF c \in done' THEN NoRun ELSE @]
        BY <1>12 DEF LandL1
    <2>3. merged' = merged /\ done' = IF Blocked(c, held) THEN done ELSE done \cup {c}
        BY <1>2, <2>1, <2>2, Zenon DEF Write
    <2>4. \A j \in Item : runs'[j] = runs[j] \/ runs'[j] = NoRun
        BY <1>2, <2>2 DEF LaneType
    <2> HIDE DEF c
    <2>5. CASE Blocked(c, held)
        <3>1. UNCHANGED <<done, merged, blamed, landed>>
            BY <2>1, <2>2, <2>3, <2>5
        <3>. QED  BY <1>9, <2>4, <3>1
    <2>6. CASE ~Blocked(c, held)
        <3>1. done' \cup merged' = done \cup merged \cup {c} /\ c \notin done \cup merged /\ landed' = landed + 1
            BY <2>1, <2>2, <2>3, <2>6
        <3>. QED  BY <1>11, <2>1, <2>2, <2>4, <3>1
    <2>. QED  BY <2>5, <2>6
<1>13. CASE LandMerge
    <2> DEFINE m == turn.item
    <2>1. m \in Merge /\ m \in Item /\ m \notin done /\ turn.stage = "out"
        BY <1>2, <1>13 DEF LandMerge, MergeOut, StoreType
    <2>2. Write(m, TRUE) /\ blamed' = blamed /\ runs' = runs /\ landed' = landed + 1
        BY <1>13 DEF LandMerge
    <2>3. merged' = merged \cup {m} /\ done' = done
        BY <1>2, <2>1, <2>2, Zenon DEF Write
    <2>4. m \notin merged
        BY <1>2, <2>1, HeadOut
    <2>. QED  BY <1>11, <2>1, <2>2, <2>3, <2>4
\* A decision on an item: its run is over, and it may have persisted.
<1>14. ASSUME NEW k \in Item, UNCHANGED <<done, merged, landed>>, runs' = [runs EXCEPT ![k] = NoRun],
              \/ blamed' = blamed
              \/ Persists(k) /\ blamed' = [blamed EXCEPT ![k] = @ + 1]
       PROVE  Evidence'
    <2>1. \A j \in Item : runs'[j] = IF j = k THEN NoRun ELSE runs[j]
        BY <1>2, <1>14 DEF LaneType
    <2>2. CASE blamed' = blamed
        BY <1>9, <1>14, <2>1, <2>2
    <2>3. CASE Persists(k) /\ blamed' = [blamed EXCEPT ![k] = @ + 1]
        <3> DEFINE spent(j) == IF j = k THEN Spent(k) + (world.persistent - 1) ELSE Spent(j)
        <3>1. \A j \in Item : blamed'[j] * (world'.persistent - 1) = spent(j)
            <4>1. \A j \in Item : blamed'[j] = IF j = k THEN blamed[k] + 1 ELSE blamed[j]
                BY <1>2, <2>3 DEF StoreType
            <4>2. (blamed[k] + 1) * (world.persistent - 1) = Spent(k) + (world.persistent - 1)
                BY <1>2, <1>3, OneMore DEF Spent
            <4>. QED  BY <1>1, <4>1, <4>2 DEF Spent
        <3>2. Spent(k) + (world.persistent - 1) <= Stored
            <4>1. NextRun(runs[k]) \in [n : Nat, at : Nat]
                BY <1>3, NextRunType
            <4>. QED  BY <1>2, <1>6, <2>3, <4>1 DEF Persists
        <3>3. \A j \in Item : EvidenceFor(runs'[j], spent(j), Stored, landed)
            <4>1. EvidenceFor(NoRun, Spent(k) + (world.persistent - 1), Stored, landed)
                BY <1>2, <1>3, <3>2 DEF EvidenceFor, NoRun
            <4>. QED  BY <1>6, <2>1, <4>1
        <3>4. \A j \in Item : Spent(j)' = spent(j)
            BY <3>1 DEF Spent
        <3> HIDE DEF spent
        <3>. QED  BY <1>0, <1>1, <1>8, <1>14, <3>3, <3>4 DEF Evidence, EvidenceFor
    <2>. QED  BY <1>14, <2>2, <2>3
<1>15. CASE RejectL1 \/ PersistL1
    <2>1. turn.item \in Item
        BY <1>2, <1>15 DEF RejectL1, PersistL1, L1Out
    <2>2. /\ UNCHANGED <<done, merged, landed>> /\ runs' = [runs EXCEPT ![turn.item] = NoRun]
          /\ \/ blamed' = blamed
             \/ Persists(turn.item) /\ blamed' = [blamed EXCEPT ![turn.item] = @ + 1]
        BY <1>15 DEF RejectL1, PersistL1, DecideRung
    <2>. QED  BY <1>14, <2>1, <2>2
<1>16. CASE RejectMerge \/ PersistMerge
    <2>1. turn.item \in Item
        BY <1>2, <1>16 DEF RejectMerge, PersistMerge, MergeOut
    <2>2. /\ UNCHANGED <<done, merged, landed>> /\ runs' = [runs EXCEPT ![turn.item] = NoRun]
          /\ \/ blamed' = blamed
             \/ Persists(turn.item) /\ blamed' = [blamed EXCEPT ![turn.item] = @ + 1]
        BY <1>16 DEF RejectMerge, PersistMerge, CountRejection
    <2>. QED  BY <1>14, <2>1, <2>2
\* A failure that does not persist is counted.
<1>17. ASSUME NEW k \in Item, ~Persists(k), UNCHANGED <<done, merged, blamed, landed>>,
              \A j \in Item : \/ runs'[j] = [runs EXCEPT ![k] = NextRun(@)][j] \/ runs'[j] = NoRun
       PROVE  Evidence'
    <2>1. EvidenceFor(NextRun(runs[k]), Spent(k), Stored, landed)
        <3>1. NextRun(runs[k]) \in [n : Nat, at : Nat]
            BY <1>3, NextRunType
        <3>2. NextRun(runs[k]).n < world.persistent
            BY <1>2, <1>17, <3>1 DEF Persists
        <3>. QED  BY <1>6, <3>2
    <2>2. \A j \in Item : runs'[j] = NoRun \/ runs'[j] = IF j = k THEN NextRun(runs[k]) ELSE runs[j]
        BY <1>2, <1>17 DEF LaneType
    <2>3. \A j \in Item : EvidenceFor(runs'[j], Spent(j), Stored, landed)
        BY <1>3, <1>6, <2>1, <2>2
    <2>. QED  BY <1>7, <1>8, <1>17, <2>3
<1>18. CASE FailMerge
    <2>1. turn.item \in Item /\ ~Persists(turn.item)
        BY <1>2, <1>18 DEF FailMerge, MergeOut
    <2>2. UNCHANGED <<done, merged, blamed, landed>> /\ runs' = [runs EXCEPT ![turn.item] = NextRun(@)]
        BY <1>18 DEF FailMerge
    <2>. QED  BY <1>17, <2>1, <2>2
\* Where the queue is ordered anew, entries are forgotten.
<1>19. ASSUME NEW q \in Seq(Chunk), NEW o \in Seq(Item), NEW r \in [Item -> [n : Nat, at : Nat]], NEW w,
              OrderQueue(q, o, r, w, done, merges)
       PROVE  \A k \in Item : runs'[k] = r[k] \/ runs'[k] = NoRun
    BY <1>19, OrderQueueKeeps
<1>20. ASSUME turn.item \in Chunk
       PROVE  /\ AtHead(turn.item) \in Seq(Chunk) /\ AtBack(turn.item) \in Seq(Chunk)
              /\ turn.stage = "out" => AtPlace(turn.item) \in Seq(Chunk)
              /\ Failed(order, turn.item) \in Seq(Item) /\ Forgiven(order, turn.item) \in Seq(Item)
              /\ \A r \in [n : Nat, at : Nat] : [runs EXCEPT ![turn.item] = r] \in [Item -> [n : Nat, at : Nat]]
    BY <1>2, <1>20, PutBack, OrderForms DEF BackOn, AtItem, LaneType
<1>21. CASE FailL1
    <2>1. turn.item \in Chunk /\ turn.item \in Item /\ ~Persists(turn.item)
        BY <1>2, <1>21 DEF FailL1, L1Out
    <2>2. [runs EXCEPT ![turn.item] = NextRun(@)] \in [Item -> [n : Nat, at : Nat]]
        BY <1>3, <1>20, <2>1, NextRunType
    <2>3. OrderQueue(AtBack(turn.item), Failed(order, turn.item), [runs EXCEPT ![turn.item] = NextRun(@)], waits, done, merges)
        BY <1>21, Zenon DEF FailL1
    <2>4. UNCHANGED <<done, merged, blamed, landed>>
        BY <1>21 DEF FailL1, store
    <2>. QED  BY <1>17, <1>19, <1>20, <2>1, <2>2, <2>3, <2>4
<1>22. CASE NoCallL1 \/ PassL1 \/ SkipL1 \/ DeferL1
    <2>1. turn.item \in Chunk /\ turn.item \in Item /\ (DeferL1 => turn.stage = "out")
        BY <1>2, <1>22 DEF NoCallL1, PassL1, SkipL1, DeferL1, L1Out
    <2>2. UNCHANGED <<done, merged, blamed, landed>>
        BY <1>22 DEF NoCallL1, PassL1, SkipL1, DeferL1, store
    <2>3. queue \in Seq(Chunk) /\ order \in Seq(Item) /\ runs \in [Item -> [n : Nat, at : Nat]] /\ NoRun \in [n : Nat, at : Nat]
        BY <1>2 DEF LaneType, NoRun
    <2>4. \E w : \E q \in Seq(Chunk), o \in Seq(Item), r \in {runs, [runs EXCEPT ![turn.item] = NoRun]} :
              OrderQueue(q, o, r, w, done, merges)
        <3>1. CASE NoCallL1
            BY <1>20, <2>1, <2>3, <3>1, Zenon DEF NoCallL1
        <3>2. CASE PassL1
            BY <1>20, <2>1, <2>3, <3>2, Zenon DEF PassL1
        <3>3. CASE SkipL1
            BY <1>20, <2>1, <2>3, <3>3, Zenon DEF SkipL1
        <3>4. CASE DeferL1
            BY <1>20, <2>1, <2>3, <3>4, Zenon DEF DeferL1
        <3>. QED  BY <1>22, <3>1, <3>2, <3>3, <3>4
    <2>x. PICK w : \E q \in Seq(Chunk), o \in Seq(Item), r \in {runs, [runs EXCEPT ![turn.item] = NoRun]} :
              OrderQueue(q, o, r, w, done, merges)
        BY <2>4
    <2>5. PICK q \in Seq(Chunk), o \in Seq(Item), r \in {runs, [runs EXCEPT ![turn.item] = NoRun]} :
              OrderQueue(q, o, r, w, done, merges)
        BY <2>x
    <2>6. r \in [Item -> [n : Nat, at : Nat]] /\ \A k \in Item : r[k] = runs[k] \/ r[k] = NoRun
        BY <2>1, <2>3, <2>5
    <2>7. \A k \in Item : runs'[k] = r[k] \/ runs'[k] = NoRun
        BY <1>19, <2>5, <2>6
    <2>. QED  BY <1>9, <2>2, <2>6, <2>7
<1>23. CASE HostTick \/ DrainTick \/ Scan \/ NoCallMerge \/ DeferMerge \/ PauseEnds \/ ToolsArrive
            \/ \E c \in Chunk : TakeHold(c) \/ WaitEnds(c)
    BY <1>10, <1>23 DEF HostTick, DrainTick, Scan, NoCallMerge, DeferMerge, PauseEnds, ToolsArrive, TakeHold, WaitEnds, lane
<1>24. CASE DiscardMerge
    <2>1. turn.item \in Item
        BY <1>2, <1>24 DEF DiscardMerge, MergeOut
    <2>. QED  BY <1>14, <1>24, <2>1 DEF DiscardMerge, store
<1>25. CASE CloseChunk \/ Reload \/ \E c \in Chunk : ReleaseHold(c)
    <2>1. closed' \in 0..world.chunks
        BY <1>2, <1>25, Items DEF CloseChunk, Reload, ReleaseHold, LaneType, host
    <2>2. \E hs, w : Rebuild(hs, order, runs, w)
        BY <1>25, Zenon DEF CloseChunk, Reload, ReleaseHold
    <2>3. \A k \in Item : runs'[k] = runs[k] \/ runs'[k] = NoRun
        BY <1>2, <2>1, <2>2, RebuildKeeps DEF LaneType
    <2>4. UNCHANGED <<done, merged, blamed, landed>>
        BY <1>25 DEF CloseChunk, Reload, ReleaseHold, store
    <2>. QED  BY <1>9, <2>3, <2>4
<1>26. CASE Restart
    <2>1. closed' \in 0..world.chunks /\ UNCHANGED <<done, merged, blamed>> /\ landed' = 0
        BY <1>2, <1>26 DEF Restart, LaneType, store
    <2>2. Rebuild({}, <<>>, [k \in Item |-> NoRun], {})
        BY <1>26, Zenon DEF Restart
    <2>3. \A k \in Item : runs'[k] = NoRun
        <3>1. <<>> \in Seq(Item) /\ [k \in Item |-> NoRun] \in [Item -> [n : Nat, at : Nat]]
            BY DEF NoRun
        <3>2. \A k \in Item : runs'[k] = [j \in Item |-> NoRun][k] \/ runs'[k] = NoRun
            BY <1>2, <2>1, <2>2, <3>1, RebuildKeeps
        <3>. QED  BY <3>2, Zenon
    <2>4. \A k \in Item : EvidenceFor(runs'[k], Spent(k), Stored, 0)
        BY <1>6, <2>3
    <2>. QED  BY <1>7, <1>8, <2>1, <2>4
<1>27. CASE (\E m \in Merge : ClearParked(m)) \/ (\E s \in stale : ReturnStale(s)) \/ UNCHANGED vars
    <2>1. (\E s \in stale : ReturnStale(s)) => UNCHANGED store
        BY StaleWritesNothing
    <2>2. UNCHANGED <<done, merged, blamed, runs, landed>>
        BY <1>27, <2>1 DEF ClearParked, ReturnStale, vars, store, lane
    <2>. QED  BY <1>9, <2>2
<1>. QED
    BY <1>12, <1>13, <1>15, <1>16, <1>18, <1>21, <1>22, <1>23, <1>24, <1>25, <1>26, <1>27 DEF Next, Answer, Host

-----------------------------------------------------------------------------
(* Work is kept.                                                           *)

\* A chunk no call is out for waits: queued, held back, held or given up.
Waits(c) == Contains(queue, c) \/ Blocked(c, held) \/ c \in exhausted \/ c > closed - world.holdback

\* A call whose queue was rebuilt has its chunk queued anew, and one that is
\* skipped is already given up.
Kept == \A c \in Closed \ done : Waits(c) \/ (turn.item = c /\ ~turn.superseded)
Skipped == turn.stage = "out" /\ turn.kind = "skip" => turn.item \in exhausted
KeptInv == Kept /\ Skipped

LEMMA KeptNext == TypeInv /\ AtItem /\ KeptInv /\ [Next]_vars => KeptInv'
<1> SUFFICES ASSUME TypeInv, AtItem, KeptInv, [Next]_vars PROVE KeptInv'
    OBVIOUS
<1>0. world' = world
    BY DEF Next, vars, HostTick, DrainTick, Scan, Answer, Host, LandL1, RejectL1, PersistL1, DecideRung, FailL1, NoCallL1,
           PassL1, SkipL1, DeferL1, LandMerge, DiscardMerge, RejectMerge, PersistMerge, CountRejection, FailMerge, NoCallMerge,
           DeferMerge, CloseChunk, TakeHold, ReleaseHold, PauseEnds, WaitEnds, ToolsArrive, ClearParked, Reload, ReturnStale, Restart
<1>1. TypeInv'
    BY TypeNext
<1>2. /\ world \in Worlds /\ StoreType /\ LaneType /\ turn \in Turn
      /\ AtItem /\ Kept /\ Skipped
      /\ queue \in Seq(Chunk) /\ closed \in 0..world.chunks /\ queue' \in Seq(Chunk) /\ closed' \in 0..world.chunks
    BY <1>0, <1>1 DEF TypeInv, LaneType, KeptInv, Chunk
<1>3. /\ \A c \in Chunk : c \in Nat /\ c \notin Merge /\ c # None
      /\ Closed \subseteq Chunk /\ Closed' \subseteq Chunk /\ world.holdback \in Nat
    <2>1. world.holdback \in Nat
        BY <1>2, WorldsAssumption
    <2>2. world.chunks \in Nat /\ Chunk \subseteq Nat \ {0} /\ (\A c \in Chunk : c \notin Merge) /\ None \notin Item
        BY <1>2, Items, Zenon
    <2>. QED  BY <1>2, <2>1, <2>2 DEF Closed, Chunk, Item
<1>4. /\ \A c : Contains(queue, c) <=> c \in ToSet(queue)
      /\ \A c : Contains(queue', c) <=> c \in ToSet(queue')
    BY <1>2, ContainsIsElement, Zenon
<1>5. Idle.stage = "idle" /\ Idle.item = None
    BY DEF Idle
\* A step that does not rebuild the queue answers for the chunks it takes
\* off it and for the chunk whose call it ends.
<1> DEFINE Safe(c) == \/ c \in ToSet(queue') \/ Blocked(c, held') \/ c \in exhausted'
                      \/ turn'.item = c /\ ~turn'.superseded
<1>6. ASSUME closed' = closed, done \subseteq done', held \subseteq held', exhausted \subseteq exhausted',
             \A c \in Closed \ done' : c \in ToSet(queue) => Safe(c),
             \A c \in Closed \ done' : turn.item = c /\ ~turn.superseded => Safe(c)
      PROVE  Kept'
    <2>1. Closed' = Closed
        BY <1>6 DEF Closed
    <2>2. ASSUME NEW c \in Closed \ done' PROVE Waits(c)' \/ (turn'.item = c /\ ~turn'.superseded)
        <3>1. Waits(c) \/ (turn.item = c /\ ~turn.superseded)
            BY <1>2, <1>6, <2>2, Zenon DEF Kept
        <3>2. Safe(c) \/ Blocked(c, held) \/ c \in exhausted \/ c > closed - world.holdback
            BY <1>4, <1>6, <2>2, <3>1, Zenon DEF Waits
        <3>3. Blocked(c, held) => Blocked(c, held')
            BY <1>6, Zenon DEF Blocked
        <3>4. c > closed - world.holdback => c > closed' - world'.holdback
            BY <1>0, <1>6
        <3>. QED  BY <1>4, <1>6, <3>2, <3>3, <3>4, Zenon DEF Waits
    <2>. QED  BY <2>1, <2>2, Zenon DEF Kept
<1>7. ASSUME UNCHANGED <<closed, queue, turn>>, done \subseteq done', held \subseteq held', exhausted \subseteq exhausted'
      PROVE  Kept'
    BY <1>6, <1>7
\* A rebuilt queue holds every open chunk but the held and the newest.
<1>8. ASSUME NEW hs, hs = held', NEW o \in Seq(Item), NEW r \in [Item -> [n : Nat, at : Nat]], NEW w,
             Rebuild(hs, o, r, w), done' = done
      PROVE  Kept'
    <2>1. ToSet(queue') = Open(hs)
        BY <1>0, <1>2, <1>8, RebuildKeeps, Zenon
    <2>2. ASSUME NEW c \in Closed' \ done' PROVE Waits(c)'
        <3>1. c \in Open(hs) \/ Blocked(c, held') \/ ~(c <= closed' - world.holdback)
            BY <1>8, <2>2, Zenon DEF Open
        <3>2. c \in Nat /\ closed' \in Nat
            BY <1>0, <1>2, <1>3, <2>2, Items
        <3>3. ~(c <= closed' - world.holdback) => c > closed' - world'.holdback
            BY <1>0, <1>3, <3>2
        <3>. QED  BY <1>4, <2>1, <3>1, <3>3, Zenon DEF Waits
    <2>. QED  BY <2>2, Zenon DEF Kept
\* A turn stays skipped while it stays out for the same chunk.
<1>9. exhausted \subseteq exhausted' /\ turn'.stage = turn.stage /\ turn'.item = turn.item /\ turn'.kind = turn.kind => Skipped'
    BY <1>2 DEF Skipped
<1>10. turn'.stage # "out" => Skipped'
    BY DEF Skipped
<1>11. \A p : EndTurn(p) => Skipped' /\ turn'.item = None
    BY <1>5 DEF EndTurn, Skipped
<1>12. turn' = Idle => Skipped' /\ turn'.item = None
    BY <1>5 DEF Skipped
<1>13. turn' = [turn EXCEPT !.stage = "scan", !.item = None] => Skipped'
    BY <1>2 DEF Skipped, Turn
<1>14. UNCHANGED exhausted /\ Supersede => Skipped'
    BY <1>2, <1>5 DEF Skipped, Supersede, Turn
<1>15. CASE HostTick \/ DrainTick
    <2>1. UNCHANGED <<closed, done, held, exhausted>>
        BY <1>15 DEF HostTick, DrainTick, store, host
    <2>2. CASE UNCHANGED <<turn, queue>>
        BY <1>7, <1>9, <2>1, <2>2 DEF KeptInv
    <2>3. ASSUME NEW d, turn = Idle, Begin(d) PROVE KeptInv'
        <3>1. queue' = Only(queue, ToSet(queue) \ done) /\ turn'.stage = "scan"
            BY <2>3 DEF Begin, Began, Idle
        <3>2. ToSet(queue') = ToSet(queue) \cap (ToSet(queue) \ done)
            BY <1>2, <3>1, OnlyKeeps
        <3>3. \A c \in Closed \ done' : c \in ToSet(queue) => Safe(c)
            BY <2>1, <3>2, Zenon
        <3>4. \A c \in Closed \ done' : turn.item # c
            BY <1>3, <1>5, <2>3, Zenon
        <3>. QED  BY <1>6, <1>10, <2>1, <3>1, <3>3, <3>4 DEF KeptInv
    <2>. QED  BY <1>15, <2>2, <2>3 DEF HostTick, DrainTick
<1>16. ASSUME NEW i \in Turns, TakeChunk(i), turn.item = None, turn.stage = "scan", UNCHANGED <<closed, done, held, exhausted>>
       PROVE  KeptInv'
    <2> DEFINE c == turn.left[i]
               from == [turn EXCEPT !.left = SubSeq(@, i + 1, Len(@)), !.progress = TRUE,
                                    !.at = Place(c, queue), !.superseded = FALSE]
    <2>1. queue' = Without(queue, c)
        BY <1>16 DEF TakeChunk
    <2>2. \/ c \in done /\ turn' = from
          \/ Blocked(c, held) /\ EndTurn(TRUE)
          \/ turn' = [from EXCEPT !.stage = "out", !.item = c, !.kind =
                         IF ToolsWait THEN "tools" ELSE IF c \in exhausted THEN "skip" ELSE "call"]
        BY <1>16 DEF TakeChunk
    <2>3. from.stage = "scan" /\ from.superseded = FALSE
        BY <1>2, <1>16 DEF Turn
    <2>4. \A kind : LET t == [from EXCEPT !.stage = "out", !.item = c, !.kind = kind] IN
              t.stage = "out" /\ t.item = c /\ t.kind = kind /\ ~t.superseded
        BY <1>2 DEF Turn
    <2> HIDE DEF c, from
    <2>5. ToSet(queue') = ToSet(queue) \ {c}
        BY <1>2, <2>1, WithoutKeeps
    <2>6. c \in done \/ Blocked(c, held) \/ (turn'.item = c /\ ~turn'.superseded)
        BY <2>2, <2>4
    <2>7. \A k \in Closed \ done' : k \in ToSet(queue) => Safe(k)
        BY <1>16, <2>5, <2>6, Zenon
    <2>8. \A k \in Closed \ done' : turn.item # k
        BY <1>3, <1>16, Zenon
    <2>9. Skipped'
        <3>1. CASE turn' = [from EXCEPT !.stage = "out", !.item = c, !.kind =
                         IF ToolsWait THEN "tools" ELSE IF c \in exhausted THEN "skip" ELSE "call"]
            <4>1. turn'.item = c /\ turn'.kind = IF ToolsWait THEN "tools" ELSE IF c \in exhausted THEN "skip" ELSE "call"
                BY <2>4, <3>1, Zenon
            <4>. QED  BY <1>16, <4>1 DEF Skipped
        <3>. QED  BY <1>10, <1>11, <2>2, <2>3, <3>1
    <2>. QED  BY <1>6, <1>16, <2>7, <2>8, <2>9 DEF KeptInv
<1>17. CASE Scan
    <2>1. UNCHANGED <<closed, done, held, exhausted>> /\ turn.stage = "scan" /\ turn.item = None
        BY <1>2, <1>17 DEF Scan, store, host, AtItem
    <2>2. ASSUME GoMerge PROVE KeptInv'
        <3>1. queue' = queue
            BY <2>2 DEF GoMerge
        <3>2. \A c \in Closed \ done' : c \in ToSet(queue) => Safe(c)
            BY <3>1, Zenon
        <3>3. \A c \in Closed \ done' : turn.item # c
            BY <1>3, <2>1, Zenon
        <3>4. Skipped'
            BY <1>2, <1>11, <2>2 DEF GoMerge, Out, Skipped, Turn
        <3>. QED  BY <1>6, <2>1, <3>2, <3>3, <3>4 DEF KeptInv
    <2>. QED  BY <1>16, <1>17, <2>1, <2>2 DEF Scan
\* What a chunk's call comes back with.
<1>18. CASE LandL1
    <2>1. /\ UNCHANGED <<closed, queue, held, exhausted>> /\ EndTurn(TRUE)
          /\ Write(turn.item, ~Blocked(turn.item, held)) /\ turn.item \in Chunk
        BY <1>18 DEF LandL1, L1Out, host
    <2>2. done \subseteq done' /\ (turn.item \in done' \/ Blocked(turn.item, held'))
        BY <2>1, Zenon DEF Write
    <2>. QED  BY <1>6, <1>11, <2>1, <2>2 DEF KeptInv
<1>19. CASE RejectL1 \/ PersistL1
    <2>1. DecideRung(turn.item)
        BY <1>19 DEF RejectL1, PersistL1
    <2>2. /\ UNCHANGED <<closed, queue, held, done>>
          /\ \/ UNCHANGED <<exhausted, turn>>
             \/ exhausted' = exhausted \cup {turn.item} /\ EndTurn(TRUE)
        BY <2>1 DEF DecideRung, host
    <2>. QED  BY <1>6, <1>7, <1>9, <1>11, <2>2 DEF KeptInv
\* The chunk is put back, and the queue ordered anew.
<1>20. ASSUME NEW q, BackOn(q, turn.item), NEW o \in Seq(Item), NEW r \in [Item -> [n : Nat, at : Nat]], NEW w,
              OrderQueue(q, o, r, w, done, merges), UNCHANGED <<closed, done, held, exhausted>>
       PROVE  Kept'
    <2>1. q \in Seq(Chunk) /\ ToSet(queue) \subseteq ToSet(q) /\ (~turn.superseded => turn.item \in ToSet(q))
        BY <1>20, Zenon DEF BackOn
    <2>2. ToSet(queue') = ToSet(q)
        BY <1>20, <2>1, OrderQueueKeeps
    <2>3. \A c \in Closed \ done' : c \in ToSet(queue) => Safe(c)
        BY <2>1, <2>2, Zenon
    <2>4. \A c \in Closed \ done' : turn.item = c /\ ~turn.superseded => Safe(c)
        BY <2>1, <2>2, Zenon
    <2>. QED  BY <1>6, <1>20, <2>3, <2>4
<1>21. ASSUME turn.item \in Chunk
       PROVE  /\ BackOn(AtHead(turn.item), turn.item) /\ BackOn(AtBack(turn.item), turn.item)
              /\ turn.stage = "out" => BackOn(AtPlace(turn.item), turn.item)
    BY <1>2, <1>3, <1>21, PutBack DEF AtItem
<1>22. /\ order \in Seq(Item) /\ runs \in [Item -> [n : Nat, at : Nat]]
       /\ turn.item \in Chunk => /\ Failed(order, turn.item) \in Seq(Item) /\ Forgiven(order, turn.item) \in Seq(Item)
                                 /\ [runs EXCEPT ![turn.item] = NextRun(@)] \in [Item -> [n : Nat, at : Nat]]
                                 /\ [runs EXCEPT ![turn.item] = NoRun] \in [Item -> [n : Nat, at : Nat]]
    <2>1. order \in Seq(Item) /\ runs \in [Item -> [n : Nat, at : Nat]] /\ landed \in Nat
        BY <1>2 DEF LaneType
    <2>2. turn.item \in Chunk => turn.item \in Item
        BY DEF Item
    <2>3. turn.item \in Item => NextRun(runs[turn.item]) \in [n : Nat, at : Nat]
        BY <2>1, NextRunType
    <2>4. NoRun \in [n : Nat, at : Nat]
        BY DEF NoRun
    <2>. QED  BY <2>1, <2>2, <2>3, <2>4, OrderForms
<1>23. CASE FailL1
    <2>1. /\ turn.item \in Chunk /\ UNCHANGED <<closed, done, held, exhausted>> /\ turn' = Idle
          /\ OrderQueue(AtBack(turn.item), Failed(order, turn.item), [runs EXCEPT ![turn.item] = NextRun(@)], waits, done, merges)
        BY <1>23 DEF FailL1, L1Out, store, host
    <2>. QED  BY <1>12, <1>20, <1>21, <1>22, <2>1 DEF KeptInv
<1>24. CASE NoCallL1
    <2>1. /\ turn.item \in Chunk /\ UNCHANGED <<closed, done, held, exhausted>> /\ turn' = Idle
          /\ OrderQueue(AtHead(turn.item), order, runs, waits, done, merges)
        BY <1>24 DEF NoCallL1, L1Out, store, host
    <2>. QED  BY <1>12, <1>20, <1>21, <1>22, <2>1 DEF KeptInv
<1>25. CASE PassL1
    <2>1. /\ turn.item \in Chunk /\ UNCHANGED <<closed, done, held, exhausted>>
          /\ turn' = [turn EXCEPT !.stage = "scan", !.item = None]
          /\ \E w : OrderQueue(AtHead(turn.item), order, runs, w, done, merges)
        BY <1>25 DEF PassL1, L1Out, store, host
    <2>. QED  BY <1>13, <1>20, <1>21, <1>22, <2>1 DEF KeptInv
<1>26. CASE SkipL1
    <2>1. /\ turn.item \in Chunk /\ UNCHANGED <<closed, done, held, exhausted>> /\ turn.stage = "out" /\ turn.kind = "skip"
          /\ turn' = [turn EXCEPT !.stage = "scan", !.item = None]
          /\ OrderQueue(queue, Failed(order, turn.item), [runs EXCEPT ![turn.item] = NoRun], waits, done, merges)
        BY <1>26 DEF SkipL1, L1Out, store, host
    <2>2. turn.item \in exhausted
        BY <1>2, <2>1 DEF Skipped
    <2>3. ToSet(queue') = ToSet(queue)
        BY <1>2, <1>22, <2>1, OrderQueueKeeps
    <2>. QED  BY <1>6, <1>13, <2>1, <2>2, <2>3 DEF KeptInv
<1>27. CASE DeferL1
    <2>1. /\ turn.item \in Chunk /\ turn.stage = "out" /\ UNCHANGED <<closed, done, held, exhausted>> /\ EndTurn(TRUE)
          /\ OrderQueue(AtPlace(turn.item), Forgiven(order, turn.item), runs, waits, done, merges)
        BY <1>27 DEF DeferL1, L1Out, store, host
    <2>. QED  BY <1>11, <1>20, <1>21, <1>22, <2>1 DEF KeptInv
\* What a merge's call comes back with touches no chunk.
<1>28. CASE LandMerge \/ DiscardMerge \/ RejectMerge \/ PersistMerge \/ FailMerge \/ NoCallMerge \/ DeferMerge
    <2>1. turn.item \in Merge /\ UNCHANGED <<closed, queue, held, exhausted>> /\ (turn' = Idle \/ EndTurn(TRUE) \/ EndTurn(FALSE))
        BY <1>28 DEF LandMerge, DiscardMerge, RejectMerge, PersistMerge, CountRejection, FailMerge, NoCallMerge, DeferMerge,
                     MergeOut, store, lane, host
    <2>2. done \subseteq done'
        BY <1>28 DEF LandMerge, DiscardMerge, RejectMerge, PersistMerge, CountRejection, FailMerge, NoCallMerge, DeferMerge,
                     Write, store
    <2>3. \A c \in Closed \ done' : turn.item # c
        BY <1>3, <2>1, Zenon
    <2>4. Skipped'
        BY <1>11, <1>12, <2>1
    <2>. QED  BY <1>6, <2>1, <2>2, <2>3, <2>4 DEF KeptInv
\* The host, the clock and the other loads of the branch.
<1>29. CASE CloseChunk \/ \E c \in Chunk : ReleaseHold(c)
    <2>1. UNCHANGED <<done, exhausted>> /\ Rebuild(held', order, runs, waits) /\ Supersede
        BY <1>29 DEF CloseChunk, ReleaseHold, store
    <2>. QED  BY <1>8, <1>14, <1>22, <2>1 DEF KeptInv
<1>30. CASE (\E c \in Chunk : TakeHold(c) \/ WaitEnds(c)) \/ PauseEnds \/ ToolsArrive
            \/ (\E m \in Merge : ClearParked(m)) \/ (\E s \in stale : ReturnStale(s))
    <2>1. (\E s \in stale : ReturnStale(s)) => UNCHANGED store
        BY StaleWritesNothing
    <2>2. UNCHANGED <<closed, queue, turn, done, exhausted>> /\ held \subseteq held'
        BY <1>30, <2>1 DEF TakeHold, WaitEnds, PauseEnds, ToolsArrive, ClearParked, ReturnStale, store, lane, host
    <2>. QED  BY <1>7, <1>9, <2>2 DEF KeptInv
<1>31. CASE Reload
    <2>1. UNCHANGED <<done, held>> /\ Rebuild(held, order, runs, waits) /\ turn' = Idle
        BY <1>31 DEF Reload, store, host
    <2>. QED  BY <1>8, <1>12, <1>22, <2>1 DEF KeptInv
<1>32. CASE Restart
    <2>1. UNCHANGED done /\ held' = {} /\ Rebuild({}, <<>>, [k \in Item |-> NoRun], {}) /\ turn' = Idle
        BY <1>32 DEF Restart, store
    <2>2. <<>> \in Seq(Item) /\ [k \in Item |-> NoRun] \in [Item -> [n : Nat, at : Nat]]
        BY DEF NoRun
    <2>. QED  BY <1>8, <1>12, <2>1, <2>2 DEF KeptInv
<1>33. CASE UNCHANGED vars
    BY <1>7, <1>9, <1>33 DEF vars, store, lane, host, KeptInv
<1>. QED
    BY <1>15, <1>17, <1>18, <1>19, <1>23, <1>24, <1>25, <1>26, <1>27, <1>28, <1>29, <1>30, <1>31, <1>32, <1>33 DEF Next, Answer, Host

-----------------------------------------------------------------------------
(* The invariant, and what it says.                                        *)

IInv == TypeInv /\ StoreInv /\ Evidence /\ KeptInv

LEMMA InitIInv == Init => IInv
<1> SUFFICES ASSUME Init PROVE IInv
    OBVIOUS
<1>1. /\ world \in Worlds /\ world.chunks \in Nat /\ world.persistent \in Nat \ {0} /\ \A c \in Chunk : c \in Nat \ {0}
    BY Items DEF Init
<1>2. NoRun \in [n : Nat, at : Nat] /\ Idle \in Turn /\ Idle.stage = "idle" /\ Idle.item = None
    <2>1. <<>> \in Seq(Chunk)
        OBVIOUS
    <2>. QED  BY <2>1 DEF NoRun, Idle, Turn
<1>3. TypeInv
    <2>1. StoreType
        BY DEF Init, StoreType
    <2>2. LaneType
        BY <1>1, <1>2 DEF Init, LaneType
    <2>. QED  BY <1>1, <1>2, <2>1, <2>2 DEF TypeInv, StaleInv, Init
<1>4. ToSet(merges) = {}
    <2>1. merges = <<>> /\ DOMAIN <<>> = {}
        BY DEF Init
    <2>. QED  BY <2>1, Zenon DEF ToSet
<1>5. StoreInv
    <2>1. AtItem
        BY <1>2 DEF Init, AtItem
    <2>2. MergesOnce
        BY <1>4 DEF Init, MergesOnce, IsInjective
    <2>3. WrittenIsStored
        BY DEF Init, WrittenIsStored
    <2>. QED  BY <2>1, <2>2, <2>3 DEF StoreInv
<1>6. Evidence
    <2>1. done \cup merged = {}
        BY DEF Init
    <2>2. Stored = 0
        BY <2>1, FS_EmptySet DEF Stored
    <2>3. \A k \in Item : Spent(k) = 0 /\ runs[k] = NoRun
        BY <1>1 DEF Init, Spent
    <2>. QED  BY <1>1, <2>2, <2>3 DEF Init, Evidence, EvidenceFor, NoRun
<1>7. KeptInv
    BY <1>2 DEF Init, KeptInv, Kept, Skipped, Closed
<1>. QED  BY <1>3, <1>5, <1>6, <1>7 DEF IInv

\* Every step keeps the parts, each from those before it.
LEMMA NextIInv == IInv /\ [Next]_vars => IInv'
BY TypeNext, StoreNext, EvidenceNext, KeptNext DEF IInv, StoreInv

LEMMA Inductive == Spec => []IInv
BY InitIInv, NextIInv, PTL DEF Spec

LEMMA Says == IInv => WorkIsKept /\ WrittenOnce /\ OutageDecidesNothing
<1> SUFFICES ASSUME IInv PROVE WorkIsKept /\ WrittenOnce /\ OutageDecidesNothing
    OBVIOUS
<1>1. world.persistent \in Nat \ {0} /\ IsFiniteSet(Chunk \cup Merge) /\ done \subseteq Chunk /\ merged \subseteq Merge
      /\ \A k \in Item : blamed[k] \in Nat /\ runs[k] \in [n : Nat, at : Nat] /\ landed \in Nat
    BY Items DEF IInv, TypeInv, StoreType, LaneType
<1>2. WorkIsKept
    BY DEF IInv, KeptInv, Kept, Waits, WorkIsKept
<1>3. WrittenOnce
    <2>1. \A k \in Item : written[k] = 1 \/ written[k] = 0
        BY DEF IInv, StoreInv, WrittenIsStored
    <2>. QED  BY <2>1 DEF WrittenOnce
<1>4. OutageDecidesNothing
    <2>1. IsFiniteSet(done \cup merged)
        BY <1>1, FS_Subset
    <2>2. Stored \in Nat
        BY <2>1, FS_CardinalityType DEF Stored
    <2>3. \A k \in Item : Spent(k) \in Nat
        BY <1>1, OneMore DEF Spent
    <2>4. \A k \in Item : Spent(k) <= Stored
        BY <1>1, <2>2, <2>3 DEF IInv, Evidence, EvidenceFor
    <2>. QED  BY <2>4 DEF OutageDecidesNothing, Spent, Stored
<1>. QED  BY <1>2, <1>3, <1>4

(* The store, the lists and the tick of the lane have their types, and the *)
(* merge whose call is out heads its queue: an answer to it never takes    *)
(* another merge off mergeQueue.                                           *)
THEOREM LaneTyped == Spec => [](TypeInv /\ StoreInv)
BY Inductive, PTL DEF IInv

(* A closed chunk without a summary is on compressionQueue, or its call is *)
(* out, or it is held, given up or among the newest: no step of tick, no   *)
(* answer and no rebuild of the queue loses it.                            *)
THEOREM WorkKept == Spec => []WorkIsKept
BY Inductive, Says, PTL

(* A chunk's L1 and a merge's summary are written at most once, whatever   *)
(* calls an earlier load of the branch left out.                           *)
THEOREM WrittenAtMostOnce == Spec => []WrittenOnce
BY Inductive, Says, PTL

(* Decisions for persistent failures stand on landings of other work: an   *)
(* outage, during which nothing lands, decides nothing.                    *)
THEOREM OutageHarmless == Spec => []OutageDecidesNothing
BY Inductive, Says, PTL
=============================================================================
