------------------------- MODULE MessageStoreProofs -------------------------
(***************************************************************************)
(* What an instance of MessageStore reads, for every number of instances,  *)
(* handles, branches and writes, and what removals do to bodies.           *)
(*                                                                         *)
(* That a cache is current, or has only grown, is told from revisions and  *)
(* counts alone; the invariant StoreRight says what these stand for.  A    *)
(* cache at its slot's revision holds the slot's rows.  While no uncounted *)
(* write came after it, the slot has at most as many rows more as writes   *)
(* were counted since: an append adds one and every other write adds none  *)
(* (Grown).  So where it has exactly as many, every one of them appended,  *)
(* and the cache's rows are the first of the slot's.                       *)
(*                                                                         *)
(* What a removal leaves is told by ids, which are apart (IdsRight): a cut *)
(* that splits no body at either end takes each whole or leaves it.  And a *)
(* cache that is current counts as its handle does (CountsRight), so that  *)
(* a sibling's append leaves one more row and one more count.              *)
(***************************************************************************)
EXTENDS MessageStore, SequenceTheorems, NaturalsInduction, WellFoundedInduction, TLAPS

-----------------------------------------------------------------------------
(* Types.                                                                  *)

CounterT == [count : Nat, last : Nat \cup {None}, gaps : Nat]
CacheT == [branch : Branches \cup {None}, rows : Seq(Message), rev : Nat, count : Nat, gap : Nat]
IndexT == [branch : Branches \cup {None}, rev : Nat \cup {None}, ids : Seq(Nat)]
SlotT == [branch : Branches, rows : Seq(Message), rev : Nat, k : CounterT]

\* A prefix of a slot's rows.
Begins(cs, rs) == Len(cs) <= Len(rs) /\ \A n \in 1 .. Len(cs) : cs[n] = rs[n]

\* While no uncounted write came after a cache was made, its slot has grown by
\* at most the writes counted since; by as many only if every one appended.
Grown(c, rs, r, k) ==
    c.gap = k.gaps /\ k.last = r =>
        /\ Len(rs) <= Len(c.rows) + (k.count - c.count)
        /\ Len(rs) = Len(c.rows) + (k.count - c.count) => Begins(c.rows, rs)

\* What is true of a cache of a slot whose rows are rs at revision r.
Faithful(c, rs, r, k, t) ==
    /\ c \in CacheT
    /\ c.rev <= t /\ c.gap <= k.gaps /\ c.count <= k.count
    /\ c.rev = r => c.rows = rs
    /\ Grown(c, rs, r, k)

Against(c, s, t) == c \in CacheT /\ (c.branch # s.branch \/ Faithful(c, s.rows, s.rev, s.k, t))

\* A cache just made of a slot is faithful.
LEMMA StampedFaithful ==
    ASSUME NEW s \in SlotT, NEW t \in Nat, s.rev <= t
    PROVE  /\ Stamped(s.rows, s) \in CacheT /\ Stamped(s.rows, s).branch = s.branch
           /\ Stamped(s.rows, s).rev = s.rev /\ Stamped(s.rows, s).rows = s.rows
           /\ Faithful(Stamped(s.rows, s), s.rows, s.rev, s.k, t)
<1>1. /\ s.branch \in Branches /\ s.rows \in Seq(Message) /\ s.rev \in Nat /\ s.k \in CounterT
      /\ s.k.count \in Nat /\ s.k.gaps \in Nat
    BY DEF SlotT, CounterT
<1>2. Stamped(s.rows, s) \in CacheT
    BY <1>1 DEF Stamped, CacheT
<1>3. Begins(s.rows, s.rows) /\ Len(s.rows) \in Nat
    BY <1>1, LenProperties DEF Begins
<1>4. Grown(Stamped(s.rows, s), s.rows, s.rev, s.k)
    BY <1>1, <1>3 DEF Stamped, Grown
<1>. QED  BY <1>1, <1>2, <1>4 DEF Stamped, Faithful

\* A slot's rows are a prefix of them and the rest.
LEMMA PrefixAndRest ==
    ASSUME NEW cs \in Seq(Message), NEW rs \in Seq(Message), Begins(cs, rs)
    PROVE  cs \o SubSeq(rs, Len(cs) + 1, Len(rs)) = rs
<1>1. Len(cs) \in Nat /\ Len(rs) \in Nat /\ Len(cs) <= Len(rs)
    BY LenProperties DEF Begins
<1> DEFINE rest == SubSeq(rs, Len(cs) + 1, Len(rs))
<1>2. /\ rest \in Seq(Message) /\ Len(rest) = Len(rs) - Len(cs)
      /\ \A i \in 1 .. Len(rs) - Len(cs) : rest[i] = rs[Len(cs) + i]
    <2>1. \A i \in Len(cs) + 1 .. Len(rs) : rs[i] \in Message
        BY <1>1, ElementOfSeq
    <2>2. CASE Len(cs) + 1 <= Len(rs) + 1
        BY <1>1, <2>1, <2>2, SubSeqProperties
    <2>. QED  BY <1>1, <2>2
<1> HIDE DEF rest
<1>3. /\ cs \o rest \in Seq(Message) /\ Len(cs \o rest) = Len(rs)
      /\ \A i \in 1 .. Len(rs) : (cs \o rest)[i] = IF i <= Len(cs) THEN cs[i] ELSE rest[i - Len(cs)]
    BY <1>1, <1>2, ConcatProperties
<1>4. \A i \in 1 .. Len(rs) : (cs \o rest)[i] = rs[i]
    <2> TAKE i \in 1 .. Len(rs)
    <2>1. CASE i <= Len(cs)
        BY <1>1, <1>3, <2>1 DEF Begins
    <2>2. CASE i > Len(cs)
        <3>1. i - Len(cs) \in 1 .. Len(rs) - Len(cs) /\ Len(cs) + (i - Len(cs)) = i
            BY <1>1, <2>2
        <3>. QED  BY <1>1, <1>2, <1>3, <2>2, <3>1
    <2>3. i <= Len(cs) \/ i > Len(cs)
        BY <1>1
    <2>. QED  BY <2>1, <2>2, <2>3
<1>5. cs \o rest = rs
    BY <1>3, <1>4, SeqEqual
<1>. QED  BY <1>5 DEF rest

\* A read of a faithful cache, or of none of the branch, is of the slot's rows
\* (getAllInternal), and leaves a faithful cache.
LEMMA LoadedFaithful ==
    ASSUME NEW s \in SlotT, NEW t \in Nat, s.rev <= t, NEW c, Against(c, s, t)
    PROVE  /\ Loaded(c, s) \in CacheT /\ Loaded(c, s).branch = s.branch
           /\ Loaded(c, s).rev = s.rev /\ Loaded(c, s).rows = s.rows
           /\ Faithful(Loaded(c, s), s.rows, s.rev, s.k, t)
<1>1. c \in CacheT
    BY DEF Against
<1>2. CASE Current(c, s)
    <2>1. Loaded(c, s) = c /\ c.branch = s.branch /\ c.rev = s.rev
        BY <1>2 DEF Loaded, Current
    <2>. QED  BY <1>1, <2>1 DEF Against, Faithful
<1>3. CASE ~Current(c, s) /\ Extends(c, s)
    <2>1. Loaded(c, s) = Stamped(Extended(c, s, s.k.count - c.count), s)
        BY <1>3 DEF Loaded
    <2>2. Faithful(c, s.rows, s.rev, s.k, t)
        BY <1>3 DEF Extends, Against
    <2>3. Begins(c.rows, s.rows)
        BY <1>3, <2>2 DEF Faithful, Grown, Extends, Grew, GapFree, SeenFree
    <2>4. c.rows \in Seq(Message) /\ s.rows \in Seq(Message)
        BY <1>1 DEF CacheT, SlotT
    <2>5. Extended(c, s, s.k.count - c.count) = s.rows
        BY <2>3, <2>4, PrefixAndRest DEF Extended
    <2>. QED  BY <2>1, <2>5, StampedFaithful
<1>4. CASE ~Current(c, s) /\ ~Extends(c, s)
    BY <1>4, StampedFaithful DEF Loaded
<1>. QED  BY <1>2, <1>3, <1>4

-----------------------------------------------------------------------------
(* What a write makes of the caches.                                       *)

\* What a counted write other than an append leaves: no more rows.
Changed(rs, new) == new \in Seq(Message) /\ Len(new) <= Len(rs)
Appended(rs, new) == \E x \in Message : new = Append(rs, x)
Written(rs, new) == Changed(rs, new) \/ Appended(rs, new)

\* What a write leaves are rows.
LEMMA WrittenIsRows ==
    ASSUME NEW rs \in Seq(Message), NEW new, Written(rs, new)
    PROVE  new \in Seq(Message)
<1>1. ASSUME NEW x \in Message, new = Append(rs, x) PROVE new \in Seq(Message)
    BY <1>1, AppendProperties
<1>. QED  BY <1>1 DEF Written, Changed, Appended

\* A counted write counts one, and sees a gap where the revision is not the one the last left.
LEMMA CountedIs ==
    ASSUME NEW k \in CounterT, NEW r \in Nat, clock \in Nat
    PROVE  /\ Counted(k, r) \in CounterT /\ Counted(k, r).count = k.count + 1
           /\ Counted(k, r).last = clock + 1 /\ k.gaps <= Counted(k, r).gaps
           /\ Counted(k, r).gaps = k.gaps => k.last = r
BY DEF Counted, CounterT

\* A later clock takes nothing from a cache of a slot that was not written.
LEMMA FaithfulLater ==
    ASSUME NEW c, NEW rs, NEW r, NEW k, clock \in Nat, Faithful(c, rs, r, k, clock)
    PROVE  Faithful(c, rs, r, k, clock + 1)
BY DEF Faithful, CacheT

\* An uncounted write, or another handle's: the cache is not current, and
\* its handle's counters are not those of the slot any more.
LEMMA FaithfulUncounted ==
    ASSUME NEW c, NEW rs, NEW r, NEW k \in CounterT, NEW new, clock \in Nat,
           k.last = None \/ k.last <= clock, Faithful(c, rs, r, k, clock)
    PROVE  Faithful(c, new, clock + 1, k, clock + 1)
<1>1. c \in CacheT /\ c.rev \in Nat /\ c.rev # clock + 1 /\ c.rev <= clock + 1
    BY DEF Faithful, CacheT
<1>2. k.last # clock + 1
    BY StoreAssumption DEF CounterT
<1>. QED  BY <1>1, <1>2 DEF Faithful, Grown

\* A counted write of the handle on another branch.
LEMMA FaithfulElsewhere ==
    ASSUME NEW c, NEW rs, NEW r \in Nat, NEW k \in CounterT, NEW found \in Nat, clock \in Nat,
           r <= clock, Faithful(c, rs, r, k, clock)
    PROVE  Faithful(c, rs, r, Counted(k, found), clock + 1)
<1>1. /\ c \in CacheT /\ c.rev \in Nat /\ c.rev <= clock + 1 /\ c.gap \in Nat /\ c.count \in Nat
      /\ k.gaps \in Nat /\ k.count \in Nat
    BY DEF Faithful, CacheT, CounterT
<1>2. /\ Counted(k, found) \in CounterT /\ Counted(k, found).count = k.count + 1
      /\ Counted(k, found).last = clock + 1 /\ k.gaps <= Counted(k, found).gaps
    BY CountedIs
<1>3. Counted(k, found).gaps \in Nat /\ Counted(k, found).last # r
    BY <1>2 DEF CounterT
<1>. QED  BY <1>1, <1>2, <1>3, SMTT(30) DEF Faithful, Grown

\* A counted write of the handle on the cache's branch, by a sibling.
LEMMA FaithfulCounted ==
    ASSUME NEW c, NEW rs \in Seq(Message), NEW r \in Nat, NEW k \in CounterT, NEW new, clock \in Nat,
           Faithful(c, rs, r, k, clock), Written(rs, new)
    PROVE  Faithful(c, new, clock + 1, Counted(k, r), clock + 1)
<1> DEFINE k2 == Counted(k, r)
<1>1. /\ c \in CacheT /\ c.rev \in Nat /\ c.rev <= clock + 1 /\ c.rev # clock + 1
      /\ c.gap \in Nat /\ c.count \in Nat /\ c.rows \in Seq(Message)
      /\ k.gaps \in Nat /\ k.count \in Nat
      /\ c.gap <= k.gaps /\ c.count <= k.count /\ Grown(c, rs, r, k)
    BY DEF Faithful, CacheT, CounterT
<1>2. /\ k2.count = k.count + 1 /\ k2.last = clock + 1 /\ k.gaps <= k2.gaps /\ k2.gaps \in Nat
      /\ k2.gaps = k.gaps => k.last = r
    BY CountedIs DEF CounterT
<1>3. Len(rs) \in Nat /\ Len(c.rows) \in Nat
    BY <1>1, LenProperties
<1> HIDE DEF k2
<1>4. PICK d \in Nat : d = k.count - c.count /\ d + 1 = k2.count - c.count
    <2>1. k.count - c.count \in Nat
        BY <1>1
    <2>2. (k.count - c.count) + 1 = k2.count - c.count
        BY <1>1, <1>2
    <2>. QED  BY <2>1, <2>2
<1>6. PICK m \in Nat, l \in Nat : m = Len(rs) /\ l = Len(c.rows)
    BY <1>3
<1>9. ASSUME c.gap = k2.gaps
      PROVE  Len(new) <= l + (d + 1) /\ (Len(new) = l + (d + 1) => Begins(c.rows, new))
    <2>1. c.gap = k.gaps /\ k.last = r
        BY <1>1, <1>2, <1>9
    <2>2. m <= l + d /\ (m = l + d => Begins(c.rows, rs))
        BY <1>1, <1>4, <1>6, <2>1 DEF Grown
    <2>3. CASE Changed(rs, new)
        <3>1. PICK n \in Nat : n = Len(new) /\ n <= m
            BY <1>6, <2>3, LenProperties DEF Changed
        <3>2. n <= l + (d + 1) /\ n # l + (d + 1)
            BY <2>2, <3>1
        <3>. QED  BY <3>1, <3>2
    <2>4. CASE Appended(rs, new)
        <3>1. Len(new) = m + 1 /\ \A i \in 1 .. m : new[i] = rs[i]
            BY <1>6, <2>4, AppendProperties DEF Appended
        <3>2. Begins(c.rows, rs) => Begins(c.rows, new)
            BY <1>6, <3>1 DEF Begins
        <3>3. m + 1 <= l + (d + 1) /\ (m + 1 = l + (d + 1) => m = l + d)
            BY <2>2
        <3>. QED  BY <2>2, <3>1, <3>2, <3>3
    <2>. QED  BY <2>3, <2>4 DEF Written
<1>5. Grown(c, new, clock + 1, k2)
    BY <1>4, <1>6, <1>9 DEF Grown
<1>7. Faithful(c, new, clock + 1, k2, clock + 1)
    BY <1>1, <1>2, <1>5 DEF Faithful
<1>. QED  BY <1>7 DEF k2

-----------------------------------------------------------------------------
(* The caches and indexes of the store.                                    *)

CacheRight(c, k, rw, rv, t) ==
    \/ c = NoCache
    \/ /\ c.branch \in Branches /\ rv[c.branch] # None
       /\ Faithful(c, rw[c.branch], rv[c.branch], k, t)
IndexRight(x, rw, rv, t) ==
    \/ x = NoIndex
    \/ /\ x \in IndexT /\ x.branch \in Branches /\ rv[x.branch] # None
       /\ x.rev = None \/ x.rev <= t
       /\ x.rev = rv[x.branch] => x.ids = Ids(rw[x.branch])

Slots ==
    /\ world \in Worlds /\ clock \in Nat
    /\ rows \in [Branches -> Seq(Message)] /\ rev \in [Branches -> Nat \cup {None}]
    /\ \A b \in Branches : rev[b] # None => rev[b] <= clock
HandlesRight ==
    /\ at \in [Handles -> Branches \cup {None}] /\ counters \in [Handles -> CounterT]
    /\ \A h \in Handles : at[h] # None => rev[at[h]] # None
    /\ \A h \in Handles : counters[h].last # None => counters[h].last <= clock
InstanceRight(i) ==
    /\ CacheRight(cache[i], counters[HandleOf[i]], rows, rev, clock)
    /\ IndexRight(index[i], rows, rev, clock)
    /\ index[i] = NoIndex => cache[i] = NoCache
    /\ index[i] # NoIndex => at[HandleOf[i]] # None /\ counters[HandleOf[i]].last # None
InstancesRight ==
    /\ cache \in [Instances -> CacheT] /\ index \in [Instances -> IndexT]
    /\ \A i \in Instances : InstanceRight(i)
StoreRight == Slots /\ HandlesRight /\ InstancesRight

\* What an instance keeps before it reads anything.
LEMMA NoneIs ==
    /\ NoCache \in CacheT /\ NoIndex \in IndexT /\ NoCache.branch = None /\ NoIndex.branch = None
    /\ \A s \in SlotT : \A t : Against(NoCache, s, t)
<1>1. <<>> \in Seq(Message) /\ <<>> \in Seq(Nat)
    BY EmptySeq
<1>2. NoCache \in CacheT /\ NoIndex \in IndexT /\ NoCache.branch = None /\ NoIndex.branch = None
    BY <1>1 DEF NoCache, NoIndex, CacheT, IndexT
<1>. QED  BY <1>2, StoreAssumption DEF Against, SlotT

\* What an opened instance's slot is.
LEMMA SlotIs ==
    ASSUME StoreRight, NEW i \in Instances, Here(i) # None
    PROVE  /\ HandleOf[i] \in Handles /\ Here(i) \in Branches
           /\ Slot(i) \in SlotT /\ Slot(i).branch = Here(i)
           /\ Slot(i).rows = rows[Here(i)] /\ Slot(i).rev = rev[Here(i)] /\ Slot(i).k = counters[HandleOf[i]]
           /\ Slot(i).rev <= clock /\ rev[Here(i)] # None
<1>1. HandleOf[i] \in Handles
    BY DEF Handles
<1>2. Here(i) \in Branches
    BY <1>1 DEF StoreRight, HandlesRight, Here
<1>3. rev[Here(i)] # None /\ counters[HandleOf[i]] \in CounterT
    BY <1>1 DEF StoreRight, HandlesRight, Here
<1>4. rev[Here(i)] \in Nat /\ rev[Here(i)] <= clock /\ rows[Here(i)] \in Seq(Message)
    BY <1>2, <1>3 DEF StoreRight, Slots
<1>. QED  BY <1>1, <1>2, <1>3, <1>4 DEF Slot, SlotT

\* An opened instance has an index, a branch and a baseline.
LEMMA OpenedIs ==
    ASSUME StoreRight, NEW i \in Instances
    PROVE  /\ Opened(i) <=> index[i] # NoIndex
           /\ Opened(i) => Here(i) # None /\ counters[HandleOf[i]].last # None
<1>1. InstanceRight(i)
    BY DEF StoreRight, InstancesRight
<1>2. index[i] # NoIndex => index[i].branch \in Branches /\ at[HandleOf[i]] # None /\ counters[HandleOf[i]].last # None
    BY <1>1 DEF InstanceRight, IndexRight
<1>. QED  BY <1>2, NoneIs, StoreAssumption DEF Opened, Here

\* A cache against the slot its instance reads.
LEMMA CacheAgainst ==
    ASSUME StoreRight, NEW i \in Instances, Here(i) # None
    PROVE  Against(cache[i], Slot(i), clock)
<1>1. InstanceRight(i) /\ cache[i] \in CacheT
    BY DEF StoreRight, InstancesRight
<1>2. CASE cache[i] = NoCache
    BY <1>2, NoneIs, SlotIs
<1>3. CASE cache[i] # NoCache
    <2>1. cache[i].branch = Here(i) => Faithful(cache[i], rows[Here(i)], rev[Here(i)], counters[HandleOf[i]], clock)
        BY <1>1, <1>3 DEF InstanceRight, CacheRight
    <2>. QED  BY <1>1, <2>1, SlotIs DEF Against
<1>. QED  BY <1>2, <1>3

\* The index of a slot found current is its rows' ids, and one built is.
LEMMA IdsType ==
    ASSUME NEW rs \in Seq(Message)
    PROVE  /\ Ids(rs) \in Seq(Nat) /\ Len(Ids(rs)) = Len(rs) /\ DOMAIN Ids(rs) = 1 .. Len(rs)
           /\ \A n \in 1 .. Len(rs) : Ids(rs)[n] = rs[n].id
<1>1. Len(rs) \in Nat /\ DOMAIN rs = 1 .. Len(rs) /\ \A n \in 1 .. Len(rs) : rs[n] \in Message
    BY LenProperties, ElementOfSeq
<1>2. \A n \in 1 .. Len(rs) : rs[n].id \in Nat
    BY <1>1 DEF Message
<1>3. Ids(rs) \in Seq(Nat)
    BY <1>1, <1>2, IsASeq DEF Ids
<1>. QED  BY <1>1, <1>3, LenProperties DEF Ids

\* A lookup: the index, and the cache it loads to rebuild one (lookupIndex).
LEMMA LookupRight ==
    ASSUME StoreRight, NEW i \in Instances, Here(i) # None
    PROVE  /\ LookedUp(index[i], cache[i], Slot(i)) \in IndexT
           /\ LookedUp(index[i], cache[i], Slot(i)).branch = Here(i)
           /\ LookedUp(index[i], cache[i], Slot(i)).rev = rev[Here(i)]
           /\ LookedUp(index[i], cache[i], Slot(i)).ids = Ids(rows[Here(i)])
           /\ Against(CacheLookedUp(index[i], cache[i], Slot(i)), Slot(i), clock)
           /\ CacheRight(CacheLookedUp(index[i], cache[i], Slot(i)), counters[HandleOf[i]], rows, rev, clock)
<1> DEFINE s == Slot(i)
           b == Here(i)
<1>1. /\ s \in SlotT /\ s.branch = b /\ s.rows = rows[b] /\ s.rev = rev[b] /\ s.rev <= clock
      /\ b \in Branches /\ rev[b] # None /\ s.k = counters[HandleOf[i]]
    BY SlotIs
<1>2. Against(cache[i], s, clock) /\ clock \in Nat
    BY CacheAgainst DEF StoreRight, Slots
<1>3. InstanceRight(i) /\ index[i] \in IndexT
    BY DEF StoreRight, InstancesRight
<1>4. /\ Loaded(cache[i], s) \in CacheT /\ Loaded(cache[i], s).branch = b /\ Loaded(cache[i], s).rows = rows[b]
      /\ Faithful(Loaded(cache[i], s), rows[b], rev[b], counters[HandleOf[i]], clock)
    BY <1>1, <1>2, LoadedFaithful
<1> HIDE DEF s, b
<1>5. CASE Current(index[i], s)
    <2>1. index[i].branch = b /\ index[i].rev = rev[b]
        BY <1>1, <1>5 DEF Current
    <2>2. index[i] # NoIndex
        BY <1>1, <2>1, NoneIs, StoreAssumption
    <2>3. index[i].ids = Ids(rows[b])
        BY <1>3, <2>1, <2>2 DEF InstanceRight, IndexRight
    <2>4. LookedUp(index[i], cache[i], s) = index[i] /\ CacheLookedUp(index[i], cache[i], s) = cache[i]
        BY <1>5 DEF LookedUp, CacheLookedUp
    <2>. QED  BY <1>2, <1>3, <2>1, <2>3, <2>4 DEF InstanceRight, s, b
<1>6. CASE ~Current(index[i], s)
    <2>1. LookedUp(index[i], cache[i], s) = Indexed(cache[i], s) /\ CacheLookedUp(index[i], cache[i], s) = Loaded(cache[i], s)
        BY <1>6 DEF LookedUp, CacheLookedUp
    <2>2. Ids(rows[b]) \in Seq(Nat) /\ s.rev \in Nat
        BY <1>1, IdsType DEF SlotT
    <2>3. Indexed(cache[i], s) = [branch |-> b, rev |-> rev[b], ids |-> Ids(rows[b])]
        BY <1>1, <1>4 DEF Indexed
    <2>4. Indexed(cache[i], s) \in IndexT
        BY <1>1, <2>2, <2>3 DEF IndexT
    <2>5. CacheRight(Loaded(cache[i], s), counters[HandleOf[i]], rows, rev, clock)
        BY <1>1, <1>4 DEF CacheRight
    <2>6. Against(Loaded(cache[i], s), s, clock)
        BY <1>1, <1>4 DEF Against
    <2>. QED  BY <2>1, <2>3, <2>4, <2>5, <2>6 DEF s, b
<1>. QED  BY <1>5, <1>6

\* The store is right, so what an instance reads is what is stored.
LEMMA RightReads ==
    ASSUME StoreRight
    PROVE  ReadsWhatIsStored
<1> SUFFICES ASSUME NEW i \in Instances, Opened(i)
             PROVE  /\ Loaded(cache[i], Slot(i)).rows = Slot(i).rows
                    /\ LookedUp(index[i], cache[i], Slot(i)).ids = Ids(Slot(i).rows)
    BY DEF ReadsWhatIsStored
<1>1. Here(i) # None
    BY OpenedIs
<1>2. Loaded(cache[i], Slot(i)).rows = Slot(i).rows
    BY <1>1, SlotIs, CacheAgainst, LoadedFaithful DEF StoreRight, Slots
<1>3. LookedUp(index[i], cache[i], Slot(i)).ids = Ids(Slot(i).rows)
    BY <1>1, SlotIs, LookupRight
<1>. QED  BY <1>2, <1>3

-----------------------------------------------------------------------------
(* A counted write through instance i leaves the store right, if it leaves *)
(* i's cache and index right.                                              *)

\* A slot as a counted write leaves it.
LEMMA AfterIs ==
    ASSUME NEW d, NEW rs, NEW r, NEW k, NEW new
    PROVE  After([branch |-> d, rows |-> rs, rev |-> r, k |-> k], new)
             = [branch |-> d, rows |-> new, rev |-> clock + 1, k |-> Counted(k, r)]
BY DEF After

\* What a counted write of an instance leaves right, whatever it makes of its cache and index.
LEMMA WriteKeeps ==
    ASSUME StoreRight, NEW i \in Instances, Opened(i),
           NEW new, Written(rows[Here(i)], new), Writes(i, After(Slot(i), new)),
           NEW c, NEW x, Keeps(i, c, x), c \in CacheT,
           Against(c, After(Slot(i), new), clock + 1),
           c = NoCache \/ c.branch = Here(i),
           \/ x = index[i]
           \/ /\ x \in IndexT /\ x.branch = Here(i) /\ x.rev = clock + 1 /\ x.ids = Ids(new)
    PROVE  StoreRight'
<1> DEFINE b == Here(i)
           h == HandleOf[i]
           k2 == Counted(counters[h], rev[b])
<1>0. Here(i) # None /\ counters[h].last # None
    BY OpenedIs
<1>1. /\ h \in Handles /\ b \in Branches /\ rev[b] # None /\ rev[b] \in Nat /\ clock \in Nat
      /\ counters[h] \in CounterT /\ rows[b] \in Seq(Message) /\ at[h] = b
      /\ Slot(i) = [branch |-> b, rows |-> rows[b], rev |-> rev[b], k |-> counters[h]]
    BY <1>0, SlotIs DEF StoreRight, Slots, HandlesRight, SlotT, Slot, Here
<1>2. /\ clock' = clock + 1 /\ rows' = [rows EXCEPT ![b] = new] /\ rev' = [rev EXCEPT ![b] = clock + 1]
      /\ counters' = [counters EXCEPT ![h] = k2] /\ world' = world /\ at' = at
      /\ cache' = [cache EXCEPT ![i] = c] /\ index' = [index EXCEPT ![i] = x]
    BY <1>1 DEF Writes, After, Keeps
<1>3. new \in Seq(Message)
    BY <1>1, WrittenIsRows
<1>4. k2 \in CounterT /\ k2.last = clock + 1
    BY <1>1, CountedIs
<1>5. After(Slot(i), new) = [branch |-> b, rows |-> new, rev |-> clock + 1, k |-> k2]
    BY <1>1, AfterIs
<1> HIDE DEF k2, b, h
<1>6. Slots'
    <2>1. rows' \in [Branches -> Seq(Message)] /\ rev' \in [Branches -> Nat \cup {None}]
        BY <1>1, <1>2, <1>3 DEF StoreRight, Slots
    <2>2. \A d \in Branches : rev'[d] # None => rev'[d] <= clock'
        BY <1>1, <1>2, StoreAssumption DEF StoreRight, Slots
    <2>. QED  BY <1>1, <1>2, <2>1, <2>2 DEF StoreRight, Slots
<1>7. HandlesRight'
    <2>1. counters' \in [Handles -> CounterT]
        BY <1>1, <1>2, <1>4 DEF StoreRight, HandlesRight
    <2>2. \A g \in Handles : at'[g] # None => rev'[at'[g]] # None
        BY <1>1, <1>2, StoreAssumption DEF StoreRight, Slots, HandlesRight
    <2>3. ASSUME NEW g \in Handles, counters'[g].last # None PROVE counters'[g].last <= clock'
        <3>1. CASE g = h
            BY <1>1, <1>2, <1>4, <3>1 DEF StoreRight, HandlesRight
        <3>2. CASE g # h
            <4>1. counters'[g] = counters[g] /\ counters[g].last \in Nat /\ counters[g].last <= clock
                BY <1>1, <1>2, <2>3, <3>2 DEF StoreRight, HandlesRight, CounterT
            <4>. QED  BY <1>1, <1>2, <4>1
        <3>. QED  BY <3>1, <3>2
    <2>. QED  BY <1>2, <2>1, <2>2, <2>3 DEF StoreRight, HandlesRight
<1>8. cache' \in [Instances -> CacheT] /\ index' \in [Instances -> IndexT]
    <2>1. x \in IndexT
        BY DEF StoreRight, InstancesRight
    <2>. QED  BY <1>2, <2>1 DEF StoreRight, InstancesRight
<1>11. \A j \in Instances : InstanceRight(j) /\ index[j] \in IndexT
    BY DEF StoreRight, InstancesRight
<1>10. ASSUME NEW j \in Instances PROVE IndexRight(index[j], rows', rev', clock')
    <2>1. CASE index[j] = NoIndex
        BY <2>1 DEF IndexRight
    <2>2. CASE index[j] # NoIndex
        <3> DEFINE d == index[j].branch
        <3>1. /\ d \in Branches /\ rev[d] # None
              /\ index[j].rev = None \/ (index[j].rev \in Nat /\ index[j].rev <= clock)
              /\ index[j].rev = rev[d] => index[j].ids = Ids(rows[d])
            BY <1>11, <2>2 DEF InstanceRight, IndexRight, IndexT
        <3>2. index[j].rev # clock + 1 /\ (index[j].rev = None \/ index[j].rev <= clock + 1)
            BY <1>1, <3>1, StoreAssumption
        <3>3. CASE d = b
            <4>1. rev'[d] = clock + 1
                BY <1>1, <1>2, <3>3 DEF StoreRight, Slots
            <4>. QED  BY <1>1, <1>2, <1>11, <3>1, <3>2, <4>1, StoreAssumption DEF IndexRight
        <3>4. CASE d # b
            <4>1. rows'[d] = rows[d] /\ rev'[d] = rev[d]
                BY <1>1, <1>2, <3>1, <3>4 DEF StoreRight, Slots
            <4>. QED  BY <1>2, <1>11, <3>1, <3>2, <4>1 DEF IndexRight
        <3>. QED  BY <3>3, <3>4
    <2>. QED  BY <2>1, <2>2
<1>9. ASSUME NEW j \in Instances PROVE InstanceRight(j)'
    <2>0. InstanceRight(j) /\ HandleOf[j] \in Handles /\ cache[j] \in CacheT /\ index[j] \in IndexT
        BY DEF StoreRight, InstancesRight, Handles
    <2>1. CASE j = i
        <3>1. cache'[j] = c /\ index'[j] = x /\ rows'[b] = new /\ rev'[b] = clock + 1 /\ counters'[h] = k2
            BY <1>1, <1>2, <2>1 DEF StoreRight, Slots, HandlesRight, InstancesRight
        <3>2. c = NoCache \/ (c.branch = b /\ Faithful(c, new, clock + 1, k2, clock + 1))
            BY <1>5 DEF Against, b
        <3>3. CacheRight(c, k2, rows', rev', clock')
            BY <1>1, <1>2, <3>1, <3>2, StoreAssumption DEF CacheRight
        <3>4. IndexRight(x, rows', rev', clock')
            <4>1. CASE x = index[i]
                BY <1>10, <4>1
            <4>2. CASE x # index[i]
                BY <1>1, <1>2, <3>1, <4>2, StoreAssumption DEF IndexRight, b
            <4>. QED  BY <4>1, <4>2
        <3>5. x # NoIndex
            BY <1>0, NoneIs, OpenedIs
        <3>6. at'[h] # None /\ k2.last # None
            BY <1>0, <1>1, <1>2, <1>4, StoreAssumption DEF b
        <3>. QED  BY <2>1, <3>1, <3>3, <3>4, <3>5, <3>6 DEF InstanceRight, h
    <2>2. CASE j # i
        <3>1. cache'[j] = cache[j] /\ index'[j] = index[j]
            BY <1>2, <2>2 DEF StoreRight, InstancesRight
        <3>2. CacheRight(cache[j], counters'[HandleOf[j]], rows', rev', clock')
            <4>1. CASE cache[j] = NoCache
                BY <4>1 DEF CacheRight
            <4>2. CASE cache[j] # NoCache
                <5> DEFINE d == cache[j].branch
                           g == HandleOf[j]
                <5>1. /\ d \in Branches /\ rev[d] # None /\ rev[d] \in Nat /\ rev[d] <= clock
                      /\ rows[d] \in Seq(Message) /\ counters[g] \in CounterT
                      /\ Faithful(cache[j], rows[d], rev[d], counters[g], clock)
                    BY <2>0, <4>2 DEF InstanceRight, CacheRight, StoreRight, Slots, HandlesRight
                <5>2. counters[g].last = None \/ counters[g].last <= clock
                    BY <2>0 DEF StoreRight, HandlesRight
                <5>3. CASE d = b /\ g = h
                    <6>1. Faithful(cache[j], new, clock + 1, k2, clock + 1)
                        BY <1>1, <5>1, <5>3, FaithfulCounted DEF k2, b
                    <6>2. rows'[d] = new /\ rev'[d] = clock + 1 /\ counters'[g] = k2
                        BY <1>1, <1>2, <5>3 DEF StoreRight, Slots, HandlesRight
                    <6>. QED  BY <1>1, <1>2, <5>1, <6>1, <6>2, StoreAssumption DEF CacheRight
                <5>4. CASE d = b /\ g # h
                    <6>1. Faithful(cache[j], new, clock + 1, counters[g], clock + 1)
                        BY <1>1, <5>1, <5>2, FaithfulUncounted
                    <6>2. rows'[d] = new /\ rev'[d] = clock + 1 /\ counters'[g] = counters[g]
                        BY <1>1, <1>2, <2>0, <5>4 DEF StoreRight, Slots, HandlesRight
                    <6>. QED  BY <1>1, <1>2, <5>1, <6>1, <6>2, StoreAssumption DEF CacheRight
                <5>5. CASE d # b /\ g = h
                    <6>1. Faithful(cache[j], rows[d], rev[d], k2, clock + 1)
                        BY <1>1, <5>1, <5>5, FaithfulElsewhere DEF k2
                    <6>2. rows'[d] = rows[d] /\ rev'[d] = rev[d] /\ counters'[g] = k2
                        BY <1>1, <1>2, <5>1, <5>5 DEF StoreRight, Slots, HandlesRight
                    <6>. QED  BY <1>2, <5>1, <6>1, <6>2 DEF CacheRight
                <5>6. CASE d # b /\ g # h
                    <6>1. Faithful(cache[j], rows[d], rev[d], counters[g], clock + 1)
                        BY <1>1, <5>1, FaithfulLater
                    <6>2. rows'[d] = rows[d] /\ rev'[d] = rev[d] /\ counters'[g] = counters[g]
                        BY <1>1, <1>2, <2>0, <5>1, <5>6 DEF StoreRight, Slots, HandlesRight
                    <6>. QED  BY <1>2, <5>1, <6>1, <6>2 DEF CacheRight
                <5>. QED  BY <5>3, <5>4, <5>5, <5>6
            <4>. QED  BY <4>1, <4>2
        <3>3. IndexRight(index[j], rows', rev', clock')
            BY <1>10
        <3>4. ASSUME index[j] # NoIndex PROVE at'[HandleOf[j]] # None /\ counters'[HandleOf[j]].last # None
            <4>1. at[HandleOf[j]] # None /\ counters[HandleOf[j]].last # None
                BY <2>0, <3>4 DEF InstanceRight
            <4>2. counters'[HandleOf[j]] = k2 \/ counters'[HandleOf[j]] = counters[HandleOf[j]]
                BY <1>1, <1>2, <2>0 DEF StoreRight, HandlesRight
            <4>. QED  BY <1>1, <1>2, <1>4, <4>1, <4>2, StoreAssumption
        <3>. QED  BY <2>0, <3>1, <3>2, <3>3, <3>4 DEF InstanceRight
    <2>. QED  BY <2>1, <2>2
<1>. QED  BY <1>6, <1>7, <1>8, <1>9 DEF StoreRight, InstancesRight

-----------------------------------------------------------------------------
(* The counted writes, one by one.                                         *)

\* A cache as current as its slot's counters.
LEMMA CurrentFaithful ==
    ASSUME NEW c \in CacheT, NEW rs \in Seq(Message), NEW r \in Nat, NEW k \in CounterT, NEW t \in Nat,
           r <= t, c.rows = rs, c.rev = r, c.count = k.count, c.gap <= k.gaps
    PROVE  Faithful(c, rs, r, k, t)
<1>1. Begins(rs, rs) /\ Len(rs) \in Nat /\ c.count \in Nat
    BY LenProperties DEF Begins, CacheT
<1>2. k.count - c.count = 0 /\ c.count <= k.count
    BY <1>1
<1>3. Grown(c, rs, r, k)
    BY <1>1, <1>2 DEF Grown
<1>. QED  BY <1>2, <1>3 DEF Faithful

\* What the write by i makes of its slot.
LEMMA AfterSlot ==
    ASSUME StoreRight, NEW i \in Instances, Opened(i), NEW new, Written(rows[Here(i)], new)
    PROVE  /\ After(Slot(i), new) \in SlotT /\ After(Slot(i), new).branch = Here(i)
           /\ After(Slot(i), new).rows = new /\ After(Slot(i), new).rev = clock + 1
           /\ After(Slot(i), new).k = Counted(counters[HandleOf[i]], rev[Here(i)])
           /\ After(Slot(i), new).k.count = Slot(i).k.count + 1
           /\ Slot(i).k.gaps <= After(Slot(i), new).k.gaps
           /\ After(Slot(i), new).k.gaps = Slot(i).k.gaps => Slot(i).k.last = Slot(i).rev
           /\ Slot(i).k \in CounterT /\ clock \in Nat
           /\ new \in Seq(Message)
<1>1. Here(i) # None
    BY OpenedIs
<1>2. /\ Slot(i) \in SlotT /\ Slot(i).branch = Here(i) /\ Slot(i).rows = rows[Here(i)] /\ Slot(i).rev = rev[Here(i)]
      /\ Slot(i).k = counters[HandleOf[i]] /\ clock \in Nat
      /\ Slot(i).k \in CounterT /\ Slot(i).rev \in Nat /\ Here(i) \in Branches /\ rows[Here(i)] \in Seq(Message)
    BY <1>1, SlotIs DEF StoreRight, Slots, SlotT
<1>3. new \in Seq(Message)
    BY <1>2, WrittenIsRows
<1>4. /\ Counted(Slot(i).k, Slot(i).rev) \in CounterT
      /\ Counted(Slot(i).k, Slot(i).rev).count = Slot(i).k.count + 1
      /\ Slot(i).k.gaps <= Counted(Slot(i).k, Slot(i).rev).gaps
      /\ Counted(Slot(i).k, Slot(i).rev).gaps = Slot(i).k.gaps => Slot(i).k.last = Slot(i).rev
    BY <1>2, CountedIs
<1>. QED  BY <1>2, <1>3, <1>4 DEF After, SlotT

\* A cache faithful to the slot is, of the slot written, but for being current.
LEMMA AgainstWritten ==
    ASSUME StoreRight, NEW i \in Instances, Opened(i), NEW new, Written(rows[Here(i)], new),
           NEW c, Against(c, Slot(i), clock), c.branch = Here(i)
    PROVE  Faithful(c, new, clock + 1, After(Slot(i), new).k, clock + 1)
<1>1. Here(i) # None
    BY OpenedIs
<1>2. /\ Slot(i) \in SlotT /\ Slot(i).branch = Here(i) /\ Slot(i).rows = rows[Here(i)] /\ Slot(i).rev = rev[Here(i)]
      /\ Slot(i).k = counters[HandleOf[i]] /\ Slot(i).k \in CounterT /\ Slot(i).rev \in Nat /\ rows[Here(i)] \in Seq(Message)
    BY <1>1, SlotIs DEF SlotT
<1>3. Faithful(c, rows[Here(i)], rev[Here(i)], Slot(i).k, clock)
    BY <1>2 DEF Against
<1>4. clock \in Nat /\ After(Slot(i), new).k = Counted(Slot(i).k, rev[Here(i)])
    BY <1>2, AfterSlot
<1>. QED  BY <1>2, <1>3, <1>4, FaithfulCounted

\* appendMessage.
LEMMA AppendKeeps ==
    ASSUME StoreRight, NEW i \in Instances, Opened(i), AppendMessage(i)
    PROVE  StoreRight'
<1> DEFINE s == Slot(i)
           rs == rows[Here(i)]
           new == Append(rs, Row)
           t == After(s, new)
           c == cache[i]
           x == index[i]
<1>1. Here(i) # None
    BY OpenedIs
<1>2. /\ s \in SlotT /\ s.branch = Here(i) /\ s.rows = rs /\ s.rev = rev[Here(i)] /\ s.rev \in Nat
      /\ rs \in Seq(Message) /\ clock \in Nat /\ Here(i) \in Branches /\ s.rev <= clock
    BY <1>1, SlotIs DEF StoreRight, Slots, SlotT
<1>3. Row \in Message
    BY <1>2 DEF Row, Message
<1>4. Written(rs, new) /\ new \in Seq(Message) /\ Len(new) = Len(rs) + 1 /\ new[Len(new)] = Row /\ Len(rs) \in Nat
    BY <1>2, <1>3, AppendProperties, LenProperties DEF Written, Appended
<1>5. /\ t \in SlotT /\ t.branch = Here(i) /\ t.rows = new /\ t.rev = clock + 1 /\ t.k.count = s.k.count + 1
      /\ s.k.gaps <= t.k.gaps /\ t.k \in CounterT /\ s.k \in CounterT
    BY <1>4, AfterSlot DEF SlotT
<1>6. Writes(i, t) /\ Keeps(i, Through(c, Current(c, s), s, t), Reindexed(x, s, t))
    BY <1>2 DEF AppendMessage
<1>7. c \in CacheT /\ x \in IndexT /\ InstanceRight(i) /\ Against(c, s, clock)
    BY <1>1, CacheAgainst DEF StoreRight, InstancesRight
<1> HIDE DEF s, rs, new, t, c, x
<1>8. LET d == Through(c, Current(c, s), s, t) IN
      d \in CacheT /\ Against(d, t, clock + 1) /\ (d = NoCache \/ d.branch = Here(i))
    <2>1. CASE Current(c, s)
        <3> DEFINE d == [c EXCEPT !.rows = Append(@, t.rows[Len(t.rows)]), !.rev = t.rev, !.count = t.k.count]
        <3>1. Through(c, Current(c, s), s, t) = d
            BY <2>1 DEF Through
        <3>2. c.branch = Here(i) /\ c.rows = rs /\ c.gap <= s.k.gaps /\ c.gap \in Nat
            BY <1>2, <1>7, <2>1 DEF Current, Against, Faithful, CacheT
        <3>3. t.rows[Len(t.rows)] = Row /\ t.k.count \in Nat /\ t.k.gaps \in Nat /\ s.k.gaps \in Nat
            BY <1>4, <1>5 DEF CounterT
        <3>4. d \in CacheT /\ d.branch = Here(i) /\ d.rows = Append(c.rows, Row) /\ d.rev = clock + 1 /\ d.count = t.k.count /\ d.gap = c.gap
            <4>1. Append(c.rows, t.rows[Len(t.rows)]) \in Seq(Message) /\ t.rev \in Nat
                BY <1>2, <1>3, <1>4, <1>5, <3>2, <3>3, AppendProperties
            <4>2. c \in [branch : Branches \cup {None}, rows : Seq(Message), rev : Nat, count : Nat, gap : Nat]
                BY <1>7 DEF CacheT
            <4>3. d \in CacheT
                BY <3>3, <4>1, <4>2 DEF CacheT
            <4>4. /\ d.branch = c.branch /\ d.rows = Append(c.rows, t.rows[Len(t.rows)]) /\ d.rev = t.rev
                  /\ d.count = t.k.count /\ d.gap = c.gap
                BY <4>2
            <4>. QED  BY <1>5, <3>2, <3>3, <4>3, <4>4
        <3>5. Faithful(d, new, clock + 1, t.k, clock + 1)
            <4> HIDE DEF d
            <4>1. d.rows = new
                BY <3>2, <3>4 DEF new
            <4>2. d.gap <= t.k.gaps
                BY <1>5, <3>2, <3>3, <3>4
            <4>. QED  BY <1>2, <1>4, <1>5, <3>4, <4>1, <4>2, CurrentFaithful
        <3> HIDE DEF d
        <3>. QED  BY <1>5, <3>1, <3>4, <3>5 DEF Against
    <2>2. CASE ~Current(c, s)
        <3> DEFINE added == t.k.count - 1 - c.count
        <3>1. CASE c.branch = s.branch /\ added > 0 /\ SeenFree(c, t) /\ Grew(c, t, added + 1)
            <4>1. Through(c, Current(c, s), s, t) = Stamped(Extended(c, t, added + 1), t)
                BY <2>2, <3>1 DEF Through
            <4>2. Faithful(c, new, clock + 1, t.k, clock + 1)
                BY <1>2, <1>4, <1>7, <3>1, AgainstWritten DEF s, t, rs
            <4>3. c.gap = t.k.gaps /\ t.k.last = clock + 1 /\ Len(new) = Len(c.rows) + (added + 1)
                <5>1. t.k.last = clock + 1
                    BY <1>2, <1>5, CountedIs DEF t, After
                <5>. QED  BY <1>5, <3>1, <5>1 DEF SeenFree, Grew
            <4>4. added + 1 = t.k.count - c.count
                BY <1>5, <1>7 DEF CounterT, CacheT
            <4>5. Begins(c.rows, new)
                <5> HIDE DEF added
                <5>. QED  BY <4>2, <4>3, <4>4 DEF Faithful, Grown
            <4>6. Extended(c, t, added + 1) = t.rows
                BY <1>4, <1>5, <1>7, <4>5, PrefixAndRest DEF Extended, CacheT
            <4>7. t.rev <= clock + 1 /\ clock + 1 \in Nat
                BY <1>2, <1>5
            <4>8. Stamped(t.rows, t) \in CacheT /\ Stamped(t.rows, t).branch = t.branch /\ Against(Stamped(t.rows, t), t, clock + 1)
                BY <1>5, <4>7, StampedFaithful DEF Against
            <4>. QED  BY <1>5, <4>1, <4>6, <4>8
        <3>2. CASE ~(c.branch = s.branch /\ added > 0 /\ SeenFree(c, t) /\ Grew(c, t, added + 1))
            <4>1. Through(c, Current(c, s), s, t) = NoCache
                BY <2>2, <3>2 DEF Through
            <4>. QED  BY <1>5, <4>1, NoneIs
        <3>. QED  BY <3>1, <3>2
    <2>. QED  BY <2>1, <2>2
<1>9. LET y == Reindexed(x, s, t) IN
      y = x \/ (y \in IndexT /\ y.branch = Here(i) /\ y.rev = clock + 1 /\ y.ids = Ids(new))
    <2>1. CASE Current(x, s)
        <3> DEFINE y == [x EXCEPT !.ids = Append(@, clock + 1), !.rev = t.rev]
        <3>1. Reindexed(x, s, t) = y
            BY <2>1 DEF Reindexed
        <3>2. x.branch = Here(i) /\ x.rev = rev[Here(i)] /\ x # NoIndex
            BY <1>1, <1>2, <2>1, NoneIs DEF Current
        <3>3. x.ids = Ids(rs)
            BY <1>7, <3>2 DEF InstanceRight, IndexRight, x, rs
        <3>4. Ids(rs) \in Seq(Nat) /\ Ids(new) \in Seq(Nat) /\ Len(Ids(rs)) = Len(rs) /\ Len(Ids(new)) = Len(new)
            BY <1>2, <1>4, IdsType
        <3>5. Append(Ids(rs), clock + 1) = Ids(new)
            <4>1. /\ Append(Ids(rs), clock + 1) \in Seq(Nat) /\ Len(Append(Ids(rs), clock + 1)) = Len(rs) + 1
                  /\ \A n \in 1 .. Len(rs) : Append(Ids(rs), clock + 1)[n] = Ids(rs)[n]
                  /\ Append(Ids(rs), clock + 1)[Len(rs) + 1] = clock + 1
                BY <1>2, <3>4, AppendProperties
            <4>2. \A n \in 1 .. Len(rs) : Ids(rs)[n] = rs[n].id /\ new[n] = rs[n]
                BY <1>2, <1>3, IdsType, AppendProperties DEF new
            <4>3. \A n \in 1 .. Len(rs) + 1 : Ids(new)[n] = new[n].id
                BY <1>4, IdsType
            <4>4. Row.id = clock + 1
                BY DEF Row
            <4>5. \A n \in 1 .. Len(rs) + 1 : Append(Ids(rs), clock + 1)[n] = Ids(new)[n]
                <5> TAKE n \in 1 .. Len(rs) + 1
                <5>1. n \in 1 .. Len(rs) \/ n = Len(rs) + 1
                    BY <1>4
                <5>. QED  BY <1>4, <4>1, <4>2, <4>3, <4>4, <5>1
            <4>. QED  BY <1>4, <3>4, <4>1, <4>5, SeqEqual
        <3>6. y \in IndexT /\ y.branch = Here(i) /\ y.rev = clock + 1 /\ y.ids = Append(Ids(rs), clock + 1)
            <4>1. Append(x.ids, clock + 1) \in Seq(Nat) /\ t.rev \in Nat
                BY <1>2, <1>5, <3>3, <3>4, <3>5
            <4>2. x \in [branch : Branches \cup {None}, rev : Nat \cup {None}, ids : Seq(Nat)]
                BY <1>7 DEF IndexT
            <4>3. y \in IndexT
                BY <4>1, <4>2 DEF IndexT
            <4>4. y.branch = x.branch /\ y.rev = t.rev /\ y.ids = Append(x.ids, clock + 1)
                BY <4>2
            <4>. QED  BY <1>5, <3>2, <3>3, <4>3, <4>4
        <3> HIDE DEF y
        <3>. QED  BY <3>1, <3>5, <3>6
    <2>2. CASE ~Current(x, s)
        BY <2>2 DEF Reindexed
    <2>. QED  BY <2>1, <2>2
<1>. QED  BY <1>4, <1>6, <1>8, <1>9, WriteKeeps DEF s, t, x, rs

\* A cache that is not current, and too long for the writes counted since,
\* is never extended.
LEMMA FaithfulShort ==
    ASSUME NEW e \in CacheT, NEW new \in Seq(Message), NEW r \in Nat, NEW k \in CounterT, clock \in Nat,
           e.rev <= clock, e.gap <= k.gaps, e.count <= k.count,
           e.gap = k.gaps /\ k.last = r => Len(new) < Len(e.rows) + ((k.count - e.count) + 1)
    PROVE  Faithful(e, new, clock + 1, Counted(k, r), clock + 1)
<1> DEFINE k2 == Counted(k, r)
<1>1. /\ e.rev \in Nat /\ e.gap \in Nat /\ e.count \in Nat /\ k.gaps \in Nat /\ k.count \in Nat
    BY DEF CacheT, CounterT
<1>2. /\ k2.count = k.count + 1 /\ k.gaps <= k2.gaps /\ k2.gaps \in Nat /\ (k2.gaps = k.gaps => k.last = r)
    BY CountedIs DEF CounterT
<1> HIDE DEF k2
<1>3. k2.count - e.count = (k.count - e.count) + 1
    BY <1>1, <1>2
<1>4. e.gap = k2.gaps => e.gap = k.gaps /\ k.last = r
    BY <1>1, <1>2
<1>5. e.rev <= clock + 1 /\ e.rev # clock + 1 /\ e.gap <= k2.gaps /\ e.count <= k2.count
    BY <1>1, <1>2, SMTT(30)
<1>6. PICK l \in Nat, n \in Nat, d \in Int : l = Len(e.rows) /\ n = Len(new) /\ d = (k.count - e.count) + 1
    BY <1>1, LenProperties DEF CacheT
<1>7. e.gap = k2.gaps => n < l + d
    BY <1>4, <1>6
<1>8. e.gap = k2.gaps => n <= l + d /\ n # l + d
    BY <1>7
<1>9. Grown(e, new, clock + 1, k2)
    BY <1>3, <1>6, <1>8 DEF Grown
<1>. QED  BY <1>5, <1>9 DEF Faithful, k2

\* edit.
LEMMA EditKeeps ==
    ASSUME StoreRight, NEW i \in Instances, Opened(i), NEW n \in DOMAIN rows[Here(i)], EditMessage(i, n)
    PROVE  StoreRight'
<1> DEFINE s == Slot(i)
           rs == s.rows
           new == [rs EXCEPT ![n].ver = clock + 1]
           t == After(s, new)
           x == LookedUp(index[i], cache[i], s)
           c == CacheLookedUp(index[i], cache[i], s)
           e == [c EXCEPT !.rows[n] = t.rows[n]]
           f == [e EXCEPT !.rev = t.rev, !.count = t.k.count]
           d == IF c.branch = s.branch /\ n \in DOMAIN c.rows
                THEN IF Current(c, s) THEN f ELSE e
                ELSE NoCache
           y == [x EXCEPT !.rev = t.rev]
<1>1. Here(i) # None
    BY OpenedIs
<1>2. /\ s \in SlotT /\ s.branch = Here(i) /\ rs = rows[Here(i)] /\ s.rev = rev[Here(i)] /\ s.rev \in Nat
      /\ rs \in Seq(Message) /\ clock \in Nat /\ Here(i) \in Branches /\ s.rev <= clock
    BY <1>1, SlotIs DEF StoreRight, Slots, SlotT
<1>3. Len(rs) \in Nat /\ DOMAIN rs = 1 .. Len(rs) /\ \A m \in 1 .. Len(rs) : rs[m] \in Message
    BY <1>2, LenProperties, ElementOfSeq
<1>4. /\ new = [rs EXCEPT ![n] = [rs[n] EXCEPT !.ver = clock + 1]]
      /\ [rs[n] EXCEPT !.ver = clock + 1] \in Message /\ [rs[n] EXCEPT !.ver = clock + 1].id = rs[n].id
    <2>1. rs[n] \in [id : Nat, ver : Nat, body : Nat, shard : Nat]
        BY <1>2, <1>3 DEF Message
    <2>2. new = [rs EXCEPT ![n] = [rs[n] EXCEPT !.ver = clock + 1]]
        OBVIOUS
    <2>5. clock + 1 \in Nat
        BY <1>2
    <2>3. [rs[n] EXCEPT !.ver = clock + 1] \in Message
        BY <2>1, <2>5 DEF Message
    <2>4. [rs[n] EXCEPT !.ver = clock + 1].id = rs[n].id
        BY <2>1
    <2>. QED  BY <2>2, <2>3, <2>4
<1>5. new \in Seq(Message) /\ Len(new) = Len(rs) /\ DOMAIN new = 1 .. Len(rs) /\ \A m \in 1 .. Len(rs) : new[m].id = rs[m].id
    BY <1>2, <1>3, <1>4, ExceptSeq, LenProperties
<1>6. new[n] \in Message /\ (\A m \in 1 .. Len(rs) : m # n => new[m] = rs[m]) /\ n \in 1 .. Len(rs)
    BY <1>2, <1>3, <1>4
<1>7. Written(rs, new)
    BY <1>3, <1>5 DEF Written, Changed
<1>8. Writes(i, t) /\ Keeps(i, d, y)
    BY DEF EditMessage
<1>9. /\ t \in SlotT /\ t.branch = Here(i) /\ t.rows = new /\ t.rev = clock + 1 /\ t.k.count = s.k.count + 1
      /\ s.k.gaps <= t.k.gaps /\ t.k \in CounterT /\ s.k \in CounterT /\ t.k = Counted(s.k, s.rev)
    BY <1>2, <1>7, AfterSlot, SlotIs, <1>1 DEF SlotT
<1>10. /\ x \in IndexT /\ x.branch = Here(i) /\ x.ids = Ids(rs)
       /\ Against(c, s, clock) /\ c \in CacheT
    BY <1>1, <1>2, LookupRight DEF Against
<1> HIDE DEF s, rs, new, t, c, x
<1>11. y \in IndexT /\ y.branch = Here(i) /\ y.rev = clock + 1 /\ y.ids = Ids(new)
    <2>1. Ids(rs) = Ids(new)
        BY <1>3, <1>5 DEF Ids
    <2>2. x \in [branch : Branches \cup {None}, rev : Nat \cup {None}, ids : Seq(Nat)] /\ t.rev \in Nat
        BY <1>2, <1>9, <1>10 DEF IndexT
    <2>3. y \in IndexT
        BY <2>2 DEF IndexT
    <2>4. y.branch = x.branch /\ y.rev = t.rev /\ y.ids = x.ids
        BY <2>2
    <2>. QED  BY <1>9, <1>10, <2>1, <2>3, <2>4
<1>12. d \in CacheT /\ Against(d, t, clock + 1) /\ (d = NoCache \/ d.branch = Here(i))
    <2>1. CASE ~(c.branch = s.branch /\ n \in DOMAIN c.rows)
        BY <1>9, <2>1, NoneIs
    <2>2. CASE c.branch = s.branch /\ n \in DOMAIN c.rows
        <3>1. c \in [branch : Branches \cup {None}, rows : Seq(Message), rev : Nat, count : Nat, gap : Nat]
            BY <1>10 DEF CacheT
        <3>2. e = [c EXCEPT !.rows = [c.rows EXCEPT ![n] = new[n]]]
            BY <1>9, <3>1
        <3>3. [c.rows EXCEPT ![n] = new[n]] \in Seq(Message) /\ Len([c.rows EXCEPT ![n] = new[n]]) = Len(c.rows)
            BY <1>6, <2>2, <3>1, ExceptSeq, LenProperties
        <3>4. /\ e \in CacheT /\ e.branch = c.branch /\ e.rows = [c.rows EXCEPT ![n] = new[n]]
              /\ e.rev = c.rev /\ e.count = c.count /\ e.gap = c.gap
            BY <3>1, <3>2, <3>3 DEF CacheT
        <3>5. t.rev \in Nat /\ t.k.count \in Nat
            BY <1>2, <1>9 DEF CounterT
        <3>6. /\ f \in CacheT /\ f.branch = c.branch /\ f.rows = e.rows /\ f.rev = t.rev /\ f.count = t.k.count /\ f.gap = c.gap
            <4> HIDE DEF e
            <4>1. e \in [branch : Branches \cup {None}, rows : Seq(Message), rev : Nat, count : Nat, gap : Nat]
                BY <3>4 DEF CacheT
            <4>2. f \in CacheT
                BY <3>5, <4>1 DEF CacheT
            <4>3. f.branch = e.branch /\ f.rows = e.rows /\ f.rev = t.rev /\ f.count = t.k.count /\ f.gap = e.gap
                BY <4>1
            <4>. QED  BY <3>4, <4>2, <4>3
        <3> HIDE DEF e, f
        <3>7. Faithful(c, rs, s.rev, s.k, clock)
            BY <1>2, <1>10, <2>2 DEF Against, rs
        <3>8. /\ c.gap \in Nat /\ s.k.gaps \in Nat /\ t.k.gaps \in Nat /\ c.gap <= t.k.gaps /\ c.gap <= s.k.gaps
              /\ c.count \in Nat /\ s.k.count \in Nat /\ c.count <= s.k.count /\ c.rev <= clock /\ c.rows \in Seq(Message)
            BY <1>9, <3>1, <3>7 DEF Faithful, CounterT
        <3>9. CASE Current(c, s)
            <4>1. c.rows = rs
                BY <3>7, <3>9 DEF Current, Faithful
            <4>2. f.rows = new
                BY <1>3, <1>4, <3>4, <3>6, <4>1 DEF new
            <4>3. Faithful(f, new, clock + 1, t.k, clock + 1)
                BY <1>2, <1>5, <1>9, <3>6, <3>8, <4>2, CurrentFaithful
            <4>. QED  BY <1>2, <1>9, <2>2, <3>6, <3>9, <4>3 DEF Against
        <3>10. CASE ~Current(c, s)
            <4>1. PICK l \in Nat, m \in Nat, z \in Nat : l = Len(c.rows) /\ m = Len(rs) /\ z = s.k.count - c.count
                    <5>1. s.k.count - c.count \in Nat
                    BY <3>8
                <5>. QED  BY <1>3, <3>8, <5>1, LenProperties
            <4>2. c.gap = s.k.gaps /\ s.k.last = s.rev => m <= l + z
                BY <3>7, <4>1 DEF Faithful, Grown
            <4>3. c.gap = s.k.gaps /\ s.k.last = s.rev => m < l + (z + 1)
                BY <4>2
            <4>4. Len(e.rows) = l /\ Len(new) = m
                BY <1>5, <3>3, <3>4, <4>1
            <4>5. e.gap = s.k.gaps /\ s.k.last = s.rev => Len(new) < Len(e.rows) + ((s.k.count - e.count) + 1)
                BY <3>4, <4>1, <4>3, <4>4
            <4>6. Faithful(e, new, clock + 1, t.k, clock + 1)
                <5>1. e.rev <= clock /\ e.gap <= s.k.gaps /\ e.count <= s.k.count
                    BY <3>4, <3>8
                <5>. QED  BY <1>2, <1>5, <1>9, <3>4, <4>5, <5>1, FaithfulShort
            <4>. QED  BY <1>2, <1>9, <2>2, <3>4, <3>10, <4>6 DEF Against
        <3>. QED  BY <3>9, <3>10
    <2>. QED  BY <2>1, <2>2
<1> HIDE DEF d, y
<1>. QED  BY <1>2, <1>7, <1>8, <1>11, <1>12, WriteKeeps DEF s, t

\* What is left of rows once some between are cut out.
LEMMA CutIs ==
    ASSUME NEW rs \in Seq(Message), NEW a \in 1 .. Len(rs), NEW z \in a .. Len(rs)
    PROVE  /\ Cut(rs, a, z) \in Seq(Message) /\ Len(Cut(rs, a, z)) = Len(rs) - (z - a + 1)
           /\ \A n \in 1 .. a - 1 : Cut(rs, a, z)[n] = rs[n]
           /\ \A n \in a .. Len(rs) - (z - a + 1) : Cut(rs, a, z)[n] = rs[n + (z - a + 1)]
<1> DEFINE x == SubSeq(rs, 1, a - 1)
           y == SubSeq(rs, z + 1, Len(rs))
<1>1. Len(rs) \in Nat /\ a \in Nat /\ z \in Nat /\ 1 <= a /\ a <= z /\ z <= Len(rs)
    BY LenProperties
<1>2. \A n \in 1 .. Len(rs) : rs[n] \in Message
    BY ElementOfSeq
<1>3. x \in Seq(Message) /\ Len(x) = a - 1 /\ \A n \in 1 .. a - 1 : x[n] = rs[n]
    <2>1. \A n \in 1 .. a - 1 : rs[n] \in Message
        BY <1>1, <1>2
    <2>2. 1 \in Int /\ a - 1 \in Int /\ 1 <= (a - 1) + 1
        BY <1>1
    <2>3. x \in Seq(Message) /\ Len(x) = a - 1 /\ \A n \in 1 .. a - 1 : x[n] = rs[1 + n - 1]
        BY <1>1, <2>1, <2>2, SubSeqProperties
    <2>. QED  BY <1>1, <2>3
<1>4. y \in Seq(Message) /\ Len(y) = Len(rs) - z /\ \A n \in 1 .. Len(rs) - z : y[n] = rs[z + n]
    <2>1. \A n \in z + 1 .. Len(rs) : rs[n] \in Message
        BY <1>1, <1>2
    <2>2. z + 1 \in Int /\ Len(rs) \in Int /\ z + 1 <= Len(rs) + 1
        BY <1>1
    <2>3. y \in Seq(Message) /\ Len(y) = Len(rs) - (z + 1) + 1 /\ \A n \in 1 .. Len(rs) - (z + 1) + 1 : y[n] = rs[(z + 1) + n - 1]
        BY <1>1, <2>1, <2>2, SubSeqProperties
    <2>. QED  BY <1>1, <2>3
<1> HIDE DEF x, y
<1>5. Cut(rs, a, z) = x \o y
    BY DEF Cut, x, y
<1>6. /\ x \o y \in Seq(Message) /\ Len(x \o y) = (a - 1) + (Len(rs) - z)
      /\ \A n \in 1 .. (a - 1) + (Len(rs) - z) : (x \o y)[n] = IF n <= a - 1 THEN x[n] ELSE y[n - (a - 1)]
    <2>1. /\ x \o y \in Seq(Message) /\ Len(x \o y) = Len(x) + Len(y)
          /\ \A n \in 1 .. Len(x) + Len(y) : (x \o y)[n] = IF n <= Len(x) THEN x[n] ELSE y[n - Len(x)]
        BY <1>3, <1>4, ConcatProperties
    <2>2. Len(x) = a - 1 /\ Len(y) = Len(rs) - z
        BY <1>3, <1>4
    <2>. QED  BY <2>1, <2>2
<1>7. (a - 1) + (Len(rs) - z) = Len(rs) - (z - a + 1)
    BY <1>1
<1>8. \A n \in 1 .. a - 1 : (x \o y)[n] = rs[n]
    <2> TAKE n \in 1 .. a - 1
    <2>1. n \in 1 .. (a - 1) + (Len(rs) - z) /\ n <= a - 1
        BY <1>1
    <2>. QED  BY <1>3, <1>6, <2>1
<1>9. \A n \in a .. Len(rs) - (z - a + 1) : (x \o y)[n] = rs[n + (z - a + 1)]
    <2> TAKE n \in a .. Len(rs) - (z - a + 1)
    <2>1. n \in 1 .. (a - 1) + (Len(rs) - z) /\ ~(n <= a - 1)
        BY <1>1
    <2>2. n - (a - 1) \in 1 .. Len(rs) - z /\ z + (n - (a - 1)) = n + (z - a + 1)
        BY <1>1
    <2>3. (x \o y)[n] = y[n - (a - 1)]
        BY <1>6, <2>1
    <2>. QED  BY <1>4, <2>2, <2>3
<1>. QED  BY <1>5, <1>6, <1>7, <1>8, <1>9

\* A cut leaves fewer rows.
LEMMA CutShrinks ==
    ASSUME NEW rs \in Seq(Message), NEW a \in 1 .. Len(rs), NEW z \in a .. Len(rs)
    PROVE  Changed(rs, Cut(rs, a, z))
BY CutIs, LenProperties DEF Changed

\* A removal loads the cache it leaves, and indexes it.
LEMMA RemovedKeeps ==
    ASSUME StoreRight, NEW i \in Instances, Opened(i), NEW new, Changed(rows[Here(i)], new),
           NEW c, c \in CacheT, Against(c, After(Slot(i), new), clock + 1), Removed(i, c, After(Slot(i), new))
    PROVE  StoreRight'
<1> DEFINE t == After(Slot(i), new)
<1>1. Written(rows[Here(i)], new)
    BY DEF Written
<1>2. /\ t \in SlotT /\ t.branch = Here(i) /\ t.rows = new /\ t.rev = clock + 1 /\ new \in Seq(Message) /\ clock + 1 \in Nat
      /\ t.rev <= clock + 1 /\ Here(i) \in Branches
    BY <1>1, AfterSlot DEF SlotT
<1> HIDE DEF t
<1>3. /\ Loaded(c, t) \in CacheT /\ Loaded(c, t).branch = Here(i) /\ Loaded(c, t).rows = new
      /\ Against(Loaded(c, t), t, clock + 1)
    BY <1>2, LoadedFaithful DEF Against, t
<1>4. Indexed(c, t) = [branch |-> Here(i), rev |-> clock + 1, ids |-> Ids(new)]
    BY <1>2, <1>3 DEF Indexed
<1>5. Ids(new) \in Seq(Nat)
    BY <1>2, IdsType
<1>6. /\ Indexed(c, t) \in IndexT /\ Indexed(c, t).branch = Here(i) /\ Indexed(c, t).rev = clock + 1
      /\ Indexed(c, t).ids = Ids(new)
    BY <1>2, <1>4, <1>5 DEF IndexT
<1>7. Writes(i, t) /\ Keeps(i, Loaded(c, t), Indexed(c, t))
    BY DEF Removed, t
<1>. QED  BY <1>1, <1>3, <1>6, <1>7, WriteKeeps DEF t

\* remove.
LEMMA RemoveMessageKeeps ==
    ASSUME StoreRight, NEW i \in Instances, Opened(i), NEW n \in DOMAIN rows[Here(i)], RemoveMessage(i, n)
    PROVE  StoreRight'
<1> DEFINE s == Slot(i)
           rs == s.rows
           new == Cut(rs, n, n)
           t == After(s, new)
           c == CacheLookedUp(index[i], cache[i], s)
           e == [c EXCEPT !.rows = Cut(@, n, n)]
           f == [e EXCEPT !.rev = t.rev, !.count = t.k.count]
           d == IF c.branch = s.branch /\ Len(c.rows) = Len(t.rows) + 1
                THEN IF Current(c, s) THEN f ELSE e
                ELSE NoCache
<1>1. Here(i) # None
    BY OpenedIs
<1>2. /\ s \in SlotT /\ s.branch = Here(i) /\ rs = rows[Here(i)] /\ s.rev = rev[Here(i)] /\ s.rev \in Nat
      /\ rs \in Seq(Message) /\ clock \in Nat /\ Here(i) \in Branches /\ s.rev <= clock
    BY <1>1, SlotIs DEF StoreRight, Slots, SlotT
<1>3. Len(rs) \in Nat /\ n \in 1 .. Len(rs)
    BY <1>2, LenProperties
<1>4. new \in Seq(Message) /\ Len(new) = Len(rs) - 1 /\ Changed(rs, new)
    <2>1. n \in n .. Len(rs) /\ Len(rs) - (n - n + 1) = Len(rs) - 1
        BY <1>3
    <2>. QED  BY <1>2, <1>3, <2>1, CutIs, CutShrinks
<1>5. Removed(i, d, t)
    BY DEF RemoveMessage
<1>6. /\ t \in SlotT /\ t.branch = Here(i) /\ t.rows = new /\ t.rev = clock + 1 /\ t.k.count = s.k.count + 1
      /\ s.k.gaps <= t.k.gaps /\ t.k \in CounterT /\ s.k \in CounterT /\ t.k = Counted(s.k, s.rev)
    BY <1>1, <1>2, <1>4, AfterSlot, SlotIs DEF SlotT, Written
<1>7. Against(c, s, clock) /\ c \in CacheT
    BY <1>1, <1>2, LookupRight DEF Against
<1> HIDE DEF s, rs, new, t, c
<1>8. d \in CacheT /\ Against(d, t, clock + 1)
    <2>1. CASE ~(c.branch = s.branch /\ Len(c.rows) = Len(t.rows) + 1)
        BY <1>6, <2>1, NoneIs
    <2>2. CASE c.branch = s.branch /\ Len(c.rows) = Len(t.rows) + 1
        <3>1. c \in [branch : Branches \cup {None}, rows : Seq(Message), rev : Nat, count : Nat, gap : Nat]
            BY <1>7 DEF CacheT
        <3>2. Len(c.rows) = Len(rs)
            BY <1>3, <1>4, <1>6, <2>2
        <3>3. Cut(c.rows, n, n) \in Seq(Message) /\ Len(Cut(c.rows, n, n)) = Len(new)
            <4>1. n \in n .. Len(c.rows) /\ n \in 1 .. Len(c.rows) /\ Len(c.rows) - (n - n + 1) = Len(rs) - 1
                BY <1>3, <3>2
            <4>2. c.rows \in Seq(Message)
                BY <3>1
            <4>. QED  BY <1>4, <4>1, <4>2, CutIs
        <3>4. /\ e \in CacheT /\ e.branch = c.branch /\ e.rows = Cut(c.rows, n, n)
              /\ e.rev = c.rev /\ e.count = c.count /\ e.gap = c.gap
            BY <3>1, <3>3 DEF CacheT
        <3>5. t.rev \in Nat /\ t.k.count \in Nat
            BY <1>2, <1>6 DEF CounterT
        <3>6. /\ f \in CacheT /\ f.branch = c.branch /\ f.rows = e.rows /\ f.rev = t.rev /\ f.count = t.k.count /\ f.gap = c.gap
            <4> HIDE DEF e
            <4>1. e \in [branch : Branches \cup {None}, rows : Seq(Message), rev : Nat, count : Nat, gap : Nat]
                BY <3>4 DEF CacheT
            <4>2. f \in CacheT
                BY <3>5, <4>1 DEF CacheT
            <4>3. f.branch = e.branch /\ f.rows = e.rows /\ f.rev = t.rev /\ f.count = t.k.count /\ f.gap = e.gap
                BY <4>1
            <4>. QED  BY <3>4, <4>2, <4>3
        <3> HIDE DEF e, f
        <3>7. Faithful(c, rs, s.rev, s.k, clock)
            BY <1>2, <1>7, <2>2 DEF Against, rs
        <3>8. /\ c.gap \in Nat /\ s.k.gaps \in Nat /\ t.k.gaps \in Nat /\ c.gap <= t.k.gaps /\ c.gap <= s.k.gaps
              /\ c.count \in Nat /\ s.k.count \in Nat /\ c.count <= s.k.count /\ c.rev <= clock /\ c.rows \in Seq(Message)
            BY <1>6, <3>1, <3>7 DEF Faithful, CounterT
        <3>9. CASE Current(c, s)
            <4>1. c.rows = rs
                BY <3>7, <3>9 DEF Current, Faithful
            <4>2. f.rows = new
                BY <3>4, <3>6, <4>1 DEF new
            <4>3. Faithful(f, new, clock + 1, t.k, clock + 1)
                BY <1>2, <1>4, <1>6, <3>6, <3>8, <4>2, CurrentFaithful
            <4>. QED  BY <1>2, <1>6, <2>2, <3>6, <3>9, <4>3 DEF Against
        <3>10. CASE ~Current(c, s)
            <4>1. PICK m \in Nat, z \in Nat : m = Len(new) /\ z = s.k.count - c.count
                <5>1. s.k.count - c.count \in Nat
                    BY <3>8
                <5>. QED  BY <1>4, <5>1, LenProperties
            <4>2. m < m + (z + 1)
                OBVIOUS
            <4>3. Len(e.rows) = m
                BY <3>3, <3>4, <4>1
            <4>4. Len(new) < Len(e.rows) + ((s.k.count - e.count) + 1)
                BY <3>4, <4>1, <4>2, <4>3
            <4>5. e.rev <= clock /\ e.gap <= s.k.gaps /\ e.count <= s.k.count
                BY <3>4, <3>8
            <4>6. Faithful(e, new, clock + 1, t.k, clock + 1)
                BY <1>2, <1>4, <1>6, <3>4, <4>4, <4>5, FaithfulShort
            <4>. QED  BY <1>2, <1>6, <2>2, <3>4, <3>10, <4>6 DEF Against
        <3>. QED  BY <3>9, <3>10
    <2>. QED  BY <2>1, <2>2
<1> HIDE DEF d
<1>. QED  BY <1>2, <1>4, <1>5, <1>8, RemovedKeeps DEF s, t

\* Removals that drop the cache.
LEMMA DroppedKeeps ==
    ASSUME StoreRight, NEW i \in Instances, Opened(i),
           NEW a \in 1 .. Len(rows[Here(i)]), NEW z \in a .. Len(rows[Here(i)]),
           Removed(i, NoCache, After(Slot(i), Cut(rows[Here(i)], a, z)))
    PROVE  StoreRight'
<1> DEFINE new == Cut(rows[Here(i)], a, z)
<1>1. Changed(rows[Here(i)], new)
    BY OpenedIs, SlotIs, CutShrinks DEF SlotT
<1> HIDE DEF new
<1>2. After(Slot(i), new) \in SlotT
    BY <1>1, AfterSlot DEF Written
<1>3. NoCache \in CacheT /\ Against(NoCache, After(Slot(i), new), clock + 1)
    BY <1>2, NoneIs
<1>. QED  BY <1>1, <1>3, RemovedKeeps DEF new

\* removeRange.
LEMMA RemoveRangeKeeps ==
    ASSUME StoreRight, NEW i \in Instances, Opened(i), NEW a \in DOMAIN rows[Here(i)], NEW z \in DOMAIN rows[Here(i)],
           RemoveRange(i, a, z)
    PROVE  StoreRight'
<1>1. Slot(i).rows = rows[Here(i)] /\ rows[Here(i)] \in Seq(Message)
    BY OpenedIs, SlotIs DEF SlotT
<1>2. DOMAIN rows[Here(i)] = 1 .. Len(rows[Here(i)]) /\ Len(rows[Here(i)]) \in Nat
    BY <1>1, LenProperties
<1>3. a < z /\ Removed(i, NoCache, After(Slot(i), Cut(Slot(i).rows, a, z)))
    BY DEF RemoveRange
<1>4. a \in 1 .. Len(rows[Here(i)]) /\ z \in a .. Len(rows[Here(i)])
    BY <1>2, <1>3
<1>. QED  BY <1>1, <1>3, <1>4, DroppedKeeps

\* A set of numbers has a least member.
LEMMA Least ==
    ASSUME NEW S, S \subseteq Nat, S # {}
    PROVE  \E p \in S : \A q \in S : p <= q
<1>1. PICK p \in S : \A q \in S : ~(<<q, p>> \in OpToRel(<, Nat))
    BY NatLessThanWellFounded, WFMin
<1>2. \A q \in S : ~(q < p)
    BY <1>1 DEF OpToRel
<1>3. \A q \in S : p <= q
    BY <1>2
<1>. QED  BY <1>3

\* So has a bounded set a greatest member.
LEMMA Greatest ==
    ASSUME NEW l \in Nat, NEW S, S \subseteq 1 .. l, S # {}
    PROVE  \E p \in S : \A q \in S : p >= q
<1> DEFINE T == {l - p : p \in S}
<1>1. T \subseteq Nat /\ T # {}
    <2>1. \A p \in S : l - p \in Nat
        OBVIOUS
    <2>. QED  BY <2>1
<1>2. PICK u \in T : \A v \in T : u <= v
    <2> HIDE DEF T
    <2>. QED  BY <1>1, Least
<1>3. PICK p \in S : u = l - p
    BY <1>2
<1>4. \A q \in S : l - p <= l - q
    BY <1>2, <1>3
<1>5. \A q \in S : p >= q
    BY <1>4
<1>. QED  BY <1>5

\* A body of a row has a first and a last, and reaches from one to the other.
LEMMA BodyEnds ==
    ASSUME NEW rs \in Seq(Message), NEW n \in DOMAIN rs,
           NEW first, first = CHOOSE k \in BodyBounds(rs, n) : \A x \in BodyBounds(rs, n) : k <= x,
           NEW final, final = CHOOSE k \in BodyBounds(rs, n) : \A x \in BodyBounds(rs, n) : k >= x
    PROVE  /\ first \in BodyBounds(rs, n) /\ final \in BodyBounds(rs, n)
           /\ \A k \in BodyBounds(rs, n) : first <= k /\ k <= final
           /\ first \in 1 .. Len(rs) /\ final \in first .. Len(rs)
           /\ first <= n /\ n <= final
<1> DEFINE body == BodyBounds(rs, n)
<1>1. DOMAIN rs = 1 .. Len(rs) /\ Len(rs) \in Nat
    BY LenProperties
<1>2. body \subseteq 1 .. Len(rs) /\ n \in body
    BY <1>1 DEF BodyBounds, OneBody
<1> HIDE DEF body
<1>3. \E k \in body : \A x \in body : k <= x
    BY <1>1, <1>2, Least
<1>4. \E k \in body : \A x \in body : k >= x
    BY <1>1, <1>2, Greatest
<1>5. first \in body /\ \A x \in body : first <= x
    BY <1>3 DEF body
<1>6. final \in body /\ \A x \in body : final >= x
    BY <1>4 DEF body
<1>7. \A x \in body : x \in Int
    BY <1>2
<1>8. first \in 1 .. Len(rs) /\ final \in 1 .. Len(rs) /\ first <= final
    BY <1>2, <1>5, <1>6
<1>9. final \in first .. Len(rs)
    BY <1>1, <1>8
<1>10. \A k \in body : first <= k /\ k <= final
    BY <1>5, <1>6, <1>7, <1>8
<1>. QED  BY <1>2, <1>5, <1>6, <1>8, <1>9, <1>10 DEF body

\* removeBodyGroup.
LEMMA RemoveBodyGroupKeeps ==
    ASSUME StoreRight, NEW i \in Instances, Opened(i), NEW n \in DOMAIN rows[Here(i)], RemoveBodyGroup(i, n)
    PROVE  StoreRight'
<1>1. Slot(i).rows = rows[Here(i)] /\ rows[Here(i)] \in Seq(Message)
    BY OpenedIs, SlotIs DEF SlotT
<1> DEFINE rs == Slot(i).rows
           first == CHOOSE k \in BodyBounds(rs, n) : \A x \in BodyBounds(rs, n) : k <= x
           final == CHOOSE k \in BodyBounds(rs, n) : \A x \in BodyBounds(rs, n) : k >= x
<1>2. Removed(i, NoCache, After(Slot(i), Cut(rs, first, final)))
    BY DEF RemoveBodyGroup
<1>3. first \in 1 .. Len(rs) /\ final \in first .. Len(rs)
    BY <1>1, BodyEnds
<1> HIDE DEF rs, first, final
<1>. QED  BY <1>1, <1>2, <1>3, DroppedKeeps DEF rs

-----------------------------------------------------------------------------
(* Reads, and what others do.                                              *)

\* What leaves the slots and the counters alone.
LEMMA ReadKeeps ==
    ASSUME StoreRight, NEW i \in Instances, Opened(i), NEW c \in CacheT, NEW x \in IndexT, Keeps(i, c, x),
           UNCHANGED <<world, rows, rev, clock, at, counters>>,
           CacheRight(c, counters[HandleOf[i]], rows, rev, clock),
           IndexRight(x, rows, rev, clock), x # NoIndex
    PROVE  StoreRight'
<1>1. Slots' /\ HandlesRight'
    BY DEF StoreRight, Slots, HandlesRight
<1>2. cache' = [cache EXCEPT ![i] = c] /\ index' = [index EXCEPT ![i] = x]
    BY DEF Keeps
<1>3. cache' \in [Instances -> CacheT] /\ index' \in [Instances -> IndexT]
    BY <1>2 DEF StoreRight, InstancesRight
<1>4. at[HandleOf[i]] # None /\ counters[HandleOf[i]].last # None
    BY OpenedIs DEF Here
<1>5. ASSUME NEW j \in Instances PROVE InstanceRight(j)'
    <2>1. InstanceRight(j)
        BY DEF StoreRight, InstancesRight
    <2>2. CASE j = i
        <3>1. cache'[j] = c /\ index'[j] = x
            BY <1>2, <2>2 DEF StoreRight, InstancesRight
        <3>. QED  BY <1>4, <2>2, <3>1 DEF InstanceRight
    <2>3. CASE j # i
        <3>1. cache'[j] = cache[j] /\ index'[j] = index[j]
            BY <1>2, <2>3 DEF StoreRight, InstancesRight
        <3>. QED  BY <2>1, <3>1 DEF InstanceRight
    <2>. QED  BY <2>2, <2>3
<1>. QED  BY <1>1, <1>3, <1>5 DEF StoreRight, InstancesRight

\* getAllInternal and lookupIndex.
LEMMA ReadIsRight ==
    ASSUME StoreRight, NEW i \in Instances, Opened(i), Read(i) \/ Lookup(i)
    PROVE  StoreRight'
<1> DEFINE s == Slot(i)
<1>1. Here(i) # None /\ index[i] # NoIndex
    BY OpenedIs
<1>2. /\ s \in SlotT /\ s.branch = Here(i) /\ s.rows = rows[Here(i)] /\ s.rev = rev[Here(i)] /\ s.rev \in Nat
      /\ clock \in Nat /\ Here(i) \in Branches /\ s.rev <= clock /\ rev[Here(i)] # None /\ s.k = counters[HandleOf[i]]
    BY <1>1, SlotIs DEF StoreRight, Slots, SlotT
<1>3. InstanceRight(i) /\ cache[i] \in CacheT /\ index[i] \in IndexT /\ Against(cache[i], s, clock)
    BY <1>1, CacheAgainst DEF StoreRight, InstancesRight
<1>4. CASE Read(i)
    <2>1. /\ cache' = [cache EXCEPT ![i] = Loaded(cache[i], s)] /\ index' = index
          /\ UNCHANGED <<world, rows, rev, clock, at, counters>>
        BY <1>4 DEF Read, StoreRight, InstancesRight
    <2>2. index' = [index EXCEPT ![i] = index[i]]
        BY <2>1 DEF StoreRight, InstancesRight
    <2>3. /\ Loaded(cache[i], s) \in CacheT
          /\ CacheRight(Loaded(cache[i], s), counters[HandleOf[i]], rows, rev, clock)
        BY <1>2, <1>3, LoadedFaithful DEF CacheRight
    <2>4. Keeps(i, Loaded(cache[i], s), index[i])
        BY <2>1, <2>2 DEF Keeps
    <2>. QED  BY <1>1, <1>3, <2>1, <2>3, <2>4, ReadKeeps DEF InstanceRight
<1>5. CASE Lookup(i)
    <2> DEFINE x == LookedUp(index[i], cache[i], s)
               c == CacheLookedUp(index[i], cache[i], s)
    <2>1. /\ x \in IndexT /\ x.branch = Here(i) /\ x.rev = rev[Here(i)] /\ x.ids = Ids(rows[Here(i)])
          /\ c \in CacheT /\ CacheRight(c, counters[HandleOf[i]], rows, rev, clock)
        BY <1>1, LookupRight DEF Against
    <2>2. Keeps(i, c, x) /\ UNCHANGED <<world, rows, rev, clock, at, counters>>
        BY <1>5 DEF Lookup
    <2> HIDE DEF x, c
    <2>3. IndexRight(x, rows, rev, clock) /\ x # NoIndex
        BY <1>1, <1>2, <2>1, NoneIs DEF IndexRight
    <2>. QED  BY <2>1, <2>2, <2>3, ReadKeeps
<1>. QED  BY <1>4, <1>5

\* An instance of a handle that has no baseline yet has read nothing.
LEMMA UnopenedIs ==
    ASSUME StoreRight, NEW j \in Instances,
           at[HandleOf[j]] = None \/ counters[HandleOf[j]].last = None
    PROVE  index[j] = NoIndex /\ cache[j] = NoCache
BY DEF StoreRight, InstancesRight, InstanceRight

\* A baseline is taken where there is none.
LEMMA BasedIs ==
    ASSUME NEW k \in CounterT, NEW r \in Nat
    PROVE  /\ Based(k, r) \in CounterT /\ Based(k, r).last # None
           /\ k.last # None => Based(k, r) = k
           /\ k.last = None => Based(k, r).last = r
<1>1. k \in [count : Nat, last : Nat \cup {None}, gaps : Nat]
    BY DEF CounterT
<1>2. [k EXCEPT !.last = r] \in CounterT /\ [k EXCEPT !.last = r].last = r
    BY <1>1 DEF CounterT
<1>. QED  BY <1>2, StoreAssumption DEF Based

\* A store made on a handle: constructed, or derived on a branch just made.
\* The handle's other instances, if it had no baseline, have read nothing.
LEMMA MadeKeeps ==
    ASSUME StoreRight, NEW i \in Instances, NEW b \in Branches,
           NEW k, k = Based(counters[HandleOf[i]], rev'[b]),
           counters' = [counters EXCEPT ![HandleOf[i]] = k],
           at' = [at EXCEPT ![HandleOf[i]] = b], at[HandleOf[i]] \in {b, None},
           UNCHANGED <<world, clock>>, Slots', rev'[b] # None,
           \A d \in Branches : rev[d] # None => rev'[d] = rev[d] /\ rows'[d] = rows[d],
           cache' \in [Instances -> CacheT], index' \in [Instances -> IndexT],
           CacheRight(cache'[i], k, rows', rev', clock),
           IndexRight(index'[i], rows', rev', clock), index'[i] # NoIndex,
           \A j \in Instances \ {i} :
              /\ index'[j] = index[j]
              /\ \/ cache'[j] = cache[j]
                 \/ index[j] # NoIndex /\ CacheRight(cache'[j], counters[HandleOf[j]], rows, rev, clock)
    PROVE  StoreRight'
<1> DEFINE h == HandleOf[i]
<1>1. h \in Handles /\ \A j \in Instances : HandleOf[j] \in Handles
    BY DEF Handles
<1>2. /\ counters[h] \in CounterT /\ rev'[b] \in Nat /\ rev'[b] <= clock /\ clock \in Nat
      /\ counters \in [Handles -> CounterT] /\ at \in [Handles -> Branches \cup {None}]
    BY <1>1 DEF Slots, StoreRight, HandlesRight
<1>3. k \in CounterT /\ k.last # None /\ (counters[h].last # None => k = counters[h]) /\ (counters[h].last = None => k.last = rev'[b])
    BY <1>2, BasedIs
<1> HIDE DEF h
<1>4. HandlesRight'
    <2>1. at' \in [Handles -> Branches \cup {None}] /\ counters' \in [Handles -> CounterT]
        BY <1>1, <1>2, <1>3 DEF h
    <2>2. ASSUME NEW g \in Handles PROVE /\ at'[g] # None => rev'[at'[g]] # None
                                         /\ counters'[g].last # None => counters'[g].last <= clock
        <3>1. /\ at[g] # None => rev[at[g]] # None /\ at[g] \in Branches
              /\ counters[g].last # None => counters[g].last <= clock
            BY <1>2 DEF StoreRight, HandlesRight
        <3>2. CASE g = h
            BY <1>1, <1>2, <1>3, <3>1, <3>2 DEF h
        <3>3. CASE g # h
            <4>1. at'[g] = at[g] /\ counters'[g] = counters[g]
                BY <1>1, <1>2, <3>3 DEF h
            <4>. QED  BY <3>1, <4>1
        <3>. QED  BY <3>2, <3>3
    <2>. QED  BY <2>1, <2>2 DEF HandlesRight
<1>5. ASSUME NEW j \in Instances PROVE InstanceRight(j)'
    <2>1. InstanceRight(j)
        BY DEF StoreRight, InstancesRight
    <2>2. CASE j = i
        <3>1. counters'[HandleOf[j]] = k /\ at'[HandleOf[j]] = b
            BY <1>1, <1>2, <2>2 DEF h
        <3>2. b # None
            BY StoreAssumption
        <3>. QED  BY <1>3, <2>2, <3>1, <3>2 DEF InstanceRight
    <2>3. CASE j # i
        <3>1. CASE index[j] = NoIndex
            <4>1. cache'[j] = NoCache /\ index'[j] = NoIndex
                BY <2>1, <2>3, <3>1 DEF InstanceRight
            <4>. QED  BY <4>1 DEF InstanceRight, CacheRight, IndexRight
        <3>2. CASE index[j] # NoIndex
            <4>1. at[HandleOf[j]] # None /\ counters[HandleOf[j]].last # None
                BY <2>1, <3>2 DEF InstanceRight
            <4>2. counters'[HandleOf[j]] = counters[HandleOf[j]] /\ at'[HandleOf[j]] = at[HandleOf[j]]
                BY <1>1, <1>2, <1>3, <4>1 DEF h
            <4>3. CacheRight(cache'[j], counters[HandleOf[j]], rows, rev, clock) /\ index'[j] = index[j]
                BY <2>1, <2>3 DEF InstanceRight
            <4>4. CacheRight(cache'[j], counters[HandleOf[j]], rows', rev', clock)
                BY <4>3 DEF CacheRight
            <4>5. IndexRight(index'[j], rows', rev', clock)
                BY <2>1, <4>3 DEF InstanceRight, IndexRight
            <4>. QED  BY <3>2, <4>1, <4>2, <4>3, <4>4, <4>5 DEF InstanceRight
        <3>. QED  BY <3>1, <3>2
    <2>. QED  BY <2>2, <2>3
<1>. QED  BY <1>4, <1>5 DEF StoreRight, InstancesRight

\* The constructor.
LEMMA ConstructKeeps ==
    ASSUME StoreRight, NEW i \in Instances, Construct(i)
    PROVE  StoreRight'
<1> DEFINE h == HandleOf[i]
           b == Here(i)
           s == [Slot(i) EXCEPT !.k = Based(@, rev[Here(i)])]
           k == Based(counters[h], rev[b])
<1>1. ~Opened(i) /\ b # None
    BY DEF Construct
<1>2. /\ h \in Handles /\ b \in Branches /\ rev[b] # None /\ rev[b] \in Nat /\ rev[b] <= clock /\ clock \in Nat
      /\ rows[b] \in Seq(Message) /\ counters[h] \in CounterT
    BY <1>1, SlotIs DEF StoreRight, Slots, SlotT
<1>3. k \in CounterT
    BY <1>2, BasedIs
<1>4. s = [branch |-> b, rows |-> rows[b], rev |-> rev[b], k |-> k]
    BY DEF Slot, h
<1>5. s \in SlotT /\ s.branch = b /\ s.rows = rows[b] /\ s.rev = rev[b] /\ s.k = k
    BY <1>2, <1>3, <1>4 DEF SlotT
<1>6. /\ counters' = [counters EXCEPT ![h] = s.k] /\ Keeps(i, Loaded(NoCache, s), Indexed(NoCache, s))
      /\ UNCHANGED <<world, rows, rev, clock, at, uncounted, moves>>
    BY DEF Construct
<1>7. at[h] = b
    BY DEF Here
<1> HIDE DEF h, b, s, k
<1>8. /\ Loaded(NoCache, s) \in CacheT /\ Loaded(NoCache, s).branch = b /\ Loaded(NoCache, s).rows = rows[b]
      /\ Faithful(Loaded(NoCache, s), rows[b], rev[b], k, clock)
    BY <1>2, <1>5, NoneIs, LoadedFaithful
<1>9. Indexed(NoCache, s) = [branch |-> b, rev |-> rev[b], ids |-> Ids(rows[b])]
    BY <1>5, <1>8 DEF Indexed
<1>10. /\ Indexed(NoCache, s) \in IndexT /\ Indexed(NoCache, s).branch = b /\ Indexed(NoCache, s).rev = rev[b]
       /\ Indexed(NoCache, s).ids = Ids(rows[b])
    BY <1>2, <1>9, IdsType DEF IndexT
<1>11. cache' = [cache EXCEPT ![i] = Loaded(NoCache, s)] /\ index' = [index EXCEPT ![i] = Indexed(NoCache, s)]
    BY <1>6 DEF Keeps
<1>12. cache' \in [Instances -> CacheT] /\ index' \in [Instances -> IndexT]
    BY <1>8, <1>10, <1>11 DEF StoreRight, InstancesRight
<1>13. cache'[i] = Loaded(NoCache, s) /\ index'[i] = Indexed(NoCache, s)
    BY <1>11 DEF StoreRight, InstancesRight
<1>14. CacheRight(cache'[i], k, rows', rev', clock) /\ IndexRight(index'[i], rows', rev', clock) /\ index'[i] # NoIndex
    BY <1>2, <1>6, <1>8, <1>10, <1>13, NoneIs, StoreAssumption DEF CacheRight, IndexRight
<1>15. \A j \in Instances \ {i} : index'[j] = index[j] /\ cache'[j] = cache[j]
    BY <1>11 DEF StoreRight, InstancesRight
<1>16. at' = [at EXCEPT ![h] = b] /\ at[h] \in {b, None} /\ k = Based(counters[h], rev'[b]) /\ counters' = [counters EXCEPT ![h] = k]
    BY <1>2, <1>5, <1>6, <1>7 DEF StoreRight, HandlesRight, k
<1>17. Slots' /\ UNCHANGED <<world, clock>> /\ rev'[b] # None /\ \A d \in Branches : rev'[d] = rev[d] /\ rows'[d] = rows[d]
    BY <1>2, <1>6 DEF StoreRight, Slots
<1>. QED  BY <1>2, <1>12, <1>14, <1>15, <1>16, <1>17, MadeKeeps DEF h

\* derive and deriveOnto.
LEMMA DeriveKeeps ==
    ASSUME StoreRight, NEW i \in Instances, Opened(i), NEW j \in Instances, NEW b \in Branches, Derive(i, j, b)
    PROVE  StoreRight'
<1> DEFINE h == HandleOf[j]
           mine == Loaded(cache[i], Slot(i))
           rs == rows[Here(i)]
           r == rev[Here(i)]
           k == Based(counters[h], r)
           s == [branch |-> b, rows |-> rs, rev |-> r, k |-> k]
           theirs == IF Seeds(mine, s) THEN Stamped(mine.rows, s) ELSE Stamped(s.rows, s)
           x == [branch |-> b, rev |-> None, ids |-> <<>>]
<1>1. Here(i) # None /\ index[i] # NoIndex
    BY OpenedIs
<1>2. /\ HandleOf[i] \in Handles /\ Here(i) \in Branches /\ rs \in Seq(Message) /\ r \in Nat /\ r # None
      /\ r <= clock /\ clock \in Nat
      /\ Slot(i) \in SlotT /\ Slot(i).rev <= clock /\ Slot(i).rows = rs /\ Slot(i).branch = Here(i)
      /\ Slot(i).rev = r /\ Slot(i).k = counters[HandleOf[i]]
    BY <1>1, SlotIs DEF StoreRight, Slots, SlotT
<1>3. h \in Handles /\ counters[h] \in CounterT
    BY DEF Handles, StoreRight, HandlesRight
<1>4. k \in CounterT
    BY <1>2, <1>3, BasedIs
<1>5. s \in SlotT /\ s.rows = rs /\ s.rev = r /\ s.k = k /\ s.branch = b
    BY <1>2, <1>4 DEF SlotT
<1>6. /\ mine \in CacheT /\ mine.branch = Here(i) /\ mine.rows = rs
      /\ Faithful(mine, rs, r, counters[HandleOf[i]], clock)
    BY <1>1, <1>2, CacheAgainst, LoadedFaithful
<1>7. /\ at[h] = None /\ b \notin Live
      /\ rows' = [rows EXCEPT ![b] = rs] /\ rev' = [rev EXCEPT ![b] = r] /\ at' = [at EXCEPT ![h] = b]
      /\ counters' = [counters EXCEPT ![h] = k]
      /\ cache' = [cache EXCEPT ![i] = mine, ![j] = theirs]
      /\ index' = [index EXCEPT ![j] = x]
      /\ UNCHANGED <<world, clock>>
    BY DEF Derive
<1>8. theirs = Stamped(rs, s)
    BY <1>5, <1>6
<1> HIDE DEF h, mine, rs, r, k, s, theirs, x
<1>9. theirs \in CacheT /\ theirs.branch = b /\ Faithful(theirs, rs, r, k, clock)
    BY <1>2, <1>5, <1>8, StampedFaithful
<1>10. x \in IndexT /\ x.branch = b /\ x.rev = None /\ x # NoIndex
    <2>1. <<>> \in Seq(Nat)
        BY EmptySeq
    <2>2. x \in IndexT /\ x.branch = b /\ x.rev = None
        BY <2>1 DEF IndexT, x
    <2>. QED  BY <2>2, NoneIs, StoreAssumption
<1>11. i # j
    BY <1>1, <1>7 DEF Here, h
<1>12. rev[b] = None
    BY <1>7 DEF Live
<1>13. rows'[b] = rs /\ rev'[b] = r /\ \A d \in Branches : d # b => rows'[d] = rows[d] /\ rev'[d] = rev[d]
    BY <1>7 DEF StoreRight, Slots
<1>14. Slots'
    <2>1. rows' \in [Branches -> Seq(Message)] /\ rev' \in [Branches -> Nat \cup {None}]
        BY <1>2, <1>7 DEF StoreRight, Slots
    <2>2. \A d \in Branches : rev'[d] # None => rev'[d] <= clock'
        BY <1>2, <1>7, <1>13 DEF StoreRight, Slots
    <2>. QED  BY <1>7, <2>1, <2>2 DEF StoreRight, Slots
<1>15. cache' \in [Instances -> CacheT] /\ index' \in [Instances -> IndexT]
    BY <1>6, <1>7, <1>9, <1>10 DEF StoreRight, InstancesRight
<1>16. /\ cache'[j] = theirs /\ index'[j] = x /\ cache'[i] = mine
       /\ \A l \in Instances \ {j} : index'[l] = index[l] /\ (l # i => cache'[l] = cache[l])
    BY <1>7, <1>11 DEF StoreRight, InstancesRight
<1>17. CacheRight(cache'[j], k, rows', rev', clock)
    BY <1>2, <1>9, <1>13, <1>16 DEF CacheRight
<1>18. IndexRight(index'[j], rows', rev', clock) /\ index'[j] # NoIndex
    BY <1>2, <1>10, <1>13, <1>16 DEF IndexRight
<1>19. CacheRight(cache'[i], counters[HandleOf[i]], rows, rev, clock)
    BY <1>2, <1>6, <1>16 DEF CacheRight, rs, r
<1>20. /\ rev'[b] # None /\ k = Based(counters[h], rev'[b]) /\ at[h] \in {b, None}
       /\ \A d \in Branches : rev[d] # None => rev'[d] = rev[d] /\ rows'[d] = rows[d]
    BY <1>2, <1>7, <1>12, <1>13 DEF k
<1>21. \A l \in Instances \ {j} : /\ index'[l] = index[l]
                                  /\ \/ cache'[l] = cache[l]
                                     \/ index[l] # NoIndex /\ CacheRight(cache'[l], counters[HandleOf[l]], rows, rev, clock)
    BY <1>1, <1>16, <1>19
<1>. QED  BY <1>7, <1>14, <1>15, <1>17, <1>18, <1>20, <1>21, MadeKeeps, ZenonT(30) DEF h

\* A branch made of a slot is of no cache yet.
LEMMA ForkKeeps ==
    ASSUME StoreRight, NEW from \in Branches, NEW b \in Branches, Fork(from, b)
    PROVE  StoreRight'
<1>1. rev[from] # None /\ rev[b] = None /\ UNCHANGED <<world, clock, at, counters, cache, index>>
    BY DEF Fork, Live
<1>2. /\ rows'[b] = rows[from] /\ rev'[b] = rev[from]
      /\ \A d \in Branches : d # b => rows'[d] = rows[d] /\ rev'[d] = rev[d]
      /\ rows' \in [Branches -> Seq(Message)] /\ rev' \in [Branches -> Nat \cup {None}]
    BY DEF Fork, StoreRight, Slots
<1>3. Slots'
    BY <1>1, <1>2 DEF StoreRight, Slots
<1>4. HandlesRight'
    BY <1>1, <1>2 DEF StoreRight, HandlesRight
<1>5. ASSUME NEW j \in Instances PROVE InstanceRight(j)'
    <2>1. InstanceRight(j)
        BY DEF StoreRight, InstancesRight
    <2>2. CacheRight(cache[j], counters[HandleOf[j]], rows', rev', clock)
        BY <1>1, <1>2, <2>1 DEF InstanceRight, CacheRight
    <2>3. IndexRight(index[j], rows', rev', clock)
        BY <1>1, <1>2, <2>1 DEF InstanceRight, IndexRight
    <2>. QED  BY <1>1, <2>1, <2>2, <2>3 DEF InstanceRight
<1>. QED  BY <1>1, <1>3, <1>4, <1>5 DEF StoreRight, InstancesRight

\* A switch reads nothing.
LEMMA SwitchKeeps ==
    ASSUME StoreRight, NEW b \in Branches, SwitchBranch(b)
    PROVE  StoreRight'
<1>1. rev[b] # None /\ UNCHANGED <<world, rows, rev, clock, counters, cache, index>> /\ at' = [at EXCEPT ![Root] = b]
    BY DEF SwitchBranch, Live
<1>2. Slots' /\ b # None
    BY <1>1, StoreAssumption DEF StoreRight, Slots
<1>3. HandlesRight'
    BY <1>1 DEF StoreRight, HandlesRight
<1>4. ASSUME NEW j \in Instances PROVE InstanceRight(j)'
    <2>1. InstanceRight(j) /\ HandleOf[j] \in Handles
        BY DEF StoreRight, InstancesRight, Handles
    <2>2. at[HandleOf[j]] # None => at'[HandleOf[j]] # None
        BY <1>1, <1>2, <2>1 DEF StoreRight, HandlesRight
    <2>. QED  BY <1>1, <2>1, <2>2 DEF InstanceRight
<1>. QED  BY <1>1, <1>2, <1>3, <1>4 DEF StoreRight, InstancesRight

\* A write by another way leaves no cache or index of its branch current.
LEMMA UncountedKeeps ==
    ASSUME StoreRight, NEW b \in Branches, NEW new \in Seq(Message), Uncounted(b, new)
    PROVE  StoreRight'
<1>1. rev[b] # None /\ clock' = clock + 1 /\ clock \in Nat /\ UNCHANGED <<world, at, counters, cache, index>>
    BY DEF Uncounted, Live, StoreRight, Slots
<1>2. /\ rows'[b] = new /\ rev'[b] = clock + 1
      /\ \A d \in Branches : d # b => rows'[d] = rows[d] /\ rev'[d] = rev[d]
      /\ rows' \in [Branches -> Seq(Message)] /\ rev' \in [Branches -> Nat \cup {None}]
    BY <1>1 DEF Uncounted, StoreRight, Slots
<1>3. clock + 1 # None
    BY <1>1, StoreAssumption
<1>4. Slots'
    <2>1. ASSUME NEW d \in Branches, rev'[d] # None PROVE rev'[d] <= clock + 1
        <3>1. rev[d] # None => rev[d] \in Nat /\ rev[d] <= clock
            BY DEF StoreRight, Slots
        <3>. QED  BY <1>1, <1>2, <2>1, <3>1, SMTT(30)
    <2>. QED  BY <1>1, <1>2, <2>1 DEF StoreRight, Slots
<1>5. HandlesRight'
    <2>1. ASSUME NEW h \in Handles PROVE counters[h].last # None => counters[h].last <= clock + 1
        BY <1>1 DEF StoreRight, HandlesRight, CounterT
    <2>2. \A h \in Handles : at[h] # None => rev'[at[h]] # None
        BY <1>2, <1>3 DEF StoreRight, HandlesRight
    <2>. QED  BY <1>1, <2>1, <2>2 DEF StoreRight, HandlesRight
<1>6. ASSUME NEW j \in Instances PROVE InstanceRight(j)'
    <2>1. InstanceRight(j) /\ HandleOf[j] \in Handles /\ index[j] \in IndexT
        BY DEF StoreRight, InstancesRight, Handles
    <2>2. CacheRight(cache[j], counters[HandleOf[j]], rows', rev', clock')
        <3>1. CASE cache[j] = NoCache
            BY <3>1 DEF CacheRight
        <3>2. CASE cache[j] # NoCache
            <4> DEFINE d == cache[j].branch
                       k == counters[HandleOf[j]]
            <4>1. d \in Branches /\ rev[d] # None /\ Faithful(cache[j], rows[d], rev[d], k, clock)
                BY <2>1, <3>2 DEF InstanceRight, CacheRight
            <4>2. k \in CounterT /\ (k.last = None \/ k.last <= clock)
                BY <2>1 DEF StoreRight, HandlesRight
            <4>3. CASE d = b
                <5>1. Faithful(cache[j], new, clock + 1, k, clock + 1)
                    BY <1>1, <4>1, <4>2, FaithfulUncounted
                <5>. QED  BY <1>1, <1>2, <1>3, <4>1, <4>3, <5>1 DEF CacheRight
            <4>4. CASE d # b
                <5>1. Faithful(cache[j], rows[d], rev[d], k, clock + 1)
                    BY <1>1, <4>1, FaithfulLater
                <5>. QED  BY <1>1, <1>2, <4>1, <4>4, <5>1 DEF CacheRight
            <4>. QED  BY <4>3, <4>4
        <3>. QED  BY <3>1, <3>2
    <2>3. IndexRight(index[j], rows', rev', clock')
        <3>1. CASE index[j] = NoIndex
            BY <3>1 DEF IndexRight
        <3>2. CASE index[j] # NoIndex
            <4> DEFINE d == index[j].branch
            <4>1. /\ d \in Branches /\ rev[d] # None
                  /\ index[j].rev = None \/ (index[j].rev \in Nat /\ index[j].rev <= clock)
                  /\ index[j].rev = rev[d] => index[j].ids = Ids(rows[d])
                BY <2>1, <3>2 DEF InstanceRight, IndexRight, IndexT
            <4>2. index[j].rev # clock + 1 /\ (index[j].rev = None \/ index[j].rev <= clock + 1)
                BY <1>1, <1>3, <4>1
            <4>3. CASE d = b
                BY <1>1, <1>2, <1>3, <2>1, <4>1, <4>2, <4>3 DEF IndexRight
            <4>4. CASE d # b
                BY <1>1, <1>2, <2>1, <4>1, <4>2, <4>4 DEF IndexRight
            <4>. QED  BY <4>3, <4>4
        <3>. QED  BY <3>1, <3>2
    <2>. QED  BY <1>1, <2>1, <2>2, <2>3 DEF InstanceRight
<1>. QED  BY <1>1, <1>4, <1>5, <1>6 DEF StoreRight, InstancesRight

\* What a write by another way may be.
LEMMA OutsideIs ==
    ASSUME StoreRight, NEW b \in Branches, WriteOutside(b)
    PROVE  \E new \in Seq(Message) :
             /\ Uncounted(b, new)
             /\ \/ new = Append(rows[b], Row)
                \/ \E n \in DOMAIN rows[b] : new = [rows[b] EXCEPT ![n].ver = clock + 1]
                \/ \E n \in DOMAIN rows[b] : rows[b][n].body = 0 /\ new = Cut(rows[b], n, n)
<1>1. rows[b] \in Seq(Message) /\ clock \in Nat /\ clock + 1 \in Nat
    BY DEF StoreRight, Slots
<1>2. DOMAIN rows[b] = 1 .. Len(rows[b]) /\ Len(rows[b]) \in Nat /\ \A n \in 1 .. Len(rows[b]) : rows[b][n] \in Message
    BY <1>1, LenProperties, ElementOfSeq
<1>3. Append(rows[b], Row) \in Seq(Message)
    <2>1. Row \in Message
        BY <1>1 DEF Row, Message
    <2>. QED  BY <1>1, <2>1, AppendProperties
<1>4. ASSUME NEW n \in DOMAIN rows[b] PROVE [rows[b] EXCEPT ![n].ver = clock + 1] \in Seq(Message)
    <2>1. rows[b][n] \in [id : Nat, ver : Nat, body : Nat, shard : Nat]
        BY <1>2 DEF Message
    <2>2. [rows[b][n] EXCEPT !.ver = clock + 1] \in Message
        BY <1>1, <2>1 DEF Message
    <2>. QED  BY <1>1, <1>2, <2>2, ExceptSeq
<1>5. ASSUME NEW n \in DOMAIN rows[b] PROVE Cut(rows[b], n, n) \in Seq(Message)
    <2>1. n \in 1 .. Len(rows[b]) /\ n \in n .. Len(rows[b])
        BY <1>2
    <2>. QED  BY <1>1, <2>1, CutIs
<1>. QED  BY <1>3, <1>4, <1>5 DEF WriteOutside

\* Every step keeps the store right.
LEMMA NextKeeps ==
    ASSUME StoreRight, [Next]_vars
    PROVE  StoreRight'
<1>0. world.who \subseteq Instances
    BY StoreAssumption DEF StoreRight, Slots
<1>1. CASE UNCHANGED vars
    BY <1>1 DEF vars, StoreRight, Slots, HandlesRight, InstancesRight, InstanceRight
<1>2. ASSUME NEW i \in world.who, Construct(i) PROVE StoreRight'
    BY <1>0, <1>2, ConstructKeeps
<1>3. ASSUME NEW i \in Instances, Opened(i),
             \/ AppendMessage(i) \/ Read(i) \/ Lookup(i)
             \/ \E n \in DOMAIN rows[Here(i)] :
                  \/ EditMessage(i, n) \/ RemoveMessage(i, n) \/ RemoveBodyGroup(i, n)
                  \/ \E z \in DOMAIN rows[Here(i)] : RemoveRange(i, n, z)
             \/ \E j \in world.who, b \in Branches : Derive(i, j, b)
      PROVE  StoreRight'
    <2>1. CASE AppendMessage(i)
        BY <1>3, <2>1, AppendKeeps
    <2>2. CASE Read(i) \/ Lookup(i)
        BY <1>3, <2>2, ReadIsRight
    <2>3. CASE \E n \in DOMAIN rows[Here(i)] :
                  \/ EditMessage(i, n) \/ RemoveMessage(i, n) \/ RemoveBodyGroup(i, n)
                  \/ \E z \in DOMAIN rows[Here(i)] : RemoveRange(i, n, z)
        BY <1>3, <2>3, EditKeeps, RemoveMessageKeeps, RemoveBodyGroupKeeps, RemoveRangeKeeps
    <2>4. CASE \E j \in world.who, b \in Branches : Derive(i, j, b)
        BY <1>0, <1>3, <2>4, DeriveKeeps
    <2>. QED  BY <1>3, <2>1, <2>2, <2>3, <2>4
<1>4. ASSUME NEW b \in Branches, SwitchBranch(b) \/ WriteOutside(b) \/ (\E from \in Branches : Fork(from, b))
      PROVE  StoreRight'
    BY <1>4, SwitchKeeps, OutsideIs, UncountedKeeps, ForkKeeps
<1>. QED  BY <1>1, <1>2, <1>3, <1>4 DEF Next

\* Nothing is read at the start.
LEMMA InitRight ==
    Init => StoreRight
<1> SUFFICES ASSUME Init PROVE StoreRight
    OBVIOUS
<1>1. Rows0 \in Seq(Message) /\ <<>> \in Seq(Message) /\ Len(Rows0) \in Nat
    BY StoreAssumption, EmptySeq, LenProperties
<1>2. Slots
    BY <1>1, StoreAssumption DEF Init, Slots
<1>3. HandlesRight
    BY <1>1, StoreAssumption DEF Init, HandlesRight, CounterT
<1>4. \A i \in Instances : cache[i] = NoCache /\ index[i] = NoIndex
    BY DEF Init
<1>5. InstancesRight
    BY <1>4, NoneIs DEF Init, InstancesRight, InstanceRight, CacheRight, IndexRight
<1>. QED  BY <1>2, <1>3, <1>5 DEF StoreRight

\* The store is right at every time.
LEMMA StaysRight ==
    Spec => []StoreRight
<1>1. StoreRight /\ [Next]_vars => StoreRight'
    BY NextKeeps
<1>. QED  BY <1>1, InitRight, PTL DEF Spec

\* Whatever siblings, other handles and chronicle wrote, on whatever branch, an
\* instance reads the rows its branch holds, and finds each by its id where it
\* stands (getAllInternal, lookupIndex).
THEOREM ReadsAreCorrect ==
    Spec => []ReadsWhatIsStored
BY StaysRight, RightReads, PTL

-----------------------------------------------------------------------------
(* Bodies.                                                                 *)

\* What a write leaves of the rows.
IdSet(rs) == {r.id : r \in ToSet(rs)}
IdsRight == \A b \in Branches : OwnIds(rows[b], clock)

\* A row is in a slot by its id alone.
LEMMA IdSetIs ==
    ASSUME NEW rs \in Seq(Message), NEW v
    PROVE  v \in IdSet(rs) <=> \E p \in DOMAIN rs : rs[p].id = v
BY DEF IdSet, ToSet

\* Rows that keep every id keep every body.
LEMMA AllKept ==
    ASSUME NEW rs \in Seq(Message), NEW new \in Seq(Message),
           \A p \in DOMAIN rs : \E q \in DOMAIN new : new[q].id = rs[p].id
    PROVE  KeepsBodies(rs, new)
<1>1. \A p \in DOMAIN rs : rs[p].id \in IdSet(new)
    BY IdSetIs
<1>. QED  BY <1>1 DEF KeepsBodies, IdSet

\* A row appended has a new id and no body.
LEMMA AppendWhole ==
    ASSUME clock \in Nat, NEW rs \in Seq(Message), OwnIds(rs, clock)
    PROVE  /\ Append(rs, Row) \in Seq(Message) /\ OwnIds(Append(rs, Row), clock + 1)
           /\ KeepsBodies(rs, Append(rs, Row))
<1> DEFINE new == Append(rs, Row)
<1>1. Row \in Message /\ Row.id = clock + 1 /\ Row.body = 0 /\ clock + 1 \in Nat
    BY DEF Row, Message
<1>2. /\ new \in Seq(Message) /\ Len(new) = Len(rs) + 1 /\ Len(rs) \in Nat
      /\ DOMAIN rs = 1 .. Len(rs) /\ DOMAIN new = 1 .. Len(rs) + 1
      /\ \A p \in 1 .. Len(rs) : new[p] = rs[p]
      /\ new[Len(rs) + 1] = Row
    BY <1>1, AppendProperties, LenProperties
<1>3. \A p \in 1 .. Len(rs) : rs[p].id \in Nat
    <2>1. \A p \in 1 .. Len(rs) : rs[p] \in Message
        BY <1>2, ElementOfSeq
    <2>. QED  BY <2>1 DEF Message
<1> HIDE DEF new
<1>4. \A p \in 1 .. Len(rs) + 1 : p \in 1 .. Len(rs) \/ p = Len(rs) + 1
    BY <1>2
<1>5. \A p \in DOMAIN new : new[p].id <= clock + 1
    BY <1>1, <1>2, <1>3, <1>4 DEF OwnIds
<1>6. \A p \in 1 .. Len(rs) : new[p].id # clock + 1
    BY <1>2, <1>3 DEF OwnIds
<1>7. ASSUME NEW p \in DOMAIN new, NEW q \in DOMAIN new, p # q PROVE new[p].id # new[q].id
    BY <1>1, <1>2, <1>4, <1>6, <1>7 DEF OwnIds
<1>9. OwnIds(new, clock + 1)
    BY <1>5, <1>7 DEF OwnIds
<1>10. ASSUME NEW p \in DOMAIN rs PROVE \E q \in DOMAIN new : new[q].id = rs[p].id
    <2>1. p \in DOMAIN new /\ new[p] = rs[p]
        BY <1>2
    <2>. QED  BY <2>1
<1>. QED  BY <1>2, <1>9, <1>10, AllKept DEF new

\* A row edited keeps its id and its body.
LEMMA EditWhole ==
    ASSUME clock \in Nat, NEW rs \in Seq(Message), OwnIds(rs, clock), NEW n \in DOMAIN rs
    PROVE  /\ [rs EXCEPT ![n].ver = clock + 1] \in Seq(Message)
           /\ OwnIds([rs EXCEPT ![n].ver = clock + 1], clock + 1)
           /\ KeepsBodies(rs, [rs EXCEPT ![n].ver = clock + 1])
<1> DEFINE new == [rs EXCEPT ![n].ver = clock + 1]
<1>1. DOMAIN rs = 1 .. Len(rs) /\ Len(rs) \in Nat /\ \A p \in DOMAIN rs : rs[p] \in Message
    BY LenProperties, ElementOfSeq
<1>2. rs[n] \in [id : Nat, ver : Nat, body : Nat, shard : Nat]
    BY <1>1 DEF Message
<1>3. clock + 1 \in Nat
    OBVIOUS
<1>4. [rs[n] EXCEPT !.ver = clock + 1] \in Message
    BY <1>2, <1>3 DEF Message
<1>5. new \in Seq(Message) /\ DOMAIN new = DOMAIN rs
    BY <1>1, <1>4, ExceptSeq
<1>6. \A p \in DOMAIN rs : new[p].id = rs[p].id /\ new[p].body = rs[p].body /\ new[p].shard = rs[p].shard
    <2>1. new[n].id = rs[n].id /\ new[n].body = rs[n].body /\ new[n].shard = rs[n].shard
        BY <1>2
    <2>2. \A p \in DOMAIN rs : p # n => new[p] = rs[p]
        OBVIOUS
    <2>. QED  BY <2>1, <2>2
<1> HIDE DEF new
<1>7. \A p \in DOMAIN rs : rs[p].id \in Nat /\ rs[p].id <= clock + 1
    BY <1>1 DEF OwnIds, Message
<1>9. OwnIds(new, clock + 1)
    BY <1>5, <1>6, <1>7 DEF OwnIds
<1>. QED  BY <1>5, <1>6, <1>9, AllKept DEF new

\* A cut that bisects no body at either end takes each whole or leaves it.
LEMMA CutWhole ==
    ASSUME clock \in Nat, NEW rs \in Seq(Message), OwnIds(rs, clock),
           NEW a \in 1 .. Len(rs), NEW z \in a .. Len(rs), ~Bisects(rs, a, z)
    PROVE  /\ Cut(rs, a, z) \in Seq(Message) /\ OwnIds(Cut(rs, a, z), clock + 1)
           /\ KeepsBodies(rs, Cut(rs, a, z))
<1> DEFINE new == Cut(rs, a, z)
           d == z - a + 1
           From(p) == IF p < a THEN p ELSE p + d
<1>1. DOMAIN rs = 1 .. Len(rs) /\ Len(rs) \in Nat /\ \A p \in DOMAIN rs : rs[p] \in Message
    BY LenProperties, ElementOfSeq
<1>2. new \in Seq(Message) /\ Len(new) = Len(rs) - d /\ DOMAIN new = 1 .. Len(rs) - d
    <2>1. new \in Seq(Message) /\ Len(new) = Len(rs) - d
        BY CutIs
    <2> HIDE DEF new
    <2>. QED  BY <2>1, LenProperties
<1>3. \A p \in DOMAIN new : From(p) \in DOMAIN rs /\ new[p] = rs[From(p)] /\ From(p) \notin a .. z
    <2>1. /\ \A p \in 1 .. a - 1 : new[p] = rs[p]
          /\ \A p \in a .. Len(rs) - d : new[p] = rs[p + d]
        BY CutIs
    <2> HIDE DEF new
    <2>2. ASSUME NEW p \in DOMAIN new, p < a PROVE From(p) = p /\ p \in 1 .. a - 1 /\ p \in DOMAIN rs /\ p \notin a .. z
        BY <1>1, <1>2, <2>2
    <2>3. ASSUME NEW p \in DOMAIN new, ~(p < a)
          PROVE  From(p) = p + d /\ p \in a .. Len(rs) - d /\ p + d \in DOMAIN rs /\ p + d \notin a .. z
        BY <1>1, <1>2, <2>3
    <2> HIDE DEF From, d
    <2>. QED  BY <2>1, <2>2, <2>3
<1>4. \A p \in DOMAIN rs : p \notin a .. z => \E q \in DOMAIN new : From(q) = p
    <2>1. ASSUME NEW p \in DOMAIN rs, p < a PROVE p \in DOMAIN new /\ From(p) = p
        BY <1>1, <1>2, <2>1
    <2>2. ASSUME NEW p \in DOMAIN rs, p > z PROVE p - d \in DOMAIN new /\ From(p - d) = p
        BY <1>1, <1>2, <2>2
    <2>3. \A p \in DOMAIN rs : p \notin a .. z => p < a \/ p > z
        BY <1>1
    <2>. QED  BY <2>1, <2>2, <2>3
<1>5. \A p, q \in DOMAIN new : p # q => From(p) # From(q)
    BY <1>1, <1>2
<1>6. ASSUME NEW p \in DOMAIN rs, NEW q \in DOMAIN rs, p < q, OneBody(rs, p, q)
      PROVE  p \in a .. z <=> q \in a .. z
    <2>1. ASSUME p < a, ~(q < a) PROVE FALSE
        <3>1. a - 1 \in p .. q - 1 /\ a > 1 /\ (a - 1) + 1 = a
            BY <1>1, <1>6, <2>1
        <3>. QED  BY <1>6, <3>1 DEF Bisects, OneBody
    <2>2. ASSUME p <= z, ~(q <= z) PROVE FALSE
        <3>1. z \in p .. q - 1 /\ z < Len(rs)
            BY <1>1, <1>6, <2>2
        <3>. QED  BY <1>6, <3>1 DEF Bisects, OneBody
    <2>. QED  BY <1>1, <1>6, <2>1, <2>2
<1> HIDE DEF new, From, d
<1>7. \A p \in DOMAIN new : new[p].id <= clock + 1
    <2>1. \A p \in DOMAIN rs : rs[p].id \in Nat /\ rs[p].id <= clock
        BY <1>1 DEF OwnIds, Message
    <2>2. \A p \in DOMAIN rs : rs[p].id <= clock + 1
        BY <2>1
    <2>. QED  BY <1>3, <2>2
<1>8. \A p, q \in DOMAIN new : p # q => new[p].id # new[q].id
    BY <1>3, <1>5 DEF OwnIds
<1>9. OwnIds(new, clock + 1)
    BY <1>7, <1>8 DEF OwnIds
<1>10. \A p \in DOMAIN rs : rs[p].id \in IdSet(new) <=> p \notin a .. z
    <2>1. ASSUME NEW p \in DOMAIN rs, p \notin a .. z PROVE rs[p].id \in IdSet(new)
        BY <1>2, <1>3, <1>4, <2>1, IdSetIs
    <2>2. ASSUME NEW p \in DOMAIN rs, rs[p].id \in IdSet(new) PROVE p \notin a .. z
        <3>1. PICK q \in DOMAIN new : new[q].id = rs[p].id
            BY <1>2, <2>2, IdSetIs
        <3>2. From(q) = p
            BY <1>3, <3>1 DEF OwnIds
        <3>. QED  BY <1>3, <3>2
    <2>. QED  BY <2>1, <2>2
<1>11. KeepsBodies(rs, new)
    BY <1>6, <1>10 DEF KeepsBodies, IdSet
<1>. QED  BY <1>2, <1>9, <1>11 DEF new

\* A write of one branch that keeps its bodies leaves every other branch as it was.
LEMMA BranchBodies ==
    ASSUME StoreRight, IdsRight, NEW b \in Branches, NEW new \in Seq(Message),
           OwnIds(new, clock + 1), KeepsBodies(rows[b], new),
           rows' = [rows EXCEPT ![b] = new], clock' = clock + 1
    PROVE  IdsRight' /\ BodyGoesWhole
<1>1. clock \in Nat /\ rows \in [Branches -> Seq(Message)]
    BY DEF StoreRight, Slots
<1>2. \A d \in Branches : rows'[d] = IF d = b THEN new ELSE rows[d]
    BY <1>1
<1>3. ASSUME NEW d \in Branches PROVE OwnIds(rows[d], clock + 1)
    <2>1. OwnIds(rows[d], clock) /\ rows[d] \in Seq(Message)
        BY <1>1 DEF IdsRight
    <2>2. \A p \in DOMAIN rows[d] : rows[d][p] \in Message
        BY <2>1, ElementOfSeq, LenProperties
    <2>3. \A p \in DOMAIN rows[d] : rows[d][p].id <= clock + 1
        BY <1>1, <2>1, <2>2 DEF OwnIds, Message
    <2>. QED  BY <2>1, <2>3 DEF OwnIds
<1>4. IdsRight'
    <2>1. \A d \in Branches : OwnIds(rows'[d], clock + 1)
        BY <1>2, <1>3
    <2>. QED  BY <2>1 DEF IdsRight, OwnIds
<1>5. ASSUME NEW d \in Branches PROVE KeepsBodies(rows[d], rows'[d])
    <2>1. CASE d = b
        BY <1>2, <2>1
    <2>2. CASE d # b
        <3>1. rows'[d] = rows[d] /\ rows[d] \in Seq(Message)
            BY <1>1, <1>2, <2>2
        <3>. QED  BY <3>1, AllKept
    <2>. QED  BY <2>1, <2>2
<1>. QED  BY <1>4, <1>5 DEF BodyGoesWhole, Live

\* A counted write is such a write of its instance's branch.
LEMMA WriteBodies ==
    ASSUME StoreRight, IdsRight, NEW i \in Instances, Opened(i),
           NEW new \in Seq(Message), OwnIds(new, clock + 1), KeepsBodies(rows[Here(i)], new),
           Writes(i, After(Slot(i), new))
    PROVE  IdsRight' /\ BodyGoesWhole
<1>1. Here(i) \in Branches
    BY OpenedIs, SlotIs
<1>2. rows' = [rows EXCEPT ![Here(i)] = new] /\ clock' = clock + 1
    BY DEF Writes, After, Slot
<1>. QED  BY <1>1, <1>2, BranchBodies

\* A branch made anew holds another's rows.
LEMMA MadeBodies ==
    ASSUME StoreRight, IdsRight, NEW b \in Branches, b \notin Live, NEW from \in Branches,
           rows' = [rows EXCEPT ![b] = rows[from]], UNCHANGED clock
    PROVE  IdsRight' /\ BodyGoesWhole
<1>1. rows \in [Branches -> Seq(Message)]
    BY DEF StoreRight, Slots
<1>2. \A d \in Branches : rows'[d] = IF d = b THEN rows[from] ELSE rows[d]
    BY <1>1
<1>3. \A d \in Branches : OwnIds(rows'[d], clock')
    BY <1>2 DEF IdsRight
<1>4. IdsRight'
    BY <1>3 DEF IdsRight, OwnIds
<1>5. ASSUME NEW d \in Live PROVE KeepsBodies(rows[d], rows'[d])
    <2>1. rows'[d] = rows[d] /\ rows[d] \in Seq(Message)
        BY <1>1, <1>2 DEF Live
    <2>. QED  BY <2>1, AllKept
<1>. QED  BY <1>4, <1>5 DEF BodyGoesWhole

\* Removing a row of no body bisects none.
LEMMA RowAlone ==
    ASSUME NEW rs \in Seq(Message), NEW n \in DOMAIN rs, rs[n].body = 0
    PROVE  ~Bisects(rs, n, n) /\ n \in 1 .. Len(rs) /\ n \in n .. Len(rs)
<1>1. DOMAIN rs = 1 .. Len(rs) /\ Len(rs) \in Nat
    BY LenProperties
<1>2. n \in 1 .. Len(rs) /\ n \in n .. Len(rs)
    BY <1>1
<1>. QED  BY <1>2 DEF Bisects, Continues

\* No body continues past the rows that continue from one of its rows.
LEMMA BodyEdges ==
    ASSUME NEW rs \in Seq(Message), NEW n \in DOMAIN rs, NEW first \in 1 .. Len(rs), NEW final \in first .. Len(rs),
           first \in BodyBounds(rs, n), final \in BodyBounds(rs, n), first <= n, n <= final,
           \A k \in BodyBounds(rs, n) : first <= k /\ k <= final
    PROVE  ~Bisects(rs, first, final)
<1>1. DOMAIN rs = 1 .. Len(rs) /\ Len(rs) \in Nat /\ n \in 1 .. Len(rs)
    BY LenProperties
<1>2. first \in Nat /\ final \in Nat /\ n \in Nat
    BY <1>1
<1>3. /\ \A k \in first .. n - 1 : Continues(rs[k], rs[k + 1])
      /\ \A k \in n .. final - 1 : Continues(rs[k], rs[k + 1])
    <2>1. \A k \in first .. n - 1 : Continues(rs[k], rs[k + 1])
        BY <1>2 DEF BodyBounds, OneBody
    <2>2. CASE final <= n
        BY <1>1, <1>2, <2>1, <2>2
    <2>3. CASE ~(final <= n)
        BY <1>2, <2>3 DEF BodyBounds, OneBody
    <2>. QED  BY <1>2, <2>1, <2>2, <2>3
<1>4. ASSUME first > 1, Continues(rs[first - 1], rs[first]) PROVE FALSE
    <2>1. first - 1 \in 1 .. Len(rs) /\ first - 1 <= n
        BY <1>1, <1>2, <1>4
    <2>2. \A k \in first - 1 .. n - 1 : k = first - 1 \/ k \in first .. n - 1
        BY <1>1, <1>2
    <2>3. (first - 1) + 1 = first
        BY <1>2
    <2>4. \A k \in first - 1 .. n - 1 : Continues(rs[k], rs[k + 1])
        BY <1>3, <1>4, <2>2, <2>3
    <2>5. first - 1 \in BodyBounds(rs, n)
        BY <1>1, <2>1, <2>4 DEF BodyBounds, OneBody
    <2>6. first <= first - 1
        BY <1>2, <2>5
    <2>. QED  BY <1>2, <2>6
<1>5. ASSUME final < Len(rs), Continues(rs[final], rs[final + 1]) PROVE FALSE
    <2>1. final + 1 \in 1 .. Len(rs) /\ ~(final + 1 <= n)
        BY <1>1, <1>2, <1>5
    <2>2. \A k \in n .. (final + 1) - 1 : k = final \/ k \in n .. final - 1
        BY <1>1, <1>2
    <2>3. \A k \in n .. (final + 1) - 1 : Continues(rs[k], rs[k + 1])
        BY <1>3, <1>5, <2>2
    <2>4. final + 1 \in BodyBounds(rs, n)
        BY <1>1, <2>1, <2>3 DEF BodyBounds, OneBody
    <2>5. final + 1 <= final
        BY <1>2, <2>4
    <2>. QED  BY <1>2, <2>5
<1>. QED  BY <1>2, <1>4, <1>5 DEF Bisects

\* The rows removeBodyGroup takes bisect no body.
LEMMA BodyWhole ==
    ASSUME NEW rs \in Seq(Message), NEW n \in DOMAIN rs,
           NEW first, first = CHOOSE k \in BodyBounds(rs, n) : \A x \in BodyBounds(rs, n) : k <= x,
           NEW final, final = CHOOSE k \in BodyBounds(rs, n) : \A x \in BodyBounds(rs, n) : k >= x
    PROVE  ~Bisects(rs, first, final) /\ first \in 1 .. Len(rs) /\ final \in first .. Len(rs)
BY BodyEnds, BodyEdges

\* Every write of an instance leaves bodies whole.
LEMMA InstanceBodies ==
    ASSUME StoreRight, IdsRight, NEW i \in Instances, Opened(i),
           \/ AppendMessage(i)
           \/ \E n \in DOMAIN rows[Here(i)] :
                  \/ EditMessage(i, n) \/ RemoveMessage(i, n) \/ RemoveBodyGroup(i, n)
                  \/ \E z \in DOMAIN rows[Here(i)] : RemoveRange(i, n, z)
    PROVE  IdsRight' /\ BodyGoesWhole
<1> DEFINE rs == rows[Here(i)]
<1>1. /\ Here(i) \in Branches /\ Slot(i).rows = rs /\ rs \in Seq(Message) /\ clock \in Nat
    BY OpenedIs, SlotIs DEF SlotT, StoreRight, Slots
<1>2. OwnIds(rs, clock)
    BY <1>1 DEF IdsRight
<1>3. DOMAIN rs = 1 .. Len(rs) /\ Len(rs) \in Nat
    BY <1>1, LenProperties
<1>4. CASE AppendMessage(i)
    <2>1. Writes(i, After(Slot(i), Append(rs, Row)))
        BY <1>1, <1>4 DEF AppendMessage
    <2> HIDE DEF rs
    <2>. QED  BY <1>1, <1>2, <2>1, AppendWhole, WriteBodies DEF rs
<1>5. ASSUME NEW n \in DOMAIN rs, EditMessage(i, n) PROVE IdsRight' /\ BodyGoesWhole
    <2>1. Writes(i, After(Slot(i), [rs EXCEPT ![n].ver = clock + 1]))
        BY <1>1, <1>5 DEF EditMessage
    <2>2. /\ [rs EXCEPT ![n].ver = clock + 1] \in Seq(Message)
          /\ OwnIds([rs EXCEPT ![n].ver = clock + 1], clock + 1)
          /\ KeepsBodies(rs, [rs EXCEPT ![n].ver = clock + 1])
        BY <1>1, <1>2, EditWhole
    <2>. QED  BY <2>1, <2>2, WriteBodies
<1>6. ASSUME NEW a \in 1 .. Len(rs), NEW z \in a .. Len(rs), ~Bisects(rs, a, z),
             Writes(i, After(Slot(i), Cut(rs, a, z)))
      PROVE  IdsRight' /\ BodyGoesWhole
    <2>1. Cut(rs, a, z) \in Seq(Message) /\ OwnIds(Cut(rs, a, z), clock + 1) /\ KeepsBodies(rs, Cut(rs, a, z))
        BY <1>1, <1>2, <1>6, CutWhole
    <2>. QED  BY <1>6, <2>1, WriteBodies
<1>7. ASSUME NEW n \in DOMAIN rs, RemoveMessage(i, n) PROVE IdsRight' /\ BodyGoesWhole
    <2>1. Writes(i, After(Slot(i), Cut(rs, n, n))) /\ rs[n].body = 0
        BY <1>1, <1>7 DEF RemoveMessage, Removed
    <2>2. ~Bisects(rs, n, n) /\ n \in 1 .. Len(rs) /\ n \in n .. Len(rs)
        BY <1>1, <1>2, <1>7, <2>1, RowAlone
    <2>. QED  BY <1>6, <2>1, <2>2
<1>8. ASSUME NEW n \in DOMAIN rs, RemoveBodyGroup(i, n) PROVE IdsRight' /\ BodyGoesWhole
    <2> DEFINE first == CHOOSE k \in BodyBounds(rs, n) : \A x \in BodyBounds(rs, n) : k <= x
               final == CHOOSE k \in BodyBounds(rs, n) : \A x \in BodyBounds(rs, n) : k >= x
    <2>1. Writes(i, After(Slot(i), Cut(rs, first, final)))
        BY <1>1, <1>8 DEF RemoveBodyGroup, Removed
    <2>2. ~Bisects(rs, first, final) /\ first \in 1 .. Len(rs) /\ final \in first .. Len(rs)
        BY <1>1, <1>8, BodyWhole
    <2> HIDE DEF first, final
    <2>. QED  BY <1>6, <2>1, <2>2
<1>9. ASSUME NEW n \in DOMAIN rs, NEW z \in DOMAIN rs, RemoveRange(i, n, z) PROVE IdsRight' /\ BodyGoesWhole
    <2>1. Writes(i, After(Slot(i), Cut(rs, n, z))) /\ n < z /\ ~Bisects(rs, n, z)
        BY <1>1, <1>9 DEF RemoveRange, Removed
    <2>2. n \in 1 .. Len(rs) /\ z \in n .. Len(rs)
        BY <1>3, <2>1
    <2>. QED  BY <1>6, <2>1, <2>2
<1>. QED  BY <1>4, <1>5, <1>7, <1>8, <1>9

\* A write by another way cuts rows of no body only.
LEMMA OutsideBodies ==
    ASSUME StoreRight, IdsRight, NEW b \in Branches, WriteOutside(b)
    PROVE  IdsRight' /\ BodyGoesWhole
<1>1. rows[b] \in Seq(Message) /\ clock \in Nat /\ OwnIds(rows[b], clock)
    BY DEF StoreRight, Slots, IdsRight
<1>2. PICK new \in Seq(Message) :
        /\ Uncounted(b, new)
        /\ \/ new = Append(rows[b], Row)
           \/ \E n \in DOMAIN rows[b] : new = [rows[b] EXCEPT ![n].ver = clock + 1]
           \/ \E n \in DOMAIN rows[b] : rows[b][n].body = 0 /\ new = Cut(rows[b], n, n)
    BY OutsideIs
<1>3. OwnIds(new, clock + 1) /\ KeepsBodies(rows[b], new)
    <2>1. CASE new = Append(rows[b], Row)
        BY <1>1, <2>1, AppendWhole
    <2>2. CASE \E n \in DOMAIN rows[b] : new = [rows[b] EXCEPT ![n].ver = clock + 1]
        BY <1>1, <2>2, EditWhole
    <2>3. ASSUME NEW n \in DOMAIN rows[b], rows[b][n].body = 0, new = Cut(rows[b], n, n)
          PROVE  OwnIds(new, clock + 1) /\ KeepsBodies(rows[b], new)
        <3>1. ~Bisects(rows[b], n, n) /\ n \in 1 .. Len(rows[b]) /\ n \in n .. Len(rows[b])
            BY <1>1, <2>3, RowAlone
        <3>. QED  BY <1>1, <2>3, <3>1, CutWhole
    <2>. QED  BY <1>2, <2>1, <2>2, <2>3
<1>4. rows' = [rows EXCEPT ![b] = new] /\ clock' = clock + 1
    BY <1>2 DEF Uncounted
<1>. QED  BY <1>3, <1>4, BranchBodies

\* Every step keeps ids apart, and takes a body whole or leaves it whole.
LEMMA NextBodies ==
    ASSUME StoreRight, IdsRight, [Next]_vars
    PROVE  IdsRight' /\ [BodyGoesWhole]_vars
<1>0. world.who \subseteq Instances
    BY StoreAssumption DEF StoreRight, Slots
<1>1. ASSUME UNCHANGED <<rows, clock>> PROVE IdsRight' /\ BodyGoesWhole
    <2>1. \A b \in Live : rows'[b] = rows[b] /\ rows[b] \in Seq(Message)
        BY <1>1 DEF StoreRight, Slots, Live
    <2>2. BodyGoesWhole
        BY <2>1, AllKept DEF BodyGoesWhole
    <2>. QED  BY <1>1, <2>2 DEF IdsRight, OwnIds
<1>2. CASE UNCHANGED vars
    BY <1>1, <1>2 DEF vars
<1>3. ASSUME NEW i \in world.who, Construct(i) PROVE IdsRight' /\ BodyGoesWhole
    BY <1>1, <1>3 DEF Construct
<1>4. ASSUME NEW i \in Instances, Opened(i), Read(i) \/ Lookup(i) PROVE IdsRight' /\ BodyGoesWhole
    BY <1>1, <1>4 DEF Read, Lookup
<1>5. ASSUME NEW i \in Instances, Opened(i), NEW j \in world.who, NEW b \in Branches, Derive(i, j, b)
      PROVE  IdsRight' /\ BodyGoesWhole
    <2>1. Here(i) \in Branches
        BY <1>5, OpenedIs, SlotIs
    <2>2. b \notin Live /\ rows' = [rows EXCEPT ![b] = rows[Here(i)]] /\ UNCHANGED clock
        BY <1>5 DEF Derive
    <2>. QED  BY <2>1, <2>2, MadeBodies
<1>6. ASSUME NEW i \in Instances, Opened(i),
             \/ AppendMessage(i) \/ Read(i) \/ Lookup(i)
             \/ \E n \in DOMAIN rows[Here(i)] :
                  \/ EditMessage(i, n) \/ RemoveMessage(i, n) \/ RemoveBodyGroup(i, n)
                  \/ \E z \in DOMAIN rows[Here(i)] : RemoveRange(i, n, z)
             \/ \E j \in world.who, b \in Branches : Derive(i, j, b)
      PROVE  IdsRight' /\ BodyGoesWhole
    BY <1>4, <1>5, <1>6, InstanceBodies
<1>7. ASSUME NEW b \in Branches, SwitchBranch(b) PROVE IdsRight' /\ BodyGoesWhole
    BY <1>1, <1>7 DEF SwitchBranch
<1>8. ASSUME NEW b \in Branches, NEW from \in Branches, Fork(from, b) PROVE IdsRight' /\ BodyGoesWhole
    BY <1>8, MadeBodies DEF Fork
<1>. QED  BY <1>2, <1>3, <1>6, <1>7, <1>8, OutsideBodies DEF Next

\* A removal takes a body whole or leaves it whole, whoever makes it and
\* whatever stores and handles wrote before (remove, removeBodyGroup,
\* removeRange).
THEOREM RemovalsTakeBodiesWhole ==
    Spec => BodiesGoWhole
<1>1. Init => IdsRight
    <2> SUFFICES ASSUME Init, NEW b \in Branches PROVE OwnIds(rows[b], clock)
        BY DEF IdsRight
    <2>1. CASE b = Main
        BY <2>1, StoreAssumption DEF Init
    <2>2. CASE b # Main
        <3>1. rows[b] = <<>> /\ DOMAIN <<>> = {}
            BY <2>2 DEF Init
        <3>. QED  BY <3>1 DEF OwnIds
    <2>. QED  BY <2>1, <2>2
<1>2. StoreRight /\ IdsRight /\ [Next]_vars => IdsRight' /\ [BodyGoesWhole]_vars
    BY NextBodies
<1>. QED  BY <1>1, <1>2, StaysRight, PTL DEF Spec, BodiesGoWhole

-----------------------------------------------------------------------------
(* What appends leave cheap to read.                                       *)

\* A revision a counted write left tells how many were counted before it.
CountsRight ==
    \A i \in Instances :
        cache[i] # NoCache /\ cache[i].rev = counters[HandleOf[i]].last => cache[i].count = counters[HandleOf[i]].count

\* A counted write stamps its own instance's cache with its count, or leaves
\* it at an earlier revision.
LEMMA WriteCounts ==
    ASSUME StoreRight, CountsRight, NEW i \in Instances, Opened(i), NEW new, Written(rows[Here(i)], new),
           Writes(i, After(Slot(i), new)), NEW c, NEW x, Keeps(i, c, x),
           c = NoCache \/ c.rev # clock + 1 \/ c.count = After(Slot(i), new).k.count
    PROVE  CountsRight'
<1> DEFINE h == HandleOf[i]
           k == After(Slot(i), new).k
<1>1. /\ h \in Handles /\ counters \in [Handles -> CounterT] /\ cache \in [Instances -> CacheT] /\ clock \in Nat
      /\ rev[Here(i)] \in Nat
    BY OpenedIs, SlotIs DEF Handles, StoreRight, HandlesRight, InstancesRight, Slots, SlotT
<1>2. k.last = clock + 1
    <2>1. k = Counted(counters[h], rev[Here(i)])
        BY AfterSlot
    <2>. QED  BY <1>1, <2>1, CountedIs
<1>3. counters' = [counters EXCEPT ![h] = k] /\ cache' = [cache EXCEPT ![i] = c]
    BY DEF Writes, Keeps
<1>4. counters'[h] = k /\ cache'[i] = c /\ \A l \in Instances : l # i => cache'[l] = cache[l]
    BY <1>1, <1>3
<1> HIDE DEF k, h
<1>5. ASSUME NEW l \in Instances, cache'[l] # NoCache, cache'[l].rev = counters'[HandleOf[l]].last
      PROVE  cache'[l].count = counters'[HandleOf[l]].count
    <2>1. CASE l = i
        BY <1>2, <1>4, <1>5, <2>1 DEF k, h
    <2>2. CASE l # i /\ HandleOf[l] = h
        <3>1. cache[l] # NoCache /\ cache[l].rev = clock + 1
            BY <1>2, <1>4, <1>5, <2>2
        <3>2. cache[l].rev \in Nat /\ cache[l].rev <= clock
            BY <1>1, <3>1 DEF StoreRight, InstancesRight, InstanceRight, CacheRight, Faithful, CacheT
        <3>. QED  BY <1>1, <3>1, <3>2
    <2>3. CASE l # i /\ HandleOf[l] # h
        <3>1. HandleOf[l] \in Handles
            BY DEF Handles
        <3>2. counters'[HandleOf[l]] = counters[HandleOf[l]]
            BY <1>1, <1>3, <2>3, <3>1
        <3>. QED  BY <1>4, <1>5, <2>3, <3>2 DEF CountsRight
    <2>. QED  BY <2>1, <2>2, <2>3
<1>. QED  BY <1>5 DEF CountsRight, NoCache

\* A cache loaded from a slot counts as the slot does, unless it was current.
LEMMA LoadedCounts ==
    ASSUME NEW c, NEW s
    PROVE  ~Current(c, s) => Loaded(c, s).count = s.k.count
BY DEF Loaded, Stamped

\* Every write of an instance counts right.
LEMMA AppendCounts ==
    ASSUME StoreRight, CountsRight, NEW i \in Instances, Opened(i), AppendMessage(i)
    PROVE  CountsRight'
<1> DEFINE s == Slot(i)
           new == Append(rows[Here(i)], Row)
           t == After(s, new)
           c == cache[i]
           d == Through(c, Current(c, s), s, t)
<1>1. rows[Here(i)] \in Seq(Message) /\ s.rows = rows[Here(i)] /\ clock \in Nat /\ c \in CacheT
    BY OpenedIs, SlotIs DEF StoreRight, Slots, SlotT, InstancesRight
<1>2. Written(rows[Here(i)], new)
    <2>1. Row \in Message
        BY <1>1 DEF Row, Message
    <2>. QED  BY <2>1 DEF Written, Appended
<1>3. Writes(i, t) /\ Keeps(i, d, Reindexed(index[i], s, t))
    BY <1>1 DEF AppendMessage
<1>4. d = NoCache \/ d.count = t.k.count
    <2> HIDE DEF s, t, c
    <2>1. c \in [branch : Branches \cup {None}, rows : Seq(Message), rev : Nat, count : Nat, gap : Nat]
        BY <1>1 DEF CacheT
    <2>2. [c EXCEPT !.rows = Append(@, t.rows[Len(t.rows)]), !.rev = t.rev, !.count = t.k.count].count = t.k.count
        BY <2>1
    <2>. QED  BY <2>2 DEF Through, Stamped
<1> HIDE DEF d
<1>. QED  BY <1>2, <1>3, <1>4, WriteCounts DEF s, t

\* An edit or a removal keeps of a cache its revision and its count, or both of
\* the slot it leaves.
LEMMA ChangedCounts ==
    ASSUME NEW c \in CacheT, NEW e \in CacheT, e.rev = c.rev, e.count = c.count, NEW s, NEW r \in Nat, NEW n \in Nat,
           NEW d, d = IF Current(c, s) THEN [e EXCEPT !.rev = r, !.count = n] ELSE e
    PROVE  /\ ~Current(c, s) => d.rev = c.rev
           /\ Current(c, s) => d.rev = r /\ d.count = n
<1>1. e \in [branch : Branches \cup {None}, rows : Seq(Message), rev : Nat, count : Nat, gap : Nat]
    BY DEF CacheT
<1>. QED  BY <1>1

\* edit.
LEMMA EditCounts ==
    ASSUME StoreRight, CountsRight, NEW i \in Instances, Opened(i), NEW n \in DOMAIN rows[Here(i)], EditMessage(i, n)
    PROVE  CountsRight'
<1> DEFINE s == Slot(i)
           new == [s.rows EXCEPT ![n].ver = clock + 1]
           t == After(s, new)
           x == LookedUp(index[i], cache[i], s)
           c == CacheLookedUp(index[i], cache[i], s)
           e == [c EXCEPT !.rows[n] = t.rows[n]]
           d == IF Current(c, s) THEN [e EXCEPT !.rev = t.rev, !.count = t.k.count] ELSE e
           f == IF c.branch = s.branch /\ n \in DOMAIN c.rows THEN d ELSE NoCache
           y == [x EXCEPT !.rev = t.rev]
<1>1. /\ s \in SlotT /\ s.rows = rows[Here(i)] /\ rows[Here(i)] \in Seq(Message) /\ clock \in Nat
      /\ c \in CacheT /\ Against(c, s, clock)
    BY OpenedIs, SlotIs, LookupRight DEF StoreRight, Slots, SlotT, Against
<1>2. Written(rows[Here(i)], new)
    <2>1. \A m \in DOMAIN rows[Here(i)] : rows[Here(i)][m] \in Message
        BY <1>1, ElementOfSeq, LenProperties
    <2>2. rows[Here(i)][n] \in [id : Nat, ver : Nat, body : Nat, shard : Nat] /\ clock + 1 \in Nat
        BY <1>1, <2>1 DEF Message
    <2>3. [rows[Here(i)][n] EXCEPT !.ver = clock + 1] \in Message
        BY <2>2 DEF Message
    <2>4. new = [rows[Here(i)] EXCEPT ![n] = [rows[Here(i)][n] EXCEPT !.ver = clock + 1]]
        BY <1>1
    <2>5. new \in Seq(Message) /\ Len(new) = Len(rows[Here(i)]) /\ Len(new) \in Nat
        BY <1>1, <2>3, <2>4, ExceptSeq, LenProperties
    <2>. QED  BY <2>5 DEF Written, Changed
<1>3. Writes(i, t) /\ Keeps(i, f, y)
    BY DEF EditMessage
<1>4. t.rev = clock + 1 /\ t.rev \in Nat /\ t.rows = new /\ t.k.count \in Nat
    <2>1. t \in SlotT /\ t.rev = clock + 1 /\ t.rows = new
        BY <1>1, <1>2, AfterSlot
    <2>. QED  BY <2>1 DEF SlotT, CounterT
<1>5. f = NoCache \/ f.rev # clock + 1 \/ f.count = t.k.count
    <2> HIDE DEF s, t, c
    <2>1. CASE ~(c.branch = s.branch /\ n \in DOMAIN c.rows)
        BY <2>1
    <2>2. CASE c.branch = s.branch /\ n \in DOMAIN c.rows
        <3>1. c \in [branch : Branches \cup {None}, rows : Seq(Message), rev : Nat, count : Nat, gap : Nat]
            BY <1>1 DEF CacheT
        <3>2. c.rev <= clock /\ c.rev \in Nat
            BY <1>1, <2>2, <3>1 DEF Against, Faithful
        <3>3. e = [branch |-> c.branch, rows |-> [c.rows EXCEPT ![n] = t.rows[n]], rev |-> c.rev,
                   count |-> c.count, gap |-> c.gap]
            BY <3>1
        <3>4. d.rev = c.rev \/ d.count = t.k.count
            BY <3>3
        <3>5. c.rev # clock + 1
            BY <1>1, <3>2
        <3>. QED  BY <2>2, <3>4, <3>5
    <2>. QED  BY <2>1, <2>2
<1> HIDE DEF f, y
<1>. QED  BY <1>2, <1>3, <1>5, WriteCounts DEF s, t

\* What is removed, the slot and the cache count alike.
LEMMA RemovedCounts ==
    ASSUME StoreRight, CountsRight, NEW i \in Instances, Opened(i), NEW new, Changed(rows[Here(i)], new),
           NEW c, Removed(i, c, After(Slot(i), new)),
           c = NoCache \/ c.rev # clock + 1 \/ c.count = After(Slot(i), new).k.count
    PROVE  CountsRight'
<1> DEFINE t == After(Slot(i), new)
<1>1. Written(rows[Here(i)], new)
    BY DEF Written
<1>2. t.branch = Here(i) /\ t.rev = clock + 1 /\ Here(i) \in Branches
    BY <1>1, AfterSlot, OpenedIs, SlotIs
<1>3. c.count = t.k.count \/ ~Current(c, t)
    BY <1>2, NoneIs, StoreAssumption DEF Current
<1>4. Loaded(c, t).count = t.k.count
    BY <1>3, LoadedCounts DEF Loaded
<1>5. Writes(i, t) /\ Keeps(i, Loaded(c, t), Indexed(c, t))
    BY DEF Removed
<1>. QED  BY <1>1, <1>4, <1>5, WriteCounts

\* remove.
LEMMA RemoveMessageCounts ==
    ASSUME StoreRight, CountsRight, NEW i \in Instances, Opened(i), NEW n \in DOMAIN rows[Here(i)], RemoveMessage(i, n)
    PROVE  CountsRight'
<1> DEFINE s == Slot(i)
           new == Cut(s.rows, n, n)
           t == After(s, new)
           c == CacheLookedUp(index[i], cache[i], s)
           e == [c EXCEPT !.rows = Cut(@, n, n)]
           d == IF Current(c, s) THEN [e EXCEPT !.rev = t.rev, !.count = t.k.count] ELSE e
           f == IF c.branch = s.branch /\ Len(c.rows) = Len(t.rows) + 1 THEN d ELSE NoCache
<1>1. /\ s \in SlotT /\ s.rows = rows[Here(i)] /\ rows[Here(i)] \in Seq(Message) /\ clock \in Nat
      /\ c \in CacheT /\ Against(c, s, clock)
    BY OpenedIs, SlotIs, LookupRight DEF StoreRight, Slots, SlotT, Against
<1>2. Changed(rows[Here(i)], new)
    <2>1. n \in 1 .. Len(rows[Here(i)]) /\ n \in n .. Len(rows[Here(i)])
        BY <1>1, LenProperties
    <2>. QED  BY <1>1, <2>1, CutShrinks
<1>3. Removed(i, f, t)
    BY DEF RemoveMessage
<1>4. f = NoCache \/ f.rev # clock + 1 \/ f.count = t.k.count
    <2> HIDE DEF s, t
    <2>1. CASE ~(c.branch = s.branch /\ Len(c.rows) = Len(t.rows) + 1)
        BY <2>1
    <2>2. CASE c.branch = s.branch /\ Len(c.rows) = Len(t.rows) + 1
        <3> HIDE DEF c
        <3>1. c \in [branch : Branches \cup {None}, rows : Seq(Message), rev : Nat, count : Nat, gap : Nat]
            BY <1>1 DEF CacheT
        <3>2. c.rev <= clock /\ c.rev \in Nat /\ c.rev # clock + 1
            BY <1>1, <2>2, <3>1 DEF Against, Faithful
        <3>3. e = [branch |-> c.branch, rows |-> Cut(c.rows, n, n), rev |-> c.rev, count |-> c.count, gap |-> c.gap]
            BY <3>1
        <3>4. d.rev = c.rev \/ d.count = t.k.count
            BY <3>3
        <3>. QED  BY <2>2, <3>2, <3>4
    <2>. QED  BY <2>1, <2>2
<1> HIDE DEF f
<1>. QED  BY <1>2, <1>3, <1>4, RemovedCounts DEF s, t

\* removeBodyGroup.
LEMMA RemoveBodyGroupCounts ==
    ASSUME StoreRight, CountsRight, NEW i \in Instances, Opened(i), NEW n \in DOMAIN rows[Here(i)], RemoveBodyGroup(i, n)
    PROVE  CountsRight'
<1>1. Slot(i).rows = rows[Here(i)] /\ rows[Here(i)] \in Seq(Message)
    BY OpenedIs, SlotIs DEF SlotT
<1> DEFINE rs == Slot(i).rows
           first == CHOOSE k \in BodyBounds(rs, n) : \A x \in BodyBounds(rs, n) : k <= x
           final == CHOOSE k \in BodyBounds(rs, n) : \A x \in BodyBounds(rs, n) : k >= x
<1>2. Removed(i, NoCache, After(Slot(i), Cut(rs, first, final)))
    BY DEF RemoveBodyGroup
<1>3. first \in 1 .. Len(rs) /\ final \in first .. Len(rs)
    BY <1>1, BodyEnds
<1> HIDE DEF first, final
<1>4. Changed(rs, Cut(rs, first, final))
    BY <1>1, <1>3, CutShrinks
<1>. QED  BY <1>1, <1>2, <1>4, RemovedCounts

\* removeRange.
LEMMA RemoveRangeCounts ==
    ASSUME StoreRight, CountsRight, NEW i \in Instances, Opened(i), NEW a \in DOMAIN rows[Here(i)],
           NEW z \in DOMAIN rows[Here(i)], RemoveRange(i, a, z)
    PROVE  CountsRight'
<1>1. Slot(i).rows = rows[Here(i)] /\ rows[Here(i)] \in Seq(Message)
    BY OpenedIs, SlotIs DEF SlotT
<1>2. a < z /\ Removed(i, NoCache, After(Slot(i), Cut(rows[Here(i)], a, z)))
    BY <1>1 DEF RemoveRange
<1>3. a \in 1 .. Len(rows[Here(i)]) /\ z \in a .. Len(rows[Here(i)])
    BY <1>1, <1>2, LenProperties
<1>4. Changed(rows[Here(i)], Cut(rows[Here(i)], a, z))
    BY <1>1, <1>3, CutShrinks
<1>. QED  BY <1>2, <1>4, RemovedCounts

\* A store reading, or made, counts as its handle does.
LEMMA MadeCounts ==
    ASSUME StoreRight, CountsRight, NEW i \in Instances, NEW k, k.last # None,
           counters' = [counters EXCEPT ![HandleOf[i]] = k],
           \/ counters[HandleOf[i]].last = None
           \/ k = counters[HandleOf[i]],
           cache'[i].count = k.count,
           \A l \in Instances \ {i} :
              \/ cache'[l] = cache[l]
              \/ /\ counters[HandleOf[l]].last # None
                 /\ cache'[l].count = counters[HandleOf[l]].count
    PROVE  CountsRight'
<1>1. counters \in [Handles -> CounterT] /\ \A l \in Instances : HandleOf[l] \in Handles
    BY DEF StoreRight, HandlesRight, Handles
<1>2. counters'[HandleOf[i]] = k /\ \A h \in Handles : h # HandleOf[i] => counters'[h] = counters[h]
    BY <1>1
<1>3. ASSUME NEW l \in Instances, cache'[l] # NoCache, cache'[l].rev = counters'[HandleOf[l]].last
      PROVE  cache'[l].count = counters'[HandleOf[l]].count
    <2>1. CASE l = i
        BY <1>2, <2>1
    <2>2. CASE l # i /\ counters'[HandleOf[l]] = counters[HandleOf[l]]
        BY <1>3, <2>2 DEF CountsRight
    <2>3. CASE l # i /\ counters'[HandleOf[l]] # counters[HandleOf[l]]
        <3>1. HandleOf[l] = HandleOf[i] /\ counters[HandleOf[l]].last = None
            BY <1>1, <1>2, <2>3
        <3>2. cache[l] = NoCache
            BY <3>1, UnopenedIs
        <3>. QED  BY <1>3, <2>3, <3>1, <3>2
    <2>. QED  BY <2>1, <2>2, <2>3
<1>. QED  BY <1>3 DEF CountsRight, NoCache

\* getAllInternal and lookupIndex.
LEMMA ReadCounts ==
    ASSUME StoreRight, CountsRight, NEW i \in Instances, Opened(i), Read(i) \/ Lookup(i)
    PROVE  CountsRight'
<1> DEFINE s == Slot(i)
<1>1. cache \in [Instances -> CacheT] /\ s.k = counters[HandleOf[i]]
    BY OpenedIs, SlotIs DEF StoreRight, InstancesRight
<1>2. counters' = counters /\ (cache'[i] = cache[i] \/ cache'[i].count = s.k.count)
    <2>1. CASE Read(i)
        BY <1>1, <2>1, LoadedCounts DEF Read, Loaded
    <2>2. CASE Lookup(i)
        <3>1. cache'[i] = CacheLookedUp(index[i], cache[i], s) /\ counters' = counters
            BY <1>1, <2>2 DEF Lookup, Keeps
        <3>2. CacheLookedUp(index[i], cache[i], s) = cache[i] \/ CacheLookedUp(index[i], cache[i], s).count = s.k.count
            BY LoadedCounts DEF CacheLookedUp, Loaded
        <3>. QED  BY <3>1, <3>2
    <2>. QED  BY <2>1, <2>2
<1>3. \A l \in Instances : l # i => cache'[l] = cache[l]
    BY <1>1 DEF Read, Lookup, Keeps
<1>. QED  BY <1>1, <1>2, <1>3 DEF CountsRight, NoCache

\* The constructor.
LEMMA ConstructCounts ==
    ASSUME StoreRight, CountsRight, NEW i \in Instances, Construct(i)
    PROVE  CountsRight'
<1> DEFINE h == HandleOf[i]
           s == [Slot(i) EXCEPT !.k = Based(@, rev[Here(i)])]
           k == Based(counters[h], rev[Here(i)])
<1>1. Here(i) \in Branches /\ rev[Here(i)] \in Nat /\ counters[h] \in CounterT /\ cache \in [Instances -> CacheT]
    BY SlotIs DEF Construct, SlotT, StoreRight, HandlesRight, InstancesRight
<1>2. s = [branch |-> Here(i), rows |-> rows[Here(i)], rev |-> rev[Here(i)], k |-> k]
    BY DEF Slot, h
<1>3. s.k = k /\ s.branch = Here(i)
    BY <1>2
<1>4. k.last # None /\ (counters[h].last # None => k = counters[h])
    BY <1>1, BasedIs
<1>5. counters' = [counters EXCEPT ![h] = s.k] /\ cache' = [cache EXCEPT ![i] = Loaded(NoCache, s)]
    BY DEF Construct, Keeps
<1> HIDE DEF s, k
<1>6. ~Current(NoCache, s)
    BY <1>1, <1>3, NoneIs, StoreAssumption DEF Current
<1>7. cache'[i].count = k.count /\ \A l \in Instances \ {i} : cache'[l] = cache[l]
    BY <1>1, <1>3, <1>5, <1>6, LoadedCounts
<1>8. counters' = [counters EXCEPT ![h] = k]
    BY <1>3, <1>5
<1>9. \A l \in Instances \ {i} : cache'[l] = cache[l] \/ (counters[HandleOf[l]].last # None /\ cache'[l].count = counters[HandleOf[l]].count)
    BY <1>7
<1>. QED  BY <1>4, <1>7, <1>8, <1>9, MadeCounts DEF h

\* derive and deriveOnto.
LEMMA DeriveCounts ==
    ASSUME StoreRight, CountsRight, NEW i \in Instances, Opened(i), NEW j \in Instances, NEW b \in Branches, Derive(i, j, b)
    PROVE  CountsRight'
<1> DEFINE h == HandleOf[j]
           mine == Loaded(cache[i], Slot(i))
           k == Based(counters[h], rev[Here(i)])
           s == [branch |-> b, rows |-> rows[Here(i)], rev |-> rev[Here(i)], k |-> k]
           theirs == IF Seeds(mine, s) THEN Stamped(mine.rows, s) ELSE Stamped(s.rows, s)
<1>1. /\ Here(i) # None /\ counters[HandleOf[i]].last # None
      /\ rev[Here(i)] \in Nat /\ counters[h] \in CounterT /\ cache \in [Instances -> CacheT]
      /\ Slot(i).k = counters[HandleOf[i]]
    BY OpenedIs, SlotIs DEF SlotT, StoreRight, HandlesRight, InstancesRight, Handles
<1>2. k.last # None /\ (counters[h].last # None => k = counters[h])
    BY <1>1, BasedIs
<1>3. /\ at[h] = None /\ counters' = [counters EXCEPT ![h] = k]
      /\ cache' = [cache EXCEPT ![i] = mine, ![j] = theirs]
    BY DEF Derive
<1>4. theirs.count = k.count
    BY DEF Stamped
<1>5. mine = cache[i] \/ mine.count = counters[HandleOf[i]].count
    BY <1>1, LoadedCounts DEF Loaded
<1>6. i # j
    BY <1>1, <1>3 DEF Here
<1> HIDE DEF mine, theirs, k
<1>7. cache'[j] = theirs /\ cache'[i] = mine /\ \A l \in Instances : l # i /\ l # j => cache'[l] = cache[l]
    BY <1>1, <1>3, <1>6
<1>8. \A l \in Instances \ {j} :
          \/ cache'[l] = cache[l]
          \/ counters[HandleOf[l]].last # None /\ cache'[l].count = counters[HandleOf[l]].count
    BY <1>1, <1>5, <1>7
<1>9. cache'[j].count = k.count
    BY <1>4, <1>7
<1>. QED  BY <1>2, <1>3, <1>8, <1>9, MadeCounts

\* Every step counts right.
LEMMA NextCounts ==
    ASSUME StoreRight, CountsRight, [Next]_vars
    PROVE  CountsRight'
<1>0. world.who \subseteq Instances
    BY StoreAssumption DEF StoreRight, Slots
<1>1. ASSUME UNCHANGED <<cache, counters>> PROVE CountsRight'
    BY <1>1 DEF CountsRight, NoCache
<1>2. CASE UNCHANGED vars
    BY <1>1, <1>2 DEF vars
<1>3. ASSUME NEW i \in world.who, Construct(i) PROVE CountsRight'
    BY <1>0, <1>3, ConstructCounts
<1>4. ASSUME NEW i \in Instances, Opened(i),
             \/ AppendMessage(i) \/ Read(i) \/ Lookup(i)
             \/ \E n \in DOMAIN rows[Here(i)] :
                  \/ EditMessage(i, n) \/ RemoveMessage(i, n) \/ RemoveBodyGroup(i, n)
                  \/ \E z \in DOMAIN rows[Here(i)] : RemoveRange(i, n, z)
             \/ \E j \in world.who, b \in Branches : Derive(i, j, b)
      PROVE  CountsRight'
    <2>1. CASE AppendMessage(i)
        BY <1>4, <2>1, AppendCounts
    <2>2. CASE Read(i) \/ Lookup(i)
        BY <1>4, <2>2, ReadCounts
    <2>3. CASE \E n \in DOMAIN rows[Here(i)] :
                  \/ EditMessage(i, n) \/ RemoveMessage(i, n) \/ RemoveBodyGroup(i, n)
                  \/ \E z \in DOMAIN rows[Here(i)] : RemoveRange(i, n, z)
        BY <1>4, <2>3, EditCounts, RemoveMessageCounts, RemoveBodyGroupCounts, RemoveRangeCounts
    <2>4. CASE \E j \in world.who, b \in Branches : Derive(i, j, b)
        BY <1>0, <1>4, <2>4, DeriveCounts
    <2>. QED  BY <1>4, <2>1, <2>2, <2>3, <2>4
<1>5. ASSUME NEW b \in Branches, SwitchBranch(b) \/ WriteOutside(b) \/ (\E from \in Branches : Fork(from, b))
      PROVE  CountsRight'
    <2>1. WriteOutside(b) => UNCHANGED <<cache, counters>>
        BY DEF WriteOutside, Uncounted
    <2>. QED  BY <1>1, <1>5, <2>1 DEF SwitchBranch, Fork
<1>. QED  BY <1>2, <1>3, <1>4, <1>5 DEF Next

\* A sibling's append leaves what is cheap to read cheap.
LEMMA AppendCheap ==
    ASSUME StoreRight, CountsRight
    PROVE  AppendStaysCheap
<1> SUFFICES ASSUME NEW i \in Instances, NEW j \in Instances, Opened(i), HandleOf[i] = HandleOf[j], Cheap(i),
                    cache[i].gap = counters[HandleOf[i]].gaps, counters[HandleOf[i]].last = rev[Here(i)],
                    AppendMessage(j)
             PROVE  Cheap(i)'
    BY DEF AppendStaysCheap
<1> DEFINE c == cache[i]
           s == Slot(i)
           new == Append(s.rows, Row)
           t == After(s, new)
           d == Through(c, Current(c, s), s, t)
<1>1. /\ s \in SlotT /\ s.branch = Here(i) /\ s.rows = rows[Here(i)] /\ s.rev = rev[Here(i)] /\ s.k = counters[HandleOf[i]]
      /\ Here(i) \in Branches /\ Here(i) # None /\ rows[Here(i)] \in Seq(Message) /\ rev[Here(i)] \in Nat /\ clock \in Nat
      /\ s.k \in CounterT /\ c \in CacheT
    BY OpenedIs, SlotIs DEF SlotT, StoreRight, Slots, InstancesRight
<1>2. Slot(j) = s
    BY DEF Slot, Here
<1>3. /\ Row \in Message /\ new \in Seq(Message) /\ Len(new) = Len(rows[Here(i)]) + 1 /\ Len(rows[Here(i)]) \in Nat
    BY <1>1, AppendProperties, LenProperties DEF Row, Message
<1>4. t = [branch |-> Here(i), rows |-> new, rev |-> clock + 1, k |-> Counted(s.k, s.rev)]
    BY <1>1 DEF After
<1>5. t.k = [count |-> s.k.count + 1, last |-> clock + 1, gaps |-> s.k.gaps]
    BY <1>1, <1>4 DEF Counted
<1>6. /\ Writes(j, t) /\ cache' = [cache EXCEPT ![j] = Through(cache[j], Current(cache[j], s), s, t)]
    BY <1>2 DEF AppendMessage, Keeps
<1>7. /\ rows'[Here(i)] = new /\ rev'[Here(i)] = clock + 1 /\ counters'[HandleOf[i]] = t.k /\ at' = at
    BY <1>1, <1>4, <1>6 DEF Writes, StoreRight, Slots, HandlesRight, Handles
<1>8. Slot(i)' = t
    <2>1. t.k = Counted(s.k, s.rev)
        BY <1>4
    <2>2. t = [branch |-> Here(i), rows |-> new, rev |-> clock + 1, k |-> t.k]
        BY <1>4, <2>1
    <2>3. at'[HandleOf[i]] = Here(i)
        BY <1>7 DEF Here
    <2> HIDE DEF t, new
    <2>. QED  BY <1>7, <2>2, <2>3 DEF Slot, Here
<1>9. Current(c, s) => c.count = s.k.count /\ c.rows = s.rows
    <2>1. ASSUME Current(c, s) PROVE c # NoCache /\ c.rev = counters[HandleOf[i]].last /\ c.rows = s.rows
        <3>1. c.branch = Here(i) /\ c.rev = rev[Here(i)]
            BY <1>1, <2>1 DEF Current
        <3>2. Against(c, s, clock)
            BY <1>1, CacheAgainst
        <3>. QED  BY <1>1, <3>1, <3>2, NoneIs DEF Against, Faithful
    <2>. QED  BY <1>1, <2>1 DEF CountsRight
<1> HIDE DEF c, s, t, new
<1>10. CASE i # j
    <2>1. cache'[i] = c
        BY <1>1, <1>6, <1>10 DEF StoreRight, InstancesRight, c
    <2>2. /\ c.count \in Nat /\ s.k.count \in Nat /\ t.k.count = s.k.count + 1 /\ t.rows = new /\ t.branch = s.branch
          /\ t.k.last = t.rev /\ c.gap = t.k.gaps
        BY <1>1, <1>4, <1>5 DEF CacheT, CounterT, c
    <2>3. c.branch = s.branch
        BY DEF Cheap, Current, Extends, c, s
    <2>4. Len(c.rows) \in Nat
        BY <1>1, LenProperties DEF CacheT
    <2>5. Len(new) = Len(c.rows) + (t.k.count - c.count) /\ t.k.count - c.count > 0
        <3> DEFINE l == Len(c.rows)
                   m == Len(s.rows)
                   u == c.count
                   v == s.k.count
        <3>0. /\ l \in Nat /\ m \in Nat /\ u \in Nat /\ v \in Nat
              /\ Len(new) = m + 1 /\ t.k.count = v + 1 /\ Len(c.rows) = l /\ c.count = u
            BY <1>1, <1>3, <2>2, <2>4 DEF new
        <3>1. CASE Current(c, s)
            <4>1. l = m /\ u = v
                BY <1>9, <3>1
            <4> HIDE DEF l, m, u, v
            <4>. QED  BY <3>0, <4>1
        <3>2. CASE Extends(c, s)
            <4>1. v - u > 0 /\ m = l + (v - u)
                BY <3>2 DEF Extends, Grew
            <4> HIDE DEF l, m, u, v
            <4>. QED  BY <3>0, <4>1
        <3>. QED  BY <3>1, <3>2 DEF Cheap, c, s
    <2>6. Extends(c, t)
        BY <2>2, <2>3, <2>5 DEF Extends, Grew, GapFree, SeenFree
    <2>. QED  BY <1>8, <2>1, <2>6 DEF Cheap
<1>11. CASE i = j
    <2>1. cache'[i] = d
        BY <1>1, <1>6, <1>11 DEF StoreRight, InstancesRight, c
    <2>2. d.branch = t.branch /\ d.rev = t.rev
        <3>1. CASE Current(c, s)
            <4>1. c \in [branch : Branches \cup {None}, rows : Seq(Message), rev : Nat, count : Nat, gap : Nat]
                BY <1>1 DEF CacheT
            <4>2. c.branch = t.branch
                BY <1>1, <1>4, <3>1 DEF Current
            <4>. QED  BY <3>1, <4>1, <4>2 DEF Through
        <3>2. CASE ~Current(c, s)
            <4>1. Extends(c, s)
                BY <3>2 DEF Cheap, c, s
            <4>2. /\ c.branch = s.branch /\ s.k.count - c.count > 0 /\ c.gap = s.k.gaps
                  /\ Len(s.rows) = Len(c.rows) + (s.k.count - c.count)
                BY <4>1 DEF Extends, Grew, GapFree, SeenFree
            <4>3. /\ c.count \in Nat /\ s.k.count \in Nat /\ t.k.count = s.k.count + 1 /\ t.rows = new
                  /\ t.k.gaps = s.k.gaps /\ Len(c.rows) \in Nat
                BY <1>1, <1>4, <1>5, LenProperties DEF CacheT, CounterT
            <4>4. t.k.count - 1 - c.count > 0 /\ Len(new) = Len(c.rows) + ((t.k.count - 1 - c.count) + 1)
                <5> DEFINE l == Len(c.rows)
                           m == Len(s.rows)
                           u == c.count
                           v == s.k.count
                <5>1. /\ l \in Nat /\ m \in Nat /\ u \in Nat /\ v \in Nat
                      /\ Len(new) = m + 1 /\ t.k.count = v + 1 /\ Len(c.rows) = l /\ c.count = u
                      /\ v - u > 0 /\ m = l + (v - u)
                    BY <1>1, <1>3, <4>2, <4>3 DEF new
                <5> HIDE DEF l, m, u, v
                <5>. QED  BY <5>1
            <4>5. SeenFree(c, t) /\ Grew(c, t, (t.k.count - 1 - c.count) + 1)
                <5>1. (t.k.count - 1 - c.count) + 1 > 0
                    BY <4>3, <4>4
                <5>. QED  BY <4>2, <4>3, <4>4, <5>1 DEF SeenFree, Grew
            <4>6. d = Stamped(Extended(c, t, (t.k.count - 1 - c.count) + 1), t)
                BY <3>2, <4>2, <4>4, <4>5 DEF Through
            <4>. QED  BY <4>6 DEF Stamped
        <3>. QED  BY <3>1, <3>2
    <2>3. Current(d, t)
        BY <2>2 DEF Current
    <2> HIDE DEF d
    <2>. QED  BY <1>8, <2>1, <2>3 DEF Cheap
<1>. QED  BY <1>10, <1>11

\* A sibling's append costs no instance a reading of the whole slot again where
\* it kept one it could extend (appendedSince, #251).
THEOREM AppendsCostNoRead ==
    Spec => AppendsStayCheap
<1>1. Init => CountsRight
    BY DEF Init, CountsRight
<1>2. StoreRight /\ CountsRight /\ [Next]_vars => CountsRight' /\ [AppendStaysCheap]_vars
    BY NextCounts, AppendCheap
<1>. QED  BY <1>1, <1>2, StaysRight, PTL DEF Spec, AppendsStayCheap
=============================================================================
