---------------------------- MODULE MessageStore ----------------------------
(***************************************************************************)
(* The messages of a branch as the instances of MessageStore read and      *)
(* write them (src/src/message-store.ts).  An instance keeps the rows it   *)
(* has materialised and an index of their ids, and tells by the slot's     *)
(* revision whether they are current; instances on one handle also count   *)
(* their writes, so that what only grew is extended rather than read again.*)
(* Other handles on the branch, and chronicle itself, write uncounted.     *)
(* A store made on a new branch's handle starts from its parent's rows.    *)
(*                                                                         *)
(* A revision is the log offset of the slot's newest record on a branch,   *)
(* which a new branch takes from its parent.  A row's content is the       *)
(* offset that wrote it; a branch stands for its native id.                *)
(***************************************************************************)
EXTENDS Integers, Sequences, SequencesExt, FiniteSets

CONSTANTS
    Instances,  \* the stores there may be
    HandleOf,   \* the handle each is made on
    Root,       \* the handle that switches branches
    Branches, Main,
    Rows0,      \* the rows at the start
    Worlds,     \* bounds: the instances there are, writes, uncounted writes, branches made and switched to
    None

\* A row of the slot; those at the start are as a store wrote them (append),
\* each under an id of its own.
Message == [id : Nat, ver : Nat, body : Nat, shard : Nat]
OwnIds(rs, t) ==
    /\ \A p \in DOMAIN rs : rs[p].id <= t
    /\ \A p, q \in DOMAIN rs : p # q => rs[p].id # rs[q].id
ASSUME StoreAssumption ==
    /\ Main \in Branches /\ None \notin Branches /\ None \notin Nat
    /\ Rows0 \in Seq(Message) /\ OwnIds(Rows0, Len(Rows0))
    /\ \A w \in Worlds : w.who \subseteq Instances

VARIABLES
    world,     \* the world
    rows,      \* the rows of each branch
    rev,       \* the slot's revision on each branch
    clock,     \* the log's newest offset
    at,        \* the branch a handle reads, None before it is opened
    counters,  \* per handle: its counted writes, the revision the last left, the gaps seen
    cache,     \* per instance: allCache
    index,     \* per instance: idToIndex, as the ids in order
    uncounted, \* the uncounted writes so far
    moves      \* the branches made and switched to

vars == <<world, rows, rev, clock, at, counters, cache, index, uncounted, moves>>

Handles == {HandleOf[i] : i \in Instances}
NoCache == [branch |-> None, rows |-> <<>>, rev |-> 0, count |-> 0, gap |-> 0]
NoIndex == [branch |-> None, rev |-> 0, ids |-> <<>>]
Live == {b \in Branches : rev[b] # None}
Opened(i) == index[i].branch # None
Here(i) == at[HandleOf[i]]
Ids(rs) == [n \in DOMAIN rs |-> rs[n].id]

\* continuesBody: rows of one body stand side by side, their shards rising; the
\* same text written again is another body of the same group.
Continues(x, y) == x.body # 0 /\ x.body = y.body /\ y.shard > x.shard
OneBody(rs, p, q) == \A k \in p .. q - 1 : Continues(rs[k], rs[k + 1])
\* The rows n's body takes.
BodyBounds(rs, n) == {k \in DOMAIN rs : IF k <= n THEN OneBody(rs, k, n) ELSE OneBody(rs, n, k)}

-----------------------------------------------------------------------------
(* What is known of a slot: its rows, revision and the handle's counters.  *)
Slot(i) == [branch |-> Here(i), rows |-> rows[Here(i)], rev |-> rev[Here(i)],
            k |-> counters[HandleOf[i]]]
Current(c, s) == c.branch = s.branch /\ c.rev = s.rev
Stamped(rs, s) == [branch |-> s.branch, rows |-> rs, rev |-> s.rev, count |-> s.k.count, gap |-> s.k.gaps]

\* No uncounted write since the cache: no counted write saw a gap, and the
\* last counted one left the revision.
SeenFree(c, s) == c.gap = s.k.gaps
GapFree(c, s) == SeenFree(c, s) /\ s.k.last = s.rev

\* appendedSince: the slot grew by exactly the counted writes.
Extended(c, s, added) == c.rows \o SubSeq(s.rows, Len(c.rows) + 1, Len(s.rows))
Grew(c, s, added) == added > 0 /\ Len(s.rows) = Len(c.rows) + added

\* getAllInternal: the cache after a read.
Extends(c, s) ==
    c.branch = s.branch /\ Grew(c, s, s.k.count - c.count) /\ GapFree(c, s)
Loaded(c, s) ==
    IF Current(c, s) THEN c
    ELSE IF Extends(c, s) THEN Stamped(Extended(c, s, s.k.count - c.count), s)
    ELSE Stamped(s.rows, s)

\* lookupIndex, rebuildIndex: the index and the cache after a lookup.
Indexed(c, s) == [branch |-> s.branch, rev |-> s.rev, ids |-> Ids(Loaded(c, s).rows)]
LookedUp(ix, c, s) == IF Current(ix, s) THEN ix ELSE Indexed(c, s)
CacheLookedUp(ix, c, s) == IF Current(ix, s) THEN c ELSE Loaded(c, s)

-----------------------------------------------------------------------------
(* A counted write: what its handle's counters, and the slot, are after.   *)
\* Mutant of Counted: no write is compared with the one before.
CountedBlind(k, found) == [k EXCEPT !.count = @ + 1, !.last = clock + 1]
Counted(k, found) ==
    [count |-> k.count + 1, last |-> clock + 1, gaps |-> IF k.last = found THEN k.gaps ELSE k.gaps + 1]
After(s, rs) == [branch |-> s.branch, rows |-> rs, rev |-> clock + 1, k |-> Counted(s.k, s.rev)]
Writes(i, s) ==
    /\ clock < Len(Rows0) + world.writes /\ clock' = clock + 1
    /\ rows' = [rows EXCEPT ![s.branch] = s.rows]
    /\ rev' = [rev EXCEPT ![s.branch] = s.rev]
    /\ counters' = [counters EXCEPT ![HandleOf[i]] = s.k]
    /\ UNCHANGED <<world, at, uncounted, moves>>
Keeps(i, c, ix) == cache' = [cache EXCEPT ![i] = c] /\ index' = [index EXCEPT ![i] = ix]

\* Mutant of Through: what is not current is dropped.
ThroughCurrent(c, was, s, t) ==
    IF was THEN [c EXCEPT !.rows = Append(@, t.rows[Len(t.rows)]), !.rev = t.rev, !.count = t.k.count] ELSE NoCache
\* The cache after this instance's append: written through where it was
\* current, extended over siblings' appends, dropped otherwise.
Through(c, was, s, t) ==
    LET added == t.k.count - 1 - c.count IN
    IF was THEN [c EXCEPT !.rows = Append(@, t.rows[Len(t.rows)]), !.rev = t.rev, !.count = t.k.count]
    ELSE IF c.branch = s.branch /\ added > 0 /\ SeenFree(c, t) /\ Grew(c, t, added + 1)
         THEN Stamped(Extended(c, t, added + 1), t)
    ELSE NoCache
\* Mutant of Reindexed: an append stamps the index whether it was current or not.
ReindexedAlways(ix, s, t) == [ix EXCEPT !.ids = Append(@, clock + 1), !.rev = t.rev]
Reindexed(ix, s, t) ==
    IF Current(ix, s) THEN [ix EXCEPT !.ids = Append(@, clock + 1), !.rev = t.rev] ELSE ix

Row == [id |-> clock + 1, ver |-> clock + 1, body |-> 0, shard |-> 0]
AppendMessage(i) ==
    LET s == Slot(i)
        t == After(s, Append(s.rows, Row)) IN
    /\ Writes(i, t)
    /\ Keeps(i, Through(cache[i], Current(cache[i], s), s, t), Reindexed(index[i], s, t))

\* The id is looked up, and found at n; then the row is edited in the slot and in the cache.
EditMessage(i, n) ==
    LET s == Slot(i)
        ix == LookedUp(index[i], cache[i], s)
        c == CacheLookedUp(index[i], cache[i], s)
        t == After(s, [s.rows EXCEPT ![n].ver = clock + 1]) IN
    /\ n \in DOMAIN ix.ids /\ n \in DOMAIN s.rows /\ s.rows[n].body = 0
    /\ Writes(i, t)
    /\ Keeps(i, IF c.branch = s.branch /\ n \in DOMAIN c.rows
                THEN LET e == [c EXCEPT !.rows[n] = t.rows[n]] IN
                     IF Current(c, s) THEN [e EXCEPT !.rev = t.rev, !.count = t.k.count] ELSE e
                ELSE NoCache,
                [ix EXCEPT !.rev = t.rev])

\* Removals cut the rows, and index what is left at once.
Cut(rs, a, z) == SubSeq(rs, 1, a - 1) \o SubSeq(rs, z + 1, Len(rs))
Removed(i, c, t) == Writes(i, t) /\ Keeps(i, Loaded(c, t), Indexed(c, t))
RemoveMessage(i, n) ==
    LET s == Slot(i)
        ix == LookedUp(index[i], cache[i], s)
        c == CacheLookedUp(index[i], cache[i], s)
        t == After(s, Cut(s.rows, n, n)) IN
    /\ n \in DOMAIN ix.ids /\ n \in DOMAIN s.rows /\ s.rows[n].body = 0
    /\ Removed(i, IF c.branch = s.branch /\ Len(c.rows) = Len(t.rows) + 1
                  THEN LET e == [c EXCEPT !.rows = Cut(@, n, n)] IN
                       IF Current(c, s) THEN [e EXCEPT !.rev = t.rev, !.count = t.k.count] ELSE e
                  ELSE NoCache, t)
RemoveBodyGroup(i, n) ==
    LET s == Slot(i)
        ix == LookedUp(index[i], cache[i], s)
        body == BodyBounds(s.rows, n)
        first == CHOOSE k \in body : \A x \in body : k <= x
        final == CHOOSE k \in body : \A x \in body : k >= x IN
    /\ n \in DOMAIN ix.ids /\ n \in DOMAIN s.rows
    /\ Removed(i, NoCache, After(s, Cut(s.rows, first, final)))
\* Mutant of Bisects: only a range's start is looked at.
BisectsAtStart(rs, a, z) == a > 1 /\ Continues(rs[a - 1], rs[a])
Bisects(rs, a, z) ==
    \/ a > 1 /\ Continues(rs[a - 1], rs[a])
    \/ z < Len(rs) /\ Continues(rs[z], rs[z + 1])
RemoveRange(i, a, z) ==
    LET s == Slot(i)
        ix == LookedUp(index[i], cache[i], s) IN
    /\ a < z /\ z <= Len(ix.ids) /\ z <= Len(s.rows) /\ ~Bisects(s.rows, a, z)
    /\ Removed(i, NoCache, After(s, Cut(s.rows, a, z)))

-----------------------------------------------------------------------------
\* A read: the cache as it finds it, or loaded.
Read(i) ==
    /\ ~Current(cache[i], Slot(i))
    /\ cache' = [cache EXCEPT ![i] = Loaded(@, Slot(i))]
    /\ UNCHANGED <<world, rows, rev, clock, at, counters, index, uncounted, moves>>
Lookup(i) ==
    /\ ~Current(index[i], Slot(i))
    /\ Keeps(i, CacheLookedUp(index[i], cache[i], Slot(i)), LookedUp(index[i], cache[i], Slot(i)))
    /\ UNCHANGED <<world, rows, rev, clock, at, counters, uncounted, moves>>

\* The constructor: a baseline where the handle has none, then the index.
Based(k, found) == IF k.last = None THEN [k EXCEPT !.last = found] ELSE k
Construct(i) ==
    /\ ~Opened(i) /\ Here(i) # None
    /\ LET s == [Slot(i) EXCEPT !.k = Based(@, rev[Here(i)])] IN
       /\ counters' = [counters EXCEPT ![HandleOf[i]] = s.k]
       /\ Keeps(i, Loaded(NoCache, s), Indexed(NoCache, s))
    /\ UNCHANGED <<world, rows, rev, clock, at, uncounted, moves>>

Moves == moves < world.moves /\ moves' = moves + 1
\* derive, deriveOnto: a branch is made at i's head, a handle on it opened,
\* and j made there of i's rows, with no turn between.
Seeds(c, s) == Len(s.rows) = Len(c.rows) /\ (s.rows # <<>> => Last(s.rows).id = Last(c.rows).id)
Derive(i, j, b) ==
    LET h == HandleOf[j]
        mine == Loaded(cache[i], Slot(i))
        s == [branch |-> b, rows |-> rows[Here(i)], rev |-> rev[Here(i)], k |-> Based(counters[h], rev[Here(i)])] IN
    /\ at[h] = None /\ b \notin Live
    /\ rows' = [rows EXCEPT ![b] = s.rows] /\ rev' = [rev EXCEPT ![b] = s.rev]
    /\ at' = [at EXCEPT ![h] = b]
    /\ counters' = [counters EXCEPT ![h] = s.k]
    /\ cache' = [cache EXCEPT ![i] = mine, ![j] = IF Seeds(mine, s) THEN Stamped(mine.rows, s) ELSE Stamped(s.rows, s)]
    \* the index of a seeded store is built at its first lookup
    /\ index' = [index EXCEPT ![j] = [branch |-> b, rev |-> None, ids |-> <<>>]]
    /\ Moves
    /\ UNCHANGED <<world, clock, uncounted>>

\* Chronicle makes a branch at a branch's head, and the root switches.
Fork(from, b) ==
    /\ from \in Live /\ b \notin Live
    /\ rows' = [rows EXCEPT ![b] = rows[from]] /\ rev' = [rev EXCEPT ![b] = rev[from]]
    /\ Moves
    /\ UNCHANGED <<world, clock, at, counters, cache, index, uncounted>>
SwitchBranch(b) ==
    /\ b \in Live \ {at[Root]}
    /\ at' = [at EXCEPT ![Root] = b]
    /\ Moves
    /\ UNCHANGED <<world, rows, rev, clock, counters, cache, index, uncounted>>

\* A write by another way: a row added, one changed, or one taken away.
Uncounted(b, rs) ==
    /\ uncounted < world.uncounted /\ uncounted' = uncounted + 1
    /\ clock < Len(Rows0) + world.writes /\ clock' = clock + 1
    /\ b \in Live
    /\ rows' = [rows EXCEPT ![b] = rs] /\ rev' = [rev EXCEPT ![b] = clock + 1]
    /\ UNCHANGED <<world, at, counters, cache, index, moves>>
WriteOutside(b) ==
    \/ Uncounted(b, Append(rows[b], Row))
    \/ \E n \in DOMAIN rows[b] : Uncounted(b, [rows[b] EXCEPT ![n].ver = clock + 1])
    \/ \E n \in DOMAIN rows[b] : rows[b][n].body = 0 /\ Uncounted(b, Cut(rows[b], n, n))

Init ==
    /\ world \in Worlds
    /\ rows = [b \in Branches |-> IF b = Main THEN Rows0 ELSE <<>>] /\ clock = Len(Rows0)
    /\ rev = [b \in Branches |-> IF b = Main THEN Len(Rows0) ELSE None]
    /\ at = [h \in Handles |-> IF h = Root THEN Main ELSE None]
    /\ counters = [h \in Handles |-> [count |-> 0, last |-> None, gaps |-> 0]]
    /\ cache = [i \in Instances |-> NoCache] /\ index = [i \in Instances |-> NoIndex]
    /\ uncounted = 0 /\ moves = 0

Next ==
    \/ \E i \in world.who : Construct(i)
    \/ \E i \in {j \in Instances : Opened(j)} :
         \/ AppendMessage(i) \/ Read(i) \/ Lookup(i)
         \/ \E n \in DOMAIN rows[Here(i)] :
              \/ EditMessage(i, n) \/ RemoveMessage(i, n) \/ RemoveBodyGroup(i, n)
              \/ \E z \in DOMAIN rows[Here(i)] : RemoveRange(i, n, z)
         \/ \E j \in world.who, b \in Branches : Derive(i, j, b)
    \/ \E b \in Branches : SwitchBranch(b) \/ WriteOutside(b) \/ (\E from \in Branches : Fork(from, b))
Spec == Init /\ [][Next]_vars

-----------------------------------------------------------------------------
\* Whatever siblings, other handles and chronicle wrote, on whatever branch,
\* an instance reads the rows its branch holds, and finds each by its id
\* where it stands: an edit or removal reaches the row it names
\* (getAllInternal, lookupIndex).
ReadsWhatIsStored ==
    \A i \in Instances : Opened(i) =>
        /\ Loaded(cache[i], Slot(i)).rows = Slot(i).rows
        /\ LookedUp(index[i], cache[i], Slot(i)).ids = Ids(Slot(i).rows)

\* A removal takes a body whole or leaves it whole (remove, removeBodyGroup,
\* removeRange).
KeepsBodies(rs, new) ==
    LET kept == {r.id : r \in ToSet(new)} IN
    \A p, q \in DOMAIN rs : p < q /\ OneBody(rs, p, q) => (rs[p].id \in kept <=> rs[q].id \in kept)
BodyGoesWhole == \A b \in Live : KeepsBodies(rows[b], rows'[b])
BodiesGoWhole == [][BodyGoesWhole]_vars

\* A sibling's append costs no instance a reading of the whole slot again,
\* where one it could extend was kept (#251): while no uncounted write came
\* after it was read, appends keep what is cheap to read cheap.
Cheap(i) == Current(cache[i], Slot(i)) \/ Extends(cache[i], Slot(i))
AppendStaysCheap ==
    \A i, j \in Instances :
        /\ Opened(i) /\ HandleOf[i] = HandleOf[j] /\ Cheap(i)
        /\ cache[i].gap = counters[HandleOf[i]].gaps
        /\ counters[HandleOf[i]].last = rev[Here(i)]
        /\ AppendMessage(j)
        => Cheap(i)'
AppendsStayCheap == [][AppendStaysCheap]_vars
=============================================================================
