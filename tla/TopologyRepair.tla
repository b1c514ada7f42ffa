--------------------------- MODULE TopologyRepair ---------------------------
(***************************************************************************)
(* The offline repair of a store whose summaries cross: some own rows that *)
(* are not side by side.  A plan keeps the run of a crossed summary's      *)
(* children that carries most, lets go of the others or, compactly, takes  *)
(* in what stands in its holes, lowest level first, until none crosses;    *)
(* then gives the head its rows back, writes ranges and levels again, and  *)
(* settles what it made as a load would.  A message is its place in the    *)
(* listing.  The rebuild mode and its dates are left out.                  *)
(***************************************************************************)
EXTENDS SettleSummaries, FiniteSetsExt, SequencesExt

CONSTANTS Stores,     \* settled stores: summaries, chunk records, levels held
          Recipes,    \* [compact, head, limit]: head is what releaseHead takes
          MaxPasses   \* maxIterations

VARIABLES store, recipe,    \* what the plan is given
          sums, recs, res,  \* the summaries, records and resolutions so far
          phase,            \* what the plan does next
          work,             \* the crossed summaries of this pass, as listed
          pend, tried,      \* fragments to re-home, and those without a home in a row
          passes, touched, moved, gap
vars == <<store, recipe, sums, recs, res, phase, work, pend, tried, passes, touched, moved, gap>>

-----------------------------------------------------------------------------
\* The plan's view: the summaries by id, the L1s that own rows, the rows owned
\* in order, and the rows under each summary.
IdsOf(S) == {S[k].id : k \in DOMAIN S}
ById(S, id) == S[CHOOSE k \in DOMAIN S : S[k].id = id]
LiveL1(S, R) ==
    LET named == {R[k].sum : k \in DOMAIN R} \cap IdsOf(S)
    IN  IF named # {} THEN named ELSE {id \in IdsOf(S) : ById(S, id).level = 1}
OwnedRows(S, R) == UNION {Range(R[k].src) : k \in DOMAIN R} \cup UNION {Range(ById(S, id).src) : id \in LiveL1(S, R)}
View(S, R) ==
    LET live == LiveL1(S, R)
        rows == OwnedRows(S, R)
        leaves[id \in IdsOf(S)] ==
            LET s == ById(S, id)
            IN  IF s.level = 1 THEN IF id \in live THEN Range(s.src) ELSE {}
                ELSE UNION {leaves[c] : c \in (Range(s.src) \cap IdsOf(S)) \ {id}}
    IN  [rows |-> rows, live |-> live, at |-> [m \in rows |-> Cardinality({o \in rows : o <= m})], leaves |-> leaves]
Positions(v, id) == {v.at[m] : m \in v.leaves[id]}
Split(P) == P # {} /\ Max(P) - Min(P) + 1 # Cardinality(P)
CrossedOf(S, R) == LET v == View(S, R) IN {id \in IdsOf(S) : Split(Positions(v, id))}
Adjacent(P, Q) == P # {} /\ (Max(P) + 1 = Min(Q) \/ Max(Q) + 1 = Min(P))

\* The pieces of a set of places, as each joins the one before or not.
PiecesOf(P) == {lo..hi : <<lo, hi>> \in {x \in P \X P : x[1] <= x[2] /\ x[1]..x[2] \subseteq P
                                          /\ x[1] - 1 \notin P /\ x[2] + 1 \notin P}}
Largest(pieces, Weight(_), First(_)) == CHOOSE p \in pieces : \A q \in pieces :
    Weight(p) > Weight(q) \/ (Weight(p) = Weight(q) /\ First(p) <= First(q))

\* Changes of one summary: its parent, what it lists, its going.
Changed(S, id, F(_)) == [k \in DOMAIN S |-> IF S[k].id = id THEN F(S[k]) ELSE S[k]]
SetParent(S, id, parent) == Changed(S, id, LAMBDA s :
    IF parent = None THEN [s EXCEPT !.parentId = None, !.mergedInto = None]
    ELSE IF s.parentId # None /\ s.mergedInto = None THEN [s EXCEPT !.parentId = parent]
    ELSE [s EXCEPT !.mergedInto = parent])
Without(S, id, gone) == Changed(S, id, LAMBDA s : [s EXCEPT !.src = SelectSeq(@, LAMBDA x : x \notin gone)])
ParentOf1(s) == IF s.mergedInto # None THEN s.mergedInto ELSE s.parentId
ParentById(S, id) == ParentOf1(ById(S, id))
\* A child is listed among the others by its first row.
InsertChild(S, R, parent, child) ==
    LET joined == Changed(SetParent(S, child, parent), parent, LAMBDA s : [s EXCEPT !.src = Append(@, child)])
        v == View(joined, R)
        key(id) == IF id \in IdsOf(S) /\ Positions(v, id) # {} THEN Min(Positions(v, id)) ELSE Cardinality(v.rows) + 1
    IN  Changed(joined, parent, LAMBDA s : [s EXCEPT !.src = SortSeq(@, LAMBDA a, b : key(a) < key(b))])

-----------------------------------------------------------------------------
\* The children of a crossed summary, in groups that stand side by side.
Span(v, id) == [id |-> id, rows |-> Positions(v, id)]
Placed(S, v, s) == {Span(v, id) : id \in {c \in Range(s.src) \cap IdsOf(S) : Positions(v, c) # {}}}
GroupsOf(placed) == {{x \in placed : x.rows \cap piece # {}} : piece \in PiecesOf(UNION {x.rows : x \in placed})}
Weight(group) == MapThenSumSet(LAMBDA x : Cardinality(x.rows), group)
FirstOf(group) == Min(UNION {x.rows : x \in group})
Fragments(S, v, s) == LET placed == Placed(S, v, s) IN placed \ Largest(GroupsOf(placed), Weight, FirstOf)
InOrder(spans) == SetToSortSeq(spans, LAMBDA a, b : Min(a.rows) < Min(b.rows))

\* Where a fragment may go: a summary of the crossed one's level beside it, one
\* under the same parent if there is one.
HomeFor(S, v, s, x) ==
    LET beside == {k \in DOMAIN S : S[k].level = s.level /\ S[k].id # s.id /\ Adjacent(Positions(v, S[k].id), x.rows)}
        grand == ParentOf1(s)
        near == {k \in beside : grand # None /\ ParentOf1(S[k]) = grand}
    IN  CASE near # {} -> S[Min(near)].id [] near = {} /\ beside # {} -> S[Min(beside)].id [] OTHER -> None

\* The summaries above a row's L1, and the root, below a level, that owns it.
Above(S, id) ==
    LET up[n \in 0..Len(S)] == IF n = 0 THEN id
                               ELSE IF up[n-1] \in IdsOf(S) THEN ParentById(S, up[n-1]) ELSE None
    IN  {up[n] : n \in 0..Len(S)} \cap IdsOf(S)
RootAt(S, v, p, level) ==
    {id \in UNION {Above(S, l1) : l1 \in {l \in v.live : p \in Positions(v, l)}} :
        ById(S, id).level < level /\ ParentById(S, id) = None}

\* Adoption: every hole is a root's, and each root has a summary just above it,
\* under the crossed one, that stands beside it; and taking them in moves no
\* more rows than letting go would, or some fragment has no home.
Holes(v, s) == LET P == Positions(v, s.id) IN (Min(P)..Max(P)) \ P
Candidates(S, v, s) == UNION {RootAt(S, v, p, s.level) : p \in Holes(v, s)}
AdopterFor(S, v, s, root) ==
    LET low == ById(S, root).level + 1
        next(F) == UNION {Range(ById(S, f).src) : f \in F} \cap IdsOf(S)
        down[n \in 0..s.level - low] == IF n = 0 THEN {s.id} ELSE next(down[n-1])
        at == {c \in down[s.level - low] : ById(S, c).level = low
                 /\ (c = s.id \/ Adjacent(Positions(v, c), Positions(v, root)))}
        order(c) == CHOOSE k \in DOMAIN S : S[k].id = c
    IN  IF at = {} THEN None ELSE CHOOSE c \in at : \A d \in at : Min(Positions(v, c)) <= Min(Positions(v, d))
Adopts(S, v, s) ==
    LET roots == Candidates(S, v, s)
        fragments == Fragments(S, v, s)
    IN  /\ \A p \in Holes(v, s) : RootAt(S, v, p, s.level) # {}
        /\ roots # {} /\ \A root \in roots : AdopterFor(S, v, s, root) # None
        /\ \/ MapThenSumSet(LAMBDA r : Cardinality(Positions(v, r)), roots) <= Weight(fragments)
           \/ \E x \in fragments : HomeFor(S, v, s, x) = None
Adopted(S, R, s) ==
    LET v == View(S, R)
        roots == SetToSortSeq(Candidates(S, v, s), LAMBDA a, b : Min(Positions(v, a)) < Min(Positions(v, b)))
        into[n \in 0..Len(roots)] == IF n = 0 THEN S ELSE InsertChild(into[n-1], R, AdopterFor(S, v, s, roots[n]), roots[n])
    IN  into[Len(roots)]

-----------------------------------------------------------------------------
Init ==
    /\ store \in Stores /\ recipe \in Recipes
    /\ sums = SettledList(store.sums, store.recs) /\ recs = Released(store.recs, Settled(store.sums, store.recs))
    /\ res = store.res
    /\ phase = "pass" /\ work = <<>> /\ pend = <<>> /\ tried = 0 /\ passes = 0
    /\ touched = {} /\ moved = {} /\ gap = {}

\* A pass takes the crossed summaries of the lowest level, as they are listed.
Pass ==
    LET crossed == CrossedOf(sums, recs)
        lowest == Min({ById(sums, id).level : id \in crossed})
        these == SelectSeq(sums, LAMBDA s : s.id \in crossed /\ s.level = lowest)
    IN  /\ phase = "pass"
        /\ IF crossed = {} \/ passes = MaxPasses
           THEN phase' = "head" /\ UNCHANGED <<work, passes>>
           ELSE phase' = "fix" /\ work' = [k \in DOMAIN these |-> these[k].id] /\ passes' = passes + 1
        /\ UNCHANGED <<store, recipe, sums, recs, res, pend, tried, touched, moved, gap>>
\* One summary of the pass: skipped if a move before it gave it its rows side
\* by side or took it away.
Taking == phase = "fix" /\ work # <<>> /\ pend = <<>> /\ work' = Tail(work)
Still == Head(work) \in CrossedOf(sums, recs)
Skip == Taking /\ ~Still /\ UNCHANGED <<store, recipe, sums, recs, res, phase, pend, tried, passes, touched, moved, gap>>
\* A crossed L1 keeps its longest run of messages; the rest leave it and its
\* records, and lose their level.
SplitL1 ==
    LET v == View(sums, recs)
        s == ById(sums, Head(work))
        kept == Largest(PiecesOf(Positions(v, s.id)), Cardinality, Min)
        released == {m \in Range(s.src) : v.at[m] \notin kept}
    IN  /\ Taking /\ Still /\ s.level = 1
        /\ sums' = Without(sums, s.id, released)
        /\ recs' = [k \in DOMAIN recs |-> IF recs[k].sum = s.id
                      THEN [recs[k] EXCEPT !.src = SelectSeq(@, LAMBDA m : m \notin released)] ELSE recs[k]]
        /\ res' = [m \in DOMAIN res \ released |-> res[m]]
        /\ touched' = touched \cup {s.id}
        /\ UNCHANGED <<store, recipe, phase, pend, tried, passes, moved, gap>>
Adopt ==
    LET v == View(sums, recs)
        s == ById(sums, Head(work))
        roots == Candidates(sums, v, s)
    IN  /\ Taking /\ Still /\ s.level > 1 /\ recipe.compact /\ Adopts(sums, v, s)
        /\ sums' = Adopted(sums, recs, s)
        /\ touched' = touched \cup {AdopterFor(sums, v, s, root) : root \in roots}
        /\ gap' = gap \cup UNION {v.leaves[root] : root \in roots}
        /\ UNCHANGED <<store, recipe, recs, res, phase, pend, tried, passes, moved>>
Detach ==
    LET v == View(sums, recs)
        s == ById(sums, Head(work))
        loose == {x.id : x \in Fragments(sums, v, s)}
    IN  /\ Taking /\ Still /\ s.level > 1 /\ ~(recipe.compact /\ Adopts(sums, v, s))
        /\ sums' = FoldSet(LAMBDA id, S : SetParent(Without(S, s.id, {id}), id, None), sums, loose)
        /\ moved' = moved \cup loose /\ touched' = touched \cup {s.id}
        /\ pend' = IF recipe.compact THEN [k \in DOMAIN InOrder(Fragments(sums, v, s)) |->
                                             InOrder(Fragments(sums, v, s))[k] @@ [of |-> s.id]] ELSE <<>>
        /\ tried' = 0
        /\ UNCHANGED <<store, recipe, recs, res, phase, passes, gap>>
\* A fragment goes under a neighbour of its old parent if one stands beside it
\* now; the others are tried again as long as one finds a home.
Rehome ==
    LET v == View(sums, recs)
        x == Head(pend)
        home == HomeFor(sums, v, ById(sums, x.of), x)
    IN  /\ phase = "fix" /\ pend # <<>>
        /\ IF home # None
           THEN /\ sums' = InsertChild(sums, recs, home, x.id) /\ touched' = touched \cup {home}
                /\ gap' = gap \cup v.leaves[x.id] /\ pend' = Tail(pend) /\ tried' = 0
           ELSE /\ pend' = IF tried + 1 = Len(pend) THEN <<>> ELSE Append(Tail(pend), x)
                /\ tried' = tried + 1 /\ UNCHANGED <<sums, touched, gap>>
        /\ UNCHANGED <<store, recipe, recs, res, phase, work, passes, moved>>

\* A summary above L1 left with one source goes, and its child stands alone.
Thin(S) == {id \in IdsOf(S) : ById(S, id).level > 1 /\ Len(ById(S, id).src) < 2}
\* Mutant of Dissolved: still listed by its parent.
DissolvedListed(S, id) ==
    SelectSeq(FoldSet(LAMBDA c, T : IF c \in IdsOf(T) THEN SetParent(T, c, None) ELSE T, S, Range(ById(S, id).src)), LAMBDA x : x.id # id)
Dissolved(S, id) ==
    LET s == ById(S, id)
        freed == FoldSet(LAMBDA c, T : IF c \in IdsOf(T) THEN SetParent(T, c, None) ELSE T, S, Range(s.src))
        up == ParentOf1(s)
    IN  SelectSeq(IF up = None THEN freed ELSE Without(freed, up, {id}), LAMBDA x : x.id # id)
Dissolve == \E id \in Thin(sums) :
    /\ (phase = "fix" /\ work = <<>> /\ pend = <<>>) \/ phase = "thin"
    /\ sums' = Dissolved(sums, id) /\ touched' = touched \cup ({ParentById(sums, id)} \ {None})
    /\ UNCHANGED <<store, recipe, recs, res, phase, work, pend, tried, passes, moved, gap>>
Passed ==
    /\ Thin(sums) = {} /\ pend = <<>>
    /\ \/ phase = "fix" /\ work = <<>> /\ phase' = "pass"
       \/ phase = "thin" /\ phase' = "write"
    /\ UNCHANGED <<store, recipe, sums, recs, res, work, pend, tried, passes, touched, moved, gap>>

\* releaseHead: the records before the first that may not go, row by row, that
\* are not compressed, or whose L1 this plan moved, or any L1 if all may go.
RecordAt(R, m) == LET at == {k \in DOMAIN R : m \in Range(R[k].src)} IN IF at = {} THEN 0 ELSE Max(at)
Releasable(S, r) ==
    \/ ~r.done
    \/ r.sum # None /\ r.sum \in moved
    \/ recipe.head = "all" /\ r.sum \in IdsOf(S) /\ ById(S, r.sum).level = 1
ReleasedRecords(S, R) ==
    LET v == View(S, R)
        row(n) == CHOOSE m \in v.rows : v.at[m] = n
        take[n \in 0..Cardinality(v.rows)] ==
            IF n = 0 THEN [these |-> {}, rows |-> 0, on |-> TRUE]
            ELSE LET before == take[n-1]
                     k == RecordAt(R, row(n))
                 IN  CASE ~before.on \/ k \in before.these -> before
                       [] before.on /\ k \notin before.these /\ k # 0 /\ Releasable(S, R[k])
                          /\ before.rows + Len(R[k].src) <= recipe.limit ->
                            [these |-> before.these \cup {k}, rows |-> before.rows + Len(R[k].src), on |-> TRUE]
                       [] OTHER -> [before EXCEPT !.on = FALSE]
    IN  take[Cardinality(v.rows)].these
Gone(S, id) ==
    IF id \notin IdsOf(S) THEN S
    ELSE LET up == ParentById(S, id)
         IN  SelectSeq(IF up = None THEN S ELSE Without(S, up, {id}), LAMBDA x : x.id # id)
ReleaseHead ==
    /\ phase = "head"
    /\ \E these \in {IF recipe.head = "none" THEN {} ELSE ReleasedRecords(sums, recs)} :
       LET l1s == {recs[k].sum : k \in these} \cap IdsOf(sums)
           rows == UNION {Range(recs[k].src) : k \in these}
           left == DOMAIN recs \ these
       IN  /\ sums' = FoldSet(LAMBDA id, S : Gone(S, id), sums, l1s)
           /\ recs' = [n \in 1..Cardinality(left) |-> recs[CHOOSE k \in left : Cardinality({j \in left : j <= k}) = n]]
           /\ res' = [m \in DOMAIN res \ rows |-> res[m]]
           /\ touched' = touched \cup ({ParentById(sums, id) : id \in l1s} \ {None})
           /\ phase' = IF these = {} THEN "write" ELSE "thin"
    /\ UNCHANGED <<store, recipe, work, pend, tried, passes, moved, gap>>

\* Ranges again, of what was touched and all above it; a level deeper than a
\* row's chain is brought to its depth, or goes with the chain; and the store
\* settled as a load would.
Ranged(S, R, id) ==
    LET v == View(S, R)
        row(n) == CHOOSE m \in v.rows : v.at[m] = n
        P == Positions(v, id)
    IN  IF P = {} THEN ById(S, id).range ELSE <<row(Min(P)), row(Max(P))>>
Depth(S, v, m) == Max({0} \cup {Cardinality(Above(S, l1)) : l1 \in {l \in v.live : m \in v.leaves[l]}})
\* Mutant of Written: what was touched, and nothing above it.
WrittenHere(S, R) ==
    [k \in DOMAIN S |-> IF S[k].id \in touched THEN [S[k] EXCEPT !.range = Ranged(S, R, S[k].id)] ELSE S[k]]
Written(S, R) ==
    LET stale == UNION {Above(S, id) : id \in touched \cap IdsOf(S)}
    IN  [k \in DOMAIN S |-> IF S[k].id \in stale THEN [S[k] EXCEPT !.range = Ranged(S, R, S[k].id)] ELSE S[k]]
\* Mutant of Clamped: the levels held as they are.
Unclamped(S, R) == res
Clamped(S, R) ==
    LET v == View(S, R)
    IN  [m \in {x \in DOMAIN res : Depth(S, v, x) > 0 \/ res[x] <= 0} |-> IF res[m] > Depth(S, v, m) THEN Depth(S, v, m) ELSE res[m]]
Loaded(R) == SelectSeq(R, LAMBDA r : r.src # <<>>)
Write ==
    LET written == Written(sums, recs)
    IN  /\ phase = "write" /\ phase' = "done"
        /\ sums' = SettledList(written, Loaded(recs)) /\ recs' = Released(Loaded(recs), Settled(written, Loaded(recs)))
        /\ res' = Clamped(written, recs)
        /\ UNCHANGED <<store, recipe, work, pend, tried, passes, touched, moved, gap>>

Next == Pass \/ Skip \/ SplitL1 \/ Adopt \/ Detach \/ Rehome \/ Dissolve \/ Passed \/ ReleaseHead \/ Write
Spec == Init /\ [][Next]_vars

-----------------------------------------------------------------------------
\* A repair leaves nothing crossed, and nothing a load would repair in turn
\* (topology.ts: remaining, resettled).
Before == LET S == SettledList(store.sums, store.recs)
          IN  [sums |-> S, recs |-> Released(store.recs, Settled(store.sums, store.recs))]
RepairUncrosses ==
    /\ phase = "done" => CrossedOf(sums, recs) = {}
    /\ phase = "write" => LET written == Written(sums, recs)
                          IN  /\ SettledList(written, recs) = written
                              /\ Released(recs, Settled(written, recs)) = recs /\ Loaded(recs) = recs

\* It says only what the summaries say: no row comes under a summary that did
\* not tell it, but those a compact repair moved and counts; a row leaves its
\* L1 and record only where the L1 crossed or the head takes it; a level held
\* stays one its row can show, a range one of its rows; and an L1 goes only to
\* the head (topology.ts: lossless, proseGapLeaves, released).
RepairKeepsProse == phase = "done" =>
    \A b \in {Before} : \A was \in {View(b.sums, b.recs)}, is \in {View(sums, recs)}, crossed \in {CrossedOf(b.sums, b.recs)} :
    \A loose \in {UNION {was.leaves[id] : id \in {x \in crossed : ById(b.sums, x).level = 1}}} :
        /\ \A id \in IdsOf(sums) : is.leaves[id] \ was.leaves[id] \subseteq gap
        /\ ~recipe.compact => gap = {}
        /\ recipe.head = "none" => was.rows \ is.rows \subseteq loose /\ was.live = is.live
        /\ \A id \in was.live \cap is.live : was.leaves[id] \ is.leaves[id] \subseteq loose
        /\ \A m \in DOMAIN res : res[m] <= Depth(sums, is, m)
        /\ \A k \in DOMAIN sums : sums[k].range = Ranged(sums, recs, sums[k].id)
=============================================================================
