--------------------------- MODULE CanonicalForest ---------------------------
(***************************************************************************)
(* The checked ownership forest kv-unified solves on: which summary owns   *)
(* which rows, the levels each row may show, the cheapest cut and the      *)
(* legal cuts.  A solve derives it from the last solve's where it can,     *)
(* though the strategy edits entries in place, and builds it otherwise.    *)
(* A row is a position, since a chunk's sequence is its place in the       *)
(* listing; ids that occur twice, costs that are no numbers and the        *)
(* constraints only tests pass are left out.                               *)
(***************************************************************************)
EXTENDS Integers, Sequences, FiniteSets, FiniteSetsExt, SequencesExt

CONSTANTS Worlds,   \* stores at the start, and what may change
          Refused,  \* what a build that finds a structural issue gives
          None      \* no summary, no level, no forest

VARIABLES world,      \* the store chosen
          chunks,     \* the rows a compile gives the solver, in order
          summaries,  \* the summaries it gives, by id
          zones,      \* the rows of the head and of the tail
          forest,     \* the last solve's forest
          source,     \* the entries it was given, as they are now
          edits       \* changes still to come before the next solve, and solves
vars == <<world, chunks, summaries, zones, forest, source, edits>>

-----------------------------------------------------------------------------
\* An L1 that does not list the row, or a parent that does not list the
\* child, owns nothing; a pointer that names no such link is kept, for the
\* walk to refuse.
ListedL1(c, S) ==
    IF c.l1 \in DOMAIN S /\ S[c.l1].level = 1 /\ c.id \notin S[c.l1].from THEN None ELSE c.l1
ListedParent(s, S) ==
    LET p == S[s].parent
    IN  IF p \in DOMAIN S /\ S[p].level > S[s].level /\ s \notin S[p].from THEN None ELSE p

\* The summaries above a row, L1 first, as far as a walk can go before it
\* stands on what is missing or must have come back to where it was.
Lineage(l1, S) ==
    LET reach == 1..Cardinality(DOMAIN S) + 1
        at[n \in reach] == IF n = 1 THEN l1
                           ELSE IF at[n-1] \in DOMAIN S THEN ListedParent(at[n-1], S) ELSE None
    IN  [n \in 1..Cardinality({m \in reach : at[m] # None}) |-> at[n]]
\* Every summary of it is there, the first of level 1 and each above the last.
Sound(chain, S) == \A n \in DOMAIN chain :
    /\ chain[n] \in DOMAIN S
    /\ IF n = 1 THEN S[chain[n]].level = 1 ELSE S[chain[n]].level > S[chain[n-1]].level
Chains(in) == [i \in DOMAIN in.chunks |-> Lineage(ListedL1(in.chunks[i], in.summaries), in.summaries)]

Owned(chains, s) == {i \in DOMAIN chains : s \in Range(chains[i])}
Owners(chains) == UNION {Range(chains[i]) : i \in DOMAIN chains}
Contiguous(P) == P = Min(P)..Max(P)
Gapped(chains) == {s \in Owners(chains) : ~Contiguous(Owned(chains, s))}

\* Treeified: every chain is cut below the first summary with a gap, until
\* none has one.
CutBelow(chain, bad) ==
    LET first == SelectInSeq(chain, LAMBDA s : s \in bad)
    IN  IF first = 0 THEN chain ELSE SubSeq(chain, 1, first - 1)
CutChains(chains, times) ==
    LET cut[n \in 0..times] == IF n = 0 THEN chains
                               ELSE [i \in DOMAIN chains |-> CutBelow(cut[n-1][i], Gapped(cut[n-1]))]
    IN  cut[times]
Treeified(chains) == UNION {Gapped(CutChains(chains, n)) : n \in 0..Cardinality(Owners(chains))}

-----------------------------------------------------------------------------
\* What a row must be: at a level (raw is one), or at most at one.
When(p, r) == IF p THEN {r} ELSE {}
Must(kind, level, by) == [kind |-> kind, level |-> level, by |-> by]
ConstraintsFor(c, in) ==
    When(c.id \in in.zones.head, Must("exact", 0, "head-zone"))
    \cup When(c.id \in in.zones.tail, Must("exact", 0, "tail-zone"))
    \cup When(c.pinned, Must("exact", 0, "raw-pin"))
    \cup When(c.locked, Must("exact", c.carried, "lockedByAgent"))
    \cup When(c.pin # None, Must("exact", c.pin, "pin-level"))
    \cup When(c.most # None, Must("max", c.most, "pin-max-level"))
ConstraintAdmits(b, level) == IF b.kind = "exact" THEN level = b.level ELSE level <= b.level

LevelPinHoldBelow(bounds, levels) ==
    LET pins == {b \in bounds : b.by = "pin-level"}
        pin == CHOOSE b \in pins : TRUE
        below == Max({0} \cup {l \in levels : l < pin.level})
    IN  IF /\ pins # {} /\ pin.level \notin levels /\ \A b \in bounds \ pins : ConstraintAdmits(b, below)
        THEN below ELSE None
\* A pin at a level nothing supplies yet holds the row at the deepest level
\* below it, where every other constraint admits both.
LevelPinHold(bounds, levels) ==
    LET pins == {b \in bounds : b.by = "pin-level"}
        pin == CHOOSE b \in pins : TRUE
        below == Max({0} \cup {l \in levels : l < pin.level})
    IN  IF /\ pins # {} /\ pin.level \notin levels
           /\ \A b \in bounds \ pins : ConstraintAdmits(b, pin.level) /\ ConstraintAdmits(b, below)
        THEN below ELSE None
Target(b, bounds, levels) ==
    LET held == LevelPinHold(bounds, levels) IN IF b.by = "pin-level" /\ held # None THEN held ELSE b.level
Allowed(bounds, levels) ==
    {l \in levels : \A b \in bounds : ConstraintAdmits([b EXCEPT !.level = Target(b, bounds, levels)], l)}
MissingLevels(bounds, levels) ==
    {Target(b, bounds, levels) : b \in {x \in bounds : x.kind = "exact"}} \ levels

BuildLeaf(c, chain, placed, in) ==
    LET bounds == ConstraintsFor(c, in)
        levels == {0} \cup {placed[s].level : s \in Range(chain)}
    IN  [id |-> c.id, raw |-> c.raw, carried |-> c.carried, chain |-> chain, levels |-> levels, bounds |-> bounds,
         allowed |-> Allowed(bounds, levels), fixed |-> c.id \in in.zones.head \cup in.zones.tail]
Conflict(leaf) == [id |-> leaf.id, bounds |-> leaf.bounds, levels |-> leaf.levels,
                   missing |-> MissingLevels(leaf.bounds, leaf.levels)]
LeafZones(in) == [i \in DOMAIN in.chunks |-> <<in.chunks[i].id \in in.zones.head, in.chunks[i].id \in in.zones.tail>>]

\* A summary the forest places, with the rows it owns and the summaries just
\* under it; and the roots: a row no chain owns, or the summary a chain ends in.
Place(s, rows, kids, S) ==
    [level |-> S[s].level, recall |-> S[s].cost, parent |-> ListedParent(s, S), rows |-> rows, kids |-> kids]
Under(chains, s) == UNION {{c[n-1] : n \in {m \in 2..Len(c) : c[m] = s}} : c \in Range(chains)}
Root(chain, i, placed) == IF chain = <<>> THEN <<None, i>> ELSE <<Last(chain), Min(placed[Last(chain)].rows)>>
Roots(chains, placed) == {Root(chains[i], i, placed) : i \in DOMAIN chains}
ConflictsOf(leaves, at) == {Conflict(leaves[i]) : i \in {j \in at : leaves[j].allowed = {}}}

\* The full build.  A summary whose rows have a gap is refused, cut off its
\* chains, or kept and named, as the recipe says.
Build(in) ==
    LET all == Chains(in)
        chains == IF world.mode = "treeify" THEN CutChains(all, Cardinality(Owners(all))) ELSE all
        placed == [s \in Owners(chains) |-> Place(s, Owned(chains, s), Under(chains, s), in.summaries)]
        leaves == [i \in DOMAIN chains |-> BuildLeaf(in.chunks[i], chains[i], placed, in)]
    IN  IF \/ \E i \in DOMAIN all : ~Sound(all[i], in.summaries)
           \/ world.mode = "strict" /\ Gapped(all) # {}
        THEN Refused
        ELSE [leaves |-> leaves, placed |-> placed, roots |-> Roots(chains, placed),
              conflicts |-> ConflictsOf(leaves, DOMAIN leaves), zone |-> LeafZones(in),
              treeified |-> IF world.mode = "treeify" THEN Treeified(all) ELSE {}, gaps |-> Gapped(chains)]

-----------------------------------------------------------------------------
\* Whether the leaf was built from such a chunk, read from the leaf's own
\* record and not from a chunk that may have changed since.
SameLeafInputs(leaf, c) ==
    LET of(by) == {b.level : b \in {x \in leaf.bounds : x.by = by}}
    IN  /\ leaf.raw = c.raw /\ leaf.carried = c.carried
        /\ c.pinned = (of("raw-pin") # {}) /\ c.locked = (of("lockedByAgent") # {})
        /\ of("pin-level") = {c.pin} \ {None} /\ of("pin-max-level") = {c.most} \ {None}

\* The rows rebuilt in a forest derived from another, and the leaves then.
RebuiltUnzoned(prev, in) == {i \in DOMAIN in.chunks :
    i > Len(prev.leaves) \/ ~SameLeafInputs(prev.leaves[i], in.chunks[i])}
Rebuilt(prev, in) == {i \in DOMAIN in.chunks :
    \/ i > Len(prev.leaves)
    \/ ~SameLeafInputs(prev.leaves[i], in.chunks[i])
    \/ prev.zone[i] # LeafZones(in)[i]}
Leaves(prev, in, chains, placed, anew) ==
    [i \in DOMAIN in.chunks |-> IF i \in anew THEN BuildLeaf(in.chunks[i], chains[i], placed, in) ELSE prev.leaves[i]]
Derived(prev, in, chains, placed, roots, anew) ==
    LET leaves == Leaves(prev, in, chains, placed, anew)
        kept == {leaves[i].id : i \in DOMAIN leaves \ anew}
    IN  [leaves |-> leaves, placed |-> placed, roots |-> roots,
         conflicts |-> {c \in prev.conflicts : c.id \in kept} \cup ConflictsOf(leaves, anew),
         zone |-> LeafZones(in), treeified |-> prev.treeified, gaps |-> prev.gaps]

\* Ownership grew: only the summaries on an old or new chain of a row whose
\* chain changed are placed anew, from the rows of the L1s under them.
ChainBefore(prev, i) == IF i <= Len(prev.leaves) THEN prev.leaves[i].chain ELSE <<>>
Extend(prev, in) ==
    LET S == in.summaries
        chains == Chains(in)
        moved == {i \in DOMAIN chains : chains[i] # ChainBefore(prev, i)}
        changed == UNION {Range(chains[i]) \cup Range(ChainBefore(prev, i)) : i \in moved}
        firsts == {chains[i][1] : i \in {j \in DOMAIN chains : chains[j] # <<>>}}
        block(l1) == {i \in moved : ChainBefore(prev, i) = <<>> /\ chains[i][1] = l1}
                     \cup (IF l1 \in DOMAIN prev.placed THEN prev.placed[l1].rows ELSE {})
        rowsOf(s) == UNION {block(l1) : l1 \in {f \in firsts : s \in Range(Lineage(f, S))}}
        placed == [s \in DOMAIN prev.placed \cup changed |->
                     IF s \in changed THEN Place(s, rowsOf(s), Under(chains, s), S) ELSE prev.placed[s]]
    IN  IF \/ prev.treeified # {} \/ prev.gaps # {}
           \/ \E i \in DOMAIN chains : ~Sound(chains[i], S)
           \/ changed = {}
           \/ \E s \in changed : rowsOf(s) = {} \/ ~Contiguous(rowsOf(s))
        THEN None
        ELSE Derived(prev, in, chains, placed, Roots(chains, placed), moved \cup Rebuilt(prev, in))

\* Ownership stood: the summaries are shared, and a row that came is a root.
Reuse(prev, in) ==
    LET old == Len(prev.leaves)
    IN  Derived(prev, in, [i \in DOMAIN in.chunks |-> ChainBefore(prev, i)], prev.placed,
                prev.roots \cup {<<None, i>> : i \in old+1..Len(in.chunks)}, Rebuilt(prev, in))

\* None where a full build is needed.  Placed summaries are compared with the
\* forest's own record, since their entries may have been edited in place; the
\* others with the entry the last solve was given.
Derive(prev, old, in) ==
    LET S == in.summaries
        P == prev.placed
        ownerBefore(i) == IF ChainBefore(prev, i) = <<>> THEN None ELSE ChainBefore(prev, i)[1]
        stands ==
            /\ prev.treeified = {}
            /\ \A s \in DOMAIN P : s \in DOMAIN S /\ S[s].level = P[s].level /\ S[s].cost = P[s].recall
            /\ \A s \in (DOMAIN S \cap DOMAIN old) \ DOMAIN P :
                  old[s].level = S[s].level /\ old[s].parent = S[s].parent /\ old[s].cost = S[s].cost
            /\ Len(prev.leaves) <= Len(in.chunks)
            /\ \A i \in DOMAIN prev.leaves :
                  /\ prev.leaves[i].id = in.chunks[i].id
                  /\ ownerBefore(i) \in {None, ListedL1(in.chunks[i], S)}
        changed ==
            \/ ~(DOMAIN S \subseteq DOMAIN P \cup DOMAIN old)
            \/ \E s \in DOMAIN P : ListedParent(s, S) # P[s].parent
            \/ \E i \in DOMAIN in.chunks : ListedL1(in.chunks[i], S) # ownerBefore(i)
    IN  IF ~stands THEN None ELSE IF changed THEN Extend(prev, in) ELSE Reuse(prev, in)

-----------------------------------------------------------------------------
\* A cut is the level each row shows.  What it renders: the raw rows no zone
\* accounts for, and once each summary some row shows.
Via(F, i, level) == CHOOSE s \in Range(F.leaves[i].chain) : F.placed[s].level = level
Summed(S, Of(_)) == FoldSet(LAMBDA x, n : n + Of(x), 0, S)
Cost(F, f) ==
    LET raw == {i \in DOMAIN f : f[i] = 0 /\ ~F.leaves[i].fixed}
        shown == {Via(F, i, f[i]) : i \in {j \in DOMAIN f : f[j] # 0}}
    IN  Summed(raw, LAMBDA i : F.leaves[i].raw) + Summed(shown, LAMBDA s : F.placed[s].recall)

\* A summary is selected, for the rows still open that may show it, and the
\* others go on to what is under it; or it is expanded.  What to keep of the
\* two is the caller's.
LeafCuts(F, i) == IF 0 \in F.leaves[i].allowed THEN {[j \in {i} |-> 0]} ELSE {}
Joined(parts) == FoldSet(LAMBDA p, got : {f @@ g : f \in p, g \in got}, {<<>>}, parts)
Below(F, s, open, at) ==
    {at[<<k, open \cap F.placed[k].rows>>] : k \in {x \in F.placed[s].kids : open \cap F.placed[x].rows # {}}}
    \cup {LeafCuts(F, i) : i \in {j \in open : F.leaves[j].chain[1] = s}}
ParticipantsAvailable(F, s, open) == {i \in open : F.placed[s].level \in F.leaves[i].levels}
Participants(F, s, open) == {i \in open : F.placed[s].level \in F.leaves[i].allowed}
Selected(F, s, open, at) ==
    LET take == Participants(F, s, open)
    IN  IF take = {} THEN {}
        ELSE {f @@ [i \in take |-> F.placed[s].level] : f \in Joined(Below(F, s, open \ take, at))}
Covered(F, Keep(_, _)) ==
    LET at[x \in UNION {{s} \X SUBSET F.placed[s].rows : s \in DOMAIN F.placed}] ==
            Keep(Joined(Below(F, x[1], x[2], at)), Selected(F, x[1], x[2], at))
        cover(r) == IF r[1] = None THEN LeafCuts(F, r[2]) ELSE at[<<r[1], F.placed[r[1]].rows>>]
    IN  IF F.conflicts # {} THEN {} ELSE Joined({cover(r) : r \in F.roots})

EnumerateExactCuts(F) == Covered(F, LAMBDA expanded, selected : expanded \cup selected)
\* The cheaper of the two, the expanded one if they tie.
MinimumTokens(F) == Covered(F, LAMBDA expanded, selected :
    IF expanded # {} /\ \A f \in selected, g \in expanded : Cost(F, f) >= Cost(F, g) THEN expanded ELSE selected)

\* Label propagation: the oldest open row shows itself or a summary above it,
\* unless a row that may show that summary has been decided.
PropagateExactLabels(F) ==
    LET may(s) == Participants(F, s, F.placed[s].rows)
        from[open \in SUBSET {i \in DOMAIN F.leaves : ~F.leaves[i].fixed}] ==
            LET i == Min(open)
                above == {s \in Range(F.leaves[i].chain) : i \in may(s) /\ may(s) \subseteq open}
            IN  IF open = {} THEN {<<>>}
                ELSE {f @@ g : f \in LeafCuts(F, i), g \in from[open \ {i}]}
                     \cup UNION {{[j \in may(s) |-> F.placed[s].level] @@ g : g \in from[open \ may(s)]} : s \in above}
        zoned == [i \in {j \in DOMAIN F.leaves : F.leaves[j].fixed} |-> 0]
    IN  IF F.conflicts # {} THEN {} ELSE {zoned @@ g : g \in from[{i \in DOMAIN F.leaves : ~F.leaves[i].fixed}]}

\* A summary some but not all of the rows no zone accounts for may show.
HasInternalProtectedHoles(F) == \E s \in DOMAIN F.placed :
    LET live == {i \in F.placed[s].rows : ~F.leaves[i].fixed}
    IN  Participants(F, s, live) \notin {{}, live}

\* Whether a refusal says that producing the missing levels would lift it.
ProducingClears(F) ==
    /\ \E c \in F.conflicts : c.missing # {}
    /\ \A c \in F.conflicts : \E level \in c.levels \cup c.missing : \A b \in c.bounds : ConstraintAdmits(b, level)

-----------------------------------------------------------------------------
In == [chunks |-> chunks, summaries |-> summaries, zones |-> zones]
Init ==
    /\ world \in Worlds
    /\ chunks = world.chunks /\ summaries = world.summaries /\ zones = world.zones
    /\ forest = None /\ source = <<>> /\ edits = world.edits
Change == edits > 0 /\ edits' = edits - 1 /\ UNCHANGED <<world, forest>>

\* A compile: the forest derived or built, then a cut within the wall, or the
\* cheapest if none is.  A compile refused after its solve carries nothing.
Fitting(F) ==
    LET within == {f \in EnumerateExactCuts(F) : Cost(F, f) <= world.wall}
    IN  IF within # {} THEN within ELSE MinimumTokens(F)
CarriedBy(f) == [i \in DOMAIN chunks |-> [chunks[i] EXCEPT !.carried = f[i]]]
\* The forest of this compile, a set of one.
Solved == {IF derived # None THEN derived ELSE Build(In) :
             derived \in {IF forest = None THEN None ELSE Derive(forest, source, In)}}
Solve ==
    /\ edits > 0 /\ edits' = edits - 1
    /\ \E solved \in Solved \ {Refused} :
         /\ forest' = solved /\ source' = summaries
         /\ chunks' \in {chunks} \cup {CarriedBy(f) : f \in Fitting(solved)}
    /\ UNCHANGED <<world, summaries, zones>>

\* Messages come, at the tail; go; and leave the tail for the L1 that lists
\* them, if one does.  A zone's rows name no L1.
Arrive ==
    /\ Change /\ Len(chunks) - Len(world.chunks) \in 0..Len(world.coming) - 1
    /\ LET c == world.coming[Len(chunks) - Len(world.chunks) + 1]
       IN  chunks' = Append(chunks, c) /\ zones' = [zones EXCEPT !.tail = @ \cup {c.id}]
    /\ UNCHANGED <<summaries, source>>
Leave == \E i \in DOMAIN chunks :
    /\ Change /\ Len(chunks) > 1 /\ Len(chunks) = Len(world.chunks)
    /\ chunks' = RemoveAt(chunks, i)
    /\ zones' = [head |-> zones.head \ {chunks[i].id}, tail |-> zones.tail \ {chunks[i].id}]
    /\ UNCHANGED <<summaries, source>>
L1Of(id, S) == LET own == {s \in DOMAIN S : S[s].level = 1 /\ id \in S[s].from}
               IN  IF own = {} THEN None ELSE CHOOSE s \in own : TRUE
Slide == \E i \in DOMAIN chunks :
    /\ Change /\ chunks[i].id \in zones.tail /\ \A j \in 1..i-1 : chunks[j].id \notin zones.tail
    /\ zones' = [zones EXCEPT !.tail = @ \ {chunks[i].id}]
    /\ chunks' = [chunks EXCEPT ![i].l1 = L1Of(chunks[i].id, summaries)]
    /\ UNCHANGED <<summaries, source>>
\* A summary lands: an L1 over rows, or a merge, which every source's entry
\* is told in place; the last solve was given those entries, or copies.
Grown(s) == [x \in DOMAIN summaries \cup {s} |-> IF x = s THEN world.later[s] ELSE summaries[x]]
Adopted(entries, s) ==
    [x \in DOMAIN entries |-> IF world.later[s].level > 1 /\ x \in world.later[s].from
                              THEN [entries[x] EXCEPT !.parent = s] ELSE entries[x]]
OwnedBy(s) == [i \in DOMAIN chunks |->
    IF /\ world.later[s].level = 1 /\ chunks[i].l1 = None /\ chunks[i].id \in world.later[s].from
       /\ chunks[i].id \notin zones.head \cup zones.tail
    THEN [chunks[i] EXCEPT !.l1 = s] ELSE chunks[i]]
Landable == {s \in DOMAIN world.later \ DOMAIN summaries :
    world.later[s].level > 1 => world.later[s].from \subseteq DOMAIN summaries}
Land == \E s \in Landable :
    /\ Change
    /\ summaries' = Adopted(Grown(s), s) /\ chunks' = OwnedBy(s)
    /\ source' \in {source, Adopted(source, s)}
    /\ UNCHANGED zones
\* A summary is dropped with all above it; pointers to them go, in copies.
Unfold == \E s \in DOMAIN summaries :
    LET above[n \in 0..Cardinality(DOMAIN summaries)] ==
            IF n = 0 THEN {s} ELSE above[n-1] \cup {x \in DOMAIN summaries : summaries[x].level > 1 /\ summaries[x].from \cap above[n-1] # {}}
        dropped == above[Cardinality(DOMAIN summaries)]
    IN  /\ Change
        /\ summaries' = [x \in DOMAIN summaries \ dropped |->
             IF summaries[x].parent \in dropped THEN [summaries[x] EXCEPT !.parent = None] ELSE summaries[x]]
        /\ chunks' = [i \in DOMAIN chunks |-> IF chunks[i].l1 \in dropped THEN [chunks[i] EXCEPT !.l1 = None] ELSE chunks[i]]
        /\ UNCHANGED <<zones, source>>
\* A recall's price follows the calibration, beside the entries.
Reprice == \E s \in DOMAIN summaries :
    /\ Change /\ summaries' = [summaries EXCEPT ![s].cost = @ + 1]
    /\ UNCHANGED <<chunks, zones, source>>
\* Operators pin a row raw, at a level or at most at one, one of the three at a
\* time, and lock it as shown.
Free(c) == ~c.pinned /\ c.pin = None /\ c.most = None
Unpinned(c) == [c EXCEPT !.pinned = FALSE, !.pin = None, !.most = None]
Hold == \E i \in DOMAIN chunks \cap world.held :
    /\ Change
    /\ LET c == chunks[i]
           pinned == IF Free(c) THEN {[c EXCEPT !.pinned = TRUE]} \cup {[c EXCEPT !.pin = p] : p \in world.pins}
                                     \cup {[c EXCEPT !.most = p] : p \in world.pins}
                     ELSE {Unpinned(c)}
       IN  \E held \in pinned \cup {[c EXCEPT !.locked = ~@]} : chunks' = [chunks EXCEPT ![i] = held]
    /\ UNCHANGED <<zones, summaries, source>>

Next == Solve \/ Arrive \/ Leave \/ Slide \/ Land \/ Unfold \/ Reprice \/ Hold
Spec == Init /\ [][Next]_vars

-----------------------------------------------------------------------------
\* A forest derived from the last solve's is the one a full build gives,
\* whatever came, went or was edited in place since
\* (kv-unified.ts: CanonicalSummaryForest.derive).
DerivedIsBuilt == forest # None =>
    \A derived \in {Derive(forest, source, In)} : derived # None => derived = Build(In)

\* What a cut may be: a row that shows a summary shows it with every row that
\* may, but those that show a coarser one.
Legal(F, f) == \A i \in DOMAIN f :
    /\ f[i] \in F.leaves[i].allowed
    /\ f[i] # 0 => \A j \in F.placed[Via(F, i, f[i])].rows : f[i] \in F.leaves[j].allowed => f[j] >= f[i]
LegalCuts(F) ==
    LET levels == UNION {F.leaves[i].allowed : i \in DOMAIN F.leaves}
    IN  {f \in [DOMAIN F.leaves -> levels] : Legal(F, f)}
\* A forest without a conflict has a cut, and the one minimumTokens gives is
\* legal and the cheapest there is; the enumeration gives the legal cuts, and
\* label propagation none but those, and all of them where no protected hole
\* lies inside a summary
\* (kv-unified.ts: minimumTokens, enumerateExactCuts, propagateExactLabels).
CutsAreLegal == forest # None =>
    LET legal == LegalCuts(forest)
        propagated == PropagateExactLabels(forest)
    IN  IF forest.conflicts # {} THEN MinimumTokens(forest) = {}
        ELSE /\ \E f \in MinimumTokens(forest) : f \in legal /\ \A g \in legal : Cost(forest, f) <= Cost(forest, g)
             /\ EnumerateExactCuts(forest) = legal
             /\ propagated \subseteq legal
             /\ ~HasInternalProtectedHoles(forest) => propagated = legal

\* A summary that lands takes no cut away: no row comes into conflict; and a
\* refusal that says producing the levels it names would lift it is right, as
\* is one that does not say so (kv-unified.ts: certificate, levelPinHold).
Conflicted(F) == {c.id : c \in F.conflicts}
ConflictsLift ==
    /\ \A s \in Landable : \A grown \in {Build([chunks |-> OwnedBy(s), summaries |-> Adopted(Grown(s), s), zones |-> zones])} :
       \A built \in {Build(In)} : built # Refused /\ grown # Refused => Conflicted(grown) \subseteq Conflicted(built)
    /\ forest # None /\ (\E c \in forest.conflicts : c.missing # {}) =>
         (ProducingClears(forest) <=> \A c \in forest.conflicts : Allowed(c.bounds, c.levels \cup c.missing) # {})
=============================================================================
