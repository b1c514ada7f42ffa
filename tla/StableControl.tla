---------------------------- MODULE StableControl ----------------------------
(***************************************************************************)
(* The kv-stable solver (planControlledFrontier of                         *)
(* src/src/adaptive/kv-control.ts, under KvStableStrategy) in the compile  *)
(* of AdaptiveSelect: one solve gives every row of the middle its level.   *)
(* The ideal cut folds by salience and age under a shape the age sets,     *)
(* past it only for the window, and packs the headroom from the youngest   *)
(* end; it is seeded from the levels carried, so that what need not move   *)
(* does not.  What a provider would read again bounds how much of it one   *)
(* compile takes, but for recorded overrides.                              *)
(*                                                                         *)
(* A salience is a number of halves.  The bootstrap of a replay with no    *)
(* levels at all is left out: kv-stable gives every row's.                 *)
(***************************************************************************)
EXTENDS AdaptiveSelect

VARIABLE bounds  \* per row, its pin at a level or at most at one
controlVars == <<vars, bounds>>

Unbound == [kind |-> "none", level |-> 0]

-----------------------------------------------------------------------------
(* What the solver is given.                                               *)
Reached(t, m) == Max({0} \cup {t.node[s].level : s \in {x \in Lineage(t, m) : t.node[x].level <= saved[m]}})
Renderable(forms, m, k) == Max({0} \cup {j \in Levels : j <= k /\ forms[m][j] # None})

\* A pin at a level holds every row of the summary it renders by, the finest
\* of two that overlap, and its row raw where there is none.
PinnedAt(forms) == {m \in DOMAIN forms \ pins : bounds[m].kind = "at"}
PinnedRaw(forms) == (DOMAIN forms \cap pins) \cup {m \in PinnedAt(forms) : Renderable(forms, m, bounds[m].level) = 0}
FixedBy(t, forms, m) ==
    LET k == Renderable(forms, m, bounds[m].level) IN {<<x, k>> : x \in t.node[forms[m][k]].leaf}
Fixed(t, forms, raw) ==
    LET by == UNION {FixedBy(t, forms, m) : m \in PinnedAt(forms) \ raw}
    IN [m \in {x[1] : x \in by} \ raw |-> Min({x[2] : x \in {y \in by : y[1] = m}})]
Members(forms, s) == {m \in DOMAIN forms : \E k \in Levels : forms[m][k] = s}

\* Rows of the middle by position, raw, held and capped; a row's level as
\* carried, its depth by age, and what a group has of it.
Given(t, windows, sentRaw, forms, raw, fixed) ==
    LET frozen == {m \in locked \cap DOMAIN forms : m \notin raw /\ bounds[m].kind # "at"}
        held == raw \cup frozen \cup DOMAIN fixed
        flat == Max({1, Cardinality(raw \cup sentRaw)})
    IN [tree |-> t, windows |-> windows, forms |-> forms, raw |-> raw, fixed |-> fixed, frozen |-> frozen, held |-> held,
        order |-> SelectSeq(rows, LAMBDA m : m \in DOMAIN forms),
        tail |-> SelectSeq(rows, LAMBDA m : m \in sentRaw \ HeadRows),
        most |-> [m \in {x \in DOMAIN forms \ raw : bounds[x].kind = "most"} |-> bounds[m].level],
        prev |-> [m \in DOMAIN forms |-> Reached(t, m)],
        deep |-> [m \in DOMAIN forms |->
                    Cardinality({i \in 0 .. 3 : Len(rows) - PositionOf(m) >= plan.base ^ i * flat})],
        group |-> [s \in DOMAIN t.node |-> Members(forms, s)],
        top |-> Max({0} \cup {t.node[s].level : s \in DOMAIN t.node})]
Middle(e) == DOMAIN e.forms
Free(e, s) == e.group[s] \ e.held
\* foldDepthCap, and a pin's.
ShapeCap(e, m) == Min({e.top, e.deep[m]} \cup (IF m \in DOMAIN e.most THEN {e.most[m]} ELSE {}))

-----------------------------------------------------------------------------
(* A cut laid out, and what moving to it makes the provider read again.    *)
UnitOf(e, F, m) ==
    LET s == IF F[m] = 0 THEN None ELSE e.forms[m][F[m]]
    IN IF s = None THEN [row |-> m, sum |-> None] ELSE [row |-> None, sum |-> s]
Layout(e, F) ==
    FoldLeft(LAMBDA units, m : IF UnitOf(e, F, m) \in ToSet(units) THEN units ELSE Append(units, UnitOf(e, F, m)), <<>>, e.order)
    \o [i \in DOMAIN e.tail |-> [row |-> e.tail[i], sum |-> None]]
UnitPrice(u) == IF u.sum = None THEN price[u.row] ELSE Summary(u.sum).price
Diverges(a, b) == {i \in DOMAIN b : i > Len(a) \/ a[i] # b[i]}
KvCostOf(a, b) ==
    IF Diverges(a, b) = {} THEN 0 ELSE MapThenSumSet(LAMBDA i : UnitPrice(b[i]), Min(Diverges(a, b)) .. Len(b))
KvCost(e, F, G) == KvCostOf(Layout(e, F), Layout(e, G))

-----------------------------------------------------------------------------
(* The projection onto a valid cut: a row no protection holds goes down a  *)
(* level while it has no summary there, or its summary has a row below it. *)
Vetoed(e, F, s) == \E m \in Free(e, s) : F[m] < Summary(s).level
Overhangs(e, F, m) ==
    /\ F[m] > 0 /\ m \notin e.frozen \cup DOMAIN e.fixed
    /\ e.forms[m][F[m]] = None \/ Vetoed(e, F, e.forms[m][F[m]])
\* Mutant of Lowered: a row whose summary has another below it stays.
LoweredUnlisted(e, F) ==
    [m \in Middle(e) |-> IF F[m] > 0 /\ m \notin e.frozen \cup DOMAIN e.fixed /\ e.forms[m][F[m]] = None THEN F[m] - 1 ELSE F[m]]
Lowered(e, F) == [m \in Middle(e) |-> IF Overhangs(e, F, m) THEN F[m] - 1 ELSE F[m]]
RECURSIVE Project(_, _)
Project(e, F) == IF Lowered(e, F) = F THEN F ELSE Project(e, Lowered(e, F))

-----------------------------------------------------------------------------
(* Folds: level by level, the least salient first and then the oldest,     *)
(* a whole group at a time.                                                *)
Priority(e) ==
    SortSeq(e.order, LAMBDA a, b : \/ plan.salience[a] < plan.salience[b]
                                   \/ plan.salience[a] = plan.salience[b] /\ PositionOf(a) < PositionOf(b))
Within(e, m, k, shaped) ==
    /\ m \in DOMAIN e.most => k <= e.most[m]
    /\ shaped => k <= ShapeCap(e, m)
Eligible(e, s, shaped) == Free(e, s) # {} /\ \A m \in Free(e, s) : Within(e, m, Summary(s).level, shaped)
Deepened(e, F, s) ==
    [m \in Middle(e) |-> IF m \in Free(e, s) /\ F[m] < Summary(s).level THEN Summary(s).level ELSE F[m]]
FoldOne(e, F, m, k, shaped, stop) ==
    IF Cost(e, F) <= stop \/ m \in e.held \/ F[m] >= k THEN F
    ELSE LET s == e.forms[m][k]
         IN IF s = None THEN F ELSE IF Eligible(e, s, shaped) THEN Deepened(e, F, s) ELSE F
FoldLevel(e, F, k, shaped, stop) == FoldLeft(LAMBDA G, m : FoldOne(e, G, m, k, shaped, stop), F, Priority(e))
FoldPass(e, F, shaped, stop) == FoldLeft(LAMBDA G, k : FoldLevel(e, G, k, shaped, stop), F, [k \in 1 .. e.top |-> k])

(* Un-folds: from the youngest row, its group a level down, or as far as   *)
(* the projection would take each row, where that comes closer to the      *)
(* target and fits; then from the youngest again.                          *)
Landings(e, F, m, k) == {j \in Levels : j < k /\ e.forms[m][j] # None}
Landing(e, F, m, k) == Max({0} \cup {j \in Landings(e, F, m, k) : ~Vetoed(e, F, e.forms[m][j])})
Unfolded(e, F, s) ==
    [m \in Middle(e) |-> IF m \in Free(e, s) THEN Landing(e, F, m, Summary(s).level) ELSE F[m]]
Whole(e, F, s) == \A m \in Free(e, s) : F[m] = Summary(s).level
Far(tokens, b) == IF tokens < b.target THEN b.target - tokens ELSE tokens - b.target
Closer(e, b, F, G) == Cost(e, G) <= b.total /\ Far(Cost(e, G), b) < Far(Cost(e, F), b)
Shown(e, F, m) == IF F[m] = 0 \/ m \in e.held THEN None ELSE e.forms[m][F[m]]
Walkable(e, F, tried) == {m \in Middle(e) : Shown(e, F, m) # None /\ Shown(e, F, m) \notin tried}
Youngest(ms) == CHOOSE m \in ms : \A x \in ms : PositionOf(x) <= PositionOf(m)

\* A group declined is passed by until an un-fold moves a row its verdict
\* read: its own, and those of each summary its rows were to land on.
ReadBy(e, F, s) ==
    e.group[s] \cup UNION {UNION {e.group[e.forms[m][j]] : j \in {i \in Landings(e, F, m, Summary(s).level) :
                              i >= Landing(e, F, m, Summary(s).level)}} : m \in Free(e, s)}
Reads(e, F, s) == {<<m, s>> : m \in IF Whole(e, F, s) THEN ReadBy(e, F, s) ELSE e.group[s]}
Accepted(w, G) ==
    LET moved == {m \in DOMAIN G : G[m] # w.F[m]}
    IN [F |-> G, tried |-> w.tried \ {r[2] : r \in {x \in w.reads : x[1] \in moved}},
        reads |-> {r \in w.reads : r[1] \notin moved}]
Attempt(e, b, w, s, G) ==
    IF Whole(e, w.F, s) /\ Closer(e, b, w.F, G) THEN Accepted(w, G)
    ELSE [w EXCEPT !.tried = @ \cup {s}, !.reads = @ \cup Reads(e, w.F, s)]
RECURSIVE Walk(_, _, _)
Walk(e, b, w) ==
    LET open == Walkable(e, w.F, w.tried)
        s == Shown(e, w.F, Youngest(open))
    IN IF Cost(e, w.F) >= b.target \/ open = {} THEN w.F
       ELSE Walk(e, b, Attempt(e, b, w, s, Unfolded(e, w.F, s)))
Pack(e, b, F) == Walk(e, b, [F |-> F, tried |-> {}, reads |-> {}])

-----------------------------------------------------------------------------
(* The ideal cut: fold to the target under the shape, past it for the      *)
(* window, pack, project, and again while it does not fit and gains.       *)
Shed(e, b, F) == IF Cost(e, F) > b.target THEN FoldPass(e, F, TRUE, b.target) ELSE F
ShedPast(e, b, F) == IF Cost(e, F) > b.total THEN FoldPass(e, F, FALSE, b.target) ELSE F
Packed(e, b, F) == IF Cost(e, F) <= b.total /\ Cost(e, F) < b.target THEN Pack(e, b, F) ELSE F
Round(e, b, F) == Project(e, Packed(e, b, ShedPast(e, b, Shed(e, b, F))))
RECURSIVE Rounds(_, _, _, _, _)
Rounds(e, b, F, last, left) ==
    LET tokens == Cost(e, F)
    IN IF tokens <= b.total \/ (last # None /\ tokens >= last) \/ left = 0 THEN F ELSE Rounds(e, b, Round(e, b, F), tokens, left - 1)
RelevanceCut(e, b, F) == Rounds(e, b, Round(e, b, F), None, 2)

\* Where every cut starts: rows held at their levels, the others raw; and the
\* levels carried, no deeper than their pins, as a valid cut.
HeldAt(e, m) ==
    CASE m \in e.raw -> 0
      [] m \in DOMAIN e.fixed \ e.raw -> Renderable(e.forms, m, e.fixed[m])
      [] OTHER -> Renderable(e.forms, m, IF m \in DOMAIN e.most THEN Min({e.prev[m], e.most[m]}) ELSE e.prev[m])
Base(e) == [m \in Middle(e) |-> IF m \in e.held THEN HeldAt(e, m) ELSE 0]
Carried(e) ==
    Project(e, [m \in Middle(e) |-> IF m \in e.held THEN HeldAt(e, m)
                                    ELSE IF m \in DOMAIN e.most THEN Min({e.prev[m], e.most[m]}) ELSE e.prev[m]])

\* The seed: a row deeper than an older one that could fold without passing
\* it is lowered to that one's level, but for a fold a held row cuts.
CanRender(e, s) == \A m \in Free(e, s) : m \in DOMAIN e.most => e.most[m] >= Summary(s).level
Deeper(e, F, m) == {k \in Levels : k > F[m] /\ e.forms[m][k] # None /\ CanRender(e, e.forms[m][k])}
Evidence(e, F, m) ==
    {o \in Middle(e) \ e.held : PositionOf(o) < PositionOf(m) /\ Deeper(e, F, o) # {} /\ Min(Deeper(e, F, o)) <= F[m]}
BoundaryCut(e, F, m) ==
    LET s == IF F[m] = 0 THEN None ELSE e.forms[m][F[m]] IN s # None /\ e.group[s] \cap e.held # {}
Seed(e, F) ==
    [m \in Middle(e) |->
        IF m \in e.held \/ Evidence(e, F, m) = {} \/ BoundaryCut(e, F, m) THEN F[m]
        ELSE Min({F[m]} \cup {F[o] : o \in Evidence(e, F, m)})]

\* Released: with headroom, a seeded cut that reads nearly as much again as
\* the cut from scratch gives way to it.
Ideal(e, b, carried, seeded, scratch) ==
    IF /\ Cost(e, carried) < b.target /\ KvCost(e, carried, seeded) > 0
       /\ 10 * KvCost(e, carried, seeded) >= 9 * KvCost(e, carried, scratch)
    THEN scratch ELSE seeded
IdealCut(e, b, carried) ==
    IF \A m \in Middle(e) : e.prev[m] = 0 THEN RelevanceCut(e, b, Base(e))
    ELSE Ideal(e, b, carried, RelevanceCut(e, b, Seed(e, carried)), RelevanceCut(e, b, Base(e)))

-----------------------------------------------------------------------------
(* The plan.                                                               *)
Excess(e, F, m) == LET cap == IF m \in e.held THEN 0 ELSE ShapeCap(e, m) IN IF F[m] > cap THEN F[m] - cap ELSE 0
RelevanceLoss(e, F) == MapThenSumSet(LAMBDA m : plan.salience[m] * Excess(e, F, m), Middle(e) \ e.raw)
Unit == 2
SmallGap(e, b, F, ideal) ==
    \/ b.strict
    \/ 100 * (RelevanceLoss(e, F) - RelevanceLoss(e, ideal)) <= 35 * Max({Unit, RelevanceLoss(e, ideal)})

\* The newest part of the ideal cut: binary search for the oldest row to take
\* it from that keeps within reach.
Suffix(e, carried, ideal, from) ==
    Project(e, [m \in Middle(e) |-> IF PositionOf(m) >= from THEN ideal[m] ELSE carried[m]])
Changed(e, carried, ideal) == SelectSeq(e.order, LAMBDA m : carried[m] # ideal[m])
RECURSIVE SearchSuffix(_, _, _, _, _, _, _, _)
SearchSuffix(e, b, carried, ideal, changed, lo, hi, best) ==
    LET mid == (lo + hi) \div 2
        part == Suffix(e, carried, ideal, PositionOf(changed[mid + 1]))
    IN IF lo >= hi THEN best
       ELSE IF KvCost(e, carried, part) <= b.reach THEN SearchSuffix(e, b, carried, ideal, changed, lo, mid, part)
       ELSE SearchSuffix(e, b, carried, ideal, changed, mid + 1, hi, best)
SuffixAdopt(e, b, carried, ideal) ==
    SearchSuffix(e, b, carried, ideal, Changed(e, carried, ideal), 0, Len(Changed(e, carried, ideal)), carried)

PlanOf(e, F, carried, why) == [F |-> F, tokens |-> Cost(e, F), perturbation |-> KvCost(e, carried, F), why |-> why]
InBand(e, b, F) == Cost(e, F) <= b.foldAt /\ Cost(e, F) >= b.target /\ Cost(e, F) <= b.total
Moves(e, b, carried, part) ==
    Cost(e, carried) > b.foldAt => Cost(e, part) <= b.foldAt \/ KvCost(e, carried, part) > 0
Beyond(e, b, carried, ideal, part) ==
    IF Cost(e, part) <= b.total /\ SmallGap(e, b, part, ideal) /\ Moves(e, b, carried, part) THEN PlanOf(e, part, carried, "suffix")
    ELSE IF b.strict /\ Cost(e, carried) <= b.total THEN PlanOf(e, carried, carried, "reach-floor")
    ELSE PlanOf(e, ideal, carried, IF Cost(e, part) > b.total THEN "infeasible" ELSE "quality-gap")
Chosen(e, b, carried, ideal) ==
    IF InBand(e, b, carried) /\ SmallGap(e, b, carried, ideal) THEN PlanOf(e, carried, carried, "hold")
    ELSE IF KvCost(e, carried, ideal) <= b.reach THEN PlanOf(e, ideal, carried, "ideal")
    ELSE Beyond(e, b, carried, ideal, SuffixAdopt(e, b, carried, ideal))
PlanFrom(e, b, carried) == Chosen(e, b, carried, IdealCut(e, b, carried))
Plan(e, b) == PlanFrom(e, b, Carried(e))

\* Nothing fits: a summary is asked for over each run of rows that has none
\* and may fold.
Uncovered(e) == {m \in Middle(e) : e.tree.leaf[m].l1 = None /\ m \notin e.raw \cup e.frozen}
Asks(e) ==
    LET open == {PositionOf(m) : m \in Uncovered(e)}
    IN {<<i, j>> \in open \X open : i <= j /\ i .. j \subseteq open /\ i - 1 \notin open /\ j + 1 \notin open}

-----------------------------------------------------------------------------
(* A compile: the rows, trees and levels of Begin, and the one solve.      *)
Solved(e, b, p) ==
    [budget |-> b, tree |-> e.tree, windows |-> e.windows, sentRaw |-> ToSet(rows) \ Middle(e), forms |-> e.forms,
     start |-> e.prev, levels |-> p.F, rule |-> 0, path |-> <<>>, low |-> p.tokens,
     asks |-> IF p.tokens > b.total THEN Asks(e) ELSE {}, given |-> e, plan |-> p]
\* The head and the tail alone are over the line.
Reserved(b, t) ==
    /\ run = None /\ PriceOf(HeadRows \cup RecentRows(t)) > b.line /\ sent' = [out |-> "reserved"]
    /\ UNCHANGED <<plan, rows, next, landed, dropped, price, saved, pins, locked, kept, run, turns, bounds>>
SolveStable(b, t) ==
    LET sentRaw == HeadRows \cup RecentRows(t)
    IN /\ run = None /\ PriceOf(sentRaw) <= b.line
       /\ \E i \in {Inputs(sentRaw, Across(sentRaw))} :
          \E tree \in {Build(i)} :
          \E forms \in {[m \in ToSet(rows) \ sentRaw |-> [k \in Levels |-> Ancestor(tree, m, k)]]} :
          \E raw \in {PinnedRaw(forms)} :
          \E e \in {Given(tree, PriceOf(sentRaw), sentRaw, forms, raw, Fixed(tree, forms, raw))} :
          \E p \in {Plan(e, b)} : run' = Solved(e, b, p)
       /\ sent' = None
       /\ UNCHANGED <<plan, rows, next, landed, dropped, price, saved, pins, locked, kept, turns, bounds>>

\* Operators pin a row at a level or at most at one, or no longer.
Bind(m) ==
    /\ Between /\ Operator
    /\ \E x \in IF bounds[m] = Unbound THEN plan.bindings ELSE {Unbound} : bounds' = [bounds EXCEPT ![m] = x]
    /\ UNCHANGED <<plan, rows, next, landed, dropped, price, saved, pins, locked, kept>>

ControlInit == Init /\ bounds = [m \in All |-> Unbound]
ControlNext ==
    \/ plan.rule # "stable" /\ Next /\ UNCHANGED bounds
    \/ /\ plan.rule = "stable"
       /\ \/ \E b \in plan.budgets, t \in plan.tails : SolveStable(b, t) \/ Reserved(b, t)
          \/ \E m \in ToSet(rows) \cap plan.held : Bind(m)
          \/ /\ UNCHANGED bounds
             /\ \/ Store \/ Send
                \/ \E s \in DOMAIN plan.sums : Land(s)
                \/ \E m \in ToSet(rows) \cap plan.held : Pin(m) \/ Lock(m)
ControlSpec == ControlInit /\ [][ControlNext]_controlVars

-----------------------------------------------------------------------------
\* Where each level has a summary of the row's lineage that lists it, rows held
\* stand at their levels, capped ones within them, and the projection leaves
\* it as it is.
ValidCut(e, F) ==
    \A m \in Middle(e) :
         /\ ~Overhangs(e, F, m)
         /\ F[m] > 0 => e.forms[m][F[m]] # None
         /\ m \in e.held => F[m] = HeldAt(e, m)
         /\ m \in DOMAIN e.most \ DOMAIN e.fixed => F[m] <= e.most[m]
\* The reads it makes again are within reach, but where nothing adopted within
\* it fits or serves (ControlPlan.override); a pace is kept whatever it costs,
\* but for the window (strictReach).
PacesItself(e, b, p) ==
    p.perturbation > b.reach =>
        /\ p.why \in {"infeasible", "quality-gap"}
        /\ b.strict => Cost(e, Carried(e)) > b.total

\* A compile of the same rows again, from the levels this one saved; and
\* again: it comes to rest.
Again(e, p) == [e EXCEPT !.prev = [m \in Middle(e) |-> IF m \in locked THEN e.prev[m] ELSE p.F[m]]]
RECURSIVE ComesToRest(_, _, _, _)
ComesToRest(e, b, p, times) ==
    LET q == Plan(Again(e, p), b) IN q.F = p.F \/ (times > 0 /\ ComesToRest(Again(e, p), b, q, times - 1))

\* No cut fits where the plan does not: rows all free but those kept raw, each
\* summary of one lineage, and no dearer than what is under it.
Plain(e) ==
    /\ e.held = e.raw
    /\ \A s \in DOMAIN e.tree.node :
         /\ \A m \in e.tree.node[s].leaf : e.forms[m][Summary(s).level] = s /\ Summary(s).price <= price[m]
         /\ Summary(s).level > 1 => \A c \in Summary(s).from \cap DOMAIN e.tree.node : Summary(s).price <= Summary(c).price
FitsNowhere(e, b) == \A F \in {G \in [Middle(e) -> 0 .. e.top] : ValidCut(e, G)} : Cost(e, F) > b.total

\* A plan is a cut that can be rendered, holds what is held and projects to
\* itself; it stays within reach but for a recorded override; compiled again
\* on the same rows it comes to rest; and, where no row but raw ones is held and
\* no summary is dearer than what it tells, it is over the window only where no
\* cut would fit (planControlledFrontier, projectToValidCut, relevanceCut).
PlanControls(e, b, p) ==
    /\ ValidCut(e, p.F) /\ PacesItself(e, b, p) /\ ComesToRest(e, b, p, 5)
    /\ p.tokens > b.total /\ Plain(e) => FitsNowhere(e, b)
ControlHolds == plan.rule = "stable" /\ run # None => PlanControls(run.given, run.budget, run.plan)
=============================================================================
