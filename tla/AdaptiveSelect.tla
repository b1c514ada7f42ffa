---------------------------- MODULE AdaptiveSelect ----------------------------
(***************************************************************************)
(* What a compile of the adaptive path sends (selectAdaptive of            *)
(* src/src/strategies/autobiographical.ts, with the trees and greedy       *)
(* solvers of src/src/adaptive): every row between the head and the recent *)
(* window at a level of its own, 0 for raw and k for the level-k summary   *)
(* over it.  A solver raises rows a group at a time until the plan meets   *)
(* its target, by rules tried in turn; the plan is accounted again, sent,  *)
(* and its levels saved, which the next compile starts from.  Between      *)
(* compiles rows arrive and are removed, summaries land and are dropped,   *)
(* and operators pin, lock and reset.                                      *)
(*                                                                         *)
(* Bodies, tool calls, the cap of one row and the calibration of prices    *)
(* are left out.  A compile runs without yielding: its steps are one call. *)
(***************************************************************************)
EXTENDS Integers, FiniteSets, SequencesExt, FiniteSetsExt

CONSTANTS
    Worlds,  \* rows' prices, the head's length, the tails', summaries, budgets, the solver's rule, operators' turns
    None

VARIABLES
    plan,
    rows,    \* the rows stored, in order
    next,    \* the newest row ever stored
    landed,  \* the summaries of the store
    dropped, \* those the load repair took out
    price,   \* per row, what it costs raw
    saved,   \* per row, its saved level
    pins,    \* rows kept raw
    locked,  \* rows whose level the agent fixed
    kept,    \* the tree kept between compiles, None before one
    run,     \* the solve of a compile, None between compiles
    turns,   \* what operators did, so far
    sent     \* the last compile's outcome, None before one and after a change
vars == <<plan, rows, next, landed, dropped, price, saved, pins, locked, kept, run, turns, sent>>

Levels == 1 .. 3
All == 1 .. Len(plan.rows)
\* A summary: its level, what it is of, what it is linked over, its price.
Summary(s) == plan.sums[s]
PriceOf(ms) == MapThenSumSet(LAMBDA m : price[m], ms)
PositionOf(m) == CHOOSE i \in DOMAIN rows : rows[i] = m

-----------------------------------------------------------------------------
(* What a solver is given.                                                 *)
HeadRows == {rows[i] : i \in 1 .. Min({plan.head, Len(rows)})}
RecentRows(t) == {rows[i] : i \in Max({Len(rows) - t, Min({plan.head, Len(rows)})}) + 1 .. Len(rows)}
Under == LET under[s \in landed] ==
               IF Summary(s).level = 1 THEN Summary(s).from
               ELSE UNION {under[c] : c \in Summary(s).from \cap landed}
         IN under
\* summariesAcross, where no row is a call: the summaries over a row sent raw.
Across(sentRaw) == {s \in landed : Under[s] \cap sentRaw # {}}
\* l1ByMessageIndex: the first of level 1 that lists the row.
L1Of(m) ==
    LET own == {s \in landed : Summary(s).level = 1 /\ m \in Summary(s).from}
    IN IF own = {} THEN None ELSE Min(own)
ParentIn(ss, s) == LET over == {p \in ss : s \in Summary(p).over} IN IF over = {} THEN None ELSE Min(over)

\* The rows, windows' without an L1, and the summaries left (summariesNotAcross).
Inputs(sentRaw, out) ==
    [rows |-> [m \in ToSet(rows) |->
                 [at |-> PositionOf(m), price |-> price[m], l1 |-> IF m \in sentRaw \/ L1Of(m) \in out THEN None ELSE L1Of(m)]],
     sums |-> [s \in landed \ out |->
                 [Summary(s) EXCEPT !.over = ParentIn(landed \ out, s)]]]

-----------------------------------------------------------------------------
(* SummaryTree.                                                            *)
Leaves(i) == LET under[s \in DOMAIN i.sums] ==
                   IF i.sums[s].level = 1 THEN i.sums[s].from \cap DOMAIN i.rows
                   ELSE UNION {under[c] : c \in i.sums[s].from \cap DOMAIN i.sums}
             IN under
Node(i, leaves, s) == i.sums[s] @@ [leaf |-> leaves[s]]
Missing(i, ss) ==
    UNION {i.sums[s].from \ (IF i.sums[s].level = 1 THEN DOMAIN i.rows ELSE DOMAIN i.sums) : s \in ss}
Build(i) ==
    LET leaves == Leaves(i)
    IN [node |-> [s \in DOMAIN i.sums |-> Node(i, leaves, s)], leaf |-> i.rows, missing |-> Missing(i, DOMAIN i.sums)]

\* Mutant of Relinked: a summary's parent isn't looked at.
RelinkedNone(t, i) == {}
Relinked(t, i) == {s \in DOMAIN t.node : t.node[s].over # i.sums[s].over}
\* derive: a full build where a summary or a row left or changed, or one a node
\* missed came; else the tree with the summaries that came or are linked anew.
Derives(t, i) ==
    /\ DOMAIN t.node \subseteq DOMAIN i.sums /\ DOMAIN t.leaf \subseteq DOMAIN i.rows
    /\ t.missing \cap (DOMAIN i.sums \cup DOMAIN i.rows) = {}
    /\ \A s \in DOMAIN t.node : t.node[s].level = i.sums[s].level /\ t.node[s].price = i.sums[s].price /\ t.node[s].from = i.sums[s].from
    /\ \A m \in DOMAIN t.leaf : t.leaf[m].at = i.rows[m].at /\ t.leaf[m].l1 \in {None, i.rows[m].l1}
Derived(t, i) ==
    LET leaves == Leaves(i)
        anew == Relinked(t, i) \cup (DOMAIN i.sums \ DOMAIN t.node)
    IN [node |-> [s \in DOMAIN i.sums |-> IF s \in anew THEN Node(i, leaves, s) ELSE t.node[s]],
        leaf |-> i.rows, missing |-> t.missing \cup Missing(i, anew)]
Kept(t, i) == IF t # None /\ Derives(t, i) THEN Derived(t, i) ELSE Build(i)

\* A row's lineage: its L1 and each parent that sits above.
Above(t, s) == IF s = None THEN None
               ELSE LET p == t.node[s].over IN IF p # None /\ t.node[p].level > t.node[s].level THEN p ELSE None
Lineage(t, m) == LET a == t.leaf[m].l1 b == Above(t, a) IN {a, b, Above(t, b)} \ {None}
\* ancestorAt: of a level, and listing the row; accountFrontier and
\* findAncestorAt don't ask that.
Ancestor(t, m, k) == LET at == {s \in Lineage(t, m) : t.node[s].level = k /\ m \in t.node[s].leaf}
                     IN IF at = {} THEN None ELSE CHOOSE s \in at : TRUE
Linked(t, m, k) == LET at == {s \in Lineage(t, m) : t.node[s].level = k} IN IF at = {} THEN None ELSE CHOOSE s \in at : TRUE

-----------------------------------------------------------------------------
(* A plan: a level to each row of the middle.                              *)
Forms(f, levels) == {f[m][levels[m]] : m \in {x \in DOMAIN levels : levels[x] > 0}} \ {None}
RawRows(f, levels) == {m \in DOMAIN levels : IF levels[m] = 0 THEN TRUE ELSE f[m][levels[m]] = None}
Tokens(r, f, levels) == r.windows + PriceOf(RawRows(f, levels)) + MapThenSumSet(LAMBDA s : Summary(s).price, Forms(f, levels))
Cost(r, levels) == Tokens(r, r.forms, levels)
Foldable(r) == DOMAIN r.levels \ (r.raw \cup r.fixed)
\* Mutant of StartLevel: the saved level as it is.
StartAsSaved(t, forms, m) == saved[m]
\* reachableLevel, then renderableLevel: the highest at or below the saved one.
StartLevel(t, forms, m) ==
    LET reached == {0} \cup {t.node[s].level : s \in {x \in Lineage(t, m) : t.node[x].level <= saved[m]}}
    IN Max({0} \cup {k \in Levels : k <= Max(reached) /\ forms[m][k] # None})
\* nextAncestor: the nearest above where the row has one.
NextForm(r, m) ==
    LET up == {k \in Levels : k > r.levels[m] /\ r.forms[m][k] # None} IN IF up = {} THEN None ELSE r.forms[m][Min(up)]
\* applyRaise: every row that folds into it there, of a lower level.
Raised(r, levels, s) ==
    LET k == Summary(s).level
    IN [m \in DOMAIN levels |-> IF m \in Foldable(r) /\ r.forms[m][k] = s /\ levels[m] < k THEN k ELSE levels[m]]

\* The groups of rows a rule looks into, the first the one it prefers: all of
\* them, or those of a level, the level that shows the most.
AtLevel(r, k) == {m \in Foldable(r) : r.levels[m] = k}
Visible(r, k) == IF k = 0 THEN Cardinality(AtLevel(r, 0)) ELSE Cardinality({r.forms[m][k] : m \in AtLevel(r, k)} \ {None})
Groups(r) ==
    IF plan.rule = "oldest" THEN <<Foldable(r)>>
    ELSE LET shown == {k \in 0 .. 3 : AtLevel(r, k) # {}}
             ranked == SetToSortSeq(shown, LAMBDA a, b : Visible(r, a) > Visible(r, b) \/ (Visible(r, a) = Visible(r, b) /\ a < b))
         IN [i \in DOMAIN ranked |-> AtLevel(r, ranked[i])]
Oldest(ms) == CHOOSE m \in ms : \A x \in ms : PositionOf(m) <= PositionOf(x)
\* The rows it tries there: past those that can't be raised, or the oldest only.
Tried(r, g) == {m \in (IF r.rule = 1 THEN g ELSE {Oldest(g)}) : NextForm(r, m) # None}
Raisable(r) == SelectSeq(Groups(r), LAMBDA g : Tried(r, g) # {})
Done(r) == Cost(r, r.levels) <= r.budget.target \/ Foldable(r) = {}

-----------------------------------------------------------------------------
(* runGreedy.                                                              *)
Solving(r, rule) ==
    [r EXCEPT !.rule = rule, !.levels = r.start, !.path = <<>>, !.passed = FALSE,
              !.least = [raises |-> 0, tokens |-> Cost(r, r.start)], !.asks = {},
              !.low = IF rule = 1 THEN Cost(r, r.start) ELSE @]
Solve(r) == [path |-> r.path, least |-> r.least, asks |-> r.asks]
\* Mutant of Replayed: the solve's last plan, whatever it passed through.
ReplayedWhole(r, s) == FoldLeft(LAMBDA levels, x : Raised(r, levels, x), r.start, s.path)
Replayed(r, s) == FoldLeft(LAMBDA levels, x : Raised(r, levels, x), r.start, SubSeq(s.path, 1, s.least.raises))
\* The plan of a solve that ended: its last where that is accepted; else the
\* next rule's, where the first passed a row over; else the least any passed.
Ended(r) ==
    LET line == IF r.passed THEN r.budget.total ELSE r.budget.line
        solves == Append(r.solves, Solve(r))
        best == FoldLeft(LAMBDA b, s : IF s.least.tokens < b.least.tokens THEN s ELSE b, solves[1], solves)
    IN IF Cost(r, r.levels) <= line THEN [r EXCEPT !.rule = 0]
       ELSE IF r.passed THEN Solving([r EXCEPT !.solves = solves], 2)
       ELSE [r EXCEPT !.rule = 0, !.levels = Replayed(r, best), !.asks = best.asks]

Begin(b, t) ==
    LET sentRaw == HeadRows \cup RecentRows(t)
        windows == PriceOf(sentRaw)
    IN /\ run = None
       /\ UNCHANGED <<plan, rows, next, landed, dropped, price, saved, pins, locked, turns>>
       /\ IF windows > b.line
          THEN sent' = [out |-> "reserved"] /\ UNCHANGED <<kept, run>>
          ELSE \E i \in {Inputs(sentRaw, Across(sentRaw))} :
               \E tree \in {Build(i)} :
               \E forms \in {[m \in ToSet(rows) \ sentRaw |-> [k \in Levels |-> Ancestor(tree, m, k)]]} :
               \E start \in {[m \in DOMAIN forms |-> IF m \in pins THEN 0 ELSE StartLevel(tree, forms, m)]} :
                 /\ kept' = Kept(kept, i)
                 /\ run' = Solving([budget |-> b, tree |-> tree, windows |-> windows, sentRaw |-> sentRaw, forms |-> forms,
                                    raw |-> pins, fixed |-> locked, start |-> start, levels |-> start, rule |-> 1,
                                    path |-> <<>>, passed |-> FALSE, least |-> 0, low |-> None, asks |-> {}, solves |-> <<>>], 1)
                 /\ sent' = None

Solver == run # None /\ run.rule # 0 /\ UNCHANGED <<plan, rows, next, landed, dropped, price, saved, pins, locked, kept, turns, sent>>
\* A raise of the group under the summary the preferred row folds into next.
Raise ==
    /\ Solver /\ ~Done(run) /\ Raisable(run) # <<>>
    /\ \E g \in {Raisable(run)[1]} : \E m \in {Oldest(Tried(run, g))} :
       \E s \in {NextForm(run, m)} : \E levels \in {Raised(run, run.levels, s)} :
       \E tokens \in {Cost(run, levels)} :
         run' = [run EXCEPT !.levels = levels, !.path = Append(@, s), !.passed = @ \/ m # Oldest(g),
                            !.least = IF tokens < @.tokens THEN [raises |-> Len(run.path) + 1, tokens |-> tokens] ELSE @,
                            !.low = Min({@, tokens})]
\* Nothing to raise: the next level is asked for, of the group preferred.
Ask ==
    /\ Solver /\ ~Done(run) /\ Raisable(run) = <<>>
    /\ \E m \in {Oldest(Groups(run)[1])} :
         run' = Ended([run EXCEPT !.asks = {[level |-> run.levels[m] + 1, row |-> m]}])
Rest == Solver /\ Done(run) /\ run' = Ended(run)

-----------------------------------------------------------------------------
(* The plan accounted again, sent and saved.                               *)
\* Picker.run and the emission: a row goes by the summary its links lead to.
Links == [m \in DOMAIN run.levels |-> [k \in Levels |-> Linked(run.tree, m, k)]]
Unrealizable(links) == {m \in DOMAIN run.levels : run.levels[m] > 0 /\ links[m][run.levels[m]] = None}
Covered(links) == run.sentRaw \cup RawRows(links, run.levels) \cup UNION {Under[s] : s \in Forms(links, run.levels)}
Outcome(links, tokens) ==
    IF tokens > run.budget.line THEN "over budget"
    ELSE IF ~(ToSet(rows) \subseteq Covered(links)) THEN "uncovered" ELSE "sent"
Levelled == [m \in All |-> IF m \in DOMAIN run.levels \ locked THEN run.levels[m] ELSE saved[m]]
Send ==
    /\ run # None /\ run.rule = 0
    /\ \E links \in {Links} : \E tokens \in {Tokens(run, links, run.levels)} : \E out \in {Outcome(links, tokens)} :
         /\ sent' = [out |-> out, tokens |-> tokens, cost |-> Cost(run, run.levels), unrealizable |-> Unrealizable(links),
                     line |-> run.budget.line, low |-> run.low]
         /\ saved' = IF out = "sent" THEN Levelled ELSE saved
    /\ run' = None
    /\ UNCHANGED <<plan, rows, next, landed, dropped, price, pins, locked, kept, turns>>

-----------------------------------------------------------------------------
Between == run = None /\ sent' = None /\ run' = None
Operator == turns < plan.turns /\ turns' = turns + 1
\* A row is stored; a summary lands over what is there and linked to none.
Store ==
    /\ Between /\ Len(plan.rows) > next /\ rows' = Append(rows, next + 1) /\ next' = next + 1
    /\ UNCHANGED <<plan, landed, dropped, price, saved, pins, locked, kept, turns>>
Land(s) ==
    /\ Between /\ s \notin landed \cup dropped
    /\ IF Summary(s).level = 1 THEN Summary(s).from \subseteq ToSet(rows)
       ELSE Summary(s).from \cup Summary(s).over \subseteq landed /\ \A c \in Summary(s).over : ParentIn(landed, c) = None
    /\ landed' = landed \cup {s}
    /\ UNCHANGED <<plan, rows, next, dropped, price, saved, pins, locked, kept, turns>>
\* The load repair drops a summary whose level-1 summaries survive.
Drop(s) ==
    /\ Between /\ Operator /\ Summary(s).level > 1 /\ ParentIn(landed, s) = None
    /\ landed' = landed \ {s} /\ dropped' = dropped \cup {s} /\ kept' = None
    /\ UNCHANGED <<plan, rows, next, price, saved, pins, locked>>
\* A row is removed; its images are stripped; it is pinned, or locked, or no
\* longer; all levels are discarded.
RemoveRow(m) ==
    /\ Between /\ Operator /\ rows' = SelectSeq(rows, LAMBDA x : x # m)
    /\ UNCHANGED <<plan, next, landed, dropped, price, saved, pins, locked, kept>>
Strip(m) ==
    /\ Between /\ Operator /\ price[m] = plan.rows[m] /\ price[m] > 1 /\ price' = [price EXCEPT ![m] = 1]
    /\ UNCHANGED <<plan, rows, next, landed, dropped, saved, pins, locked, kept>>
Toggle(S, m) == IF m \in S THEN S \ {m} ELSE S \cup {m}
Pin(m) ==
    /\ Between /\ Operator /\ pins' = Toggle(pins, m)
    /\ UNCHANGED <<plan, rows, next, landed, dropped, price, saved, locked, kept>>
Lock(m) ==
    /\ Between /\ Operator /\ locked' = Toggle(locked, m)
    /\ UNCHANGED <<plan, rows, next, landed, dropped, price, saved, pins, kept>>
Discard ==
    /\ Between /\ Operator /\ saved' = [m \in All |-> 0]
    /\ UNCHANGED <<plan, rows, next, landed, dropped, price, pins, locked, kept>>

Init ==
    /\ plan \in Worlds
    /\ next = plan.stored /\ rows = [i \in 1 .. plan.stored |-> i]
    /\ landed = {} /\ dropped = {} /\ price = plan.rows
    /\ saved = [m \in All |-> 0] /\ pins = {} /\ locked = {}
    /\ kept = None /\ run = None /\ turns = 0 /\ sent = None
Next ==
    \/ Store \/ Raise \/ Ask \/ Rest \/ Send \/ Discard
    \/ \E b \in plan.budgets, t \in plan.tails : Begin(b, t)
    \/ \E s \in DOMAIN plan.sums : Land(s)
    \/ \E s \in landed : Drop(s)
    \/ \E m \in ToSet(rows) : RemoveRow(m) \/ Strip(m) \/ Pin(m) \/ Lock(m)
Spec == Init /\ [][Next]_vars

-----------------------------------------------------------------------------
\* What a solver planned is what is accounted and sent: every level it sets
\* has a summary, every row of the store is raw or under a summary that is
\* sent, and its steps end (Picker.run, runGreedy, assertFullCoverage).
PlanIsSent ==
    /\ sent # None => sent.out \in {"sent", "over budget", "reserved"}
    /\ sent # None /\ sent.out # "reserved" => sent.unrealizable = {} /\ sent.tokens = sent.cost
    /\ run # None => Len(run.path) <= 3 * Len(plan.rows)
\* A turn is refused only where every plan the solves passed through, the
\* saved levels' among them, is over the line (runGreedy).
RefusedOnlyOver == sent # None /\ sent.out = "over budget" => sent.low > sent.line
\* The tree kept between compiles is the tree a compile would build
\* (SummaryTree.derive).
KeptIsBuilt == run # None => kept.node = run.tree.node /\ kept.leaf = run.tree.leaf
=============================================================================
