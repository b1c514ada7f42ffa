--------------------------- MODULE MCWindowIndex ---------------------------
(***************************************************************************)
(* The two parts whose runs are short: WindowIndex with two handles, and   *)
(* the compiles of the adaptive path over summaries that come and go, by   *)
(* a greedy solver or by kv-stable.  A part idles as it began.             *)
(***************************************************************************)
EXTENDS WindowIndex

CONSTANT None

VARIABLES part, plan, stored, next, landed, dropped, price, saved, pins, locked, kept, run, turns, sent, bounds
adaptiveVars == <<plan, stored, next, landed, dropped, price, saved, pins, locked, kept, run, turns, sent, bounds>>
partVars == <<part, vars, adaptiveVars>>

\* One row stored, nothing written down; a write that returns, or that lands
\* and throws with the index unread.
MCBodies1 == <<1>>
MCNoLogs == {<<>>}
MCOutcomes == {"ok", "landedUnread"}

\* Six rows, the first always raw; two windows, a plan that fits and one that
\* may not; summaries dearer than rows, one that lost a source, a level none
\* is of; and fewer rows with more turns of operators.
Sum(level, from, over, cost) == [level |-> level, from |-> from, over |-> over, price |-> cost]
Whole == [rows |-> <<1, 2, 2, 2, 2, 1>>, stored |-> 5, head |-> 1, tails |-> {1, 2},
          sums |-> <<Sum(1, {2, 3}, {}, 1), Sum(1, {4, 5}, {}, 1), Sum(2, {1, 2}, {1, 2}, 1)>>,
          budgets |-> {[total |-> 6, target |-> 5, line |-> 7], [total |-> 4, target |-> 4, line |-> 4]},
          rule |-> "flat", turns |-> 1]
Greedy == {Whole, [Whole EXCEPT !.rule = "oldest"], [Whole EXCEPT !.sums[1].price = 3, !.sums[3].price = 3],
           [Whole EXCEPT !.sums[3].from = {2}], [Whole EXCEPT !.sums[3].level = 3],
           [Whole EXCEPT !.rows = <<1, 2, 3, 1>>, !.stored = 4, !.tails = {1}, !.turns = 2,
                         !.sums = <<Sum(1, {2}, {}, 1), Sum(1, {3}, {}, 2), Sum(2, {1, 2}, {1, 2}, 3)>>]}

\* The same under kv-stable: a window that is met, one that is not, one kept to
\* a pace and one the head and tail alone are over; a deeper tree whose last
\* merge is cheap; and one whose merges do not nest.
Bud(total, foldAt, target, reach, strict) ==
    [total |-> total, line |-> total, foldAt |-> foldAt, target |-> target, reach |-> reach, strict |-> strict]
Pinned(kind, k) == [kind |-> kind, level |-> k]
Shallow == [rows |-> <<1, 2, 3, 2, 3, 2, 1>>, stored |-> 6, head |-> 1, tails |-> {1}, salience |-> <<2, 2, 2, 2, 2, 2, 2>>, base |-> 2,
            sums |-> <<Sum(1, {2, 3}, {}, 1), Sum(1, {4, 5}, {}, 1), Sum(2, {1, 2}, {1, 2}, 1)>>,
            budgets |-> {Bud(8, 8, 6, 8, FALSE), Bud(5, 5, 4, 3, FALSE), Bud(12, 5, 4, 3, TRUE), Bud(1, 1, 1, 1, FALSE)},
            bindings |-> {Pinned("at", 1), Pinned("most", 1)}, held |-> {3}, rule |-> "stable", turns |-> 2]
Deep == [rows |-> <<3, 3, 2, 3, 3, 2, 3, 1>>, stored |-> 7, head |-> 0, tails |-> {1}, salience |-> <<2, 1, 2, 2, 0, 2, 2, 2>>, base |-> 2,
         sums |-> <<Sum(1, {1, 2}, {}, 2), Sum(1, {3, 4}, {}, 2), Sum(1, {5, 6}, {}, 2), Sum(2, {1, 2}, {1, 2}, 2), Sum(3, {3, 4}, {3, 4}, 1)>>,
         budgets |-> {Bud(17, 17, 13, 7, FALSE), Bud(17, 10, 8, 5, TRUE)},
         bindings |-> {Pinned("at", 2), Pinned("most", 1)}, held |-> {2}, rule |-> "stable", turns |-> 1]
Crossed == [Deep EXCEPT
         !.sums = <<Sum(1, {1, 2}, {}, 4), Sum(1, {3, 4}, {}, 3), Sum(1, {5, 6}, {}, 2), Sum(2, {1, 2, 3}, {1, 2}, 2), Sum(2, {2, 3}, {3}, 2)>>,
         !.held = {5}, !.budgets = {Bud(17, 17, 13, 7, FALSE), Bud(10, 10, 8, 3, FALSE)}]
A == INSTANCE StableControl WITH Worlds <- Greedy \cup {Shallow, Deep, Crossed}, rows <- stored

AdaptiveIdle ==
    /\ plan = 0 /\ stored = 0 /\ next = 0 /\ landed = 0 /\ dropped = 0 /\ price = 0 /\ saved = 0 /\ pins = 0 /\ locked = 0
    /\ kept = 0 /\ run = 0 /\ turns = 0 /\ sent = 0 /\ bounds = 0
PartsInit ==
    /\ Init
    /\ \/ part = "window" /\ AdaptiveIdle
       \/ part = "adaptive" /\ A!ControlInit
Windows  == part = "window" /\ Next /\ UNCHANGED <<part, adaptiveVars>>
Adaptive == part = "adaptive" /\ A!ControlNext /\ UNCHANGED <<part, vars>>
PartsNext == Windows \/ Adaptive
PartsSpec == PartsInit /\ [][PartsNext]_partVars

\* What a solver planned is what is accounted and sent, over the tree a compile
\* would build, and a turn is refused only where every plan the solves passed
\* through is over the line (AdaptiveSelect).
PlanIsSent == part = "adaptive" => A!PlanIsSent /\ (plan.rule # "stable" => A!KeptIsBuilt) /\ A!RefusedOnlyOver
\* What kv-stable plans is a cut that can be rendered and holds what is held;
\* it keeps to its reach but for a recorded override, comes to rest, and is over
\* the window only where no cut fits (StableControl).
ControlHolds == part = "adaptive" => A!ControlHolds
=============================================================================
