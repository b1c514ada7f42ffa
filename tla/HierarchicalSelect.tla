-------------------------- MODULE HierarchicalSelect --------------------------
(***************************************************************************)
(* What a compile of the threshold-driven path sends                       *)
(* (selectHierarchical of src/src/strategies/autobiographical.ts): a head  *)
(* and a recent window raw, and between them summaries, pinned rows and    *)
(* what no summary tells yet.  A summary over a window's rows would tell   *)
(* again what the window sends: the window rule leaves it out, and falls   *)
(* back on sending both where that cannot be sent.                         *)
(*                                                                         *)
(* A row is its position in the store, its price what it costs as sent;    *)
(* bodies, images, pruning and the cap of one row are left out, and so is  *)
(* the pairing of an emission's blocks (ToolPairing).  A closed chunk has a *)
(* record.  A merge takes two neighbours (MergeRuns says which).           *)
(***************************************************************************)
EXTENDS Integers, FiniteSets, SequencesExt, FiniteSetsExt

CONSTANTS
    Worlds,    \* rows [kind, price], calls' pairs, budgets, what operators may do; bounds: rows, turns
    MinRows,   \* the least rows of a chunk that closes by size, 4 in the source
    None

VARIABLES
    plan,
    win,     \* rows stored, the head window's first, recentWindowTokens, the first row compression is held at or 0
    recs,    \* the chunks closed and not summarised, each its rows
    sums,    \* the summaries in the order they landed: a level, its sources, its parent or 0
    pins,    \* rows an operator pinned raw
    turns,   \* what operators did, so far
    sent     \* the compile since the last change, None before it
vars == <<plan, win, recs, sums, pins, turns, sent>>

Is(i, kind) == plan.rows[i].kind = kind
Cost(rows) == FoldLeft(LAMBDA c, r : c + r, 0, [i \in 1 .. Len(plan.rows) |-> IF i \in rows THEN plan.rows[i].price ELSE 0])
InRowOrder(rows) == SelectSeq([i \in 1 .. Len(plan.rows) |-> i], LAMBDA i : i \in rows)
Summaries == DOMAIN sums
Level(k) == sums[k].level
Tokens(k) == plan.tokens[Level(k)]

\* expandSummaryToLeafMessageIds: the rows under each summary.
Leaves == LET under[k \in Summaries] == IF Level(k) = 1 THEN sums[k].from ELSE UNION {under[c] : c \in sums[k].from}
          IN under
Owned(cs) == UNION cs \cup UNION {sums[k].from : k \in {s \in Summaries : Level(s) = 1}}

-----------------------------------------------------------------------------
(* The windows.                                                            *)
\* headWindowEndFrom, anchorHeadToCoverage: past the head's tokens, not between a
\* call and its result, and on to the next chunk's start within twice the tokens.
HeadEnd(w, cs) ==
    LET over == {i \in w.head .. w.n : Cost(w.head .. i) > plan.head}
        snapped(at) == IF at > w.head /\ Is(at - 1, "call") THEN at - 1 ELSE at
        near(end) == {i \in (end .. w.n) \cap Owned(cs) : i <= end + 1 \/ Cost(w.head .. i - 1) <= 2 * plan.head}
        anchored(end) == Min(near(end) \cup (IF near(end) = {} THEN {end} ELSE {}))
    IN IF plan.head = 0 THEN 1 ELSE IF over = {} THEN w.n + 1 ELSE anchored(snapped(Min(over)))
BeforeResult(w, i) == IF i \in 2 .. w.n /\ Is(i, "result") THEN i - 1 ELSE i
HoldBoundary(w) == IF w.held \in 1 .. w.n THEN BeforeResult(w, w.held) ELSE w.n + 1
UnheldStart(w) ==
    LET over == {i \in 1 .. w.n : Cost(i .. w.n) > w.tail} IN IF over = {} THEN 1 ELSE BeforeResult(w, Max(over) + 1)
RecentStart(w) == Min({UnheldStart(w), HoldBoundary(w)})

Changes(w) == {i \in 1 .. w.n : Is(i, "change")}
RawPins(w) == Changes(w) \cup pins
\* headPositions: after a reset, with the changes stored before the head.
HeadRows(w, end) ==
    (w.head .. end - 1) \cup (IF w.head > 1 /\ end > w.head THEN Changes(w) \cap (1 .. w.head - 1) ELSE {})
\* The windows and the chunks between: the head's end and rows, the recent
\* window's start, and where it is sent from.
Placed(w, cs, end, start) ==
    [end |-> end, head |-> HeadRows(w, end), start |-> start, from |-> Max({start, end}), chunks |-> cs]
Windows(w, cs) == Placed(w, cs, HeadEnd(w, cs), RecentStart(w))
RawRows(ws) == ws.head \cup (ws.from .. win.n)

-----------------------------------------------------------------------------
(* rebuildChunks.                                                          *)
Compressible(w, ws) == (1 .. ws.start - 1) \ ((w.head .. ws.end - 1) \cup RawPins(w))
\* A gap closes a chunk, and enough rows do unless the last is a call.
Rebuilt(w, cs) ==
    LET rows == InRowOrder(Compressible(w, Windows(w, cs)) \ Owned(cs))
        gap(cut, i) == cut.open # {} /\ i # Max(cut.open) + 1
        closes(rs, i) == Cardinality(rs) >= MinRows /\ ~Is(i, "call")
        walked == FoldLeft(LAMBDA cut, i :
            LET done == IF gap(cut, i) THEN cut.done \cup {cut.open} ELSE cut.done
                open == (IF gap(cut, i) THEN {} ELSE cut.open) \cup {i}
            IN IF closes(open, i) THEN [done |-> done \cup {open}, open |-> {}] ELSE [done |-> done, open |-> open],
          [done |-> cs, open |-> {}], rows)
    IN walked.done

-----------------------------------------------------------------------------
(* summariesAcross: the summaries over a row a window sends, and over the  *)
(* partner of a call or result that one left out of them leaves raw.       *)
Partners(p) == {q \in 1 .. win.n : <<p, q>> \in plan.pairs \/ <<q, p>> \in plan.pairs}
\* Mutant of LeftBy: a left-out summary's calls and results go alone.
LeftByNone(leaves, windows, k) == {}
LeftBy(leaves, windows, k) ==
    IF Level(k) # 1 THEN {}
    ELSE LET asked == UNION {Partners(p) : p \in sums[k].from \ windows} \ (windows \cup RawPins(win))
         IN {s \in Summaries : leaves[s] \cap asked # {}}
Across(ws) ==
    LET leaves == Leaves
        windows == RawRows(ws)
        over == {k \in Summaries : leaves[k] \cap windows # {}}
    IN FoldLeft(LAMBDA out, k : out \cup UNION {LeftBy(leaves, windows, s) : s \in out}, over, sums)

-----------------------------------------------------------------------------
(* selectHierarchicalBound, of the summaries left.                         *)
InOrder(ks) == SelectSeq([k \in Summaries |-> k], LAMBDA k : k \in ks)
\* summariesNotAcross: one whose parent is left out has none.
Tops(out) == {k \in Summaries \ out : sums[k].parent \in out \cup {0}}
OfLevel(ks, l) == {k \in ks : Level(k) = l}
\* getAntiRedundantSummaries.
ShownL1(ws, out) ==
    LET windows == (win.head .. ws.end - 1) \cup (ws.start .. win.n)
    IN {k \in OfLevel(Tops(out), 1) : sums[k].from \cap windows = {}}
Shown(ws, out, l) ==
    LET l1 == ShownL1(ws, out)
        below == IF l = 2 THEN l1 ELSE OfLevel(Tops(out), 2)
    IN IF l = 1 THEN l1 ELSE {k \in OfLevel(Tops(out), l) : ~(sums[k].from \subseteq below)}

\* A level's budget, and what the levels above it left, until one does not fit.
Filled(pick, shown, l) ==
    LET add(p, k) ==
          IF p.full \/ p.used + Tokens(k) > p.room \/ p.total + Tokens(k) > plan.budget THEN [p EXCEPT !.full = TRUE]
          ELSE [p EXCEPT !.list = Append(@, k), !.used = @ + Tokens(k), !.total = @ + Tokens(k)]
        done == FoldLeft(add, [pick EXCEPT !.full = FALSE, !.used = 0, !.room = @ + plan.levels[l]], InOrder(shown))
    IN [done EXCEPT !.room = @ - done.used]
\* Repair: a parent that was redundant, whose children did not all go in.
Repaired(pick, redundant, l) ==
    LET add(p, k) ==
          IF sums[k].from \subseteq ToSet(p.list) \/ p.total + Tokens(k) > plan.budget
             \/ 20 * (p.used + Tokens(k)) > Max({5 * plan.levels[l], plan.budget}) THEN p
          ELSE [p EXCEPT !.list = Append(@, k), !.used = @ + Tokens(k), !.total = @ + Tokens(k)]
    IN FoldLeft(add, [pick EXCEPT !.used = 0], InOrder(redundant))
Preferred(ws, out) ==
    LET start == [list |-> <<>>, used |-> 0, total |-> Cost(ws.head), room |-> 0, full |-> FALSE]
        shown == [l \in 1 .. 3 |-> Shown(ws, out, l)]
        filled == FoldLeft(LAMBDA pick, l : Filled(pick, shown[l], l), start, <<3, 2, 1>>)
    IN FoldLeft(LAMBDA pick, l : Repaired(pick, OfLevel(Tops(out), l) \ shown[l], l), filled, <<2, 3>>).list

Middle(ws) == (1 .. ws.from - 1) \ ws.head
Waiting(ws) == Middle(ws) \cap (RawPins(win) \cup UNION ws.chunks)
\* Mutant of Completed: what the budgets left out stays out.
CompletedNot(ws, out, list) == [list |-> list, raw |-> Waiting(ws)]
\* Coverage completion: a row of the middle that nothing tells takes the highest
\* summary over it, whatever the budgets, and goes raw where there is none.
Completed(ws, out, list) ==
    LET leaves == Leaves
        tops == Tops(out)
        claims(i) == {k \in tops : i \in leaves[k]}
        claimer(i) == CHOOSE k \in claims(i) : \A s \in claims(i) : Level(s) < Level(k) \/ (Level(s) = Level(k) /\ k <= s)
        add(p, i) == IF i \in p.raw \/ \E k \in ToSet(p.list) : i \in leaves[k] THEN p
                     ELSE IF claims(i) = {} THEN [p EXCEPT !.raw = @ \cup {i}]
                     ELSE [p EXCEPT !.list = Append(@, claimer(i))]
    IN FoldLeft(add, [list |-> list, raw |-> Waiting(ws)], InRowOrder(Middle(ws)))

\* The summaries an answer holds: one recall pair each, or one pair of them all,
\* which the cap cuts.
TokensOf(list) == FoldLeft(LAMBDA t, k : t + Tokens(k), 0, list)
Told(list) ==
    IF plan.positioned \/ plan.cap = 0 THEN ToSet(list)
    ELSE {list[j] : j \in {x \in DOMAIN list : TokensOf(SubSeq(list, 1, x - 1)) < plan.cap}}
RecallCost(list) ==
    IF plan.positioned THEN TokensOf(list) + Len(list) * plan.label
    ELSE IF list = <<>> THEN 0
    ELSE plan.label + IF plan.cap = 0 THEN TokensOf(list) ELSE Min({plan.cap, TokensOf(list)})

Refusal(why) == [out |-> why, raw |-> {}, told |-> {}]
\* emitRecentNewestFirst drops the oldest over the budget, and results at the
\* start; assertFullCoverage and assertMiddleCoverage refuse what is then missing.
Fitting(ws, room) == {i \in ws.from .. win.n : Cost(i .. win.n) <= room}
Emitted(fits) == {i \in fits : \E j \in fits : j <= i /\ ~Is(j, "result")}
Outcome(ws, middle, fits, raw, list) ==
    IF Cost(Changes(win)) > plan.grace \/ middle > plan.grace THEN Refusal("over budget")
    ELSE IF fits # ws.from .. win.n \/ raw \cup UNION {Leaves[k] : k \in ToSet(list)} # 1 .. win.n THEN Refusal("uncovered")
    ELSE [out |-> "sent", raw |-> raw, told |-> Told(list)]
Sending(ws, picked, middle, fits) == Outcome(ws, middle, fits, ws.head \cup picked.raw \cup Emitted(fits), picked.list)
Priced(ws, picked, middle) == Sending(ws, picked, middle, Fitting(ws, plan.grace - middle))
Rendered(ws, picked) == Priced(ws, picked, Cost(ws.head) + RecallCost(picked.list) + Cost(picked.raw))
Select(ws, out) == Rendered(ws, Completed(ws, out, Preferred(ws, out)))

\* Mutant of Choice: summaries over a window's rows are sent.
ChoiceAsk(out, whole, left) == whole @@ [mode |-> "ask"]
Choice(out, whole, left) ==
    IF out = {} THEN whole @@ [mode |-> "ask"]
    ELSE IF left.out = "sent" THEN left @@ [mode |-> "leave"]
    ELSE whole @@ [mode |-> "take"]
\* selectByWindowRule.
ByRule(ws) ==
    LET out == Across(ws)
        of == [left \in {{}, out} |-> Select(ws, left)]
    IN Choice(out, of[{}], of[out])

-----------------------------------------------------------------------------
Changed == sent' = None
Operator == turns < plan.turns /\ turns' = turns + 1
\* The chunks are cut again for what the windows have become.
Rebuild(w) == win' = w /\ recs' = Rebuilt(w, recs)

\* A row is stored: windowGrew.
Store ==
    /\ win.n < Len(plan.rows) /\ Rebuild([win EXCEPT !.n = @ + 1])
    /\ UNCHANGED <<plan, sums, pins, turns>> /\ Changed
\* A summary of a closed chunk lands, and one of two of a level (SummaryTree).
Summarise(c) ==
    /\ \A i \in c : i < HoldBoundary(win)
    /\ sums' = Append(sums, [level |-> 1, from |-> c, parent |-> 0])
    /\ recs' = recs \ {c}
    /\ UNCHANGED <<plan, win, pins, turns>> /\ Changed
Merge(a, b) ==
    /\ Level(a) = Level(b) /\ Level(a) < plan.depth
    /\ sums[a].parent = 0 /\ sums[b].parent = 0
    /\ Max(Leaves[a]) + 1 = Min(Leaves[b]) /\ \A i \in Leaves[b] : i < HoldBoundary(win)
    /\ sums' = Append([sums EXCEPT ![a].parent = Len(sums) + 1, ![b].parent = Len(sums) + 1],
                      [level |-> Level(a) + 1, from |-> {a, b}, parent |-> 0])
    /\ UNCHANGED <<plan, win, recs, pins, turns>> /\ Changed
\* resetHeadWindow; a start with another recentWindowTokens; a hold, and its
\* release; a pin made or removed.
ResetHead(i) ==
    /\ Operator /\ plan.resets /\ win' = [win EXCEPT !.head = i]
    /\ UNCHANGED <<plan, recs, sums, pins>> /\ Changed
Restart(t) ==
    /\ Operator /\ t # win.tail /\ Rebuild([win EXCEPT !.tail = t])
    /\ UNCHANGED <<plan, sums, pins>> /\ Changed
Hold(i) ==
    /\ Operator /\ plan.holds /\ win.held = 0 /\ win' = [win EXCEPT !.held = i]
    /\ UNCHANGED <<plan, recs, sums, pins>> /\ Changed
Release ==
    /\ win.held # 0 /\ Rebuild([win EXCEPT !.held = 0])
    /\ UNCHANGED <<plan, sums, pins, turns>> /\ Changed
Pin(i) ==
    /\ Operator /\ plan.pins /\ ~Is(i, "change")
    /\ pins' = IF i \in pins THEN pins \ {i} ELSE pins \cup {i}
    /\ UNCHANGED <<plan, win, recs, sums>> /\ Changed
Compile ==
    /\ sent = None
    /\ UNCHANGED <<plan, win, sums, pins, turns>>
    /\ \E cs \in {Rebuilt(win, recs)} : recs' = cs /\ \E ws \in {Windows(win, cs)} : sent' = ByRule(ws)

Init ==
    /\ plan \in Worlds
    /\ recs = {} /\ sums = <<>> /\ pins = {} /\ turns = 0 /\ sent = None
    /\ win \in [n : {0}, head : {1}, tail : plan.tails, held : {0}]
Next ==
    \/ Store \/ Release \/ Compile
    \/ \E c \in recs : Summarise(c)
    \/ \E a, b \in Summaries : Merge(a, b)
    \/ \E i \in 1 .. win.n : ResetHead(i) \/ Hold(i) \/ Pin(i)
    \/ \E t \in plan.tails : Restart(t)
Spec == Init /\ [][Next]_vars

-----------------------------------------------------------------------------
Sent == sent # None /\ sent.out = "sent"
ToldRows == UNION {Leaves[k] : k \in sent.told}
\* What is sent tells every row, raw or under a summary that is sent itself
\* (assertFullCoverage).
TellsAll == Sent => sent.raw \cup ToldRows = 1 .. win.n
\* With the summaries over a window's rows left out, no row is told twice but a
\* pinned one, and what that leaves raw between the windows goes with its call
\* or results, never told by a summary of its own (summariesAcross).
ToldOnce ==
    Sent /\ sent.mode # "take" =>
      LET ws == Windows(win, recs)
          raw == RawRows(ws)
          told == ToldRows
      IN /\ sent.raw \cap told \subseteq RawPins(win) \ raw
         /\ \A k \in OfLevel(Across(ws), 1) : \A p \in sums[k].from \ raw : Partners(p) \ RawPins(win) \subseteq sent.raw \ told
\* A turn is refused for its budget alone: where every row and summary fits, it is sent.
RefusedForBudget ==
    sent # None /\ Cost(1 .. win.n) + TokensOf(InOrder(Summaries)) + Len(sums) * plan.label <= plan.grace => Sent
=============================================================================
