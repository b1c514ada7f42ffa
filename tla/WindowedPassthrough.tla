------------------------- MODULE WindowedPassthrough -------------------------
(***************************************************************************)
(* The anchored window of src/src/strategies/windowed-passthrough.ts: the  *)
(* strategy sends every row at its anchor or after, and moves the anchor   *)
(* in coarse jumps when a request would pass its budget.  The anchor is a  *)
(* sequence while the agent's window is the record, and an ordinal of the  *)
(* window index once rows are presented; memory holds it, a slot of the    *)
(* branch keeps it.  Images, truncation and cache markers are left out: a  *)
(* row has a price as sent.                                                *)
(*                                                                         *)
(* The window's log is read as WindowLog says; ordinals count from 1.      *)
(***************************************************************************)
EXTENDS WindowLog, SequencesExt

CONSTANTS
    Branches, Main,
    Worlds,     \* a row's price, the changes, maxTokens, the slot found, what setters set; bounds: branches, rows, items, faults, turns
    None, Newer   \* no value; a later version's slot

\* What a slot of this version holds.  A store is opened with none, or with a
\* later version's; setters take sequences and ordinals.
Forms == [anchor : Nat, ordinal : Nat \cup {None}, moved : BOOLEAN]
ASSUME PlanAssumption ==
    \A w \in Worlds :
        w.price \in Seq(Nat) /\ w.slot \in {None, Newer} /\ w.anchors \subseteq Nat /\ w.ordinals \subseteq Nat
ASSUME NoneAssumption ==
    /\ None \notin Nat \cup Forms \cup Branches \cup Seq([id : Nat, seq : Nat])
    /\ Newer \notin Forms
ASSUME BranchAssumption == Main \in Branches

VARIABLES
    plan,
    record,   \* per branch, its rows in record order, [id, seq]; None where there is no branch
    log,      \* per branch, the window index
    slot,     \* per branch, the anchor's slot
    clock,    \* the store's sequence
    cur,      \* the store's branch
    loaded,   \* the branch memory was loaded from; None before one
    mem,      \* the anchor in memory
    faults,   \* failed writes so far
    turns,    \* restarts, switches and setters so far
    sent      \* history: per branch, what the last request sent, None once that need not stand
vars == <<plan, record, log, slot, clock, cur, loaded, mem, faults, turns, sent>>

Live == {b \in Branches : record[b] # None}
Presented(b) == InEffect(log[b])
SumOf(ids) == FoldLeft(LAMBDA n, id : n + plan.price[id], 0, ids)
Change(id) == id \in plan.changes

\* The rows a branch's view lists: in record order, or in window order.
Ids(b) == [n \in DOMAIN record[b] |-> record[b][n].id]
SequenceOf(b, id) == record[b][CHOOSE n \in DOMAIN record[b] : record[b][n].id = id].seq
Viewed(b) == {id \in ToSet(Ids(b)) : Presented(b) => InWindow(log[b], id)}
Ordinals(b, ids) == {OrdinalIn(log[b], id) : id \in ids}
Listed(b) ==
    LET at == Ordinals(b, Viewed(b))
        nth(n) == CHOOSE i \in at : Cardinality({j \in at : j <= i}) = n
    IN IF ~Presented(b) THEN Ids(b) ELSE [n \in 1..Cardinality(at) |-> log[b][nth(n)].id]
Length(b) == Len(log[b]) + 1
OrdinalFrom(b, s) ==
    LET at == Ordinals(b, {id \in Viewed(b) : SequenceOf(b, id) >= s})
    IN IF at = {} THEN Length(b) ELSE Min(at)
SequenceFrom(b, o) ==
    LET at == {n \in Ordinals(b, Viewed(b)) : n >= o}
    IN IF at = {} THEN clock ELSE SequenceOf(b, log[b][Min(at)].id)

-----------------------------------------------------------------------------
(* loadBranchState, persistAnchor.                                         *)
Anchor(a, o, moved, owed) == [anchor |-> a, ordinal |-> o, moved |-> moved, unwritten |-> owed]
Start == Anchor(0, None, FALSE, FALSE)
Load(b, s) ==
    CASE s \in {None, Newer} -> Start
      [] s \notin {None, Newer} /\ s.anchor > clock -> Start
      [] s \notin {None, Newer} /\ s.anchor <= clock /\ (s.ordinal = None \/ ~Presented(b)) ->
           Anchor(s.anchor, None, FALSE, FALSE)
      [] s \notin {None, Newer} /\ s.anchor <= clock /\ ~(s.ordinal = None \/ ~Presented(b)) ->
           IF s.ordinal > Length(b) THEN Start ELSE Anchor(s.anchor, s.ordinal, s.moved, FALSE)
\* Memory as an operation finds it: another branch's is loaded again.
Synced == IF loaded = cur THEN mem ELSE Load(cur, slot[cur])

\* Mutant of Form: the slot does not say that the anchor was moved.
FormUnmoved(m) == [anchor |-> m.anchor, ordinal |-> m.ordinal, moved |-> FALSE]
Form(m) == [anchor |-> m.anchor, ordinal |-> m.ordinal, moved |-> m.moved]
\* What an operation holds: the anchor, its slot, and the writes that threw.
Held(m, s, n) == [mem |-> m, slot |-> s, failed |-> n]
Moving(x, m) == Held(m, x.slot, x.failed)
\* A later version's slot is not written over, and a write may throw.
Owed(m, owed) == Anchor(m.anchor, m.ordinal, m.moved, owed)
Persist(x, lands) ==
    IF x.slot = Newer THEN Held(Owed(x.mem, FALSE), x.slot, x.failed)
    ELSE IF lands THEN Held(Owed(x.mem, FALSE), Form(x.mem), x.failed)
    ELSE Held(Owed(x.mem, TRUE), x.slot, x.failed + 1)

\* presentedAnchor: a write still owed is made again, and a sequence is
\* converted, and the conversion written.
Retried(x, lands) == IF x.mem.unwritten THEN Persist(x, lands) ELSE x
Placed(x) == Moving(x, Anchor(x.mem.anchor, OrdinalFrom(cur, x.mem.anchor), x.mem.moved, x.mem.unwritten))
\* Mutant of Converted: a conversion is kept in memory only.
ConvertedOnly(x, lands) ==
    IF ~Presented(cur) \/ x.mem.ordinal # None THEN x
    ELSE Placed(x)
Converted(x, lands) ==
    IF ~Presented(cur) \/ x.mem.ordinal # None THEN x
    ELSE IF x.mem.anchor = 0 THEN Placed(x) ELSE Persist(Placed(x), lands)
Shows(m, id) == IF m.ordinal # None THEN OrdinalIn(log[cur], id) >= m.ordinal
                ELSE IF Presented(cur) THEN OrdinalIn(log[cur], id) >= OrdinalFrom(cur, m.anchor)
                ELSE SequenceOf(cur, id) >= m.anchor

-----------------------------------------------------------------------------
(* select.                                                                 *)
From(ms, start) ==
    LET kept == SelectSeq([k \in DOMAIN ms |-> k], LAMBDA k : k >= start \/ Change(ms[k]))
    IN [n \in DOMAIN kept |-> ms[kept[n]]]
Changes(ms) == SumOf(SelectSeq(ms, Change))
Conversation(ms, start) == {n \in start .. Len(ms) : ~Change(ms[n])}
\* Mutant of ReAnchored: the room the changes leave is not left.
ReAnchoredWhole(ms, start) ==
    LET fits == {i \in Conversation(ms, start) : SumOf(SelectSeq(SubSeq(ms, i, Len(ms)), LAMBDA id : ~Change(id))) <= plan.maxTokens}
    IN IF fits # {} THEN CHOOSE i \in fits : \A j \in fits : i <= j ELSE Len(ms)
\* The rows that fill half of the room the changes leave; the newest that is
\* no change when none does.
ReAnchored(ms, start) ==
    LET above(i) == 2 * SumOf(SelectSeq(SubSeq(ms, i, Len(ms)), LAMBDA id : ~Change(id)))
        fits == {i \in Conversation(ms, start) : above(i) <= plan.maxTokens - Changes(ms)}
        rest == Conversation(ms, start)
    IN IF fits # {} THEN CHOOSE i \in fits : \A j \in fits : i <= j
       ELSE IF rest # {} THEN CHOOSE i \in rest : \A j \in rest : j <= i
       ELSE IF start > Len(ms) THEN Len(ms) ELSE start
FirstShown(m, ms) ==
    LET shown == {n \in DOMAIN ms : Shows(m, ms[n])}
    IN IF shown = {} THEN Len(ms) + 1 ELSE CHOOSE n \in shown : \A k \in shown : n <= k
\* The start of the next request, and whether it moves the anchor.
At(id) == IF Presented(cur) THEN OrdinalIn(log[cur], id) ELSE SequenceOf(cur, id)
Choice(m, ms, over, new) ==
    [rows |-> From(ms, new), over |-> over, first |-> new,
     moved |-> over /\ new \in DOMAIN ms /\ At(ms[new]) # (IF Presented(cur) THEN m.ordinal ELSE m.anchor)]
Chosen(m, ms, start, over) == Choice(m, ms, over, IF over THEN ReAnchored(ms, start) ELSE start)
ChosenFrom(m, ms, start) == Chosen(m, ms, start, SumOf(From(ms, start)) > plan.maxTokens)
Selection(m, ms) == ChosenFrom(m, ms, FirstShown(m, ms))
Moved(m, id) ==
    Anchor(SequenceOf(cur, id), IF Presented(cur) THEN OrdinalIn(log[cur], id) ELSE None, Presented(cur), m.unwritten)

Found == Held(Synced, slot[cur], faults)
Lands == IF faults < plan.faults THEN BOOLEAN ELSE {TRUE}
\* What was sent of a branch whose memory goes unwritten need not stand.
Forgotten == IF loaded # None /\ loaded # cur /\ mem.unwritten THEN {loaded} ELSE {}
Lost == [b \in Branches |-> IF b \in Forgotten THEN None ELSE sent[b]]
Leaves(x) ==
    /\ mem' = x.mem /\ slot' = [slot EXCEPT ![cur] = x.slot] /\ faults' = x.failed
    /\ loaded' = cur
    /\ x.failed <= plan.faults
    /\ UNCHANGED <<plan, record, log, clock, cur>>

\* A compile: refused over its budget, whatever the anchor; or sent.
Kept(x, s, ms, lands) == IF s.moved THEN Persist(Moving(x, Moved(x.mem, ms[s.first])), lands) ELSE x
Request(s, ms, y) ==
    /\ Leaves(y)
    /\ sent' = [Lost EXCEPT ![cur] = IF s.moved /\ y.mem.unwritten THEN None
                                     ELSE [rows |-> s.rows, over |-> s.over, listed |-> ms]]
Answer(x, s, ms, lands) ==
    IF SumOf(s.rows) > plan.maxTokens THEN Leaves(x) /\ sent' = Lost ELSE Request(s, ms, Kept(x, s, ms, lands))
AnswerFrom(x, ms, lands) == Answer(x, Selection(x.mem, ms), ms, lands)
Compile(l1, l2) == UNCHANGED turns /\ AnswerFrom(Converted(Retried(Found, l1), l2), Listed(cur), l2)
\* getAnchorOrdinal and renderAsNewest.
ReadAnchor(l1, l2) == Leaves(Converted(Retried(Found, l1), l2)) /\ sent' = Lost /\ UNCHANGED turns
Sets == turns < plan.turns /\ turns' = turns + 1
SetAnchor(s, l) ==
    /\ Sets
    /\ IF s = Synced.anchor /\ ~Synced.moved
       THEN Leaves(Retried(Found, l)) /\ sent' = Lost
       ELSE /\ Leaves(Persist(Moving(Found, Anchor(s, IF Presented(cur) THEN OrdinalFrom(cur, s) ELSE None, FALSE, FALSE)), l))
            /\ sent' = [Lost EXCEPT ![cur] = None]
MovesTo(o, x, lands) ==
    IF o = x.mem.ordinal THEN Leaves(Retried(x, lands)) /\ sent' = Lost
    ELSE /\ Leaves(Persist(Moving(x, Anchor(SequenceFrom(cur, o), o, TRUE, FALSE)), lands))
         /\ sent' = [Lost EXCEPT ![cur] = None]
SetAnchorOrdinal(o, l1, l2) ==
    Sets /\ Presented(cur) /\ o <= Length(cur) /\ MovesTo(o, Converted(Retried(Found, l1), l2), l2)

-----------------------------------------------------------------------------
(* What the host and the manager do meanwhile.                             *)
Rest == UNCHANGED <<plan, slot, cur, loaded, mem, faults, turns, sent>>
Stored == UNION {ToSet(Ids(b)) : b \in Live}
\* Rows are numbered in the order the store is given them.
AddMessage(id) ==
    /\ id \notin Stored /\ 1 .. id - 1 \subseteq Stored
    /\ record' = [record EXCEPT ![cur] = Append(@, [id |-> id, seq |-> clock + 1])]
    /\ clock' = clock + 1
    /\ UNCHANGED log /\ Rest
Item_(kind, id) == [kind |-> kind, id |-> id, by |-> 0]
Logs(items) ==
    /\ Len(log[cur] \o items) <= plan.items
    /\ log' = [log EXCEPT ![cur] = @ \o items] /\ clock' = clock + 1
    /\ UNCHANGED record /\ Rest
WriteDown ==
    /\ ~Presented(cur)
    /\ Logs([n \in DOMAIN Ids(cur) |-> Item_("present", Ids(cur)[n])] \o <<Item_("header", 0)>>)
Present(id) == Presented(cur) /\ id \in ToSet(Ids(cur)) /\ ~InWindow(log[cur], id) /\ Logs(<<Item_("present", id)>>)
Retract(id) == Presented(cur) /\ InWindow(log[cur], id) /\ Logs(<<Item_("retract", id)>>)

Turns == turns < plan.turns /\ turns' = turns + 1 /\ UNCHANGED <<plan, log, slot, clock, faults, record>>
Gone == loaded # None /\ mem.unwritten
\* A switch the manager makes has the next operation load again; one a host
\* makes in the store is seen by its name.
SwitchBranch(b, seen) ==
    /\ b \in Live \ {cur} /\ Turns /\ cur' = b
    /\ IF seen THEN loaded' = None /\ mem' = Start ELSE UNCHANGED <<loaded, mem>>
    /\ sent' = IF seen /\ Gone THEN [sent EXCEPT ![loaded] = None] ELSE sent
Restart ==
    /\ Turns /\ loaded' = cur /\ mem' = Load(cur, slot[cur]) /\ UNCHANGED cur
    /\ sent' = IF Gone THEN [sent EXCEPT ![loaded] = None] ELSE sent
Fork(b) ==
    /\ b \in Branches \ Live /\ Cardinality(Live) < plan.branches
    /\ record' = [record EXCEPT ![b] = record[cur]] /\ log' = [log EXCEPT ![b] = log[cur]]
    /\ slot' = [slot EXCEPT ![b] = slot[cur]]
    /\ sent' = [sent EXCEPT ![b] = IF Gone THEN None ELSE sent[cur]]
    /\ UNCHANGED <<plan, clock, cur, loaded, mem, faults, turns>>

Init ==
    /\ plan \in Worlds
    /\ record = [b \in Branches |-> IF b = Main THEN <<>> ELSE None]
    /\ log = [b \in Branches |-> <<>>]
    /\ slot = [b \in Branches |-> plan.slot]
    /\ clock = 0 /\ cur = Main /\ loaded = Main /\ mem = Start
    /\ faults = 0 /\ turns = 0 /\ sent = [b \in Branches |-> None]
Next ==
    \/ \E l1 \in Lands, l2 \in Lands :
         \/ Compile(l1, l2) \/ ReadAnchor(l1, l2)
         \/ \E s \in plan.anchors : s <= clock /\ SetAnchor(s, l1)
         \/ \E o \in plan.ordinals : SetAnchorOrdinal(o, l1, l2)
    \/ WriteDown \/ Restart
    \/ \E id \in DOMAIN plan.price : AddMessage(id) \/ Present(id) \/ Retract(id)
    \/ \E b \in Branches : Fork(b) \/ (\E seen \in BOOLEAN : SwitchBranch(b, seen))
Spec == Init /\ [][Next]_vars

-----------------------------------------------------------------------------
\* The rows listed that an anchor shows: what is sent of them, in their order.
Shown(m) == {id \in ToSet(Listed(cur)) : Shows(m, id)}

\* Once no write is owed, a reload sends from where memory would: over
\* conversions, moves, switches and writes that threw, the slot holds the
\* window, and whether the anchor was moved (persistAnchor, presentedAnchor).
SlotIsMemory ==
    loaded = cur /\ ~mem.unwritten /\ slot[cur] # Newer =>
        LET m == Load(cur, slot[cur]) IN Shown(m) = Shown(mem) /\ m.moved = mem.moved

\* What a request sent, the next one sends, in one order, while no setter moved
\* the anchor, the budget held and the rows are in the window: rows presented
\* out of record order, restarts, branches and writes that threw and were made
\* again move nothing.
WhatWasSentStays ==
    \A b \in Branches :
        sent[b] # None /\ sent'[b] # None /\ sent'[b] # sent[b] /\ ~sent'[b].over
          => ToSet(sent[b].rows) \cap ToSet(sent'[b].listed) \subseteq ToSet(sent'[b].rows)

Refuses(ms, s, newest) ==
    IF SumOf(s.rows) > plan.maxTokens
    THEN Changes(ms) > plan.maxTokens \/ (\E n \in newest : Changes(ms) + plan.price[ms[n]] > plan.maxTokens)
    ELSE /\ \A id \in ToSet(ms) : Change(id) => id \in ToSet(s.rows)
         /\ \A n \in newest : ms[n] \in ToSet(s.rows)
RefusesFrom(ms, m) ==
    Refuses(ms, Selection(m, ms), {n \in Conversation(ms, FirstShown(m, ms)) : \A k \in Conversation(ms, 1) : k <= n})
\* A compile is refused only where the changes and the newest conversation
\* message, or the changes alone, pass the budget; any other sends the newest
\* message the window has, and every change, wherever the window starts.
RefusesWhatCannotFit == RefusesFrom(Listed(cur), Converted(Found, TRUE).mem)
=============================================================================
