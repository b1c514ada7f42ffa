-------------------------- MODULE MCStrategyParts --------------------------
(* Parts of the strategies that share no state, a part to a behaviour: the *)
(* ladder of requests a chunk is compressed by, the hierarchical selection *)
(* of what is sent, the pairing of tool calls in it, the record of what a  *)
(* branch sent, by which signed thinking is kept, and the tree of          *)
(* summaries that instances of a branch write.                             *)
EXTENDS RequestLadder, TLC
CONSTANTS A, B, I, J, main, b1, h1, h2

VARIABLES part, plan, turns, record, sent, entries, win, recs, sums, pins, streams, minted, now, edits,
          items, disk, alike, mem, falls

selectVars == <<win, recs, sums, pins>>
bindingVars == <<streams, minted, now, edits>>
treeVars == <<items, disk, alike, mem, falls>>
partVars == <<part, plan, turns, record, sent, vars, entries, selectVars, bindingVars, treeVars>>

\* Every rung and answer, with a crash; two siblings, of one family and of
\* two; shapes that change, a ledger that is checkpointed, a first release's
\* record.
Plain == [families |-> {"f"}, shape |-> [i \in {A, B} |-> "f"], asking |-> {A}, rungs |-> {},
          answers |-> {"refusal"}, cap |-> 3, checkpoint |-> 9, active |-> 9, legacy |-> {},
          maxCrashes |-> 0, maxClears |-> 0, maxShifts |-> 0, maxLeaves |-> 0]
Whole == [Plain EXCEPT !.rungs = {"hoist", "expand", "source-only", "source-only-hoist", "split"},
          !.answers = {"refusal", "incomplete", "tool-use", "empty", "rejected"}, !.maxCrashes = 1]
Together == [Plain EXCEPT !.asking = {A, B}, !.rungs = {"source-only"}, !.maxCrashes = 1, !.maxClears = 1, !.maxLeaves = 1]
Apart == [Together EXCEPT !.maxLeaves = 0, !.families = {"f", "g"}, !.shape = [i \in {A, B} |-> IF i = A THEN "f" ELSE "g"]]
Shifting == [Plain EXCEPT !.families = {"f", "g", "h"}, !.cap = 2, !.checkpoint = 3, !.maxShifts = 2,
             !.maxCrashes = 1, !.maxClears = 1]
Old == [Shifting EXCEPT !.legacy = {"h"}, !.active = 2, !.cap = 3]
MCWorlds == {Whole, Together, Apart, Shifting, Old}

\* Ten rows; calls whose results come late, under holds; a budget that is
\* soon spent; and pins, resets and holds with a change among the rows.
RowsAre(kinds) == [n \in DOMAIN kinds |-> [kind |-> kinds[n], price |-> 1]]
Long == [rows |-> RowsAre([n \in 1..10 |-> "text"]), pairs |-> {}, head |-> 1, tails |-> {1, 3}, budget |-> 20, grace |-> 20,
         levels |-> <<9, 9, 9>>, tokens |-> <<1, 1, 1>>, label |-> 0, depth |-> 3, positioned |-> TRUE, cap |-> 0,
         resets |-> FALSE, holds |-> FALSE, pins |-> FALSE, turns |-> 1]
Calls == [Long EXCEPT !.rows = RowsAre(<<"text", "call", "text", "result", "text", "result", "text">>), !.pairs = {<<2, 4>>, <<2, 6>>},
                      !.depth = 2, !.holds = TRUE, !.tails = {1, 2}]
Tight == [Long EXCEPT !.rows = [RowsAre([n \in 1..8 |-> "text"]) EXCEPT ![3].price = 2], !.budget = 6, !.grace = 7,
                      !.levels = <<1, 1, 1>>, !.tokens = <<1, 1, 2>>, !.depth = 2, !.tails = {1, 2}]
Operated == [Long EXCEPT !.rows = RowsAre(<<"text", "change", "text", "text", "text">>), !.depth = 2, !.tails = {2}, !.turns = 2,
                         !.resets = TRUE, !.holds = TRUE, !.pins = TRUE]
H == INSTANCE HierarchicalSelect WITH Worlds <- {Long, Calls, Tight, Operated}, MinRows <- 2

\* Calls, results, answers to several calls, and messages that mix them.
Text == [kind |-> "text", id |-> 0, own |-> FALSE]
Use(id) == [kind |-> "use", id |-> id, own |-> FALSE]
Result(id) == [kind |-> "result", id |-> id, own |-> TRUE]
P == INSTANCE ToolPairing WITH
       LookAhead <- 1, MaxEntries <- 4,
       Messages <- [role : {"agent"}, blocks : {<<Result(1), Text>>, <<Text>>, <<Use(1)>>, <<Text, Use(2)>>, <<Use(1), Use(2)>>,
                                                <<Use(1), Result(1), Text>>, <<Use(1), Result(1), Use(2)>>,
                                                <<Use(1), Result(1), Use(2), Result(2)>>}]
                     \cup [role : {"user"}, blocks : {<<Result(1)>>, <<Result(2), Result(1)>>, <<Result(2), Text>>}]

\* A few rows and compiles: rows edited and the head changed; others' rows,
\* and the summaries of either; the drop control; failing reads and writes;
\* injections, and a fork.
Base == [heads |-> {h1}, drops |-> {FALSE}, folds |-> {0}, injects |-> {FALSE}, who |-> {"user"}, fails |-> FALSE,
         rows |-> 4, compiles |-> 2, edits |-> 0, branches |-> 1]
T == INSTANCE ThinkingBinding WITH
       Branches <- {main, b1}, Main <- main,
       Worlds <- {[Base EXCEPT !.heads = {h1, h2}, !.edits = 1, !.rows = 3], Base,
                  [Base EXCEPT !.folds = {0, 1}, !.edits = 1, !.who = {"user", "other"}, !.rows = 3],
                  [Base EXCEPT !.drops = {TRUE, FALSE}, !.compiles = 3, !.rows = 3],
                  [Base EXCEPT !.fails = TRUE, !.compiles = 3, !.rows = 3],
                  [Base EXCEPT !.injects = {TRUE, FALSE}, !.branches = 2, !.rows = 3]}

\* Two instances that share a store, or one with two crashes, and rows of
\* which the first fills a chunk and the others fill one by two.
S == INSTANCE SummaryTree WITH
       Inst <- {I, J}, Rows <- 1..3, Tokens <- <<2, 1, 1>>, ChunkTokens <- 2, ChunkRows <- 1, Threshold <- 2, SpanBase <- 10,
       MaxItems <- 4, MaxSummaries <- 4, MaxCrashes <- 2, CrashShared <- FALSE, crashes <- falls
Instances == Permutations({I, J})

LadderIdle == Init /\ world = Whole
SelectIdle == win = 0 /\ recs = 0 /\ sums = 0 /\ pins = 0
BindingIdle == streams = 0 /\ minted = 0 /\ now = 0 /\ edits = 0
NoPlan == /\ plan = 0 /\ turns = 0 /\ record = 0 /\ sent = 0
PartsInit ==
    /\ S!Init
    /\ \/ part = "ladder" /\ Init /\ entries = 0 /\ NoPlan /\ SelectIdle /\ BindingIdle
       \/ part = "select" /\ H!Init /\ entries = 0 /\ record = 0 /\ LadderIdle /\ BindingIdle
       \/ part = "pairing" /\ P!Init /\ NoPlan /\ LadderIdle /\ SelectIdle /\ BindingIdle
       \/ part = "binding" /\ T!Init /\ entries = 0 /\ sent = 0 /\ LadderIdle /\ SelectIdle
       \/ part = "tree" /\ entries = 0 /\ NoPlan /\ LadderIdle /\ SelectIdle /\ BindingIdle

Ladder  == part = "ladder" /\ Next /\ UNCHANGED <<part, plan, turns, record, sent, entries, selectVars, bindingVars, treeVars>>
Select  == part = "select" /\ H!Next /\ UNCHANGED <<part, record, entries, vars, bindingVars, treeVars>>
Pairing == part = "pairing" /\ P!Next /\ UNCHANGED <<part, plan, turns, record, sent, vars, selectVars, bindingVars, treeVars>>
Binding == part = "binding" /\ T!Next /\ UNCHANGED <<part, sent, entries, vars, selectVars, treeVars>>
Tree    == part = "tree" /\ S!Next /\ UNCHANGED <<part, plan, turns, record, sent, entries, vars, selectVars, bindingVars>>
PartsNext == Ladder \/ Select \/ Pairing \/ Binding \/ Tree
PartsSpec == PartsInit /\ [][PartsNext]_partVars

\* No row is told twice: raw, in a summary, or in two; and a turn is refused
\* only where its rows do not fit (HierarchicalSelect).
RowsTold == part = "select" => H!ToldOnce /\ H!RefusedForBudget
\* Every call sent has its result next, every result its call before it (ToolPairing).
RequestPairs == part = "pairing" => P!RequestPairs /\ P!DisplacedIsSent
\* Thinking sent goes after the very messages it was minted after (ThinkingBinding).
SentWhereMinted == part = "binding" => T!SentWhereMinted
\* However calls and crashes interleave, no row is under two summaries and no
\* summary under two merges (SummaryTree).
FoldedOnce == part = "tree" => S!SummarisedOnce /\ S!MergedOnce
\* An instance that has looked at the window folds no row out of it (SummaryTree).
LookedUnfolds == part = "tree" => S!LookedUnfolds
\* In a store one instance uses, what counts as compressed is under a summary
\* of those very rows (SummaryTree).
AloneDoneIsSummarised == part = "tree" => S!AloneDoneIsSummarised
\* No merge is refused for its sources' places once it goes to its call (SummaryTree).
NeverRefused == S!NeverRefused
=============================================================================
