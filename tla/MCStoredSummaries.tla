------------------------- MODULE MCStoredSummaries -------------------------
(***************************************************************************)
(* The summaries of a branch, in parts that share no state, a part to a    *)
(* behaviour: two first-level summaries, two merges of them and one merge  *)
(* above, in every combination of the copies that writes of several        *)
(* versions and crashes leave; the forests kv-unified solves on; the       *)
(* repair of stores that cross; and the requests summaries are written by. *)
(* The other parts idle.                                                   *)
(***************************************************************************)
EXTENDS StoredSummaries
LOCAL INSTANCE FiniteSetsExt
Q == INSTANCE SequencesExt

CONSTANT Refused  \* what a forest refused at its build is

VARIABLES part, world, chunks, summaries, zones, forest, source, edits,
          store, recipe, sums, recs, res, phase, work, pend, tried, passes, touched, moved, gap,
          newest, gone, written, pins, quarantine, live, then, hold, tools, turns
forestOnly == <<chunks, summaries, zones, forest, source, edits>>
repairOnly == <<store, recipe, recs, res, phase, work, pend, tried, passes, touched, moved, gap>>
mintOnly == <<newest, gone, written, pins, quarantine, live, then, hold, tools, turns>>
partVars == <<part, vars, world, sums, forestOnly, repairOnly, mintOnly>>

\* Whole copies; a pointer None is absent.
L1(id, m, own, merged) ==
  [id |-> id, level |-> 1, src |-> <<m>>, range |-> <<m, m>>, text |-> TRUE,
   parentId |-> own, mergedInto |-> merged]
Above(id, level, src, range, merged) ==
  [id |-> id, level |-> level, src |-> src, range |-> range, text |-> TRUE,
   parentId |-> None, mergedInto |-> merged]

MCIds == <<"a", "b", "p", "q", "r">>
MCAt == [m \in 1..2 |-> m]
MCVariants ==
  << {L1("a", 1, None, None), L1("a", 1, None, "p"), L1("a", 1, "q", "p"), L1("a", 1, None, "r"),
      [L1("a", 1, None, None) EXCEPT !.src = <<>>, !.range = <<>>],
      [L1("a", 1, None, "p") EXCEPT !.text = FALSE]},
     {L1("b", 2, None, None), L1("b", 2, None, "p"), L1("b", 2, None, "q")},
     {Above("p", 2, <<"a", "b">>, <<1, 2>>, None), Above("p", 2, <<"a">>, <<1, 1>>, "r"),
      Above("p", 2, <<"r">>, <<1, 2>>, None),
      Above("p", 2, <<>>, <<>>, None)},
     {Above("q", 2, <<"a", "b">>, <<1, 2>>, None), Above("q", 2, <<"b">>, <<2, 2>>, None)},
     {Above("r", 3, <<"p">>, <<1, 2>>, None), Above("r", 3, <<"p", "q">>, <<1, 2>>, None),
      Above("r", 2, <<"p">>, <<1, 2>>, None)} >>
MCRecordLists == {<<>>, <<[src |-> <<1>>, done |-> TRUE, sum |-> "a"]>>}

\* Four rows, the last in the tail, two L1s and a merge to land; rows operators
\* hold; and links one side does not list, an L1 with a gap, in each recipe.
Row(id, raw, l1) == [id |-> id, raw |-> raw, carried |-> 0, l1 |-> l1, pinned |-> FALSE, locked |-> FALSE,
                     pin |-> None, most |-> None]
Entry(level, cost, parent, from) == [level |-> level, cost |-> cost, parent |-> parent, from |-> from]
Grove == [mode |-> "strict", edits |-> 4, wall |-> 5, pins |-> {}, held |-> {},
          chunks |-> <<Row(1, 2, None), Row(2, 2, "a"), Row(3, 2, "b"), Row(4, 3, None)>>, coming |-> <<Row(5, 1, None)>>,
          zones |-> [head |-> {}, tail |-> {4}],
          summaries |-> [a |-> Entry(1, 1, None, {1, 2}), b |-> Entry(1, 1, None, {3, 4})],
          later |-> [c |-> Entry(2, 1, None, {"a", "b"})]]
Held == [Grove EXCEPT !.pins = {1, 2}, !.held = {2, 3}, !.coming = <<>>, !.wall = 4, !.zones.tail = {},
          !.chunks = <<Row(1, 2, "a"), Row(2, 2, "a"), Row(3, 2, "b")>>]
Broken == [Grove EXCEPT !.edits = 3, !.zones.tail = {}, !.later = [d |-> Entry(1, 1, None, {4})],
            !.chunks = <<Row(1, 2, "b"), Row(2, 2, "a"), Row(3, 2, "b"), Row(4, 2, "a")>>,
            !.summaries = [a |-> Entry(1, 1, "c", {2}), b |-> Entry(1, 1, "c", {1, 3}), c |-> Entry(2, 1, None, {"b"})]]
MCGroves == {Grove, Held} \cup {[Broken EXCEPT !.mode = mode] : mode \in {"strict", "treeify", "preserve"}}
F == INSTANCE CanonicalForest WITH Worlds <- MCGroves

\* Five rows dealt to three or four L1s, one at most to none, so that some
\* summary has a hole; two merges of them, and one above both; in each recipe.
Dealt == <<"a", "b", "c", "d">>
Used(own) == Q!Range(own) \ {None}
RowsOf(own, these) == {m \in 1..5 : own[m] \in these}
Owns == {own \in [1..5 -> Q!Range(Dealt) \cup {None}] :
            /\ Cardinality(RowsOf(own, {None})) <= 1 /\ Used(own) \in {{"a", "b", "c"}, Q!Range(Dealt)}
            /\ \A k, n \in DOMAIN Dealt : k < n /\ Dealt[n] \in Used(own) => Min(RowsOf(own, {Dealt[k]})) < Min(RowsOf(own, {Dealt[n]}))}
Under(up, x) == {l \in DOMAIN up : up[l] = x}
Merges(own) == {up \in [Used(own) -> {"p", "q", None}] :
                   /\ \A x \in {"p", "q"} : Cardinality(Under(up, x)) # 1
                   /\ Under(up, "q") # {} => \E l \in Under(up, "p") : l \in {"a", "b"}}
Holed(own, up) == \E these \in {{l} : l \in Used(own)} \cup {Under(up, x) : x \in {"p", "q"}} :
    LET at == RowsOf(own, these) IN at # {} /\ Max(at) - Min(at) + 1 # Cardinality(at)
InOrder(these) == Q!SetToSortSeq(these, <)
CrossedStore(own, up, top) ==
    LET l1 == SelectSeq(Dealt, LAMBDA x : x \in Used(own))
        of(x) == InOrder(RowsOf(own, {x}))
        merges == SelectSeq(<<"p", "q">>, LAMBDA x : Under(up, x) # {})
        bare == InOrder(RowsOf(own, {None}))
        above == top /\ Len(merges) = 2
        ends(these) == LET at == RowsOf(own, these) IN <<Min(at), Max(at)>>
    IN  [sums |-> [k \in DOMAIN l1 |-> [L1(l1[k], 0, None, up[l1[k]]) EXCEPT !.src = of(l1[k]), !.range = Ends(of(l1[k]))]]
                  \o [k \in DOMAIN merges |-> Above(merges[k], 2, SelectSeq(l1, LAMBDA l : up[l] = merges[k]), ends(Under(up, merges[k])),
                                                    IF above THEN "r" ELSE None)]
                  \o (IF above THEN <<Above("r", 3, merges, ends(Under(up, "p") \cup Under(up, "q")), None)>> ELSE <<>>),
         recs |-> [k \in DOMAIN l1 |-> [src |-> of(l1[k]), done |-> TRUE, sum |-> l1[k]]]
                  \o [k \in DOMAIN bare |-> [src |-> <<bare[k]>>, done |-> FALSE, sum |-> None]],
         res |-> [m \in {2, 4} |-> 3]]
Recipe(compact, head, limit) == [compact |-> compact, head |-> head, limit |-> limit]
R == INSTANCE TopologyRepair WITH
       Stores <- {CrossedStore(d[1], d[2], d[3]) : d \in UNION {
                   {<<own, up, top>> : up \in {u \in Merges(own) : Holed(own, u)}, top \in BOOLEAN} : own \in Owns}},
       Recipes <- {Recipe(FALSE, "none", 0), Recipe(TRUE, "none", 0), Recipe(FALSE, "moved", 3), Recipe(TRUE, "all", 5)},
       MaxPasses <- 32

\* Rows pinned and let go, removed, quarantined or held; summaries merged
\* already; little room to recall, or for what pins add; topics and a restart;
\* calls, and no head; only the target shown.
Sum(level, src) == [level |-> level, src |-> src]
Plain == [prices |-> <<1, 1, 1, 1, 1>>, tools |-> [m \in 1..6 |-> "none"], topics |-> {}, given |-> 4,
          chunks |-> {<<2>>, <<3>>, <<2, 4>>, <<4>>}, sums |-> <<>>,
          head |-> 1, recall |-> 9, room |-> 20, costs |-> <<1, 1, 1>>, sourceOnly |-> FALSE,
          alone |-> 2, least |-> 1, trouble |-> {"pin", "quarantine", "remove"}, turns |-> 2]
MergedBefore == [Plain EXCEPT !.prices = <<1, 1, 1, 1, 1, 1>>, !.given = 6, !.chunks = {<<6>>}, !.trouble = {"pin", "remove"},
                        !.sums = <<Sum(1, <<2>>), Sum(1, <<3>>), Sum(1, <<4>>), Sum(1, <<5>>), Sum(2, <<1, 2>>), Sum(2, <<3, 4>>)>>]
Calls == [Plain EXCEPT !.tools = <<"use", "result", "none", "use", "result", "none">>, !.trouble = {"tools", "hold", "pin"},
                       !.turns = 3, !.chunks = {<<1, 2>>, <<3>>, <<4, 5>>}]
M == INSTANCE MintRequests WITH records <- written, Worlds <-
    {Plain, MergedBefore, [Plain EXCEPT !.recall = 1, !.trouble = {"pin"}],
     [Plain EXCEPT !.recall = 2, !.room = 3, !.trouble = {"pin"}, !.turns = 3, !.chunks = {<<2>>, <<3>>, <<4>>}],
     [Plain EXCEPT !.topics = {3, 5}, !.given = 2, !.chunks = {<<2>>, <<3>>, <<4>>, <<5>>}, !.trouble = {"restart", "hold", "remove"}],
     Calls, [Calls EXCEPT !.head = 0, !.topics = {3}], [Calls EXCEPT !.sourceOnly = TRUE]}

StoredIdle == loaded = <<>> /\ records = <<>>
ForestIdle == chunks = 0 /\ summaries = 0 /\ zones = 0 /\ forest = 0 /\ source = 0 /\ edits = 0
RepairIdle ==
    /\ store = 0 /\ recipe = 0 /\ recs = 0 /\ res = 0 /\ phase = 0 /\ work = 0 /\ pend = 0 /\ tried = 0
    /\ passes = 0 /\ touched = 0 /\ moved = 0 /\ gap = 0
MintIdle ==
    /\ newest = 0 /\ gone = 0 /\ written = 0 /\ pins = 0
    /\ quarantine = 0 /\ live = 0 /\ then = 0 /\ hold = 0 /\ tools = 0 /\ turns = 0
PartsInit ==
    \/ part = "stored" /\ Init /\ world = 0 /\ sums = 0 /\ ForestIdle /\ RepairIdle /\ MintIdle
    \/ part = "forest" /\ F!Init /\ sums = 0 /\ StoredIdle /\ RepairIdle /\ MintIdle
    \/ part = "repair" /\ R!Init /\ world = 0 /\ StoredIdle /\ ForestIdle /\ MintIdle
    \/ part = "mints" /\ M!Init /\ StoredIdle /\ ForestIdle /\ RepairIdle
Stored  == part = "stored" /\ Next /\ UNCHANGED <<part, world, sums, forestOnly, repairOnly, mintOnly>>
Forests == part = "forest" /\ F!Next /\ UNCHANGED <<part, vars, sums, repairOnly, mintOnly>>
Mend    == part = "repair" /\ R!Next /\ UNCHANGED <<part, vars, world, forestOnly, mintOnly>>
Mints   == part = "mints" /\ M!Next /\ UNCHANGED <<part, vars, forestOnly, repairOnly>>
PartsNext == Stored \/ Forests \/ Mend \/ Mints
PartsSpec == PartsInit /\ [][PartsNext]_partVars

\* A forest derived from the last solve's, its entries edited in place since,
\* is the one a full build gives; one without a conflict has a cheapest legal
\* cut, which minimumTokens gives; the enumerations give the legal cuts; and
\* no summary that lands makes a conflict (CanonicalForest).
CutsAreLegal == part = "forest" => F!DerivedIsBuilt /\ F!CutsAreLegal /\ F!ConflictsLift
\* A request that writes a summary tells the history it followed, each row
\* once; requests of one topic share what each asks to keep; and work that is
\* counted on is work that may go ahead (MintRequests).
MintsTellHistory == part = "mints" => M!RequestIsHistory /\ M!SeamsShared /\ M!CountedIsDone
\* A repair leaves nothing crossed, nothing a load would repair in turn, and no
\* row under a summary that did not tell it, but those it counts (TopologyRepair).
RepairUncrosses == part = "repair" => R!RepairUncrosses /\ R!RepairKeepsProse
=============================================================================
