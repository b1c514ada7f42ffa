---------------------------- MODULE MintRequests ----------------------------
(***************************************************************************)
(* What a request that compresses a chunk or merges summaries shows the    *)
(* summarizer: the head its history followed, memories of what came        *)
(* between, what no memory tells raw, then the target; and which queued    *)
(* work a selection may count on.  A row is its place in the store, a      *)
(* summary its place in the list; calls land at once.  Wording, images,    *)
(* reasoning and the recent window are left out.                           *)
(***************************************************************************)
EXTENDS Integers, Sequences, FiniteSets, FiniteSetsExt, SequencesExt

CONSTANT Worlds   \* stores at the start, and what may come

VARIABLES world,
          newest, gone,      \* rows that came; those a host removed
          records, sums,     \* closed chunks; summaries, by id
          pins, quarantine,  \* rows kept raw; chunks whose requests are refused
          live, then,        \* where the head was reset to; and was, by row
          hold,              \* a row whose compression a host holds, or 0
          tools,             \* whether the host has given its tools
          turns
vars == <<world, newest, gone, records, sums, pins, quarantine, live, then, hold, tools, turns>>

Stored == (1..newest) \ gone
Price(S) == MapThenSumSet(LAMBDA m : world.prices[m], S)
Before(m) == {x \in Stored : x < m}
Tool(m) == world.tools[m] # "none"

-----------------------------------------------------------------------------
\* The rows under a summary, and where it starts in the store, 0 if none of
\* them is left.
Leaves ==
    LET under[s \in DOMAIN sums] == IF sums[s].level = 1 THEN Range(sums[s].src)
                                    ELSE UNION {under[c] : c \in Range(sums[s].src)}
    IN  under
L1s == {s \in DOMAIN sums : sums[s].level = 1}
Parents(s) == {t \in DOMAIN sums \ L1s : s \in Range(sums[t].src)}
StartInStore(S) == IF S \cap Stored = {} THEN 0 ELSE Min(S \cap Stored)
SummaryStartInStore(s) == StartInStore(Leaves[s])
ByStart(S) == SetToSortSeq(S, LAMBDA a, b : SummaryStartInStore(a) < SummaryStartInStore(b))
Owned == UNION {Range(c) : c \in records} \cup UNION {Leaves[s] : s \in L1s}
Quarantined == UNION {Range(c) : c \in quarantine}

-----------------------------------------------------------------------------
\* The head: it ends before the row that is too much, or the call just before
\* that row, or at the first row a chunk owns behind it if that is near.
First == Min(Stored \cup {newest + 1})
HeadStart == IF live \in Stored THEN live ELSE First
AnchorHeadToCoverage(start, at) ==
    LET owned == {m \in Stored \cap Owned : m > at}
        next == Min(owned)
    IN  IF \/ at \in Owned \/ owned = {}
           \/ at # Max(Before(next)) /\ Price({m \in Before(next) : m >= start}) > 2 * world.head
        THEN at ELSE next
HeadWindowEndFrom(start) ==
    LET over == {m \in Stored : m >= start /\ Price({x \in Stored : start <= x /\ x <= m}) > world.head}
        at == Min(over)
        last == Max({x \in Stored : start <= x /\ x < at})
    IN  CASE world.head = 0 -> 0
          [] world.head # 0 /\ over = {} -> newest + 1
          [] OTHER -> AnchorHeadToCoverage(start, IF at > start /\ world.tools[last] = "use" THEN last ELSE at)
HoldBoundary ==
    CASE hold \notin Stored -> newest + 1
      [] hold \in Stored /\ world.tools[hold] = "result" /\ Before(hold) # {} -> Max(Before(hold))
      [] OTHER -> hold
\* Mutant of HeadAsOf: the head as it is now.
LiveHead(pos) == [start |-> HeadStart, end |-> Min({HeadWindowEndFrom(HeadStart), HoldBoundary})]
\* The head in force when a row was the newest: the live one, or the one from
\* the last change of topic before the row.
HeadAsOf(pos) ==
    LET start == IF pos >= HeadStart THEN HeadStart
                 ELSE Max({First} \cup {t \in world.topics \cap Stored : t <= pos})
    IN  IF pos = 0 THEN [start |-> HeadStart, end |-> HeadStart]
        ELSE [start |-> start, end |-> Min({HeadWindowEndFrom(start), HoldBoundary, pos})]

\* The summaries recalled, each the highest over no row kept raw; the rows of
\* the chunks such rows open; and the rows no request shows raw.
RecallCoverage(force) ==
    LET pinned == {s \in DOMAIN sums : Leaves[s] \cap force # {}}
        frontier == {s \in DOMAIN sums \ pinned : Parents(s) \subseteq pinned}
        opened == UNION {Leaves[s] : s \in L1s \cap pinned}
    IN  [frontier |-> frontier, opened |-> opened,
         covered |-> (UNION {Leaves[s] : s \in L1s} \ opened) \cup UNION {Leaves[s] : s \in frontier}]

-----------------------------------------------------------------------------
\* A request tells items, in order: a row raw, or the memory of a summary.
Raw(m) == <<"row", m>>
Memory(s) == <<"memory", s>>
Tells(item) == IF item[1] = "row" THEN {item[2]} ELSE Leaves[item[2]]
Place(item) == IF item[1] = "row" THEN item[2] ELSE SummaryStartInStore(item[2])
InPlace(items) == SetToSortSeq(items, LAMBDA a, b : Place(a) < Place(b))
RawRows(S) == [k \in 1..Cardinality(S) |-> Raw(SetToSortSeq(S, <)[k])]
Memories(ids) == [k \in DOMAIN ids |-> Memory(ids[k])]
ItemCost(item) == IF item[1] = "row" THEN world.prices[item[2]] ELSE world.costs[sums[item[2]].level]
Cost(items) == FoldLeft(LAMBDA n, item : n + ItemCost(item), 0, items)

\* The newest memories first, each that fits.
CapRecallPairs(ids, budget) ==
    FoldRight(LAMBDA s, kept : IF Cost(Memories(<<s>> \o kept)) > budget THEN kept ELSE <<s>> \o kept, ids, <<>>)
\* A head's rows no memory tells, and no quarantine holds.
HeadRows(head, told) == {m \in Stored \ (told \cup Quarantined) : head.start <= m /\ m < head.end}

\* What comes before a chunk when these rows are kept raw: the memories that
\* start before it, and outside the head the rows no memory tells, before the
\* head's end only those kept raw; and of all these the rows the pins add.
LayoutFrom(start, head, seen, force) ==
    LET open == Before(start) \ (seen.covered \cup Quarantined)
        in == {m \in open : head.start <= m /\ m < head.end}
        added == {m \in open : m \in seen.opened \/ (m < head.end /\ m \in force /\ m \notin in)}
    IN  [head |-> head, covered |-> seen.covered, start |-> start,
         prior |-> IF world.sourceOnly THEN <<>>
                   ELSE ByStart({s \in seen.frontier : SummaryStartInStore(s) \in 1..start-1}),
         middle |-> IF world.sourceOnly THEN {} ELSE {m \in open \ in : m >= head.end \/ m \in added},
         pinned |-> IF world.sourceOnly THEN {} ELSE added]
LayoutHistory(c, force) ==
    LET start == StartInStore(Range(c)) IN LayoutFrom(start, HeadAsOf(start), RecallCoverage(force), force)
Assemble(c, h, kept) ==
    (IF world.sourceOnly THEN <<>> ELSE RawRows(HeadRows(h.head, h.covered)))
    \o InPlace({Raw(m) : m \in h.middle} \cup {Memory(s) : s \in Range(kept)})
    \o [k \in DOMAIN c |-> Raw(c[k])]
Written(c, h, kept) ==
    [told |-> Assemble(c, h, kept), target |-> Range(c), start |-> h.start, head |-> h.head, kept |-> kept,
     covered |-> h.covered, pinned |-> h.pinned, dropped |-> UNION {Leaves[s] : s \in Range(h.prior) \ Range(kept)}]
\* The pins count where the rows they add fit the budget of the memories, and
\* all of it the model's.
PinsIfTheyFit(c, with, without) ==
    LET left == world.recall - Price(with.pinned)
        capped == CapRecallPairs(with.prior, left)
        fits == left >= 0 /\ Cost(Assemble(c, with, capped)) <= world.room
    IN  IF with.pinned = {} \/ fits THEN Written(c, with, capped)
        ELSE Written(c, without, CapRecallPairs(without.prior, world.recall))
CompressRequest(c) ==
    PinsIfTheyFit(c, LayoutHistory(c, {m \in pins \cap Stored : m < StartInStore(Range(c))}), LayoutHistory(c, {}))

\* The memories of what came before a merge's target.
MergePrior(leaves) ==
    ByStart({s \in DOMAIN sums : Parents(s) = {} /\ (s \in L1s => Leaves[s] \cap leaves = {})
                                 /\ SummaryStartInStore(s) \in 1..StartInStore(leaves)-1})
\* A merge's target one level below its sources, or the sources.
MergeTarget(ids, shrunk) ==
    LET one(s) == CASE shrunk -> <<Memory(s)>>
                    [] ~shrunk /\ s \in L1s -> RawRows(Leaves[s] \cap Stored)
                    [] OTHER -> Memories(sums[s].src)
    IN  FlattenSeq([k \in DOMAIN ids |-> one(ids[k])])
\* A merge's, memories first, half as many by each failed attempt; after a
\* refusal the target is the sources.
MergeFrom(ids, attempts, refused, leaves, head, prior) ==
    LET start == StartInStore(leaves)
        alone == attempts >= world.alone
        kept == IF alone THEN <<>> ELSE CapRecallPairs(prior, Max({world.least, world.recall \div 2^attempts}))
        told == UNION {Leaves[s] : s \in L1s \cup Range(prior)}
        middle == {m \in Before(start) \ (told \cup leaves \cup Quarantined) : m >= head.end}
    IN  [told |-> (IF alone THEN <<>> ELSE RawRows(HeadRows(head, told \cup leaves)))
                  \o Memories(kept) \o (IF alone THEN <<>> ELSE RawRows(middle))
                  \o MergeTarget(ids, refused /\ attempts > 0),
         target |-> leaves, start |-> start, head |-> head, kept |-> kept, covered |-> told, pinned |-> {},
         dropped |-> UNION {Leaves[s] : s \in Range(prior) \ Range(kept)}]
MergeRequest(ids, attempts, refused) ==
    LET leaves == UNION {Leaves[s] : s \in Range(ids)}
    IN  MergeFrom(ids, attempts, refused, leaves, HeadAsOf(StartInStore(leaves)), MergePrior(leaves))

\* The places whose prefix a request asks the provider to keep: the head's
\* end, the last memory above L1, the last memory.
MintCacheSeams(q) ==
    LET at == {k \in DOMAIN q.told : q.told[k][1] = "memory" /\ q.told[k][2] \in Range(q.kept)}
        deep == {k \in at : sums[q.told[k][2]].level > 1}
    IN  IF at = {} THEN {}
        ELSE ({Min(at) - 1} \cup (IF q.dropped # {} THEN {} ELSE {Max(at)} \cup {Max(deep \cup {0})})) \ {0}

\* After a refusal, a memory may be told by the summaries under it, if they
\* tell the same rows in order, all there.
RecallCurveLeafIds(s) ==
    LET in[x \in DOMAIN sums] ==
            LET kids == ByStart(Range(sums[x].src))
            IN  IF x \in L1s THEN sums[x].src ELSE FlattenSeq([k \in DOMAIN kids |-> in[kids[k]]])
    IN  in[s]
Curves(s) ==
    LET ids == RecallCurveLeafIds(s)
    IN  Range(ids) \subseteq Stored /\ \A k \in 1..Len(ids)-1 : ids[k] < ids[k+1]
RecallCurveVariants(q) ==
    {LET at == SelectInSeq(q.told, LAMBDA item : item = Memory(s))
         kids == ByStart(Range(sums[s].src))
     IN  [q EXCEPT !.told = SubSeq(@, 1, at - 1) \o Memories(kids) \o SubSeq(@, at + 1, Len(@))] :
     s \in {x \in Range(q.kept) \ L1s : Curves(x)}}

-----------------------------------------------------------------------------
\* Work that may go ahead: no quarantine, no hold, and the tools given if the
\* request shows a call.
Done(c) == \E s \in L1s : sums[s].src = c
HeldBack(S) == \E m \in S : m >= HoldBoundary
ShowsTools(q) == \E k \in DOMAIN q.told : q.told[k][1] = "row" /\ Tool(q.told[k][2])
MayCompress(c) ==
    /\ c \in records \ quarantine /\ ~Done(c) /\ ~HeldBack(Range(c) \cap Stored)
    /\ tools \/ ~ShowsTools(CompressRequest(c))
\* Mutant of RequestCarriesToolBlocks: from the head's start, wherever it ends.
CarriesFromHeadStart(c) ==
    LET start == StartInStore(Range(c))
        head == HeadAsOf(start)
        pinned == IF world.sourceOnly THEN {} ELSE {m \in pins \cap Stored : m < start}
        seen == RecallCoverage(pinned)
    IN  \/ \E m \in Range(c) : Tool(m)
        \/ /\ ~world.sourceOnly
           /\ \E m \in Stored \ (seen.covered \cup Quarantined) :
                /\ m >= head.start \/ m \in seen.opened \cup pinned
                /\ Tool(m) /\ m < Max({head.end, start})
\* What a count of the work reads instead, once for many chunks.
RequestCarriesToolBlocks(c) ==
    LET start == StartInStore(Range(c))
        head == HeadAsOf(start)
        from == Min({head.start, head.end})
        pinned == IF world.sourceOnly THEN {} ELSE {m \in pins \cap Stored : m < start}
        seen == RecallCoverage(pinned)
    IN  \/ \E m \in Range(c) : Tool(m)
        \/ /\ ~world.sourceOnly
           /\ \E m \in Stored \ (seen.covered \cup Quarantined) :
                /\ m >= from \/ m \in seen.opened \cup pinned
                /\ Tool(m) /\ m < Max({head.end, start})
Compressible == {m \in Stored \ pins : m < HeadStart \/ m >= HeadWindowEndFrom(HeadStart)}
CompressionWorkQueued(c) ==
    /\ c \in records /\ ~Done(c) /\ ~HeldBack(Range(c) \cap Stored) /\ c \notin quarantine
    /\ tools \/ ~RequestCarriesToolBlocks(c)
    /\ Range(c) \cap Compressible # {}
MergeGroups ==
    {<<a, b>> \in (DOMAIN sums) \X (DOMAIN sums) :
        /\ sums[a].level = sums[b].level /\ Parents(a) = {} /\ Parents(b) = {}
        /\ Leaves[a] \cap Stored # {} /\ Leaves[b] \cap Stored # {} /\ ~HeldBack((Leaves[a] \cup Leaves[b]) \cap Stored)
        /\ Max(Leaves[a] \cap Stored) < SummaryStartInStore(b)
        /\ ~\E m \in Stored : Max(Leaves[a] \cap Stored) < m /\ m < SummaryStartInStore(b)}

-----------------------------------------------------------------------------
Transition(m) == Max({t \in world.topics : t <= m} \cup {0})
Init ==
    /\ world \in Worlds
    /\ newest = world.given /\ gone = {} /\ sums = world.sums /\ records = {sums[s].src : s \in L1s}
    /\ pins = {} /\ quarantine = {} /\ live = Transition(newest) /\ then = [m \in 1..newest |-> Transition(m)]
    /\ hold = 0 /\ tools = ("tools" \notin world.trouble) /\ turns = world.turns
\* A message comes; a change of topic resets the head to it.
Arrive ==
    /\ newest < Len(world.prices) /\ newest' = newest + 1
    /\ live' = IF newest + 1 \in world.topics THEN newest + 1 ELSE live
    /\ then' = Append(then, live')
    /\ UNCHANGED <<world, gone, records, sums, pins, quarantine, hold, tools, turns>>
Close == \E c \in world.chunks \ records :
    /\ Range(c) \subseteq Compressible \ Owned
    /\ ~\E m \in Compressible \ Owned : m \notin Range(c) /\ c[1] < m /\ m < Last(c)
    /\ records' = records \cup {c}
    /\ UNCHANGED <<world, newest, gone, sums, pins, quarantine, live, then, hold, tools, turns>>
Land(level, src) ==
    /\ sums' = Append(sums, [level |-> level, src |-> src])
    /\ UNCHANGED <<world, newest, gone, records, pins, quarantine, live, then, hold, tools, turns>>
Compress == \E c \in records : MayCompress(c) /\ Land(1, c)
Attempts == {<<0, FALSE>>, <<1, TRUE>>, <<1, FALSE>>, <<2, FALSE>>}
Merge == \E ids \in MergeGroups, a \in Attempts :
    (tools \/ ~ShowsTools(MergeRequest(ids, a[1], a[2]))) /\ Land(sums[ids[1]].level + 1, ids)

\* Operators and hosts.
Turn(kind) == kind \in world.trouble /\ turns > 0 /\ turns' = turns - 1 /\ UNCHANGED <<world, newest, records, sums, then>>
Toggle(x, S) == IF x \in S THEN S \ {x} ELSE S \cup {x}
Pin == Turn("pin") /\ UNCHANGED <<gone, quarantine, live, hold, tools>> /\ \E m \in Stored : pins' = Toggle(m, pins)
Refuse ==
    /\ Turn("quarantine") /\ UNCHANGED <<gone, pins, live, hold, tools>>
    /\ \E c \in records : ~Done(c) /\ quarantine' = Toggle(c, quarantine)
RemoveRow == Turn("remove") /\ UNCHANGED <<pins, quarantine, live, hold, tools>> /\ \E m \in Stored : gone' = gone \cup {m}
Hold == Turn("hold") /\ UNCHANGED <<gone, pins, quarantine, live, tools>> /\ hold' \in (Stored \cup {0}) \ {hold}
Restart == Turn("restart") /\ UNCHANGED <<gone, pins, quarantine, hold, tools>> /\ live' = Max((world.topics \cap Stored) \cup {0})
GiveTools == Turn("tools") /\ UNCHANGED <<gone, pins, quarantine, live, hold>> /\ ~tools /\ tools' = TRUE
Next == Arrive \/ Close \/ Compress \/ Merge \/ Pin \/ Refuse \/ RemoveRow \/ Hold \/ Restart \/ GiveTools
Spec == Init /\ [][Next]_vars

-----------------------------------------------------------------------------
Compressions == {CompressRequest(c) : c \in {r \in records : ~Done(r)}}
MergesNow == {MergeRequest(ids, a[1], a[2]) : ids \in MergeGroups, a \in Attempts}
TellsOnce(q) == \A j, k \in DOMAIN q.told : j < k => Tells(q.told[j]) \cap Tells(q.told[k]) = {}
\* Nothing starts after the target, outside it, and the head is the one the
\* history followed, unless a change of topic was removed.
AsOf(q) ==
    /\ \A k \in DOMAIN q.told : Tells(q.told[k]) \subseteq q.target \/ Place(q.told[k]) \in 1..q.start-1
    /\ q.start # 0 /\ world.topics \cap gone = {} => q.head.start = Max({First, then[q.start]})
\* From the head on all is told, but for the quarantine and for memories there
\* was no room for; a target whole.
Complete(q) ==
    LET told == UNION {Tells(q.told[k]) : k \in DOMAIN q.told}
    IN  \A m \in Before(q.start) : m >= q.head.start \/ m \in q.covered => m \in told \cup Quarantined \cup q.dropped
\* Outside the target no row a memory tells or a quarantine holds is raw, and
\* what pins and memories add fits.
Withheld(q) ==
    /\ \A k \in DOMAIN q.told : q.told[k][1] = "row" => Tells(q.told[k]) \subseteq (Stored \ (q.covered \cup Quarantined)) \cup q.target
    /\ Cost(Memories(q.kept)) + Price(q.pinned) <= world.recall
InOrder(q) ==
    LET rest == {k \in DOMAIN q.told : q.told[k][1] = "memory" \/ q.told[k][2] \notin (q.head.start..q.head.end-1) \cup q.target}
    IN  \A j, k \in rest : j < k => Place(q.told[j]) < Place(q.told[k])

\* A request tells each row once, nothing the history did not have, all that
\* it had, in order; and its variants the same.
RequestIsHistory ==
    /\ \A q \in Compressions \cup MergesNow : TellsOnce(q) /\ AsOf(q) /\ Withheld(q)
    /\ ~world.sourceOnly => \A q \in Compressions \cup {MergeRequest(ids, 0, FALSE) : ids \in MergeGroups} : Complete(q)
    /\ \A q \in Compressions : InOrder(q)
    /\ \A q \in Compressions : \A v \in RecallCurveVariants(q) : TellsOnce(v) /\ InOrder(v)
            /\ UNION {Tells(v.told[k]) : k \in DOMAIN v.told} = UNION {Tells(q.told[k]) : k \in DOMAIN q.told}
\* Requests of one topic share the prefix each asks to keep.
SeamsShared == \A p, q \in Compressions :
    p.start < q.start /\ p.head = q.head /\ p.pinned = q.pinned /\ q.dropped = {} =>
        \A k \in MintCacheSeams(p) : IsPrefix(SubSeq(p.told, 1, k), q.told)
\* Work counted on is work a tick would do.
CountedIsDone == \A c \in records : CompressionWorkQueued(c) => MayCompress(c)
=============================================================================
