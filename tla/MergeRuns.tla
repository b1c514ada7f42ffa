----------------------------- MODULE MergeRuns -----------------------------
(***************************************************************************)
(* Which summaries merge next: src/strategies/merge-runs.ts.  The          *)
(* summaries of one level that have no parent and stand side by side in    *)
(* the message order form runs, and each run is cut into the groups that   *)
(* become summaries one level up.  `at` places messages: a function from   *)
(* message ids to positions.                                               *)
(***************************************************************************)
EXTENDS SettleSummaries

CONSTANTS
  Threshold,     \* mergeThreshold: the members of a full group
  SpanBase       \* mergeMaxSourceSpanMessages

ASSUME MergeConfig == Threshold \in Nat /\ Threshold >= 2 /\ SpanBase \in Nat

Lower(a, b) == IF a <= b THEN a ELSE b
Higher(a, b) == IF a <= b THEN b ELSE a

\* placeOf: the positions a summary's range spans, either way round.
IsPlaced(c, at) == c.range # <<>> /\ c.range[1] \in DOMAIN at /\ c.range[2] \in DOMAIN at
First(c, at) == Lower(at[c.range[1]], at[c.range[2]])
Last(c, at) == Higher(at[c.range[1]], at[c.range[2]])

\* runsAtLevel's candidates.
Unmerged(sums, level, queued) ==
  SelectSeq(sums, LAMBDA c : c.level = level /\ ParentIn(c) = None /\ c.id \notin queued)

SpanLimit(level) == SpanBase * Threshold ^ Higher(0, level - 3)
Mergeable(c, at, held, level) ==
  IsPlaced(c, at) /\ c.id \notin held /\ Last(c, at) - First(c, at) <= SpanLimit(level)

\* In order of their first positions, those that tie as they are listed.
ByFirst(list, at) ==
  LET ahead(j, k) == \/ First(list[j], at) < First(list[k], at)
                     \/ First(list[j], at) = First(list[k], at) /\ j <= k
      rank(k) == Cardinality({j \in DOMAIN list : ahead(j, k)})
  IN [n \in DOMAIN list |-> list[CHOOSE k \in DOMAIN list : rank(k) = n]]

\* Maximal stretches lo..hi of `list` in which each member starts right
\* after the one before it.
Joined(list, at, k) == First(list[k], at) = Last(list[k - 1], at) + 1
Stretches(list, at) ==
  {p \in (DOMAIN list) \X (DOMAIN list) :
     /\ p[1] <= p[2]
     /\ \A k \in p[1] + 1..p[2] : Joined(list, at, k)
     /\ p[1] = 1 \/ ~Joined(list, at, p[1])
     /\ p[2] = Len(list) \/ ~Joined(list, at, p[2] + 1)}

\* The runs of a level, oldest first.  A level's last run is the newest,
\* which still grows, unless a held summary stands after it; a run waits for
\* a pending fill that lands between its end and what stands next to it.
RunsAmong(live, stretches, holes, at, fills, level) ==
  LET fillsAfter(end, bound) ==
        \E f \in fills : /\ f.level <= level /\ f.last > end
                         /\ \A n \in bound : f.first < n
      isNewest(p, end) == p[2] = Len(live) /\ \A c \in holes : Last(c, at) <= end
      next(p) == IF p[2] = Len(live) THEN {} ELSE {First(live[p[2] + 1], at)}
      \* What the run could grow up to.
      nearest(p, end) == next(p) \cup {First(c, at) : c \in {h \in holes : First(h, at) > end}}
      run(p, end) ==
        [members |-> SubSeq(live, p[1], p[2]), newest |-> isNewest(p, end),
         waiting |-> ~isNewest(p, end) /\ fillsAfter(end, nearest(p, end))]
      nth(n) == CHOOSE p \in stretches : Cardinality({q \in stretches : q[1] <= p[1]}) = n
      runOf(p) == run(p, Last(live[p[2]], at))
  IN [n \in 1..Cardinality(stretches) |-> runOf(nth(n))]
RunsOf(list, at, held, fills, level) ==
  LET holes == {c \in {list[k] : k \in DOMAIN list} : IsPlaced(c, at) /\ c.id \in held}
      among(live) == RunsAmong(live, Stretches(live, at), holes, at, fills, level)
  IN among(ByFirst(SelectSeq(list, LAMBDA c : Mergeable(c, at, held, level)), at))

\* interiorGroupSize and newestGroupSize: the next group's size, of n members
\* left; 0 while a run that may grow holds less than a full group.  Neither
\* leaves one member alone.
InteriorGroupSize(n) ==
  LET full == (n + Threshold - 1) \div Threshold
      groups == IF n < 2 * full THEN n \div 2 ELSE full
  IN IF n <= Threshold THEN n ELSE (n + groups - 1) \div groups
NewestGroupSize(n) ==
  CASE n < Threshold -> 0
    [] n >= Threshold /\ n - Threshold # 1 -> Threshold
    [] n - Threshold = 1 -> IF Threshold >= 3 THEN Threshold - 1 ELSE n

\* runGroups: the sizes a run of n members is cut into, in order.
GroupSize(mayGrow, n) ==
  CASE mayGrow -> NewestGroupSize(n)
    [] ~mayGrow /\ n >= 2 -> InteriorGroupSize(n)
    [] ~mayGrow /\ n < 2 -> 0
GroupSizes(mayGrow, n) ==
  LET sizes[k \in 0..n] ==
        IF GroupSize(mayGrow, k) = 0 THEN <<>>
        ELSE <<GroupSize(mayGrow, k)>> \o sizes[k - GroupSize(mayGrow, k)]
  IN sizes[n]
MayGrow(run) == run.newest \/ run.waiting
\* The group a merge check takes from a run: its first, if it has one.
FirstGroup(run) ==
  SubSeq(run.members, 1, GroupSize(MayGrow(run), Len(run.members)))

\* contiguousMergeCandidates: the first group of the first run that has one.
FirstReady(runs) ==
  LET ready == {n \in DOMAIN runs : FirstGroup(runs[n]) # <<>>}
  IN IF ready = {} THEN <<>> ELSE FirstGroup(runs[FirstIn(ready)])
MergeCandidates(list, at, held, fills, level) == FirstReady(RunsOf(list, at, held, fills, level))

\* strandedIn: the summaries no merge will take.
Stranded(runs) ==
  {runs[n].members[1].id : n \in {m \in DOMAIN runs : Len(runs[m].members) = 1 /\ ~MayGrow(runs[m])}}

\* queuedMergeRuns: a queued merge whose sources are all there, one level
\* down, without parents, not held, and side by side in their order.
QueuedMergeRuns(merge, sums, at, held) ==
  /\ Len(merge.src) >= 2
  /\ \A k \in DOMAIN merge.src : \E c \in sums :
       /\ c.id = merge.src[k]
       /\ c.id \notin held
       /\ c.level = merge.level - 1
       /\ ParentIn(c) = None
       /\ IsPlaced(c, at)
       /\ at[c.range[1]] <= at[c.range[2]]
       /\ k > 1 => \E d \in sums : d.id = merge.src[k - 1]
                                   /\ at[c.range[1]] = at[d.range[2]] + 1

\* mergeGroupProblem: what makes a group no merge of the level, where
\* something does (adjacentRuns gives one run).
MergeGroupHolds(level, sources, at) ==
  LET line == ByFirst(sources, at)
  IN /\ Len(sources) >= 2
     /\ \A k \in DOMAIN sources : sources[k].level = level - 1 /\ IsPlaced(sources[k], at)
     /\ \A k \in 2..Len(line) : Joined(line, at, k)
=============================================================================
