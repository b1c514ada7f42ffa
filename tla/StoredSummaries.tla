-------------------------- MODULE StoredSummaries --------------------------
(***************************************************************************)
(* A branch's stored summaries and chunk records as a load finds them,     *)
(* whatever wrote them: instances of this version, instances of earlier    *)
(* ones, and writes that a crash cut short.  Writers append copies;        *)
(* settleStoredSummaries decides what the copies mean, and a load writes   *)
(* back what it decided.                                                   *)
(***************************************************************************)
EXTENDS MergeRuns

CONSTANTS
  Ids,             \* the summaries' ids, in the order their copies come
  Variants,        \* Variants[k]: the copies of Ids[k] a writer leaves
  RecordLists,     \* the chunk records a writer leaves
  At,              \* the window: messages placed
  MaxCopies        \* bound: copies in one store

\* A copy and a record, as every writer leaves them.
IsCopy(c) ==
  /\ c = [id |-> c.id, level |-> c.level, src |-> c.src, range |-> c.range, text |-> c.text,
          parentId |-> c.parentId, mergedInto |-> c.mergedInto]
  /\ c.id # None /\ c.level \in Nat /\ c.level >= 1
IsRecord(r) == r = [f \in DOMAIN r |-> r[f]] /\ {"done", "sum"} \subseteq DOMAIN r

ASSUME WritersAssumption ==
  /\ \A k \in DOMAIN Ids : \A c \in Variants[k] : IsCopy(c)
  /\ \A list \in RecordLists : \A k \in DOMAIN list : IsRecord(list[k])

VARIABLES loaded, records

vars == <<loaded, records>>

Turn(c) == CHOOSE k \in DOMAIN Ids : Ids[k] = c.id

Init == loaded = <<>> /\ records \in RecordLists

\* A writer's copy lands in the list.  Copies of different ids read the same
\* in any order, so the ids come in one; one id's copies come in every order.
Write(c) ==
  /\ Len(loaded) < MaxCopies
  /\ loaded # <<>> => Turn(loaded[Len(loaded)]) <= Turn(c)
  /\ loaded' = Append(loaded, c)
  /\ UNCHANGED records

\* What loadPersistedState writes: the settled list in the store's place, then
\* the released records, unless a crash comes between.
Repair ==
  /\ loaded' = SettledList(loaded, records)
  /\ records' \in {records, Released(records, Settled(loaded, records))}

Next == (\E k \in DOMAIN Ids : \E c \in Variants[k] : Write(c)) \/ Repair

Spec == Init /\ [][Next]_vars

----------------------------------------------------------------------------
\* The tree every reader takes from a load: a summary that a kept one above
\* the first level lists has that one as its parent, under both of its
\* pointers, and sits below it; so no summary's messages are covered twice
\* (settle-summaries.ts 159-182).
OneParent ==
  LET settled == Settled(loaded, records)
  IN \A l \in settled : l.level # 1 =>
       \A id \in Names(l) : \E c \in settled :
          /\ c.id = id
          /\ c.level < l.level
          /\ c.mergedInto = l.id
          /\ c.parentId \in {None, l.id}

\* A load that finds what a load wrote changes nothing, so a restart repairs
\* once and not at every start (settlingRepaired); one that finds what a
\* crash left of a load's writes finishes them.
SettlesOnce ==
  LET settled == Settled(loaded, records)
      list == SettledList(loaded, records)
      kept == Released(records, settled)
  IN \A found \in {records, kept} :
       /\ SettledList(list, found) = list
       /\ Released(found, Settled(list, found)) = kept

\* A merge check's group on a settled list, and the merge written of it.
Group(list, level) == MergeCandidates(Unmerged(list, level, {}), At, {}, {}, level)
Merge(id, group) ==
  [id |-> id, level |-> group[1].level + 1,
   src |-> [k \in DOMAIN group |-> group[k].id],
   range |-> <<group[1].range[1], group[Len(group)].range[2]>>,
   text |-> TRUE, parentId |-> None, mergedInto |-> None]
\* The list once `merges` were pushed and each source's pointer written as
\* `pointed` says, None where a crash came first.
Merged(list, group, merges, pointed) ==
  LET at(c) == {k \in DOMAIN group : group[k].id = c.id}
  IN [k \in DOMAIN list |->
        IF at(list[k]) = {} THEN list[k]
        ELSE LET p == pointed[CHOOSE n \in at(list[k]) : TRUE]
             IN IF p = None THEN list[k] ELSE [list[k] EXCEPT !.mergedInto = p]] \o merges

\* After `merges` of a group, the settled store holds those of them in
\* `standing`, each the parent of the whole group, and all it held before.
Leaves(before, after, group, standing) ==
  LET sources == {group[k].id : k \in DOMAIN group}
  IN /\ {c.id : c \in after} = {c.id : c \in before} \cup standing
     /\ \A c \in before : c.id \notin sources => c \in after
     /\ \A c \in after : c.id \in sources =>
          ParentIn(c) = IF standing = {} THEN None ELSE CHOOSE m \in standing : TRUE
\* However far the pointers `names` of a settled group were written, what
\* stands of `merges` is what `standing` makes of the pointers.
MergesSettle(merges(_), names, standing(_, _)) ==
  LET before == Settled(loaded, records)
      list == Listed(loaded, before)
      found == Released(records, before)
      settles(group) ==
        group # <<>> =>
          \A pointed \in [DOMAIN group -> names \cup {None}] :
            Leaves(before, Settled(Merged(list, group, merges(group), pointed), found),
                   group, standing(group, pointed))
  IN \A level \in {1, 2} : settles(Group(list, level))

\* A crash between a merge's summary and the last of its pointers costs
\* nothing: the next load finds the merge's sources by what it lists.
MergeSurvives ==
  MergesSettle(LAMBDA group : <<Merge("merge", group)>>, {"merge"}, LAMBDA group, pointed : {"merge"})

\* Where two instances each merged one run, the merge every pointer names
\* stands and the other is dropped; where a crash split the pointers, both
\* are, and the run merges again (settle-summaries.ts 166-174).
RivalMergesSettle ==
  MergesSettle(LAMBDA group : <<Merge("merge", group), Merge("rival", group)>>, {"merge", "rival"},
               LAMBDA group, pointed :
                 {m \in {"merge", "rival"} : \A k \in DOMAIN group : pointed[k] = m})

\* A load after a crash anywhere in one merge, or in two of one run, settles
\* the store to whole merges.
CutMergesSettle == MergeSurvives /\ RivalMergesSettle
=============================================================================
