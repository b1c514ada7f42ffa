-------------------------- MODULE SettleSummaries --------------------------
(***************************************************************************)
(* What a store's list of summaries means: settleStoredSummaries of        *)
(* src/strategies/settle-summaries.ts, which every load and every take-up  *)
(* of the store runs.  A store may hold several copies of one summary,     *)
(* copies whose text or sources can't be read, parents that name missing   *)
(* summaries, and pointers a crash or another instance left behind; what   *)
(* is kept is a forest, in which each summary has one parent at most.      *)
(*                                                                         *)
(* A copy is a record                                                      *)
(*   id, level     the summary and its level (1 reads messages)            *)
(*   src           its source ids, <<>> when they can't be read            *)
(*   range         its first and last message, <<>> when unreadable        *)
(*   text          whether it has text                                     *)
(*   parentId, mergedInto    its two pointers, None when absent or null    *)
(* and a chunk record [src, done, sum]: the messages it owns, whether they *)
(* are compressed, and the summary they went to.                           *)
(***************************************************************************)
EXTENDS Integers, Sequences, FiniteSets

CONSTANT None      \* the pointer of no summary

FirstIn(S) == CHOOSE k \in S : \A j \in S : k <= j

CopiesOf(loaded, id) == {k \in DOMAIN loaded : loaded[k].id = id}
StoredIds(loaded) == {loaded[k].id : k \in DOMAIN loaded}
Ends(src) == <<src[1], src[Len(src)]>>
Names(c) == {c.src[k] : k \in DOMAIN c.src}

\* A pointer of copy c names a stored copy above c that lists it.
NamesParent(loaded, c, pointer) ==
  \E k \in CopiesOf(loaded, pointer) :
    loaded[k].level > c.level /\ c.id \in Names(loaded[k])

\* The copy a summary is read from: the first with text that names its
\* parent, else the first with text.
WithText(loaded, id) == {k \in CopiesOf(loaded, id) : loaded[k].text}
Naming(loaded, id) ==
  {k \in WithText(loaded, id) :
     \E pointer \in {loaded[k].parentId, loaded[k].mergedInto} :
        NamesParent(loaded, loaded[k], pointer)}
Preferred(loaded, id) ==
  loaded[FirstIn(IF Naming(loaded, id) # {} THEN Naming(loaded, id)
                                            ELSE WithText(loaded, id))]

\* The messages of a first-level summary: its own sources, else those of the
\* first compressed record that names it, else those of a copy.
RecordsOf(records, id) ==
  {k \in DOMAIN records : records[k].done /\ records[k].sum = id /\ records[k].src # <<>>}
CopiesListing(loaded, id) == {k \in CopiesOf(loaded, id) : loaded[k].src # <<>>}
MessagesFound(loaded, records, c) ==
  CASE c.src # <<>> -> c.src
    [] c.src = <<>> /\ RecordsOf(records, c.id) # {} ->
         records[FirstIn(RecordsOf(records, c.id))].src
    [] c.src = <<>> /\ RecordsOf(records, c.id) = {} /\ CopiesListing(loaded, c.id) # {} ->
         loaded[FirstIn(CopiesListing(loaded, c.id))].src
    [] OTHER -> <<>>

\* Above the first level sources and range come together, from one copy.
IsWhole(c) == c.src # <<>> /\ c.range # <<>>
Donors(loaded, id) == {k \in CopiesOf(loaded, id) : IsWhole(loaded[k])}

Sourced(c, src, range) ==
  [id |-> c.id, level |-> c.level, src |-> src, range |-> range, text |-> c.text,
   parentId |-> c.parentId, mergedInto |-> c.mergedInto]
ReadFrom(loaded, records, c) ==
  CASE c.level = 1 ->
         LET messages == MessagesFound(loaded, records, c)
         IN Sourced(c, messages, IF messages = <<>> THEN <<>> ELSE Ends(messages))
    [] c.level > 1 /\ (IsWhole(c) \/ Donors(loaded, c.id) = {}) -> c
    [] c.level > 1 /\ ~IsWhole(c) /\ Donors(loaded, c.id) # {} ->
         LET donor == loaded[FirstIn(Donors(loaded, c.id))]
         IN Sourced(c, donor.src, donor.range)

\* Every summary that can be read at all, one copy of each.
Read(loaded, records) ==
  {c \in {ReadFrom(loaded, records, Preferred(loaded, id)) :
            id \in {i \in StoredIds(loaded) : WithText(loaded, i) # {}}} : IsWhole(c)}

\* dropMissingAndMisplaced, repeated until nothing changes: what is left is
\* the largest part of `kept` in which each summary above the first level
\* finds its sources, all of them below it.
Stands(part, c) ==
  c.level = 1 \/ \A id \in Names(c) : \E s \in part : s.id = id /\ s.level < c.level
Standing(kept) ==
  IF \A c \in kept : Stands(kept, c) THEN kept
  ELSE UNION {part \in SUBSET kept : \A c \in part : Stands(part, c)}

\* The parent of a kept summary: what its first pointer to a kept lister
\* above it names, its own pointers before its copies'; else its one lister
\* a level up, where there is one.
Covers(kept, pointer, c) ==
  \E l \in kept : l.id = pointer /\ l.level > c.level /\ c.id \in Names(l)
\* The copies of a summary that name such a parent, and the one a copy names.
Points(kept, d, c) == \E pointer \in {d.parentId, d.mergedInto} : Covers(kept, pointer, c)
Pointer(kept, d, c) == IF Covers(kept, d.parentId, c) THEN d.parentId ELSE d.mergedInto
CopiesPointing(loaded, kept, c) == {k \in CopiesOf(loaded, c.id) : Points(kept, loaded[k], c)}
\* Mutant of ListersAbove: only listers further up than the next level.
ListersFarAbove(kept, c) == {l \in kept : l.level > c.level + 1 /\ c.id \in Names(l)}

ListersAbove(kept, c) == {l \in kept : l.level = c.level + 1 /\ c.id \in Names(l)}
\* Mutant of ParentOf: one of several listers, where no pointer decides.
ParentOfAny(loaded, kept, c) ==
  LET copies == CopiesPointing(loaded, kept, c)
      listers == ListersAbove(kept, c)
  IN CASE Points(kept, c, c) -> Pointer(kept, c, c)
       [] ~Points(kept, c, c) /\ copies # {} -> Pointer(kept, loaded[FirstIn(copies)], c)
       [] ~Points(kept, c, c) /\ copies = {} /\ listers # {} -> (CHOOSE l \in listers : TRUE).id
       [] OTHER -> None

ParentOf(loaded, kept, c) ==
  LET copies == CopiesPointing(loaded, kept, c)
      listers == ListersAbove(kept, c)
  IN CASE Points(kept, c, c) -> Pointer(kept, c, c)
       [] ~Points(kept, c, c) /\ copies # {} -> Pointer(kept, loaded[FirstIn(copies)], c)
       [] ~Points(kept, c, c) /\ copies = {} /\ Cardinality(listers) = 1 -> (CHOOSE l \in listers : TRUE).id
       [] OTHER -> None

\* Mutant of KeepsItsChildren: no summary is dropped for another's child.
KeepsAnyChildren(loaded, first, c) == TRUE

\* Every parent is chosen before any summary that lists another's child is
\* dropped; what names a dropped one goes with it.
KeepsItsChildren(loaded, first, c) ==
  c.level = 1 \/ \A s \in first : s.id \in Names(c) => ParentOf(loaded, first, s) = c.id
Kept(loaded, first) == Standing({c \in first : KeepsItsChildren(loaded, first, c)})

\* mergedInto is set to the parent, and a parentId naming another; with no
\* parent both are cleared.
PointedAt(c, parent) ==
  [id |-> c.id, level |-> c.level, src |-> c.src, range |-> c.range, text |-> c.text,
   parentId |-> IF c.parentId = None THEN None ELSE parent, mergedInto |-> parent]
\* Mutant of ParentKept: a parent the last drops took stays named.
ParentChosen(loaded, first, kept, c) == ParentOf(loaded, first, c)

ParentKept(loaded, first, kept, c) ==
  LET chosen == ParentOf(loaded, first, c)
  IN IF \E l \in kept : l.id = chosen THEN chosen ELSE None
Settled(loaded, records) ==
  LET first == Standing(Read(loaded, records))
      kept == Kept(loaded, first)
  IN {PointedAt(c, ParentKept(loaded, first, kept, c)) : c \in kept}

\* The summaries in the order their ids first stand in the list.
FirstPlaces(loaded, settled) ==
  {k \in DOMAIN loaded : k = FirstIn(CopiesOf(loaded, loaded[k].id)) /\ \E c \in settled : c.id = loaded[k].id}
Listed(loaded, settled) ==
  LET at == FirstPlaces(loaded, settled)
      place(n) == CHOOSE k \in at : Cardinality({j \in at : j <= k}) = n
  IN [n \in 1..Cardinality(at) |-> CHOOSE c \in settled : c.id = loaded[place(n)].id]
SettledList(loaded, records) == Listed(loaded, Settled(loaded, records))

\* releaseUnsummarizedRecords: a record whose summary isn't a kept one of the
\* first level is compressed no longer.
Released(records, settled) ==
  [k \in DOMAIN records |->
     IF records[k].done /\ ~\E c \in settled : c.id = records[k].sum /\ c.level = 1
     THEN [records[k] EXCEPT !.done = FALSE, !.sum = None]
     ELSE records[k]]

\* A summary's parent, as the readers of the settled list take it.
ParentIn(c) == IF c.parentId # None THEN c.parentId ELSE c.mergedInto
=============================================================================
