---------------------------- MODULE SummaryTree ----------------------------
(***************************************************************************)
(* The summary tree of a branch while instances work on it: the strategy   *)
(* of src/strategies/autobiographical.ts, in one or more instances that    *)
(* share one store.  An instance chunks the rows of the window, compresses *)
(* chunks into first-level summaries and merges summaries side by side,    *)
(* each by a model call that other calls of the instance, and the other    *)
(* instances' writes, may overtake.  Summaries, chunk records and the      *)
(* merge queue are slots of the store, each written apart; an instance     *)
(* holds a copy of each.  It hears of the rows it presents and retracts    *)
(* itself, and of nothing another instance does.                           *)
(*                                                                         *)
(* A handler is one turn of the event loop: an operator from the state t   *)
(* it works on to the state it leaves, with the trail of its writes, any   *)
(* prefix of which a crash leaves.                                         *)
(***************************************************************************)
EXTENDS MergeRuns
LOCAL INSTANCE Functions
Seqs == INSTANCE SequencesExt

CONSTANTS
  Inst,          \* the instances
  Rows,          \* the rows of the window, numbers
  Tokens,        \* per row, its size, a number
  ChunkTokens,   \* a full chunk has at least this size
  ChunkRows,     \* and at least these rows
  MaxItems,      \* bound: presentations and retractions
  MaxSummaries,  \* bound: summaries ever made
  MaxCrashes,    \* bound: crashes and closings
  CrashShared    \* bound: whether a store that is shared also sees crashes

VARIABLES
  items,    \* the window's log: [row, shown], a row presented or taken out
  disk,     \* the store: sums, recs, queue, and the summary counter
  alike,    \* per slot, the instances known to hold it as the store does
  mem,      \* per instance, its memory
  crashes

vars == <<items, disk, alike, mem, crashes>>

----------------------------------------------------------------------------
(* The window, of a log w: the rows shown, in order of their last          *)
(* presentation.  An item's place is its ordinal.                          *)

Shown(w, k) == w[k].shown /\ \A j \in k + 1..Len(w) : w[j].row # w[k].row
Listing(w) ==
  LET places == SelectSeq([k \in DOMAIN w |-> k], LAMBDA k : Shown(w, k))
  IN [n \in DOMAIN places |-> w[places[n]].row]
InWindow(w) == {w[k].row : k \in {j \in DOMAIN w : Shown(w, j)}}
Left(w) == {w[k].row : k \in DOMAIN w} \ InWindow(w)
Ordinal(w, row) == CHOOSE k \in DOMAIN w : Shown(w, k) /\ w[k].row = row
Ordinals(w, rows) == [r \in rows \cap InWindow(w) |-> Ordinal(w, r)]

Members(seq) == {seq[k] : k \in DOMAIN seq}
PlaceIn(seq, x) == FirstIn({k \in DOMAIN seq : seq[k] = x})
Positions(seq) == [x \in Members(seq) |-> PlaceIn(seq, x)]
Greatest(S) == CHOOSE n \in S : \A k \in S : k <= n

\* rowsMovedInWindow: rows whose ordinal isn't the one in `before`, or past
\* every later row's.
Moved(w, rows, before) ==
  {rows[k] : k \in {j \in DOMAIN rows :
     /\ rows[j] \in InWindow(w)
     /\ \/ rows[j] \in DOMAIN before /\ before[rows[j]] # Ordinal(w, rows[j])
        \/ /\ j < Len(rows)
           /\ \A l \in j + 1..Len(rows) :
                rows[l] \in InWindow(w) /\ Ordinal(w, rows[l]) < Ordinal(w, rows[j])}}

----------------------------------------------------------------------------
(* Memory and the state a handler works on.                                *)

\* No call under way, and the call's fields: the chunk or the merge it is
\* for, and what was read before it.  `own` says that nothing has replaced
\* this memory's summaries and queue since, `spanLeft` that a row of the
\* chunk was let go.
NoCall == [kind |-> "none", rec |-> None, rows |-> <<>>, src |-> <<>>, ordinals |-> <<>>,
           chunk |-> 0, level |-> 0, sources |-> <<>>, own |-> TRUE, spanLeft |-> FALSE]
Down == [up |-> FALSE, sums |-> <<>>, recs |-> <<>>, queue |-> <<>>, next |-> 0,
         chunks |-> <<>>, blocked |-> {}, order |-> <<>>, halted |-> FALSE,
         looked |-> FALSE, call |-> NoCall]

Begin(i, w) == [disk |-> disk, alike |-> alike, w |-> w, m |-> mem[i], trail |-> <<>>]

\* writeHeldState: a slot's write leaves this instance alike if it was.
Put(i, t, slot, value) ==
  LET written == [t.disk EXCEPT ![slot] = value]
      known == [t.alike EXCEPT ![slot] = @ \cap {i}]
  IN [t EXCEPT !.disk = written, !.alike = known,
               !.trail = Append(@, [disk |-> written, alike |-> known])]
PutIf(changed, i, t, slot, value) == IF changed THEN Put(i, t, slot, value) ELSE t

SummaryIds(sums) == {sums[k].id : k \in DOMAIN sums}
SummaryOf(sums, id) == sums[FirstIn({k \in DOMAIN sums : sums[k].id = id})]
TopLevel(sums) == Greatest({0} \cup {sums[k].level : k \in DOMAIN sums})
RowsUnder(sums) == UNION {Names(sums[k]) : k \in {j \in DOMAIN sums : sums[j].level = 1}}

----------------------------------------------------------------------------
(* The merge check.                                                        *)

\* mergePositionIndex: the listing last seen, then the chunks' rows past it.
Order(m) ==
  LET rows(k) == m.chunks[k].rows
      known[k \in 0..Len(m.chunks)] ==
        IF k = 0 THEN m.order
        ELSE known[k - 1] \o SelectSeq(rows(k), LAMBDA r : r \notin Members(known[k - 1]))
  IN known[Len(m.chunks)]
QueuedSources(m, level) ==
  UNION {Members(m.queue[k].src) : k \in {j \in DOMAIN m.queue : m.queue[j].level = level + 1}}

\* enqueueMerge of a level's group, where it has one.
Enqueue(i, t, level) ==
  LET queued(queue) == Put(i, [t EXCEPT !.m.queue = queue], "queue", queue)
      with(group) ==
        IF group = <<>> THEN t
        ELSE queued(Append(t.m.queue, [level |-> level + 1,
                                       src |-> [k \in DOMAIN group |-> group[k].id]]))
  IN with(MergeCandidates(Unmerged(t.m.sums, level, QueuedSources(t.m, level)),
                          Positions(Order(t.m)), {}, {}, level))
\* checkMergeThresholdRecursive
CheckMerge(i, t) ==
  LET done[level \in 0..TopLevel(t.m.sums)] ==
        IF level = 0 THEN t ELSE Enqueue(i, done[level - 1], level)
  IN done[TopLevel(t.m.sums)]

CheckUnlessHalted(i, t) == IF t.m.halted THEN t ELSE CheckMerge(i, t)
\* dequeueMerge
Dequeue(i, t) ==
  LET queue == Tail(t.m.queue)
  IN Put(i, [t EXCEPT !.m.queue = queue], "queue", queue)

----------------------------------------------------------------------------
(* The load, and taking up what another instance wrote.                    *)

NextRecord(recs) == Greatest({0} \cup {recs[k].id + 1 : k \in DOMAIN recs})

\* loadPersistedState: what it changes of the store it writes back.
Hold(i, t, sums, recs, queue) ==
  LET d == t.disk
      t1 == PutIf(sums # d.sums, i, t, "sums", sums)
      t2 == PutIf(recs # d.recs, i, t1, "recs", recs)
      t3 == PutIf(queue # d.queue, i, t2, "queue", queue)
  IN [t3 EXCEPT
       !.alike = [@ EXCEPT !["sums"] = @ \cup {i}, !["recs"] = @ \cup {i}],
       !.m = [@ EXCEPT !.sums = sums, !.recs = recs, !.queue = queue,
                       !.next = NextRecord(recs), !.blocked = {},
                       !.call.own = t.m.call.kind # "merge"]]
Load(i, t) ==
  LET d == t.disk
      whole(queue, ids) == SelectSeq(queue, LAMBDA g : Members(g.src) \subseteq ids)
      keeping(settled) ==
        Hold(i, t, Listed(d.sums, settled), Released(d.recs, settled),
             whole(d.queue, {c.id : c \in settled}))
  IN keeping(Settled(d.sums, d.recs))

\* takeUpStoreState
TakeUp(i, t) == CheckMerge(i, Load(i, t))

\* storeWrittenElsewhere, and what it notes of a slot it finds alike.
HeldAlike(i, t, slot, held) == i \in t.alike[slot] \/ t.disk[slot] = held
WrittenElsewhere(i, t) ==
  ~(HeldAlike(i, t, "sums", t.m.sums) /\ HeldAlike(i, t, "recs", t.m.recs))
NoteAlike(i, t) ==
  [t EXCEPT !.alike = [@ EXCEPT !["sums"] = @ \cup {i}, !["recs"] = @ \cup {i}]]

----------------------------------------------------------------------------
(* The chunks.                                                             *)

Owned(recs) == UNION {Members(recs[k].src) : k \in DOMAIN recs}
RecordChunks(w, m) ==
  LET window == InWindow(w)
      shown(k) == SelectSeq(m.recs[k].src, LAMBDA r : r \in window)
      live == SelectSeq([k \in DOMAIN m.recs |-> k], LAMBDA k : shown(k) # <<>>)
  IN [n \in DOMAIN live |->
        LET rec == m.recs[live[n]]
        IN [rec |-> rec.id, rows |-> shown(live[n]), done |-> rec.done,
            queued |-> ~rec.done /\ rec.id \notin m.blocked]]

SizeOf(rows) == FoldFunctionOnSet(LAMBDA size, sum : size + sum, 0, Tokens, Members(rows))
\* The rows no record owns, cut into chunks: at every full chunk, and where
\* owned rows part them.  What is left of the last stretch stays open.
NewChunks(w, m) ==
  LET place == Positions(Listing(w))
      free == SelectSeq(Listing(w), LAMBDA r : r \notin Owned(m.recs))
      close(cut) == [closed |-> Append(cut.closed, cut.open), open |-> <<>>]
      parted(cut, r) == cut.open # <<>> /\ place[cut.open[Len(cut.open)]] + 1 # place[r]
      full(cut) == Len(cut.open) >= ChunkRows /\ SizeOf(cut.open) >= ChunkTokens
      push(cut, r) == [cut EXCEPT !.open = Append(@, r)]
      closeIf(cut) == IF full(cut) THEN close(cut) ELSE cut
      take(cut, r) == closeIf(push(IF parted(cut, r) THEN close(cut) ELSE cut, r))
  IN Seqs!FoldLeft(take, [closed |-> <<>>, open |-> <<>>], free).closed

\* closeCurrent: a new chunk's record goes to the end of the store's list.
CloseChunk(i, t, rows) ==
  LET rec == [id |-> t.m.next, src |-> rows, done |-> FALSE, sum |-> None]
      chunk == [rec |-> rec.id, rows |-> rows, done |-> FALSE, queued |-> TRUE]
      m == [t.m EXCEPT !.recs = Append(@, rec), !.next = @ + 1, !.chunks = Append(@, chunk)]
  IN Put(i, [t EXCEPT !.m = m], "recs", Append(t.disk.recs, rec))

\* Mutant of Seen: the listing first seen.
SeenFirst(w, order) == IF order = <<>> THEN Listing(w) ELSE order

\* refreshStoreOrder
Seen(w, order) == IF Listing(w) = <<>> THEN order ELSE Listing(w)

\* rebuildChunks: with most records' rows gone, it stops instead.
Rebuild(i, t) ==
  LET with(halted, chunks) ==
        [t EXCEPT !.m = [@ EXCEPT !.order = Seen(t.w, @), !.halted = halted,
                                  !.call.chunk = 0, !.chunks = chunks]]
      idle(chunks) == [k \in DOMAIN chunks |-> [chunks[k] EXCEPT !.queued = FALSE]]
      after(chunks) ==
        LET orphaned == Len(t.m.recs) - Len(chunks)
        IN IF Len(t.m.recs) >= 3 /\ 2 * orphaned > Len(t.m.recs)
           THEN with(TRUE, idle(chunks))
           ELSE Seqs!FoldLeft(LAMBDA sofar, rows : CloseChunk(i, sofar, rows),
                         with(FALSE, chunks), NewChunks(t.w, t.m))
  IN after(RecordChunks(t.w, t.m))

----------------------------------------------------------------------------
(* Letting go of rows.                                                     *)

\* foldedRowsOutOfWindow
FoldedOut(w, m) == Left(w) \cap (RowsUnder(m.sums) \cup Owned(m.recs))

\* The rows a record keeps: those not leaving, and those back in the window
\* among rows it keeps; in the window's order where any is back.
Keeps(w, rec, leaving, r) ==
  \/ r \notin leaving
  \/ /\ r \in InWindow(w)
     /\ LET at == Positions(Listing(w))
            own == {at[x] : x \in Members(rec.src) \cap InWindow(w)}
        IN \E q \in (Members(rec.src) \cap InWindow(w)) \ leaving :
             Lower(at[q], at[r])..Higher(at[q], at[r]) \subseteq own
\* windowOrdered: a row out of the window stays behind the one it followed.
WindowOrdered(w, rows) ==
  LET placed(k) == {0} \cup {j \in 1..k : rows[j] \in InWindow(w)}
      key(k) == IF Greatest(placed(k)) = 0 THEN 0 ELSE Ordinal(w, rows[Greatest(placed(k))])
      ahead(j, k) == key(j) < key(k) \/ (key(j) = key(k) /\ j <= k)
      rank(k) == Cardinality({j \in DOMAIN rows : ahead(j, k)})
  IN [n \in DOMAIN rows |-> rows[CHOOSE k \in DOMAIN rows : rank(k) = n]]
\* Mutant of KeptSources: a record keeps the rows that left.
KeepingAll(w, rec, leaving) == rec.src

KeptSources(w, rec, leaving) ==
  LET ordered(kept) == IF Members(kept) \cap leaving = {} THEN kept ELSE WindowOrdered(w, kept)
  IN ordered(SelectSeq(rec.src, LAMBDA r : Keeps(w, rec, leaving, r)))

\* Mutant of Seeds: only the summaries that records name.
SeedsOfRecords(m, leaving) ==
  {m.recs[k].sum : k \in {j \in DOMAIN m.recs :
     m.recs[j].sum # None /\ Members(m.recs[j].src) \cap leaving # {}}}

\* unfold's dropped summaries: those over leaving rows, and all above them.
Seeds(m, leaving) ==
  {m.sums[k].id : k \in {j \in DOMAIN m.sums :
     m.sums[j].level = 1 /\ Names(m.sums[j]) \cap leaving # {}}} \cup
  {m.recs[k].sum : k \in {j \in DOMAIN m.recs :
     m.recs[j].sum # None /\ Members(m.recs[j].src) \cap leaving # {}}}
Dropped(m, leaving) ==
  LET up[n \in 0..TopLevel(m.sums)] ==
        IF n = 0 THEN Seeds(m, leaving)
        ELSE up[n - 1] \cup {m.sums[k].id : k \in {j \in DOMAIN m.sums :
               m.sums[j].level > 1 /\ Names(m.sums[j]) \cap up[n - 1] # {}}}
  IN up[TopLevel(m.sums)]

\* unfold, for the rows that left: summaries, then records, then queue.
Unfold(i, t, leaving) ==
  LET touched(rec, dropped) == Members(rec.src) \cap leaving # {} \/ rec.sum \in dropped
      trimmed(rec) ==
        [rec EXCEPT !.src = KeptSources(t.w, rec, leaving), !.done = FALSE, !.sum = None]
      recs(dropped) ==
        SelectSeq([k \in DOMAIN t.m.recs |->
                    IF touched(t.m.recs[k], dropped) THEN trimmed(t.m.recs[k]) ELSE t.m.recs[k]],
                  LAMBDA rec : rec.src # <<>>)
      loose(c, dropped) == IF c.mergedInto \in dropped THEN [c EXCEPT !.mergedInto = None] ELSE c
      stays(dropped) == SelectSeq(t.m.sums, LAMBDA c : c.id \notin dropped)
      sums(dropped) ==
        [k \in DOMAIN stays(dropped) |-> loose(stays(dropped)[k], dropped)]
      queue(dropped) == SelectSeq(t.m.queue, LAMBDA g : Members(g.src) \cap dropped = {})
      write(slot, sofar, was, is) ==
        [PutIf(was # is, i, sofar, slot, is) EXCEPT !.m[slot] = is]
      without(dropped) ==
        write("queue",
              write("recs",
                    write("sums", t, t.m.sums, sums(dropped)),
                    t.m.recs, recs(dropped)),
              t.m.queue, queue(dropped))
  IN without(Dropped(t.m, leaving))

\* windowLost
WindowLost(i, t, leaving) ==
  LET flagged == [t EXCEPT !.m.call.spanLeft = @ \/ Members(t.m.call.rows) \cap leaving # {}]
      rebuilt == Rebuild(i, [Unfold(i, flagged, leaving) EXCEPT !.m.blocked = {}])
  IN IF leaving = {} THEN t ELSE CheckUnlessHalted(i, rebuilt)

\* letGoOfRowsOutOfWindow: with all that the store still folds.
LetGo(i, t, rows) ==
  LET from(taken) == WindowLost(i, taken, rows \cup FoldedOut(t.w, taken.m))
  IN from(TakeUp(i, t))

\* letGoOfRowsLeftUnheard, unless it looked since the window last grew.
Look(i, t) ==
  LET looked == [t EXCEPT !.m.looked = TRUE]
      out == FoldedOut(t.w, t.m)
  IN CASE t.m.looked -> t
       [] ~t.m.looked /\ out = {} -> looked
       [] ~t.m.looked /\ out # {} -> LetGo(i, looked, out)
\* Whether the chunk a call is for was let go of elsewhere, or compressed
\* (chunkRecordChangedInStore, rowsOutOfWindow, rowsMovedInWindow).
RecordSources(m, rec) ==
  LET own == {k \in DOMAIN m.recs : m.recs[k].id = rec}
  IN IF own = {} THEN <<>> ELSE m.recs[FirstIn(own)].src
RecordChanged(t, call) ==
  /\ call.src # <<>>
  /\ ~\E k \in DOMAIN t.disk.recs :
        LET rec == t.disk.recs[k]
        IN rec.id = call.rec /\ ~rec.done /\ rec.src = call.src
RowsGone(t, rows, before) ==
  (Members(rows) \cap Left(t.w)) \cup Moved(t.w, rows, before)
SpanGone(t, call) == RecordChanged(t, call) \/ RowsGone(t, call.rows, call.ordinals) # {}
TakeUpSpan(i, t, call) ==
  IF RecordChanged(t, call) THEN Rebuild(i, TakeUp(i, t))
                            ELSE LetGo(i, t, RowsGone(t, call.rows, call.ordinals))

----------------------------------------------------------------------------
(* First-level summaries.                                                  *)

\* findExactL1: the summary of these very rows, of memory or of the store.
Exact(sums, rows) == {k \in DOMAIN sums : sums[k].level = 1 /\ sums[k].src = rows}
\* Mutant of FindExact: the store isn't asked.
FindHeld(i, t, rows) == t

FindExact(i, t, rows) ==
  IF Exact(t.m.sums, rows) = {} /\ Exact(t.disk.sums, rows) # {} THEN TakeUp(i, t) ELSE t

\* markChunkRecordCompressed: in memory, and in every stored record so named.
MarkRecord(i, t, rec, sum) ==
  LET own == {k \in DOMAIN t.m.recs : t.m.recs[k].id = rec}
      marked == [t.m.recs[FirstIn(own)] EXCEPT !.done = TRUE, !.sum = sum]
      held == [t EXCEPT !.m.recs = [@ EXCEPT ![FirstIn(own)] = marked]]
      stored == {k \in DOMAIN t.disk.recs : t.disk.recs[k].id = rec}
      recs == [k \in DOMAIN t.disk.recs |-> IF k \in stored THEN marked ELSE t.disk.recs[k]]
  IN CASE own = {} -> t
       [] own # {} /\ stored = {} -> [held EXCEPT !.alike = [@ EXCEPT !["recs"] = @ \ {i}]]
       [] own # {} /\ stored # {} -> Put(i, held, "recs", recs)

\* nextSummaryIdCounter and pushSummary
Push(i, t, c) ==
  Put(i, Put(i, [t EXCEPT !.m.sums = Append(@, c)], "counter", c.id + 1),
      "sums", Append(t.disk.sums, c))

ChunkDone(t, k) == IF k = 0 THEN t ELSE [t EXCEPT !.m.chunks[k].done = TRUE]

\* compressChunkHierarchical up to its call.
BeginL1(i, t, k) ==
  LET chunk == t.m.chunks[k]
      taken == [t EXCEPT !.m.chunks[k].queued = FALSE]
      call == [NoCall EXCEPT !.kind = "l1", !.rec = chunk.rec, !.rows = chunk.rows, !.chunk = k,
                             !.src = RecordSources(t.m, chunk.rec),
                             !.ordinals = Ordinals(t.w, Members(chunk.rows))]
      known(found, held) == MarkRecord(i, ChunkDone(found, k), chunk.rec, found.m.sums[FirstIn(held)].id)
      settles(found, covered) ==
        IF covered = Members(chunk.rows) THEN ChunkDone(found, k)
                                         ELSE [found EXCEPT !.m.blocked = @ \cup {chunk.rec}]
      without(found, held, covered) ==
        CASE held # {} -> CheckMerge(i, known(found, held))
          [] held = {} /\ covered # {} -> CheckMerge(i, settles(found, covered))
          [] held = {} /\ covered = {} -> [found EXCEPT !.m.call = call]
      found(f) == without(f, Exact(f.m.sums, chunk.rows), Members(chunk.rows) \cap RowsUnder(f.m.sums))
  IN IF SpanGone(t, call) THEN CheckMerge(i, TakeUpSpan(i, taken, call))
                          ELSE found(FindExact(i, taken, chunk.rows))

\* compressChunkHierarchical from its call's answer on.
LandL1(i, t) ==
  LET call == t.m.call
      c == [id |-> t.disk.counter, level |-> 1, src |-> call.rows, range |-> Ends(call.rows),
            text |-> TRUE, parentId |-> None, mergedInto |-> None]
      landed(found) ==
        IF Exact(found.m.sums, call.rows) # {} THEN ChunkDone(found, found.m.call.chunk)
        ELSE MarkRecord(i, ChunkDone(Push(i, found, c), found.m.call.chunk), call.rec, c.id)
  IN CASE call.spanLeft -> t
       [] ~call.spanLeft /\ SpanGone(t, call) -> TakeUpSpan(i, t, call)
       [] ~call.spanLeft /\ ~SpanGone(t, call) -> landed(FindExact(i, t, call.rows))

----------------------------------------------------------------------------
(* Merges.                                                                 *)

\* leafRowsOf
LeafRows(m, sources) ==
  LET under[level \in 1..Greatest({1} \cup Members([k \in DOMAIN sources |-> sources[k].level])),
            c \in Members(sources) \cup Members(m.sums)] ==
        IF c.level = 1 THEN c.src
        ELSE LET rows[n \in 0..Len(c.src)] ==
                   IF n = 0 THEN <<>>
                   ELSE rows[n - 1] \o (IF c.src[n] \in SummaryIds(m.sums)
                                        THEN under[level - 1, SummaryOf(m.sums, c.src[n])] ELSE <<>>)
             IN rows[Len(c.src)]
      all[n \in 0..Len(sources)] ==
        IF n = 0 THEN <<>> ELSE all[n - 1] \o under[sources[n].level, sources[n]]
  IN all[Len(sources)]

\* Mutant of ParentedIn: one of a summary's two parent pointers.
ParentedById(sums, ids) == {sums[k].id : k \in {j \in DOMAIN sums : sums[j].parentId # None}} \cap ids

\* parentedMergeSources and what mergeOvertakenDuringCall, and executeMerge
\* at its entry, do about sources parented, dropped or out of the window.
ParentedIn(sums, ids) == {sums[k].id : k \in {j \in DOMAIN sums : ParentIn(sums[j]) # None}} \cap ids
Overtaken(i, t, sources, before) ==
  LET ids == SummaryIds(sources)
      held == ParentedIn(sources, ids)
      parented == held \cup ParentedIn(t.disk.sums, ids)
      takes == parented # held \/ ~(ids \subseteq SummaryIds(t.disk.sums))
      hit(t1) == [hit |-> TRUE, t |-> t1]
      lacking(t1) == IF takes THEN Rebuild(i, t1) ELSE t1
      whole(t1, gone) == IF gone = {} THEN [hit |-> FALSE, t |-> t1] ELSE hit(LetGo(i, t1, gone))
      after(t1) ==
        CASE parented # {} -> hit(t1)
          [] parented = {} /\ ~(ids \subseteq SummaryIds(t1.m.sums)) -> hit(lacking(t1))
          [] parented = {} /\ ids \subseteq SummaryIds(t1.m.sums) ->
               whole(t1, RowsGone(t, LeafRows(t1.m, sources), before))
  IN after(IF takes THEN TakeUp(i, t) ELSE t)

\* The end of a merge's tick: its entry leaves the queue if it still heads it.
EndMerge(i, t) ==
  LET call == t.m.call
      entry == [level |-> call.level, src |-> [k \in DOMAIN call.sources |-> call.sources[k].id]]
      heads == call.own /\ t.m.queue # <<>> /\ t.m.queue[1] = entry
      ended == [t EXCEPT !.m.call = NoCall]
  IN IF heads THEN Dequeue(i, ended) ELSE ended

\* executeMerge up to its call.
BeginMerge(i, t) ==
  LET merge == t.m.queue[1]
      sources == [k \in DOMAIN merge.src |-> SummaryOf(t.m.sums, merge.src[k])]
      called == [t EXCEPT !.m.call =
        [NoCall EXCEPT !.kind = "merge", !.level = merge.level, !.sources = sources]]
      ready(t1) == [t1 EXCEPT !.m.order = Seen(t.w, @),
        !.m.call.ordinals = Ordinals(t.w, Members(LeafRows(t1.m, sources)))]
      after(checked) == IF checked.hit THEN EndMerge(i, checked.t) ELSE ready(checked.t)
  IN IF Members(merge.src) \subseteq SummaryIds(t.m.sums)
     THEN after(Overtaken(i, called, sources, <<>>))
     ELSE Dequeue(i, t)

\* setMergedInto: on the object the call holds, which is memory's unless
\* memory was taken up since; and in every stored copy.
SetMerged(i, t, c, parent) ==
  LET merged == [c EXCEPT !.mergedInto = parent]
      held == IF t.m.call.own
              THEN [t EXCEPT !.m.sums = [k \in DOMAIN @ |-> IF @[k].id = c.id THEN merged ELSE @[k]]]
              ELSE t
      stored == {k \in DOMAIN t.disk.sums : t.disk.sums[k].id = c.id}
      sums == [k \in DOMAIN t.disk.sums |-> IF k \in stored THEN merged ELSE t.disk.sums[k]]
  IN IF stored = {} THEN [held EXCEPT !.alike = [@ EXCEPT !["sums"] = @ \ {i}]]
                    ELSE Put(i, held, "sums", sums)

\* executeMerge from its call's answer on.
LandMerge(i, t) ==
  LET call == t.m.call
      sources == call.sources
      c == [id |-> t.disk.counter, level |-> call.level, src |-> [k \in DOMAIN sources |-> sources[k].id],
            range |-> <<sources[1].range[1], sources[Len(sources)].range[2]>>, text |-> TRUE,
            parentId |-> None, mergedInto |-> None]
      written(t1) ==
        Seqs!FoldLeft(LAMBDA sofar, source : SetMerged(i, sofar, source, c.id), Push(i, t1, c), sources)
      after(checked) == EndMerge(i, IF checked.hit THEN checked.t ELSE CheckMerge(i, written(checked.t)))
  IN after(Overtaken(i, t, sources, call.ordinals))

----------------------------------------------------------------------------
(* The actions.                                                            *)

Init ==
  /\ \E r \in Rows : items = <<[row |-> r, shown |-> TRUE]>> /\ \A x \in Rows : r <= x
  /\ disk = [sums |-> <<>>, recs |-> <<>>, queue |-> <<>>, counter |-> 0]
  /\ alike = [slot \in {"sums", "recs", "queue", "counter"} |-> {}]
  /\ mem = [i \in Inst |-> Down]
  /\ crashes = 0

\* A handler runs to its end, or a crash of its instance cuts it short after
\* the window's write and some of its own.  No other instance hears of the
\* window's.
MayCrash(i) == crashes < MaxCrashes /\ (CrashShared \/ \A j \in Inst \ {i} : ~mem[j].up)
Others(w) == [j \in Inst |-> IF w = items THEN mem[j] ELSE [mem[j] EXCEPT !.looked = FALSE]]
Run(i, t) ==
  /\ items' = t.w
  /\ \/ /\ disk' = t.disk
        /\ alike' = t.alike
        /\ mem' = [Others(t.w) EXCEPT ![i] = t.m]
        /\ UNCHANGED crashes
     \/ /\ MayCrash(i)
        /\ crashes' = crashes + 1
        /\ \E k \in 0..Len(t.trail) - 1 :
             LET left == IF k = 0 THEN [disk |-> disk, alike |-> alike] ELSE t.trail[k]
             IN /\ disk' = left.disk
                /\ alike' = [slot \in DOMAIN alike |-> left.alike[slot] \ {i}]
        /\ mem' = [Others(t.w) EXCEPT ![i] = Down]

\* sanitizePersistedMergeQueue
Sanitize(i, t) ==
  LET runs == SelectSeq(t.m.queue, LAMBDA g :
                QueuedMergeRuns(g, Members(t.m.sums), Positions(Listing(t.w)), {}))
      write(queue) == PutIf(queue # t.m.queue, i, [t EXCEPT !.m.queue = queue], "queue", queue)
  IN write(runs)

\* initialize, on a branch whose window holds rows
Open(i) ==
  /\ ~mem[i].up
  /\ CrashShared \/ crashes = 0 \/ \A j \in Inst : ~mem[j].up
  /\ InWindow(items) # {}
  /\ LET t == [Begin(i, items) EXCEPT !.m.up = TRUE]
         released(loaded, out) == IF out = {} THEN loaded ELSE Rebuild(i, Unfold(i, loaded, out))
         after(loaded) == released(loaded, FoldedOut(items, loaded.m))
     IN Run(i, CheckUnlessHalted(i, Sanitize(i, after(Rebuild(i, Load(i, t))))))

\* The process ends, whatever call it has out.
Close(i) ==
  /\ mem[i].up
  /\ MayCrash(i)
  /\ crashes' = crashes + 1
  /\ mem' = [mem EXCEPT ![i] = Down]
  /\ alike' = [slot \in DOMAIN alike |-> alike[slot] \ {i}]
  /\ UNCHANGED <<items, disk>>

\* presentRows and windowGrew
Present(i, row) ==
  /\ mem[i].up
  /\ Len(items) < MaxItems
  /\ row \notin InWindow(items)
  /\ \A r \in Rows : r < row => \E k \in DOMAIN items : items[k].row = r
  /\ LET w == Append(items, [row |-> row, shown |-> TRUE])
         t == [Begin(i, w) EXCEPT !.m.looked = FALSE]
     IN Run(i, Rebuild(i, Look(i, t)))

\* retractRows and onRetracted
Retract(i, row) ==
  /\ mem[i].up
  /\ Len(items) < MaxItems
  /\ row \in InWindow(items)
  /\ LET w == Append(items, [row |-> row, shown |-> FALSE])
         t == [Begin(i, w) EXCEPT !.m.looked = FALSE]
     IN Run(i, IF WrittenElsewhere(i, t) THEN LetGo(i, t, {row})
               ELSE WindowLost(i, NoteAlike(i, t), {row}))

\* select, as the host compiles
Select(i) ==
  /\ mem[i].up
  /\ Run(i, Rebuild(i, Look(i, Begin(i, items))))

StartL1(i) ==
  /\ mem[i].up
  /\ mem[i].call = NoCall
  /\ disk.counter < MaxSummaries
  /\ \E k \in DOMAIN mem[i].chunks :
       /\ mem[i].chunks[k].queued
       /\ ~mem[i].chunks[k].done
       /\ Run(i, BeginL1(i, Begin(i, items), k))

EndL1(i) ==
  /\ mem[i].call.kind = "l1"
  /\ disk.counter < MaxSummaries
  /\ LET landed == CheckMerge(i, LandL1(i, Begin(i, items)))
     IN Run(i, [landed EXCEPT !.m.call = NoCall])

\* The call fails or is withdrawn: the chunk goes back to the queue, unless a
\* rebuild put it there.
FailL1(i) ==
  /\ mem[i].call.kind = "l1"
  /\ LET t == Begin(i, items)
         k == t.m.call.chunk
         back == IF k = 0 THEN t ELSE [t EXCEPT !.m.chunks[k].queued = TRUE]
     IN Run(i, CheckMerge(i, [back EXCEPT !.m.call = NoCall]))

StartMerge(i) ==
  /\ mem[i].up
  /\ mem[i].call = NoCall
  /\ mem[i].queue # <<>>
  /\ disk.counter < MaxSummaries
  /\ Run(i, BeginMerge(i, Begin(i, items)))

FinishMerge(i) ==
  /\ mem[i].call.kind = "merge"
  /\ disk.counter < MaxSummaries
  /\ Run(i, LandMerge(i, Begin(i, items)))

\* Withdrawn: the merge stays queued.
FailMerge(i) ==
  /\ mem[i].call.kind = "merge"
  /\ mem' = [mem EXCEPT ![i].call = NoCall]
  /\ UNCHANGED <<items, disk, alike, crashes>>

Next ==
  \E i \in Inst :
    \/ Open(i) \/ Close(i) \/ Select(i)
    \/ \E row \in Rows : Present(i, row) \/ Retract(i, row)
    \/ StartL1(i) \/ EndL1(i) \/ FailL1(i)
    \/ StartMerge(i) \/ FinishMerge(i) \/ FailMerge(i)

Spec == Init /\ [][Next]_vars

----------------------------------------------------------------------------
(* Properties.                                                             *)

\* No row is under two first-level summaries of those a load of the store
\* would keep, whichever instances compressed it, over which chunk, and
\* whatever crash or retraction came between a call and its answer.
SummarisedOnce ==
  \A c, d \in Settled(disk.sums, disk.recs) :
    c.level = 1 /\ d.level = 1 /\ c # d => Names(c) \cap Names(d) = {}

\* The store holds no two merges that list one summary: a merge whose run
\* another instance merged while its call was out is given up, at whatever
\* point the other's merge was (mergeOvertakenDuringCall).
MergedOnce ==
  \A j, k \in DOMAIN disk.sums :
    j # k /\ disk.sums[j].level > 1 /\ disk.sums[k].level > 1 =>
      Names(disk.sums[j]) \cap Names(disk.sums[k]) = {}

\* An instance that looked for rows let go of elsewhere, the window's length
\* as it was then, folds no row out of the window (letGoOfRowsLeftUnheard):
\* its select renders no summary over a row retracted.
LookedUnfolds == \A i \in Inst : mem[i].looked => FoldedOut(items, mem[i]) = {}

\* A chunk record that a load would count as compressed names a summary it
\* would keep, and of the very rows it records (ChunkRecord, and
\* releaseUnsummarizedRecords): no row is counted as summarised by a summary
\* that isn't of it.
DoneIsSummarised ==
  LET settled == Settled(disk.sums, disk.recs)
      recs == Released(disk.recs, settled)
  IN \A k \in DOMAIN recs : recs[k].done =>
       \E c \in settled : c.id = recs[k].sum /\ c.src = recs[k].src

\* The same, of a store no instance has shared: through every retraction in
\* the course of a call, and every crash.
AloneDoneIsSummarised == Cardinality({i \in Inst : mem[i].up}) = 1 => DoneIsSummarised

\* A merge goes to its call only over summaries side by side in the window:
\* the refusal executeMerge makes of any other (mergeGroupProblem) is never
\* met, since whatever parts a queued group takes it out of the queue first.
NeverRefused ==
  [][\A i \in Inst : mem'[i].call.kind = "merge" /\ mem[i].call.kind = "none" =>
       MergeGroupHolds(mem'[i].call.level, mem'[i].call.sources, Positions(Order(mem'[i])))]_vars
=============================================================================
