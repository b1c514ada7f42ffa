# A verification development for context-manager

`src/src` is a TypeScript library that decides what an agent's model is shown.  Messages are
kept in an append-only store (chronicle, a native dependency); a *context manager* keeps, per
branch of that store, which rows an agent has been shown and in what order; a *strategy* turns
them into a context that fits a budget, summarising what does not; and a *fold journal* records
which layout of summaries and messages each completed round was sent.  This directory models the
parts of it whose behaviour depends on the order of several steps, checks them with TLC on small
instances and proves some of their invariants with TLAPS.

## Inventory

Line counts are of `src/src`.  "Hard" names what tests reach badly.

| Component | State it keeps | Operations | Hard | What makes it correct |
| --- | --- | --- | --- | --- |
| **Window index** `window-index.ts` (1.7k), `body-runs.ts`, the window part of `context-manager.ts` | an append log of items per branch (rows, tombstones, the header of an older format); a cached reading keyed by the log's revision; writes whose outcome a failed read left unknown | `presentRows`, `retractRows`, write-down of the legacy window, `removeRow`, branch cut / switch / derive | writes that land and throw; reads that fail after a write; two handles on one store; crashes; rows stored together (bodies) | the strategy hears exactly what the window came to hold; a row enters once; a body enters whole; a cached reading is the store's; a cut keeps its row |
| **Fold journal** `fold-journal.ts` (1.8k) | records in the store; an index of them in memory, per store, shared by every journal on it; a mark carried by each compile | `mark`, `accept`, `announce`, `query`, branch deletion | an acceptance retried after its record landed; listeners that accept; sync / append / sync each failing; records that rot | one record per compile; the same answer each time; a receipt heard is durable; no change without a receipt |
| **Summary tree of a branch** `settle-summaries.ts`, `merge-runs.ts`, `keeper-selection.ts`, parts of `autobiographical.ts` | summaries with parent pointers and source lists; chunk records; a merge queue, each written apart | `settleSummaries`, `pushSummary`, `setMergedInto`, `checkMergeThreshold`, `executeMerge`, `unfold` | a crash between two of the writes; another process's writes; rows leaving the window under a summary | one parent per summary, the one that lists it; no row summarised twice; a source merged once |
| **Compression lane** `autobiographical.ts` | one pending call, a queue of chunks, a queue of merges, failures, pauses | `tick`, `compressChunk`, `executeMerge`, `drainFolding` | a branch switched or a row retracted while a model call is under way; withdrawn, refused and failing calls | no call's result is written to a branch it was not made for; work that failed is tried again; the lane never stalls while there is work |
| **Window notices** `context-manager.ts` | presented rows and retracted rows the strategy has not heard of | `presentRows`, `retractRows`, the hooks | a hook that throws, a strategy replaced | every row is told once, in order |
| **Context manager** `context-manager.ts` (5.6k) | the open branch, the strategy, the last compile | `compile`, `switchBranch`, `branchAt`, message edits | calls that overlap an await | a compile describes one branch |
| **Request ladder** `autobiographical.ts`, quarantine | the outcomes each family of requests had; a ledger of quarantines and alerts | ask, adopt, mint, quarantine, alert, clear, sweep, checkpoint | a crash between an answer and its record; siblings on one family; a checkpoint cut short | no answer is bought twice, no alert told twice, what was cleared stays cleared |
| **Tool pairing** `autobiographical.ts`, `normalize-tool-messages.ts` | none | repair, split | results that come late, twice or first | every call sent has its results next |
| **Message store** `message-store.ts` (2.4k), `message-view.ts` | rows in chronicle, sharded bodies, an index of edits | append, edit, remove, merge | bodies stored as several rows, edited as one | a body's rows stay together, tool pairs stay whole |
| **Context log** `context-log.ts` | an editable list of entries | append, edit, remove, at | positions after a removal | an entry is found where it is |
| **Autobiographical rendering** `autobiographical.ts` (22.5k), `adaptive/render.ts`, `recall-envelope.ts` | none (a snapshot) | `select` | every message covered once by the frontier | coverage, order, budget |
| **Frontier solvers** `adaptive/kv-unified*.ts`, `kv-control.ts`, `picker.ts`, `greedy-fold.ts` | none, or a controller's memory | solve, plan | pruning that loses an optimum | the frontier is one node per leaf, within budget, optimal |
| **Windowed passthrough** `strategies/windowed-passthrough.ts` | an anchor | `select` | the anchor against messages that leave | it only moves forward, and the window fits |
| **Thinking binding** `thinking-binding.ts` | what a branch last sent | bind, match | a stale record | signed thinking is sent only where it matches |
| **Topology repair** `repair/topology.ts` | none | plan, apply | stores it must not make worse | repaired stores pass the strategy's check |
| Provenance, content forms, blobs, diagnostics, types | none to speak of | pure conversions | | |

The parts meet in four ways: the manager calls the strategy's hooks (`onPresented`, `onRetracted`,
`onNewMessage`, `tick`) inside its own writes; strategies write the same store through the manager's
state slots; several managers, derived handles and journals share one store; and a model call ends
long after the state it was made from was read.

## Modules

| Module | Models | Kind |
| --- | --- | --- |
| `WindowLog` | `apply`, and what a log of items says: window, mode, undone and left rows | operators |
| `WindowRead` | `WindowReading`'s maps, changed item by item, beside `WindowLog`'s definitions | state machine |
| `WindowIndex` | the index, its handles, writes and settlements, branches and crashes | state machine |
| `AgentWindow` | what the index promises, with no log and no handles | abstract specification |
| `WindowRefinement` | `WindowIndex` under the mapping to `AgentWindow` | composition |
| `WindowIndexProofs`, `WindowRowsProofs` | theorems about `WindowIndex`: readings; cuts, presentations, bodies, the write-down | proofs |
| `WindowReadProofs` | the theorem about `WindowRead` | proofs |
| `WindowNotices` | how the manager tells a strategy of rows that enter and leave, through hooks that call it back | state machine |
| `FoldJournal` | acceptances, marks, receipts and queries | state machine |
| `MessageStore` | the materialised rows and id index of every instance, and the counters that say whether they are current | state machine |
| `MessageStoreProofs` | theorems about `MessageStore` | proofs |
| `SettleSummaries` | `settleStoredSummaries`: what a stored list of summaries and the chunk records mean | operators |
| `MergeRuns` | the runs and groups of `merge-runs.ts`, and the merge check's choice | operators |
| `StoredSummaries` | a branch's stored copies, whatever wrote them, and what a load makes of them | state machine |
| `StoredSummariesProofs` | theorems about the settled tree and the groups | proofs |
| `TopologyRepair` | the offline repair of a store whose summaries cross, one move of its plan at a time | state machine |
| `SummaryTree` | instances of the strategy at work on one store: chunks, compressions, merges, retractions, loads | state machine |
| `MintRequests` | what a request that writes a summary shows, and which work is counted on | state machine |
| `CompressionLane` | `tick` and its two queues: failures, pauses, relief, the cap, holds, tools, loads of the branch | state machine |
| `KeptSequences` | the lists' filters, spelled out so that they can be proved about | operators |
| `CompressionLaneProofs` | facts about the lists, and theorems about the lane | proofs |
| `RequestLadder` | one chunk's requests, its family's progress, and the quarantine ledger | state machine |
| `RequestLadderProofs` | theorems about the ladder | proofs |
| `HierarchicalSelect` | a compile of the threshold-driven path: what is sent | state machine |
| `AdaptiveSelect` | a compile of the adaptive path under the greedy solvers, and what is saved between compiles | state machine |
| `StableControl` | a compile of the adaptive path under kv-stable | state machine |
| `CanonicalForest` | the ownership forest the kv-unified solver works on, built, derived and cut | state machine |
| `ToolPairing` | the repair of calls and results in what a selection emitted | state machine |
| `ThinkingBinding` | which signed thinking a compile may send | state machine |
| `WindowedPassthrough` | the anchored window, its slot and its memory | state machine |
| `WindowedPassthroughProofs` | the theorem about `WindowedPassthrough` | proofs |
| `ContextLog` | entries, their stored indices, and what the manager does by them | state machine |
| `MC...` | constants for TLC, and the sums of parts described under *Runs* | |

### Window index

The store is `rows` (the record of a branch), `gone` (removals), `log` (the items of its window
index), `live` (branches made) and `seq`; a record's sequence is its identity, and a crash may take
back at most `MaxLoss` of the newest records, whose identities are issued again.  A handle is one
`WindowIndex` object: `cur` its branch, `reading` the reading it caches, `waiting` its *settlements*
(`unsettled` in the code), writes of which it does not know whether they landed.  `belief` (what the
strategy has been told) and `lost` are history.

Every public call is one action, since it runs in one turn of the event loop: it settles what is due,
decides what to write from the reading, writes, and tells the strategy.  `Outcomes` says how an append
may go: kept or not, thrown or not, and after a throw whether the index, and the store's branch, can be
read.  Items are the log's items one by one; `at` and `by` are the sequence of the record that wrote them.

Abstracted: the calls a strategy's hook makes while it hears a settled write are calls of their own,
so a handle has at most one waiting write per branch; snapshots of the state slot are left out; the
shards of a body are appended together; the rows that follow a named row (`followers`) are folded into
the name (`Rest`); a batch's tombstones come in row order; a new branch survives a crash; an empty batch
is never written.

### Fold journal

`log` is the records of the store in order, a record's place being its identity (records of other
kinds are left out: an identity given to one of those behaves as a missing mark); `index` is the
`StoreIndex` all journals share, `memo` what has been read back, `stack` the acceptances under way,
one inside the listener of another.  `Compile` marks a compile, `Accept` starts an acceptance and
`Commit` is its sync, append and sync with every way each may fail; `Resumed` and `Retry` are the same
call made again, `Announce` gives a receipt to the listeners, `Query` reads a journal whole.  Layouts
are tokens compared for equality: the arithmetic of members and units is planned.

Abstracted: reading a body lazily is reading it at first use; the cache of the newest record per
journal is left out, the memo being keyed by an identity that never changes; a sync that fails saves
nothing; a compile that could not be marked carries no mark; a record rots only while the store is
closed.  That a query's list of receipts ends at a record of an older format is by design (a test
of `fold-journal.test.ts` asserts it).

### Summary tree

`loaded` is the stored list of summaries, in which one summary may have several copies: a text or sources
that can't be read, an id left for another instance's, pointers to summaries that are gone.  Writers append
such copies in every combination (`Write`), and `Repair` is what a load writes back: the settled list, then
the released chunk records, the second of which a crash may prevent.

`Settled` is `settleStoredSummaries`.  A copy is a record, a list without duplicates a set.  Where the code
drops summaries in a loop until nothing changes (`dropMissingAndMisplaced`), `Standing` is the union of all
parts in which each summary finds its sources below it: the same set, said without the loop.  `ParentOf` is the code's
choice, pointer by pointer in the code's order; `Kept` drops what lists another's child, then what named it;
`PointedAt` and `Released` are what is written into the kept copies and the records.

`MergeRuns` places summaries in the window by a function from messages to positions.  `RunsOf` cuts a level
into the stretches `runsAtLevel` walks; `GroupSizes` is `runGroups`; `MergeCandidates` the first group a merge
check takes; `QueuedMergeRuns` and `MergeGroupHolds` are the tests before a queued merge runs and inside it.

`SummaryTree` has the instances run.  `items` is the window's log, of which each instance sees the whole and hears
only its own writes; `disk` is the store, a slot each for the summaries, the chunk records, the merge queue and the
summary counter; `mem` is what each instance holds of them, with its chunks, its call and what it saw of the order;
`alike` is `heldAsStoredAt`, the instances known to hold a slot as the store does.  A handler is an operator from a
state to a state that keeps the trail of its writes; an action runs it to its end or, as a crash, to any prefix of the
trail (`Run`).  So the order of the writes, which the code fixes, is what decides the stores a restart finds.

* `Open` is `initialize`: `Load` (settle, release, drop queued merges with sources gone), `Rebuild`, the release of
  rows that left, `Sanitize`, the merge check.
* `Present`, `Retract`, `Select` are `windowGrew`, `onRetracted` and a live `select`.  `Look` is
  `letGoOfRowsLeftUnheard`; `LetGo`, `WindowLost`, `Unfold` are the let-go itself, which drops every summary over a
  row that left, trims records and opens them again, and takes merges of dropped sources out of the queue.
* `StartL1`, `EndL1`, `FailL1` are a tick's compression of any queued chunk, before and after its call:
  the record compared with the store's, rows that left or moved, the L1 another instance wrote, overlap with other L1s.
* `StartMerge`, `FinishMerge`, `FailMerge` are a tick's merge of the queue's head.  A merge keeps its sources as it
  read them over the call; `own` says whether they still are the objects of memory when it lands.

Left out there: the recent and head windows and the L1 holdback (a chunk is queued as it closes), holds, tool use at a
chunk's end, the stub of a thin chunk, failure fills, counted merge attempts and quarantine, the joining of two
instances' calls within one process, writes that throw, and the topology policy `reject`.  Which of a queued chunk and
a queued merge goes first is left open, so every order the lane may choose is covered.  The refusal `executeMerge`
makes of a group that isn't side by side is not an action: `NeverRefused` says it is never reached.

Abstracted in all of these: the reports and reasons of dropped summaries; the planning view a caller gets of a run that can't
grow (`cantGrowPast`), and the rest of a run beyond its groups.  The choice of which summaries keep their place in the
window (`keeper-selection.ts`) is planned.

### Window notices

`stack` is the call stack of the event loop: a frame for each call a hook can run under, with what it has left to do, so a
hook that presents, retracts, removes, sets a strategy, moves the branch or closes is a frame pushed in the middle of the
frame that called it.  The index is its window here, per branch; a presentation is a number that stands for the ordinal
and the record that issued it.  `unheardIn`, `unheardOut` and `busy` are the manager's queues and flags; `belief`, `seen`,
`moved` and `late` are history.  `ToldIsWindow` leaves out the rows in `late`, of the window though last heard to go: `HeardToGoFirst` says there are
none and is violated (`heard_to_go_first`); without a failed read there are none, and the property says so.  A notification's guards (`closed`, the hook's scope, readiness) are read at the place in
the frame where the code reads them, since a hook may have changed them meanwhile.

### Message store

`rows` and `rev` are the slot of each branch, `counters` what siblings on one handle share (counted writes, the revision the
last left, gaps seen), `cache` and `index` what an instance has materialised (`allCache`, `idToIndex`).  `Loaded` is
`getAllInternal`: a current cache is returned, one that only grew is extended by the rows behind it, any other is read
again.  Counted writes are appends, edits and removals of a message, a body or a range; `Uncounted` is another handle's or
chronicle's own write, which only the revision tells.  A branch is forked, switched to, or derived with a store of its own.
A body is what stands side by side under one group id with rising shards, as `body-runs.ts` has it: the same text written
again is another body of the same group.

### Compression lane

A chunk is its place among the closed ones, a merge the number of its group, and both are work for one `turn` at a time.
`queue` and `merges` are the queues, `order`, `runs` and `landed` the failures and the evidence a decision needs, `waits`,
`toolless`, `yield` and `pause` what defers work, `held` a host's holds.  `HostTick` and `DrainTick` begin a turn, `Scan` is its walk
over the queue, the actions under `Answer` each way a call ends, and `Rebuild` what a load, a hold's release or a new
chunk makes of the queue.  `stale` is the calls an earlier load left out, each
with its load; when one returns (`ReturnStale`) it counts only if that load is `Current`, the check of `isCompressionBranchCurrent`.  What a chunk holds, and how
a landing is written, is `SummaryTree`'s.

### Request ladder

`ledger` is the log of quarantine events and `Projection` its replay; `progress` is what each family has had answered, `run` what
each instance does with the chunk, `todo` the appends still owed under the ledger's lock.  A rung is asked when `Due` says;
siblings join a family in flight and never ask it twice at once.  A crash leaves the ledger and the progress and nothing else.

### Selections

`HierarchicalSelect` and `AdaptiveSelect` have one action for a compile, whose steps run without yielding, and actions for all
that changes between compiles: rows that arrive or leave, summaries that land or go, pins, holds, resets, windows.  A row is
its position and its price.  `HierarchicalSelect` follows the phases of `selectHierarchical`: head, recent and held windows, chunks, the summaries
a window leaves out, the levels filled and repaired, coverage completed, recall pairs and their cap.  `AdaptiveSelect`
keeps the levels saved by the last compile, from which the next starts, and its greedy solvers raise groups of rows by
rules tried in turn.  `StableControl` is its compile under kv-stable, whose one solve is `planControlledFrontier`: the cut a compile
carries, the ideal cut (`RelevanceCut`: fold by salience and age, past the shape for the window, pack the headroom), and how much of
the way to it the provider's cache lets one compile go (`Chosen`, `SuffixAdopt`).  What is emitted then goes through `ToolPairing`, whose entries are calls, results and text in roles,
taken apart and put together as `postProcessToolEntries` does.

That kv-stable is over the window only where no cut fits is claimed of plans where no row but raw ones is held and no summary is dearer than
what it tells (`Plain`): elsewhere the folds, which go by salience and a group at a time, may stop short of a cut that fits.

### Forest of the kv-unified solver

`CanonicalForest` keeps what a compile gives the solver (`chunks`, `summaries`, `zones`) and the `forest` of the last solve with the
entries it was given (`source`), which the strategy edits in place.  `Build` is the constructor in its three recipes (refuse a summary
whose rows have a gap, cut it off its chains, keep it and name it); `Derive` is `derive`, with `Reuse` where ownership stood and
`Extend` where it grew; `ConstraintsFor`, `LevelPinHold` and `Allowed` say what a row may show.  `EnumerateExactCuts`, `MinimumTokens` and
`PropagateExactLabels` are the three walks of the same name.  Between solves rows arrive or leave, the tail slides, merges and chunks land, prices change, rows
are pinned, locked and freed.  The policy that picks one legal cut within the wall, and the engines that search for it, are left
out: a solve takes any legal cut that fits, or none.

Label propagation is an enumeration of its own, and not of all cuts: where a protected hole lies inside a summary it leaves out cuts, the
cheapest one among them.  (Rows 1 and 2 under *a*, row 3 under *b*, *c* over both, row 2 pinned at level 1: the cut that shows *c* for 1 and 3
and *a* for 2 costs 2, and propagation gives 3 at best.)  The code asks `hasInternalProtectedHoles` for just this, and the
property speaks of label propagation where it says there is none.

### Topology repair

`TopologyRepair` is `planTopologyRepair` in its lossless and compact modes, from the settled store to the store it writes, one move an
action: `SplitL1`, `Adopt`, `Detach`, `Rehome`, `Dissolve`, `ReleaseHead`, `Write`, with `Pass` and `Passed` between the levels.  Which
summary is crossed, what each move leaves and what it makes thin is worked out again before each move, as in the code.  The rebuild
mode, which dissolves crossed merges for the lane to fold again, is left out with its dates and the plan's report.

### Mint requests

`MintRequests` has the store a request is built from: rows (with those a host removed), chunk records, summaries, pins, the quarantine,
a hold, where the head was reset to.  `CompressRequest` and `MergeRequest` give what a request shows as a list of raw rows and memories;
`then` is history, the head's start when each row was the newest.  Calls land at once: what overtakes a call is `SummaryTree`'s.

Two things the code accepts show here.  A summary that starts before a chunk and reaches past it is recalled whole, so rows after the
chunk are told to it, and a variant may place a memory of them there (`AsOf` asks where an item starts, and nothing of variants).  And
the head's cache marker is placed before the first memory kept: where memories were dropped and a chunk before that memory has none, raw
rows stand between, and the marker moves with the dropping.  `SeamsShared` is about requests that dropped none.

### Thinking, passthrough, context log

`ThinkingBinding` keeps, per branch, the record of what was last sent (`record`) and the requests under way (`streams`);
`minted` is history: the head and messages each row's thinking came after.  `WindowedPassthrough` has the anchor in memory
(`mem`, of branch `loaded`) and in the slot, over `WindowLog`'s windows.  `ContextLog` is the list with the index each entry was
stored with and the map by which entries are found.

## Runs

Parts that share no state are checked by one run where that makes one question of them: a variable says which part a behaviour is of
(`form`, `part`, or the world's choice), and the variables of the other parts keep one value.  A world is a record of settings and bounds chosen
at the start; each brings one kind of trouble, so that the state spaces add up instead of multiplying.

| Run | Question | Bounds, and why they suffice |
| --- | --- | --- |
| `window_handles` | does a cached reading stay the store's; does a cut keep its row; is a row presented once; is a write-down the record as it stood; is an adaptive compile's plan what it sends, and what does kv-stable hold to | two handles and two branches, one row at the start, writes that return or land and throw with the index unread, 4 records, 1 of which a crash may take: two writers, a cut, a switch, a derivation and a loss. Compiles: six greedy worlds of 4 to 6 rows and 3 summaries over two levels; three of kv-stable, 7 or 8 rows, up to 5 summaries over three levels, merges that nest and that don't, a window met, missed, and kept to a pace |
| `window_forms` | does the strategy hear what the window came to hold, and an older build's index get finished; does a log read by items say what it says whole; is the index the window promised; what do hooks hear; is the anchor stored, and what was sent sent again | *failing*: one handle, all seven outcomes, 6 records: a write left unknown, one that settles it, a crash between. *older*: the logs of a build that wrote a record per item, cut short at each point, and three odd ones; 3 rows, two of one body. *promised*: two branches, 5 records. *items*: all logs of up to 4 items over 2 rows. *notices*: 3 rows, 4 calls, 2 deep, 1 fault. *sends*: six worlds of up to 4 rows, 6 items, 2 branches, 1 failing write, budgets that are spent, a slot of a newer build |
| `host_parts` | does every read of a message store give its branch's rows, cheaply where it can, and do removals take bodies whole; is a compile accepted once, and what is heard durable | a message and a body left short and written again; siblings (3 writes), siblings over branches (2 writes, 2 moves), a derived store (2 writes, 1 move); 1 uncounted write each. Two journals on two branches, both formats, 4 records with those of the start, 1 reopening, 1 rotted record, acceptances 2 deep |
| `lane` | is no closed chunk forgotten, nothing written twice; does an outage decide nothing; does each queued item get its turn | seven worlds: contended, interrupted, held, reloaded, without tools, at the cap, two merges; 2 to 4 chunks: a chunk and a merge compete, each fails as often as decides it, a call outlives its load |
| `stored_summaries` | is what a load keeps a forest, does one load repair all, does a merge survive a crash, does one of two rival merges stand; is a derived forest the one a build gives, are its cuts legal and the cheapest found; does a repair leave nothing crossed, nothing to settle, and no row under prose that did not tell it; does a request that writes a summary tell the history it followed | up to 4 copies of 5 summaries on 3 levels, 19 variants, a record or none: two listers and two pointers of a child, a dropped lister whose own lister goes with it; threshold 2. Forest: 3 or 4 rows, up to 5, two L1s and a merge or a third L1 to land, 3 or 4 edits between solves; an L1 with a gap in each recipe. Repair: every way to deal 5 rows to 3 or 4 L1s with a hole, two merges of them and one above; lossless, compact, a head released in part or whole. Mints: eight worlds of 5 or 6 rows in chunks of 1 or 2, with up to 3 pins, quarantines, removals or holds; no room to recall, or for what pins add; two topics; merges to level 3 |
| `strategy_parts` | is no answer bought twice and no alert told twice; does a checkpoint keep the ledger; is no row told twice, no turn refused that fits; is every call sent with its results; is thinking sent where it was minted; is no row summarised twice, no run merged twice, nothing retracted left folded, no record compressed by a summary not of it, no merge refused | ladder: five worlds (every rung and answer with a crash; siblings of one family and of two; shapes that change under a checkpoint; an older ledger). Selection: 10 rows, calls with late results, spent budgets, operators. Pairing: all lists of up to 4 of 13 messages. Binding: 3 or 4 rows, 2 or 3 compiles. Tree: two instances without crashes, or one with two crashes (`CrashShared` FALSE); three rows, the first a chunk of its own, the other two one chunk, so a trimmed chunk exists; 4 presentations and retractions; 4 summaries: two L1s and two merges of them, or three and one |
| `heard_to_go_first` | the counterexample for what is heard of a row presented again | as *notices* |
| `tree_record_ids` | the counterexample for record ids | two rows, each a chunk |
| `tree_late_folds` | the counterexample for late folds | as the tree of `strategy_parts`, with a crash while the store is shared (`CrashShared` TRUE) |
| `combined_recall` | the counterexample for the combined recall pair's cap | one world of a few rows and summaries, a cap below the answer |
| `tail_results` | the counterexample for results at a recent window's start | one call with two results |
| `context_log_index` | the counterexample for stored indices | 2 messages, 3 entries |

The instances of `SummaryTree` and the sibling stores of `MessageStore` are symmetric, and those cfgs say so; none of them checks liveness.
`CHECK_DEADLOCK FALSE` is where the counters reach their bounds and nothing is left to do; `lane` checks deadlock.
`HearsWhatLanded` (in `HeardIsWindow`) is checked with one handle: with two, a refused write whose row the other handle presented meanwhile is told
as presented, which it is.

### Fairness

Only `CompressionLane` states fairness, for `EachGetsItsTurn`.  Weak fairness of `HostTick`, since the host is told to call `tick`
periodically (the doc of `ContextManager.tick`, README.md:71 of the repository); of `DrainTick`, `Scan` and `Answer`, since a drain
schedules its own next tick, a scan is one synchronous walk, and every call to a model settles; of `PauseEnds` and `WaitEnds`, which are
clocks; of `ToolsArrive`, a host whose model refuses requests without tools gives them; strong fairness of `ReleaseHold`, a
host lets go of what it holds.  No landing is assumed: a call may fail for ever, and the claim is only that its
turn passes to the others.

## Where the code and what is said of it part

Six runs end in a counterexample to what a doc or a comment of the repository says:

* *Heard to go first* (`heard_to_go_first`).  A presentation waits for the strategy's initialization, and the read its delivery makes fails.
  A retraction retries the delivery, and a hook of that presents one of the retracted rows again.  That entry is told first, and
  then `notifyRetracted`, which asks only whether branch and initialization are as they were, tells that the row left: of a row
  of the window the strategy last heard that it went.  `notifyPresented` asks in the same place whether its rows still are in the window.
* *Record ids* (`tree_record_ids`).  `c-<n>` is numbered by a counter of each instance, set at its load.  Two instances
  sharing a store give one id to two chunks; `markChunkRecordCompressed` then writes one record over both, and the rows
  of the other count as compressed under a summary that isn't of them.  In the trace, A takes its row out and presents it again, under a new
  id; B presents another row under the same id and compresses it.  While an instance has the store to itself,
  `AloneDoneIsSummarised` holds through crashes and retractions.
* *Late folds* (`tree_late_folds`).  A dies between the tombstone of a row and its let-go.  B looks, at this
  length of the window, before it has read what A stored of the row; then a compression takes up the store, folds of the row included.
  The next select sees the length it looked at and lets go of nothing.
* *Combined recall* (`combined_recall`).  The one recall pair's answer is cut at its cap, and all summaries chosen count as
  rendered, so coverage passes though rows are told nowhere.
* *Results at the tail* (`tail_results`).  A recent window that starts at a second result, whose call is sent before the window,
  drops it as an orphan; the coverage check then refuses a turn that fits.
* *Stored indices* (`context_log_index`).  After a removal the entries behind keep the index they were stored with, and the manager
  edits or removes another message's entry by it.

## Proofs

Every theorem is for all values of the constants its module's named assumptions allow: any number of handles, branches, rows, instances, worlds and
bounds.  Where a theorem takes a hypothesis on the store at the start, it is named below with what it leaves out.

**Window index** (assumptions of `WindowIndex`: the main branch is one, a write may return, bodies are stored together, stamps of logs rise).

* `TypeCorrect`: `Spec => []TypeOK`.
* `ReadingCorrect`: `Spec => []ReadingIsStore`: a reading whose revision is the stamp of a branch's newest
  item *is* that branch's log, which is why a cache keyed by the revision alone may be used on any branch.
* `CutKeepsTheRow`: `Spec => []CutKeepsRow`: a branch cut at a row of the window keeps it and the whole of its body.
* `RowsArePresentedOnce`: `Spec => []PresentedOnce`, given `OnceEach` of the logs at the start (one written elsewhere may present a row twice).
* `BodiesAreWhole`: `Spec => []BodiesWhole`, given `StartsWhole`.  The logs of an older build cut short between two shards do not
  satisfy it; that such are repaired is checked (`window_forms`, *older* and *promised*).
* `WriteDownIsTheRecord`: `Spec => []WriteDownIsRecord`, given `StartsWrittenDown`, which those logs do satisfy.
* `TheWindowIsHeard`: `Spec => [](HeardIsWindow /\ HearsWhatLanded)`, given `StartsWhole` and one handle on the store (`Handles = {h}`), as it
  is checked (`window_forms`, *failing*).

`ReadingIsStore` is not inductive: two branches share a prefix, a crash shortens one, another handle extends
it, and a reading may be of a history no branch has any more.  The invariant that is (`IInv`) says of all logs
*and* all readings together that stamps rise along each, that none exceeds the store's sequence, and that two
of these histories that share a stamp share everything up to it (`Coherent`); and that a reading's revision is
its last stamp (`ReadingKeyed`).  The one step that needs care is `Restart`: identities are issued again after a
crash, so the model, as the code, has the handles reopened.

`OnceInv` is `OnceEach` of every log; each append preserves it because what is written is chosen from a reading that, by `IInv`, is the log.
`BodiesWhole` is not inductive either, since a branch may be cut at any record: `WholeInv` says that *every cut* of a log between two
records, against the record as it was at that cut (`HeldAt`), is whole.  A crash and a branch then only pick another cut.
`DownInv` says of every log with a header that the rows before it are the record as it stood at the header's stamp.

What the strategy was told (`belief`) is the window only when nothing waits, and a write whose outcome is unknown may wait over any number of
calls.  `HearInv` is of what it *will* have been told once the waiting writes are settled (`SettledOn`), on every branch: a write settles to nothing
against the log without it and to all it named against the log with it (`TellsMoves`, from the ordinals it recorded), so the log
answers for the store.  A given-up hearing is made good by `Select` while a write still waits, and it may then neither
add nor take a row (`WaitsOn`).

**Message store** (`StoreAssumption`: ids at the start are unique and old, as a store writes them).

* `ReadsAreCorrect`: `Spec => []ReadsWhatIsStored`.
* `RemovalsTakeBodiesWhole`: `Spec => BodiesGoWhole`, an action property.
* `AppendsCostNoRead`: `Spec => AppendsStayCheap`, an action property.

A cache that is not current says nothing by itself, so the invariant is about what the counters witness: `Grown`, that while
no gap was seen and the last counted write left the revision, the slot has at most the writes counted since more rows than the
cache, and, if exactly as many, begins with it.  `Faithful` adds that no cache is from the future and that a cache at the slot's
revision is the slot.  `StoreRight` has this of every instance against its handle's branch.  `IdsRight` (ids are unique and none is from the
future) is what `BodiesGoWhole` needs to follow a row through a step; `CountsRight` (a cache at the last counted revision has counted all) is what
`AppendsStayCheap` needs.

**Compression lane** (`WorldsAssumption`, `NoneAssumption`).

* `LaneTyped`: `Spec => [](TypeInv /\ StoreInv)`: types, and that a merge whose call is out heads its queue and stands there once.
* `WorkKept`, `WrittenAtMostOnce`, `OutageHarmless`: `Spec => []WorkIsKept`, `[]WrittenOnce`, `[]OutageDecidesNothing`.

`WrittenOnce` needs that no load stands again: `StaleInv`, in `TypeInv`, says that a call left out was made under an earlier load than the one that
stands, so that its answer fails the check.
`WorkIsKept` needs `KeptInv`: a chunk whose call was superseded is queued again by the rebuild that superseded it, which the property does not say.
`OutageDecidesNothing` speaks of decisions already taken; `Evidence` carries the landings each run of failures not yet decided was counted
on.  The module begins with the facts about lists these rest on: what a filter keeps, its order, its length, and that it is injective where the list is.

**Request ladder** (`WorldsTyped`: a world's families and the instances that ask are finite, each instance asks in a family of its
world, and the cap is a number; `NoneIsNoEvent`: a redacted place is no event; the worlds of the run satisfy both).

* `NoAnswerIsBoughtTwice`: `Spec => []PaidOnce`.
* `NothingComesBack`: `Spec => NothingBack`, an action property: a ladder whose family's progress went since it saw it, or whose
  span left, writes no quarantine, and in the first case no progress.

Neither says why no rung is asked again.  `Asks` does: the rung asked is unknown to the ladder, which knows all its family's progress.  A write
of progress by another ladder would break it; `OneFlight`, a family in flight is one instance's, says there is none, and a clearing or a
checkpoint of another instance only takes progress away.

* `ToldOnceAlways`: `Spec => []ToldOnce`: a quarantine is alerted of once and once more a crash, and until a crash none stands with its
  alert neither pending nor sent.
* `AlertedOnceAlways`: `Spec => []AlertedOnce` under `LegacyFits`: that, and that a chunk's records pass the cap only by the ladders under way.
  `LegacyFits` says the first release's snapshot holds fewer of a chunk's families than the cap and the ladders asking: no cap
  held in that release, so where its snapshot holds more, there are more than the cap from the start.
* `LedgerKeepsAlways`: `Spec => LedgerKeeps`, an action property: the checkpoint event, its redaction and its compaction each leave what the
  ledger says of every family kept, also when a crash leaves the rest undone.

`Projection` is a recursive function over the ledger.  `ReplaySteps` and `ReplaysAgree` (by a least place where two replays
differ) give what the proofs use of it: an appended event is replayed last, and a checkpoint at the end is all the ledger says.  `LInv` has three parts.
`Owes` says what the holder of the lock still owes, as the rest of one of the code's sequences, so that a redaction or compaction is under a
checkpoint; `Tells` that an unsent record's generation was alerted of no oftener than there were crashes, unless its word is owed next, that unsent records
share no generation and that none is past the last event: without these a later telling could repeat an earlier one.  `Bound` counts the records and the
families in flight together, for a ladder that ends turns the one into the other and begins only below the cap.

**Stored summaries**

* `OneParentAlways`: `Spec => []OneParent`.  It needs no typing of the copies: what `Standing` keeps stands
  (a union of standing parts is one), what `Kept` keeps is in `first` and keeps its children, so a kept lister is its
  members' `ParentOf`, and that parent, being kept, is what `PointedAt` writes.
* `SettlesOnceAlways`: `Spec => []SettlesOnce` (`WritersAssumption`: writers append copies as the store types them): the settled list
  settles to itself.  Every load writes what it settled, so a second load must find nothing to do.  `StoreType` says what may be
  in the store; `SettledForest`, that what settles is a forest, each copy one of the store's, one per summary, its children pointing at it; and
  `ForestSettles`, that such a list keeps all it has and every pointer.
* `InteriorLeavesNone`, `NewestLeavesNone`: for every threshold and every run length, a group has two members
  at least, is no larger than what is left, and what it leaves is nothing or can be grouped again (interior) or may still grow
  (newest); so no member of an interior run is left alone.

**Reading an index** (`WindowRead`)

* `ReadAsAWhole`: `ReadSpec => []LogAsRead`: for every log, of any length, the maps `WindowReading.apply` changes item by item say what the
  definitions of `WindowLog` say of the whole log: the window, the mode, the write-down, ordinals, undone and left rows.  All
  other modules use those definitions, so this is what lets them.  `RInv` ties each map to its definition (`Shaped`, `OrdinalsAre`, `RowsAre`,
  `IssuedAre`, `BesideAre`), and one lemma per kind of item says what one more does to each.

**Windowed passthrough** (`PlanAssumption`, `NoneAssumption`, `BranchAssumption`).

* `SlotIsMemoryAlways`: `Spec => []SlotIsMemory`: an anchor in memory whose write is not owed shows the rows the slot would show a process that
  loads it.  `IInv` is `TypeInv`, `RowsInv`, `SlotInv` and `MemInv`.  The slot may lack the ordinal the memory has looked up, so equality of the two is not what holds: they need
  only agree (`Agrees`).  An ordinal of 0 and one looked up from a sequence
  show the same rows only if no row stands before it (`NoneBefore`), which later writes must keep: items are appended behind it, and the
  rows of a branch are those of the store, whose sequences only rise.

**Only model-checked**, and why:

* `EachGetsItsTurn`: liveness under fairness, which the prover does not reach, nor `ENABLED`.
* `CutMergesSettle`, `FoldedOnce` and the tree's other properties: a handler is a fold over its trail of writes, given as
  an operator; what it computes for every input is induction over data.
* `RefusesWhatCannotFit` and `WhatWasSentStays` (the rows that fit are counted by a fold).
* `ControlHolds`, `PlanIsSent`, `RowsTold`, `RequestPairs`, `CutsAreLegal`, `RepairUncrosses`, `MintsTellHistory`: the algorithms are recursive operators.
* The refinement (`ImplementsAgentWindow`): the listing is a filter by places of the log, whose facts are still to be
  stated.  `UnpresentedIsPresentable` needs what `WholeInv` says of the window said of the undone rows of every cut too.
* The journal's `HeardIsDurable` and `ChangesAreTold`, the notices' `ToldIsWindow` and the bindings' `SentWhereMinted`: within reach, not done.

## Left

In order of weight:

1. The steps of the window refinement, with the facts about listings it needs; the journal's one record per compile (in `HeardIsDurable`).
2. The policy of kv-unified and its packed and subtree searches, compared with the enumerations of `CanonicalForest`.
3. *Layout arithmetic* of the fold journal as operators: a delta applied to the old layout gives the new one; compile provenance with it.
4. The rebuild mode of the topology repair; keeper selection; the `reject` topology policy; mint preimages (the records of what a mint was asked).

Not modelled, and why, is said per component in `PROJECT.json`: conversions of one message's content, wording, diagnostics and declarations have no
state that several steps could break.
