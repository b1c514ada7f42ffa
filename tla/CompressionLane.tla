---------------------------- MODULE CompressionLane ----------------------------
(***************************************************************************)
(* The compression lane of one loaded branch: the queue of chunks waiting  *)
(* for their L1, the queue of merges, and tick, which runs one call at a   *)
(* time over both and decides after each failure whose turn comes next.    *)
(* A chunk is its place among the closed ones; merge i is the number -i    *)
(* and folds the chunks of the i-th group.  What a chunk or a merge holds, *)
(* and how it is written, is in SummaryTree; here it only lands.           *)
(***************************************************************************)
EXTENDS Integers, KeptSequences

CONSTANTS Worlds, \* the settings and surroundings a lane may run in
          None
\* A world's fields:
\*   chunks, groups       how many chunks close; the chunks each merge folds
\*   cap, holdback        config.maxSpeculativeL1s, config.l1HoldbackChunks
\*   needsTools           whether the model refuses requests without tools
\*   holdable             the chunks a host may hold, once each
\*   persistent, limit    COMPRESSION_PERSISTENT_FAILURES, config.mergeAttemptLimit
\*   rungs                the requests of one chunk's family
\*   maxReloads           bound: loads of the branch anew, and restarts
\*   maxNoCalls           bound: deferrals, withdrawals, discards, cleared quarantines
ASSUME WorldsAssumption == \A w \in Worlds :
    /\ w.chunks \in Nat /\ w.groups \in Seq(SUBSET (1..w.chunks))
    /\ w.persistent \in Nat \ {0} /\ w.holdback \in Nat
ASSUME NoneAssumption == None \notin Int

VARIABLE world
VARIABLES done,      \* chunks whose L1 is in the store
          merged,    \* merges whose summary is in the store
          written,   \* how often each item was written
          merges,    \* mergeQueue: persisted, as are the attempts
          attempts,  \* rejections counted on each queued merge
          parked,    \* mergeQuarantine
          rung,      \* rungs the chunk's family progress holds as decided
          exhausted, \* chunks the quarantine ledger holds
          blamed,    \* persistent failures decided against each item
          closed,    \* chunks closed so far
          queue,     \* compressionQueue
          order,     \* compressionFailureOrder and mergeFailureOrder, oldest first
          runs,      \* compressionFailureRuns, mergeFailureRuns
          landed,    \* the domain's landings in this process
          waits,     \* chunks whose compressionNotBefore has not come
          toolless,  \* toolsDeferredChunks and toolsDeferredMerge
          yield,     \* reliefYield
          pause,     \* whether compressionPause stands: its backoff or a stated wait
          held,      \* chunks of which a message is held
          holdable,  \* chunks the host may yet hold
          tools,     \* whether the host gives tools
          due,       \* a speculative drain's next tick is due
          turn,      \* the tick under way
          stale,     \* calls an earlier load left out: the item, and the load
          reloads,   \* compressionBranchGeneration
          nocalls

store == <<done, merged, written, merges, attempts, parked, rung, exhausted, blamed>>
lane == <<queue, order, runs, waits, toolless, yield>>
host == <<closed, held, holdable, tools>>
vars == <<world, store, lane, host, landed, pause, due, turn, stale, reloads, nocalls>>

Chunk == 1..world.chunks
Merge == {-i : i \in 1..Len(world.groups)}
Item == Chunk \cup Merge
AnyChunk == UNION {1..w.chunks : w \in Worlds}
AnyMerge == UNION {{-i : i \in 1..Len(w.groups)} : w \in Worlds}
Sources(m) == world.groups[-m]
NoRun == [n |-> 0, at |-> 0]
Closed == 1..closed

(* A hold blocks its own chunk and every later one (holdBlockedIds).       *)
Blocked(c, hs) == \E h \in hs : h <= c
HeadBlocked(ms, hs) == \E c \in Sources(Head(ms)) : Blocked(c, hs)

(* The failure entries that stay: those of chunks still pending and of     *)
(* merges still queued.                                                    *)
Pending(dn, ms) == (Closed' \ dn) \cup ToSet(ms)
Ordered(q, o) == Only(q, ToSet(q) \ ToSet(o)) \o Only(o, ToSet(q))
OrderQueue(q, o, r, w, dn, ms) ==
    /\ order' = Only(o, Pending(dn, ms))
    /\ queue' = Ordered(q, order')
    /\ runs' = [k \in Item |-> IF k \in Pending(dn, ms) THEN r[k] ELSE NoRun]
    /\ waits' = w \cap (Closed' \ dn)
Failed(o, k) == Append(Without(o, k), k)
Forgiven(o, k) == Without(o, k)
(* A mark made of a failure's number never comes back once it fails again. *)
Remark(k) == IF yield # None /\ yield.merge = k /\ yield.failed THEN None ELSE yield

(* rebuildChunks: every open chunk is queued but the held and the newest.  *)
Queueable(dn, hs) ==
    Only([i \in 1..closed' |-> i],
         {c \in Closed' \ dn : ~Blocked(c, hs) /\ c <= closed' - world.holdback})
Rebuild(hs, o, r, w) ==
    /\ OrderQueue(Queueable(done, hs), o, r, w, done, merges)
    /\ toolless' = {}

(* checkMergeThreshold: every group whose sources stand alone is queued.   *)
Ready(m, dn, mg, ms, pk) == Sources(m) \subseteq dn /\ m \notin mg \cup pk /\ ~Contains(ms, m)
CheckMerge(dn, mg, ms, pk) ==
    ms \o Only([i \in 1..Len(world.groups) |-> -i], {m \in Merge : Ready(m, dn, mg, ms, pk)})

(* Past the cap, L1s wait for a queued merge to bring their number down.   *)
CapHolds == /\ Cardinality(done \ UNION {Sources(m) : m \in merged}) > world.cap
            /\ merges # <<>>
ToolsWait == world.needsTools /\ ~tools

-----------------------------------------------------------------------------
(* tick, up to its call: the drain's own tick or the host's. *)
Idle == [stage |-> "idle", item |-> None, drain |-> FALSE, progress |-> FALSE,
         left |-> <<>>, at |-> 0, superseded |-> FALSE, kind |-> None]
Free == turn.stage # "scan"
Began(drain, progress) ==
    [Idle EXCEPT !.stage = "scan", !.drain = drain, !.progress = progress, !.left = queue']
Begin(drain) ==
    /\ queue' = Only(queue, ToSet(queue) \ done)
    /\ toolless' = IF tools THEN {} ELSE toolless
    /\ turn' = Began(drain, Len(queue') < Len(queue))

HostTick == /\ turn = Idle /\ ~pause /\ Begin(FALSE)
            /\ UNCHANGED <<world, store, order, runs, waits, yield, host, landed, pause, due, stale, reloads, nocalls>>

DrainTick == /\ due /\ due' = FALSE
             /\ \/ Free /\ (turn # Idle \/ pause \/ (queue = <<>> /\ merges = <<>>)) /\ UNCHANGED <<turn, queue, toolless>>
                \/ turn = Idle /\ ~pause /\ (queue # <<>> \/ merges # <<>>) /\ Begin(TRUE)
             /\ UNCHANGED <<world, store, order, runs, waits, yield, host, landed, pause, stale, reloads, nocalls>>

(* The tick ends; a drain that moved something asks for another.           *)
EndTurn(progress) == /\ turn' = Idle
                     /\ due' = (due \/ (turn.drain /\ (turn.progress \/ progress)))

Place(k, q) == SelectInSeq(q, LAMBDA x : x = k)
Workable(c) == Contains(queue, c) /\ c \notin toolless \cup waits
Turns == {i \in 1..Len(turn.left) : /\ Workable(turn.left[i])
                                   /\ \A j \in 1..i - 1 : ~Workable(turn.left[j])}

(* A head merge that failed longer ago than the chunk goes before it.      *)
MergeNeverBefore(c) == FALSE
MergeBefore(c) ==
    /\ merges # <<>> /\ ~HeadBlocked(merges, held)
    /\ Contains(order, c)
    /\ Place(Head(merges), order) < Place(c, order)

(* A merge that failed gives one L1 the lane, then its relief may win it.  *)
MayRelieve == /\ merges # <<>> /\ ~HeadBlocked(merges, held)
              /\ Head(merges) \notin toolless /\ ~ToolsWait
Tried == attempts[Head(merges)] > 0 \/ Contains(order, Head(merges))
Mark == [merge |-> Head(merges), attempts |-> attempts[Head(merges)],
         failed |-> Contains(order, Head(merges)), l1 |-> FALSE]
SameMark == yield # None /\ [yield EXCEPT !.l1 = FALSE] = Mark
ByReliefAlone == MayRelieve
ByRelief == MayRelieve /\ (Tried => SameMark /\ yield.l1)
Yields == MayRelieve /\ Tried /\ ~SameMark

Out(item, kind) == [turn EXCEPT !.stage = "out", !.item = item, !.kind = kind]
GoMerge ==
    /\ IF merges = <<>> \/ HeadBlocked(merges, held)
       THEN EndTurn(FALSE)
       ELSE turn' = Out(Head(merges), IF ToolsWait THEN "tools" ELSE "call") /\ UNCHANGED due
    /\ UNCHANGED <<queue, yield>>
TakeChunk(i) ==
    LET c == turn.left[i]
        from == [turn EXCEPT !.left = SubSeq(@, i + 1, Len(@)), !.progress = TRUE,
                             !.at = Place(c, queue), !.superseded = FALSE] IN
    /\ queue' = Without(queue, c)
    /\ yield' = IF Yields THEN Mark ELSE yield
    /\ CASE c \in done -> turn' = from /\ UNCHANGED due
         [] c \notin done /\ Blocked(c, held) -> EndTurn(TRUE)
         [] OTHER -> /\ turn' = [from EXCEPT !.stage = "out", !.item = c, !.kind =
                                   IF ToolsWait THEN "tools" ELSE IF c \in exhausted THEN "skip" ELSE "call"]
                     /\ UNCHANGED due

Scan ==
    /\ turn.stage = "scan"
    /\ \/ (CapHolds \/ Turns = {}) /\ GoMerge
       \/ \E i \in Turns : ~CapHolds /\ (MergeBefore(turn.left[i]) \/ ByRelief) /\ GoMerge
       \/ \E i \in Turns : ~CapHolds /\ ~MergeBefore(turn.left[i]) /\ TakeChunk(i)
    /\ UNCHANGED <<world, store, order, runs, waits, toolless, host, landed, pause, stale, reloads, nocalls>>

-----------------------------------------------------------------------------
(* What a chunk's call comes back with. *)
L1Out(kind) == turn.stage = "out" /\ turn.item \in Chunk /\ turn.kind = kind
MergeOut(kind) == turn.stage = "out" /\ turn.item \in Merge /\ turn.kind = kind
L1Tried == IF yield = None THEN None ELSE [yield EXCEPT !.l1 = TRUE]
AtHead(c) == IF turn.superseded THEN queue ELSE <<c>> \o Without(queue, c)
AtBackUnlessQueued(c) == queue
AtBack(c) == IF turn.superseded \/ Contains(queue, c) THEN queue ELSE Append(queue, c)
AtPlace(c) == LET q == Without(queue, c) IN
    IF turn.superseded THEN queue ELSE InsertAt(q, IF turn.at <= Len(q) THEN turn.at ELSE Len(q) + 1, c)
EveryFailure(r) == [n |-> r.n + 1, at |-> landed]
NextRun(r) == CASE r.n = 0 -> [n |-> 1, at |-> landed]
                [] r.n > 0 /\ landed <= r.at -> r
                [] OTHER -> [n |-> r.n + 1, at |-> landed]
PauseLane == pause' = TRUE
Persists(k) == NextRun(runs[k]).n >= world.persistent

\* Mutant of Current: the check after the call's await is gone.
CurrentAlways(load) == TRUE
(* A result counts only while the load its call was made under stands.     *)
(* The tick under way is that load's, since a load ends the last one's.    *)
Current(load) == load = reloads
Write(k, counts) ==
    /\ done' = IF counts /\ k \in Chunk THEN done \cup {k} ELSE done
    /\ merged' = IF counts /\ k \in Merge THEN merged \cup {k} ELSE merged
    /\ written' = IF counts THEN [written EXCEPT ![k] = @ + 1] ELSE written

LandL1 ==
    /\ L1Out("call")
    /\ LET c == turn.item IN
       /\ Write(c, ~Blocked(c, held))
       /\ landed' = IF c \in done' THEN landed + 1 ELSE landed
       /\ rung' = [rung EXCEPT ![c] = IF c \in done' THEN 0 ELSE @]
       /\ runs' = [runs EXCEPT ![c] = IF c \in done' THEN NoRun ELSE @]
       /\ order' = Forgiven(order, c)
    /\ merges' = CheckMerge(done', merged, merges, parked)
    /\ yield' = L1Tried
    /\ EndTurn(TRUE)
    /\ UNCHANGED <<world, attempts, parked, exhausted, blamed, queue, waits, toolless, host, pause, stale, reloads, nocalls>>

(* A rung decided: the next one is asked, or the family is exhausted.      *)
DecideRung(c) ==
    /\ runs' = [runs EXCEPT ![c] = NoRun]
    /\ IF rung[c] + 1 < world.rungs
       THEN rung' = [rung EXCEPT ![c] = @ + 1] /\ UNCHANGED <<exhausted, order, turn, due>>
       ELSE /\ rung' = [rung EXCEPT ![c] = 0]
            /\ exhausted' = exhausted \cup {c}
            /\ order' = Forgiven(order, c)
            /\ EndTurn(TRUE)
    /\ UNCHANGED <<world, done, merged, written, merges, attempts, parked, queue, waits, toolless, yield, host, landed, pause, stale, reloads, nocalls>>
RejectL1 == L1Out("call") /\ DecideRung(turn.item) /\ UNCHANGED blamed
PersistL1 == /\ L1Out("call") /\ Persists(turn.item) /\ DecideRung(turn.item)
             /\ blamed' = [blamed EXCEPT ![turn.item] = @ + 1]

FailL1 ==
    /\ L1Out("call") /\ ~Persists(turn.item)
    /\ UNCHANGED <<world, store, toolless, host, landed, due, stale, reloads, nocalls>>
    /\ LET c == turn.item IN
       OrderQueue(AtBack(c), Failed(order, c), [runs EXCEPT ![c] = NextRun(@)], waits, done, merges)
    /\ PauseLane /\ yield' = L1Tried /\ turn' = Idle

(* A withdrawal, or a deferral by the caller's admission: no call failed.  *)
NoCallL1 ==
    /\ L1Out("call") /\ nocalls < world.maxNoCalls /\ nocalls' = nocalls + 1
    /\ UNCHANGED <<world, store, toolless, yield, host, landed, due, stale, reloads>>
    /\ OrderQueue(AtHead(turn.item), order, runs, waits, done, merges)
    /\ pause' \in BOOLEAN /\ turn' = Idle

(* Its split rung waits for its window, or the work it joined was dropped: *)
(* the tick goes on with the next chunk.                                   *)
PassL1 ==
    /\ L1Out("call") /\ nocalls < world.maxNoCalls /\ nocalls' = nocalls + 1
    /\ UNCHANGED <<world, store, toolless, yield, host, landed, pause, due, stale, reloads>>
    /\ \E w \in {waits, waits \cup {turn.item}} : OrderQueue(AtHead(turn.item), order, runs, w, done, merges)
    /\ turn' = [turn EXCEPT !.stage = "scan", !.item = None]

SkipL1 ==
    /\ L1Out("skip")
    /\ UNCHANGED <<world, store, toolless, yield, host, landed, pause, due, stale, reloads, nocalls>>
    /\ LET c == turn.item IN OrderQueue(queue, Failed(order, c), [runs EXCEPT ![c] = NoRun], waits, done, merges)
    /\ turn' = [turn EXCEPT !.stage = "scan", !.item = None]

DeferL1 ==
    /\ L1Out("tools")
    /\ UNCHANGED <<world, store, yield, host, landed, pause, stale, reloads, nocalls>>
    /\ LET c == turn.item IN
       /\ toolless' = IF turn.superseded THEN toolless ELSE toolless \cup {c}
       /\ OrderQueue(AtPlace(c), Forgiven(order, c), runs, waits, done, merges)
    /\ EndTurn(TRUE)

-----------------------------------------------------------------------------
(* What a merge's call comes back with. *)
LandMerge ==
    /\ MergeOut("call") /\ ~HeadBlocked(merges, held)
    /\ LET m == turn.item IN
       /\ Write(m, TRUE)
       /\ merges' = Tail(CheckMerge(done, merged', merges, parked))
       /\ order' = Forgiven(order, m)
    /\ landed' = landed + 1
    /\ EndTurn(TRUE)
    /\ UNCHANGED <<world, attempts, parked, rung, exhausted, blamed, queue, runs, waits, toolless, yield, host, pause, stale, reloads, nocalls>>

(* A hold placed on its span during the call: it stays queued.             *)
DiscardMerge ==
    /\ MergeOut("call") /\ HeadBlocked(merges, held)
    /\ order' = Forgiven(order, turn.item) /\ runs' = [runs EXCEPT ![turn.item] = NoRun]
    /\ EndTurn(TRUE)
    /\ UNCHANGED <<world, store, queue, waits, toolless, yield, host, landed, pause, stale, reloads, nocalls>>

CountRejection(m) ==
    /\ order' = Forgiven(order, m) /\ runs' = [runs EXCEPT ![m] = NoRun]
    /\ IF attempts[m] + 1 < world.limit
       THEN attempts' = [attempts EXCEPT ![m] = @ + 1] /\ UNCHANGED <<merges, parked>>
       ELSE /\ attempts' = [attempts EXCEPT ![m] = 0]
            /\ parked' = parked \cup {m}
            /\ merges' = CheckMerge(done, merged, Tail(merges), parked')
    /\ EndTurn(TRUE)
    /\ UNCHANGED <<world, done, merged, written, rung, exhausted, queue, waits, toolless, yield, host, landed, pause, stale, reloads, nocalls>>
RejectMerge == MergeOut("call") /\ CountRejection(turn.item) /\ UNCHANGED blamed
PersistMerge == /\ MergeOut("call") /\ Persists(turn.item) /\ CountRejection(turn.item)
                /\ blamed' = [blamed EXCEPT ![turn.item] = @ + 1]

FailMerge ==
    /\ MergeOut("call") /\ ~Persists(turn.item)
    /\ runs' = [runs EXCEPT ![turn.item] = NextRun(@)]
    /\ order' = Failed(order, turn.item) /\ yield' = Remark(turn.item)
    /\ merges' = Append(Tail(merges), turn.item)
    /\ PauseLane /\ turn' = Idle
    /\ UNCHANGED <<world, done, merged, written, attempts, parked, rung, exhausted, blamed, queue, waits, toolless, host, landed, due, stale, reloads, nocalls>>

NoCallMerge ==
    /\ MergeOut("call") /\ nocalls < world.maxNoCalls /\ nocalls' = nocalls + 1
    /\ pause' \in BOOLEAN /\ turn' = Idle
    /\ UNCHANGED <<world, store, lane, host, landed, due, stale, reloads>>

DeferMerge ==
    /\ MergeOut("tools")
    /\ toolless' = toolless \cup {turn.item}
    /\ EndTurn(FALSE)
    /\ UNCHANGED <<world, store, queue, order, runs, waits, yield, host, landed, pause, stale, reloads, nocalls>>

-----------------------------------------------------------------------------
(* The host, the clock and the other loads of the branch. *)
Supersede == turn' = IF turn = Idle THEN Idle ELSE [turn EXCEPT !.superseded = TRUE]
Drive == due' = (due \/ turn = Idle)

CloseChunk ==
    /\ Free /\ closed < world.chunks /\ closed' = closed + 1
    /\ Rebuild(held, order, runs, waits) /\ Supersede /\ Drive
    /\ UNCHANGED <<world, store, yield, held, holdable, tools, landed, pause, stale, reloads, nocalls>>

TakeHold(c) ==
    /\ Free /\ c \in holdable /\ holdable' = holdable \ {c} /\ held' = held \cup {c}
    /\ UNCHANGED <<world, store, lane, closed, tools, landed, pause, due, turn, stale, reloads, nocalls>>
ReleaseHold(c) ==
    /\ Free /\ c \in held /\ held' = held \ {c}
    /\ UNCHANGED closed
    /\ Rebuild(held', order, runs, waits) /\ Supersede /\ Drive
    /\ UNCHANGED <<world, store, yield, holdable, tools, landed, pause, stale, reloads, nocalls>>

PauseEnds == /\ pause /\ pause' = FALSE
             /\ UNCHANGED <<world, store, lane, host, landed, due, turn, stale, reloads, nocalls>>
WaitEnds(c) == /\ c \in waits /\ waits' = waits \ {c}
               /\ UNCHANGED <<world, store, queue, order, runs, toolless, yield, host, landed, pause, due, turn, stale, reloads, nocalls>>
ToolsArrive == /\ ~tools /\ tools' = TRUE
               /\ UNCHANGED <<world, store, lane, closed, held, holdable, landed, pause, due, turn, stale, reloads, nocalls>>

(* clearMergeQuarantine: the group is queued again with its budget anew.   *)
ClearParked(m) ==
    /\ Free /\ m \in parked /\ parked' = parked \ {m}
    /\ nocalls < world.maxNoCalls /\ nocalls' = nocalls + 1
    /\ merges' = CheckMerge(done, merged, Append(merges, m), parked')
    /\ UNCHANGED <<world, done, merged, written, attempts, rung, exhausted, blamed, lane, host, landed, pause, due, turn, stale, reloads>>

(* The branch is left and loaded anew: the call out is withdrawn, and may  *)
(* come back with a result all the same.                                   *)
Reload ==
    /\ Free /\ reloads < world.maxReloads /\ reloads' = reloads + 1
    /\ stale' = IF turn = Idle THEN stale ELSE stale \cup {[item |-> turn.item, load |-> reloads]}
    /\ turn' = Idle /\ due' = FALSE /\ yield' = None
    /\ UNCHANGED <<world, store, host, landed, pause, nocalls>>
    /\ Rebuild(held, order, runs, waits)
ReturnStale(s) ==
    /\ Free /\ s \in stale /\ stale' = stale \ {s}
    /\ Write(s.item, Current(s.load))
    /\ UNCHANGED <<world, merges, attempts, parked, rung, exhausted, blamed, lane, host, landed, pause, due, turn, reloads, nocalls>>

(* The process ends and another loads the store: holds are not persisted,  *)
(* and the host has yet to give its tools.                                 *)
Restart ==
    /\ Free /\ reloads < world.maxReloads /\ reloads' = reloads + 1
    /\ turn' = Idle /\ due' = FALSE /\ yield' = None /\ stale' = {} /\ pause' = FALSE
    /\ landed' = 0 /\ held' = {} /\ tools' = ~world.needsTools
    /\ UNCHANGED <<world, store, closed, holdable, nocalls>>
    /\ Rebuild({}, <<>>, [k \in Item |-> NoRun], {})

-----------------------------------------------------------------------------
Init ==
    /\ world \in Worlds
    /\ done = {} /\ merged = {} /\ written = [k \in Item |-> 0]
    /\ merges = <<>> /\ attempts = [k \in Item |-> 0] /\ parked = {}
    /\ rung = [c \in Chunk |-> 0] /\ exhausted = {} /\ blamed = [k \in Item |-> 0]
    /\ closed = 0 /\ queue = <<>> /\ order = <<>> /\ runs = [k \in Item |-> NoRun]
    /\ landed = 0 /\ waits = {} /\ toolless = {} /\ yield = None /\ pause = FALSE
    /\ held = {} /\ holdable = world.holdable /\ tools \in {~world.needsTools, TRUE}
    /\ due = FALSE /\ turn = Idle /\ stale = {} /\ reloads = 0 /\ nocalls = 0

Answer == \/ LandL1 \/ RejectL1 \/ PersistL1 \/ FailL1 \/ NoCallL1 \/ PassL1 \/ SkipL1 \/ DeferL1
          \/ LandMerge \/ DiscardMerge \/ RejectMerge \/ PersistMerge \/ FailMerge \/ NoCallMerge \/ DeferMerge
Host == \/ CloseChunk \/ ToolsArrive \/ Reload \/ Restart \/ PauseEnds
        \/ \E c \in Chunk : TakeHold(c) \/ ReleaseHold(c) \/ WaitEnds(c)
        \/ \E m \in Merge : ClearParked(m)
        \/ \E s \in stale : ReturnStale(s)
Next == HostTick \/ DrainTick \/ Scan \/ Answer \/ Host

(* Every call settles, the host ticks periodically, waits and holds end,   *)
(* and a host whose model needs tools gives them.                          *)
Fairness == /\ WF_vars(HostTick) /\ WF_vars(DrainTick) /\ WF_vars(Scan) /\ WF_vars(Answer)
            /\ WF_vars(PauseEnds) /\ WF_vars(ToolsArrive)
            /\ WF_vars(\E c \in Chunk : WaitEnds(c)) /\ SF_vars(\E c \in Chunk : ReleaseHold(c))
Spec == Init /\ [][Next]_vars /\ Fairness

-----------------------------------------------------------------------------
(* Work is kept: a chunk that closed and has no summary is queued, or its  *)
(* call is out, or a hold blocks it, or its family is exhausted, or it is  *)
(* among the newest, which wait.                                           *)
WorkIsKept == \A c \in Closed \ done :
    \/ Contains(queue, c) \/ (turn.item = c)
    \/ Blocked(c, held) \/ c \in exhausted \/ c > closed - world.holdback

(* A call that outlived its load writes nothing, so nothing is written     *)
(* twice when the new load works on the same item.                         *)
WrittenOnce == \A k \in Item : written[k] <= 1

(* An outage decides nothing: every decision taken on an item because its  *)
(* failures persisted stands on that many landings of other work.          *)
OutageDecidesNothing == \A k \in Item : blamed[k] * (world.persistent - 1) <= Cardinality(done \cup merged)

(* No starvation of chunks: a queued chunk's turn comes, unless the cap    *)
(* holds production for a merge or a hold takes the chunk out.             *)
ChunkGetsItsTurn == \A c \in AnyChunk :
    Contains(queue, c) ~> (turn.item = c) \/ c \in done \/ Blocked(c, held) \/ CapHolds

(* No starvation of merges: a queued merge's turn comes, however many      *)
(* chunks wait and fail.                                                   *)
MergeGetsItsTurn == \A m \in AnyMerge :
    Contains(merges, m) ~> (turn.item = m) \/ ~Contains(merges, m)

(* Neither queue starves the other.                                        *)
EachGetsItsTurn == ChunkGetsItsTurn /\ MergeGetsItsTurn
=============================================================================
