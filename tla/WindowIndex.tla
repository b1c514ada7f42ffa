----------------------------- MODULE WindowIndex -----------------------------
(***************************************************************************)
(* The window index of one manager namespace (src/src/window-index.ts) and *)
(* the manager operations that write it (src/src/context-manager.ts):      *)
(* which stored rows an agent has been shown, in what order, per branch.   *)
(*                                                                         *)
(* The store holds, per branch, the record (rows and their removals) and   *)
(* the index log; every store record takes the next sequence, which is     *)
(* also its identity.  A handle stands for one WindowIndex: it keeps a     *)
(* reading of the log keyed by the log's revision, and the writes whose    *)
(* outcome a failed read left unknown.  A public call runs in one turn of  *)
(* the event loop, so it is one action; a write it makes may throw, before *)
(* or after the store kept it, and the index may then not read either.     *)
(*                                                                         *)
(* `belief` and the settlements' `landed` are history: what the strategy's *)
(* hooks have told it the window holds, and what the store really kept.    *)
(***************************************************************************)
EXTENDS WindowLog

CONSTANTS
    Handles,    \* the handles that read and write the index
    Branches,   \* the branch names the host uses
    Main,       \* the branch every handle starts on
    Bodies0,    \* the rows stored at the start: each row's body's first row
    Logs0,      \* the index logs the main branch may start with
    Outcomes,   \* how a write of the index may end
    MaxSeq,     \* bound on the store's sequence
    MaxNames,   \* bound on the names of one call
    MaxLoss     \* bound on the records a crash loses

\* How the store's append, and the reads after it, may go: the append kept
\* its record or not, threw or not; the index then read or not; and where it
\* didn't, the store could say its branch or not (Blind).
Refusals == {"refused", "refusedUnread", "refusedBlind"}
Landings == {"ok", "landed", "landedUnread", "landedBlind"}
Unread   == {"refusedUnread", "landedUnread", "refusedBlind", "landedBlind"}
Blind    == {"refusedBlind", "landedBlind"}

ASSUME BranchAssumption == Main \in Branches
ASSUME OutcomeAssumption == "ok" \in Outcomes /\ Outcomes \subseteq Refusals \cup Landings
ASSUME BoundAssumption == MaxSeq \in Nat /\ MaxNames \in Nat /\ MaxLoss \in Nat

\* A body's rows are stored together: its first row names it.
ASSUME BodyAssumption ==
    /\ Bodies0 \in Seq(Nat)
    /\ \A r \in 1 .. Len(Bodies0) : Bodies0[r] \in 1 .. r

\* A log the store can hold: stamps rise, after the rows stored at the start.
ASSUME LogAssumption ==
    /\ Logs0 \subseteq Seq(Item)
    /\ \A s \in Logs0 : \A i, j \in 1 .. Len(s) : i < j => s[i].by <= s[j].by
    /\ \A s \in Logs0 : \A i \in 1 .. Len(s) : Len(Bodies0) < s[i].by

VARIABLES
    seq,        \* the sequence of the store's newest record
    body,       \* per stored row, its body's first row
    rows,       \* per branch, the rows ever stored on it
    gone,       \* per branch, the removals: [row, at]
    log,        \* per branch, the index log
    live,       \* the branches made
    cur,        \* per handle, the branch it is on
    reading,    \* per handle, its last reading of the index
    waiting,    \* per handle and branch, the write waiting to be settled
    belief,     \* per branch, the window as the strategy's hooks told it
    lost        \* per branch, whether a hearing was given up

store   == <<seq, body, rows, gone, log, live>>
handle  == <<cur, reading, waiting>>
history == <<belief, lost>>
vars    == <<store, handle, history>>

NoReading == [rev |-> -1, items |-> <<>>]

\* A write whose outcome is unknown: the rows it would put in, those it would
\* take out with the ordinals they held, and (history) whether it landed.
Settlement ==
    [entering : SUBSET Nat, leaving : SUBSET [id : Nat, ordinal : Nat], landed : BOOLEAN]

-----------------------------------------------------------------------------
(* The record, the log and the cuts a branch is made at.                   *)

Held(b) == rows[b] \ {g.row : g \in gone[b]}

\* The record as of sequence t, and how much of the log was written by then.
HeldAt(b, t) == {r \in rows[b] : r <= t} \ {g.row : g \in {x \in gone[b] : x.at <= t}}
Boundary(b, t) ==
    {n \in 0 .. Len(log[b]) : \A i \in 1 .. Len(log[b]) : log[b][i].by <= t <=> i <= n}
LogAt(b, t) == SubSeq(log[b], 1, CHOOSE n \in Boundary(b, t) : TRUE)

BodyOf(b, r) == {x \in Held(b) : body[x] = body[r]}

\* Mutant of Rest: an older build's, which took a body by one shard.
RestOneShard(b, id) == {id}

\* The rows a name stands for: the row and the later shards of its body.
Rest(b, id) == IF id \in Held(b) THEN {x \in BodyOf(b, id) : x >= id} ELSE {id}

\* Mutant of Ascending: the rows sorted the other way.
Descending(S) ==
    LET nth(i) == CHOOSE x \in S : Cardinality({y \in S : y > x}) = i - 1
    IN {[i \in 1 .. Cardinality(S) |-> nth(i)]}

\* The rows of a set in record order: the one sequence, as a set of it.
Ascending(S) ==
    LET nth(i) == CHOOSE x \in S : Cardinality({y \in S : y < x}) = i - 1
    IN {f \in {[i \in 1 .. Cardinality(S) |-> nth(i)]} : f \in Seq(S)}

ItemsOf(kind, f, w) == [i \in 1 .. Len(f) |-> [kind |-> kind, id |-> f[i], by |-> w]]
Header(w) == <<[kind |-> "header", id |-> 0, by |-> w]>>

-----------------------------------------------------------------------------
(* Reading the index: revision, current, readOn, read.                     *)

Revision(s) == IF s = <<>> THEN 0 ELSE s[Len(s)].by

\* Mutant of Continues: a longer log taken for the reading's continuation.
ContinuesByLength(r, s) ==
    /\ r.items # <<>>
    /\ Len(r.items) <= Len(s)
    /\ ~Foreign(r.items)

\* Whether reading r is a prefix of log s: the record that wrote r's last
\* item stands at that item's ordinal.
Continues(r, s) ==
    /\ r.items # <<>>
    /\ Len(r.items) <= Len(s)
    /\ s[Len(r.items)].by = r.items[Len(r.items)].by
    /\ ~Foreign(r.items)
    /\ \A i \in Len(r.items) + 1 .. Len(s) : s[i].kind \notin {"otherFormat", "unreadable"}

ReadOver(r, s) ==
    IF r.rev = Revision(s) THEN r
    ELSE IF Continues(r, s)
         THEN [rev |-> Revision(s), items |-> r.items \o SubSeq(s, Len(r.items) + 1, Len(s))]
         ELSE [rev |-> Revision(s), items |-> s]

Current(h) == ReadOver(reading[h], log[cur[h]])

\* Mutant of ReadAfter: the revision of a write that threw, without its items.
ReadAfterStamped(h, batch, o) ==
    [rev |-> Revision(log[cur[h]] \o batch),
     items |-> IF o = "ok" THEN Current(h).items \o batch ELSE Current(h).items]

\* The handle's reading once a write of batch has ended as o: the items are
\* added to the reading, the revision is the store's.
ReadAfter(h, batch, o) ==
    IF o = "ok" THEN [rev |-> Revision(log[cur[h]] \o batch), items |-> Current(h).items \o batch]
    ELSE IF o \in Unread THEN NoReading
    ELSE LET s == IF o \in Landings THEN log[cur[h]] \o batch ELSE log[cur[h]]
         IN [rev |-> Revision(s), items |-> s]

-----------------------------------------------------------------------------
(* Settling writes whose outcome is unknown, and telling the strategy.     *)

\* Mutant of EnteredOf: every row the write named, whether it landed or not.
EnteredAsNamed(u, s) == u.entering

EnteredOf(u, s) ==
    {id \in u.entering : /\ InWindow(s, id)
                         /\ [id |-> id, ordinal |-> OrdinalIn(s, id)] \notin u.leaving}
LeftOf(u, s) ==
    {x.id : x \in {y \in u.leaving : ~(InWindow(s, y.id) /\ OrdinalIn(s, y.id) = y.ordinal)}}

Hear(B, u, s) == (B \ LeftOf(u, s)) \cup EnteredOf(u, s)

Due(h) == waiting[h][cur[h]]

\* The belief once every write due on the handle's branch has been heard of.
Settled(h) ==
    LET s == Current(h).items
    IN (belief[cur[h]] \ UNION {LeftOf(u, s) : u \in Due(h)})
         \cup UNION {EnteredOf(u, s) : u \in Due(h)}

Write(h, batch, o) ==
    /\ log' = IF o \in Landings THEN [log EXCEPT ![cur[h]] = @ \o batch] ELSE log
    /\ reading' = [reading EXCEPT ![h] = ReadAfter(h, batch, o)]

\* Mutant of Tell: a write whose outcome is unknown is forgotten.
TellForgets(h, u, batch, o) ==
    LET b == cur[h]
        s == IF o \in Landings THEN log[b] \o batch ELSE log[b]
    IN /\ o \in Blind => \A c \in Branches : waiting[h][c] = {}
       /\ belief' = [belief EXCEPT ![b] =
                        IF o = "ok" THEN (Settled(h) \ {x.id : x \in u.leaving}) \cup u.entering
                        ELSE IF o \in Unread THEN Settled(h)
                        ELSE Hear(Settled(h), u, s)]
       /\ waiting' = [waiting EXCEPT ![h][b] = {}]
       /\ lost' = [lost EXCEPT ![b] = @ \/ o \in Blind]

\* What the strategy hears of a write u made after settling: at once where it
\* returned or the index read again, at the branch's next write where it
\* didn't, never where the store couldn't say its branch before or after.
Tell(h, u, batch, o) ==
    LET b == cur[h]
        s == IF o \in Landings THEN log[b] \o batch ELSE log[b]
    IN /\ o \in Blind => \A c \in Branches : waiting[h][c] = {}
       /\ belief' = [belief EXCEPT ![b] =
                        IF o = "ok" THEN (Settled(h) \ {x.id : x \in u.leaving}) \cup u.entering
                        ELSE IF o \in Unread THEN Settled(h)
                        ELSE Hear(Settled(h), u, s)]
       /\ waiting' = [waiting EXCEPT ![h][b] = IF o \in Unread \ Blind THEN {u} ELSE {}]
       /\ lost' = [lost EXCEPT ![b] = @ \/ o \in Blind]

-----------------------------------------------------------------------------
(* Init.                                                                   *)

Init ==
    /\ \E s \in Logs0 :
         /\ log = [b \in Branches |-> IF b = Main THEN s ELSE <<>>]
         /\ seq = IF s = <<>> THEN Len(Bodies0) ELSE Revision(s)
         /\ belief = [b \in Branches |-> IF b = Main THEN WindowOf(s) ELSE {}]
    /\ body = Bodies0
    /\ rows = [b \in Branches |-> IF b = Main THEN 1 .. Len(Bodies0) ELSE {}]
    /\ gone = [b \in Branches |-> {}]
    /\ live = {Main}
    /\ cur = [h \in Handles |-> Main]
    /\ reading = [h \in Handles |-> NoReading]
    /\ waiting = [h \in Handles |-> [b \in Branches |-> {}]]
    /\ lost = [b \in Branches |-> FALSE]

-----------------------------------------------------------------------------
(* The record: adding and removing rows.                                   *)

\* Mutant of AddMessage: only a body's first shard is kept with its body.
AddFirstShard(h, shards) ==
    /\ seq + shards <= MaxSeq
    /\ seq' = seq + shards
    /\ body' = [r \in DOMAIN body \cup {seq + 1} |-> IF r \in DOMAIN body THEN body[r] ELSE seq + 1]
    /\ rows' = [rows EXCEPT ![cur[h]] = @ \cup (seq + 1 .. seq + shards)]
    /\ UNCHANGED <<gone, log, live, handle, history>>

\* addMessage: one row, or a body stored whole as two shards.  It touches no
\* index: in legacy mode the row is in the window, otherwise it waits.
AddMessage(h, shards) ==
    /\ seq + shards <= MaxSeq
    /\ seq' = seq + shards
    /\ body' = [r \in DOMAIN body \cup (seq + 1 .. seq + shards) |->
                  IF r \in DOMAIN body THEN body[r] ELSE seq + 1]
    /\ rows' = [rows EXCEPT ![cur[h]] = @ \cup (seq + 1 .. seq + shards)]
    /\ UNCHANGED <<gone, log, live, handle, history>>

\* removeMessage by the window's own manager: the row leaves the record, and
\* the window, by a tombstone of its own; the strategy is told either way.
RemoveMessage(h, r, o) ==
    LET b == cur[h]
        s == Current(h).items
        batch == ItemsOf("retract", <<r>>, seq + 2)
        inWindow == InEffect(s) /\ InWindow(s, r)
    IN /\ r \in Held(b)
       /\ seq + 2 <= MaxSeq
       /\ seq' = IF inWindow /\ o \in Landings THEN seq + 2 ELSE seq + 1
       /\ gone' = [gone EXCEPT ![b] = @ \cup {[row |-> r, at |-> seq + 1]}]
       /\ waiting' = [waiting EXCEPT ![h][b] = {}]
       /\ IF inWindow
          THEN /\ log' = IF o \in Landings THEN [log EXCEPT ![b] = @ \o batch] ELSE log
               /\ reading' = [reading EXCEPT ![h] =
                    IF o = "ok" THEN ReadAfter(h, batch, o) ELSE NoReading]
               /\ belief' = [belief EXCEPT ![b] = Settled(h) \ {r}]
          ELSE /\ reading' = [reading EXCEPT ![h] = Current(h)]
               /\ belief' = [belief EXCEPT ![b] = Settled(h)]
               /\ UNCHANGED log
       /\ UNCHANGED <<body, rows, live, cur, lost>>

\* removeMessage while the index can't be read: nothing is settled or
\* written, and the strategy is told the row left all the same.
RemoveUnread(h, r) ==
    /\ Outcomes \cap Unread # {}
    /\ r \in Held(cur[h])
    /\ seq + 1 <= MaxSeq
    /\ seq' = seq + 1
    /\ gone' = [gone EXCEPT ![cur[h]] = @ \cup {[row |-> r, at |-> seq + 1]}]
    /\ belief' = [belief EXCEPT ![cur[h]] = @ \ {r}]
    /\ UNCHANGED <<body, rows, log, live, handle, lost>>

\* A removal through a manager that keeps another index: this one isn't told.
RemoveElsewhere(h, r) ==
    /\ r \in Held(cur[h])
    /\ seq + 1 <= MaxSeq
    /\ seq' = seq + 1
    /\ gone' = [gone EXCEPT ![cur[h]] = @ \cup {[row |-> r, at |-> seq + 1]}]
    /\ UNCHANGED <<body, rows, log, live, handle, history>>

-----------------------------------------------------------------------------
(* The write-down: legacy mode's window becomes the index.                 *)

\* Mutant of PrefixWritten: the rows written, whatever their order.
PrefixAnyOrder(b, s) ==
    LET kept == WindowOf(s) \cap Held(b)
    IN \A x, y \in kept : x < y => OrdinalIn(s, x) < OrdinalIn(s, y)

\* The rows an earlier write-down, cut short, wrote and the record holds are
\* the record's first rows, in its order.
PrefixWritten(b, s) ==
    LET kept == WindowOf(s) \cap Held(b)
    IN /\ \A x \in kept, y \in Held(b) \ kept : x < y
       /\ \A x, y \in kept : x < y => OrdinalIn(s, x) < OrdinalIn(s, y)

WriteDownOuts(b, s) == IF PrefixWritten(b, s) THEN WindowOf(s) \ Held(b) ELSE WindowOf(s)
WriteDownIns(b, s)  == IF PrefixWritten(b, s) THEN Held(b) \ WindowOf(s) ELSE Held(b)

\* Mutant of WriteDownItems: the header before the rows it stands for.
WriteDownHeaderFirst(outs, ins, w) ==
    ItemsOf("retract", outs, w) \o Header(w) \o ItemsOf("present", ins, w)

\* One record: tombstones, then the rows in record order, then the header.
WriteDownItems(outs, ins, w) ==
    ItemsOf("retract", outs, w) \o ItemsOf("present", ins, w) \o Header(w)

\* presentRows in legacy mode, whatever rows of the record it names.
WriteDown(h, o) ==
    LET b == cur[h]
        s == Current(h).items
    IN /\ ~InEffect(s) /\ ~Foreign(s)
       /\ seq + 1 <= MaxSeq
       /\ \E outs \in Ascending(WriteDownOuts(b, s)), ins \in Ascending(WriteDownIns(b, s)) :
            Write(h, WriteDownItems(outs, ins, seq + 1), o)
       /\ seq' = IF o \in Landings THEN seq + 1 ELSE seq
       /\ belief' = [belief EXCEPT ![b] = IF o \in Landings THEN Held(b) ELSE Settled(h)]
       /\ waiting' = [waiting EXCEPT ![h][b] = {}]
       /\ UNCHANGED <<body, rows, gone, live, cur, lost>>

-----------------------------------------------------------------------------
(* presentRows and retractRows in presented mode.                          *)

\* The names a call may give: rows stored on the branch at some time.
Calls(b) == UNION {[1 .. n -> rows[b]] : n \in 1 .. MaxNames}

NamedRows(b, names) == UNION {Rest(b, names[i]) : i \in 1 .. Len(names)}

\* No row is named twice, whole bodies taken by their first row.
NamedApart(b, names) ==
    \A i, j \in 1 .. Len(names) : i # j => Rest(b, names[i]) \cap Rest(b, names[j]) = {}

\* Mutant of Presentable: a body by its first row only.
PresentableWhole(b, s, id) ==
    /\ id \in Held(b)
    /\ \A x \in BodyOf(b, id) : id <= x
    /\ \E x \in Rest(b, id) : ~InWindow(s, x)

\* A name presentRows takes: a body by its first row, or the rest of one
\* whose earlier shards are all in the window; not all in the window already.
Presentable(b, s, id) ==
    /\ id \in Held(b)
    /\ \A x \in BodyOf(b, id) : x < id => InWindow(s, x)
    /\ \E x \in Rest(b, id) : ~InWindow(s, x)

\* Shards in the window of a body named where its first named shard is out:
\* they leave, so that the body enters whole, at the end.
Moving(b, s, names) ==
    UNION {{x \in Rest(b, id) : InWindow(s, x)} :
              id \in {names[i] : i \in {k \in 1 .. Len(names) : ~InWindow(s, names[k])}}}

Entering(b, s, names) ==
    {x \in NamedRows(b, names) : x \in Moving(b, s, names) \/ ~InWindow(s, x)}

\* Rows in the order the call names them, a body's shards in body order.
InCallOrder(b, names, S) ==
    LET Earlier(y, x) == \E k, l \in 1 .. Len(names) :
            /\ y \in Rest(b, names[k]) /\ x \in Rest(b, names[l])
            /\ k < l \/ (k = l /\ y < x)
        nth(i) == CHOOSE x \in S : Cardinality({y \in S : Earlier(y, x)}) = i - 1
    IN {f \in {[i \in 1 .. Cardinality(S) |-> nth(i)]} : f \in Seq(S)}

\* The rows of S the window holds, with the ordinals they leave.
LeftRows(s, S) == {[id |-> x, ordinal |-> OrdinalIn(s, x)] : x \in {y \in S : InWindow(s, y)}}

PresentItems(outs, ins, w) == ItemsOf("retract", outs, w) \o ItemsOf("present", ins, w)

PresentRows(h, names, o) ==
    LET b == cur[h]
        s == Current(h).items
        moving == Moving(b, s, names)
        entering == Entering(b, s, names)
        u == [entering |-> entering, leaving |-> LeftRows(s, moving), landed |-> o \in Landings]
    IN /\ InEffect(s)
       /\ NamedApart(b, names)
       /\ \A i \in 1 .. Len(names) : Presentable(b, s, names[i])
       /\ seq + 1 <= MaxSeq
       /\ \E outs \in Ascending(moving), ins \in InCallOrder(b, names, entering) :
            LET batch == PresentItems(outs, ins, seq + 1)
            IN Write(h, batch, o) /\ Tell(h, u, batch, o)
       /\ seq' = IF o \in Landings THEN seq + 1 ELSE seq
       /\ UNCHANGED <<body, rows, gone, live, cur>>

\* A name retractRows takes: a body by its first row, in the window, or a row
\* the record no longer holds and the window does.
Retractable(b, s, id) ==
    /\ id \in Held(b) => \A x \in BodyOf(b, id) : id <= x
    /\ InWindow(s, id)

\* Write tombstones for the rows of leaving, and tell the strategy.
WriteLeaving(h, kind, leaving, o) ==
    LET b == cur[h]
        u == [entering |-> {}, leaving |-> LeftRows(Current(h).items, leaving), landed |-> o \in Landings]
    IN /\ seq + 1 <= MaxSeq
       /\ \E outs \in Ascending(leaving) :
            LET batch == ItemsOf(kind, outs, seq + 1)
            IN Write(h, batch, o) /\ Tell(h, u, batch, o)
       /\ seq' = IF o \in Landings THEN seq + 1 ELSE seq
       /\ UNCHANGED <<body, rows, gone, live, cur>>

RetractRows(h, names, kind, o) ==
    LET b == cur[h]
        s == Current(h).items
    IN /\ InEffect(s)
       /\ NamedApart(b, names)
       /\ \A i \in 1 .. Len(names) : Retractable(b, s, names[i])
       /\ WriteLeaving(h, kind, {x \in NamedRows(b, names) : InWindow(s, x)}, o)

\* retractRows in legacy mode: the write-down is a record of its own, before
\* the tombstones', so one the store refuses leaves the rows in the window.
RetractFirst(h, id, kind, o) ==
    LET b == cur[h]
        s == Current(h).items
        leaving == Rest(b, id)
    IN /\ ~InEffect(s) /\ ~Foreign(s)
       /\ id \in Held(b) /\ \A x \in BodyOf(b, id) : id <= x
       /\ seq + 2 <= MaxSeq
       /\ \E outs \in Ascending(WriteDownOuts(b, s)), ins \in Ascending(WriteDownIns(b, s)),
             off \in Ascending(leaving) :
            LET down == WriteDownItems(outs, ins, seq + 1)
                now == Current(h).items \o down
                off1 == ItemsOf(kind, off, seq + 2)
                end == IF o \in Landings THEN log[b] \o down \o off1 ELSE log[b] \o down
                u == [entering |-> {}, leaving |-> LeftRows(now, leaving), landed |-> o \in Landings]
            IN /\ log' = [log EXCEPT ![b] = end]
               /\ reading' = [reading EXCEPT ![h] =
                    IF o = "ok" THEN [rev |-> Revision(end), items |-> now \o off1]
                    ELSE IF o \in Unread THEN NoReading
                    ELSE [rev |-> Revision(end), items |-> end]]
               /\ o \in Blind => \A c \in Branches : waiting[h][c] = {}
               /\ belief' = [belief EXCEPT ![b] =
                    IF o = "ok" THEN Held(b) \ leaving
                    ELSE IF o \in Unread THEN Held(b)
                    ELSE Hear(Held(b), u, end)]
               /\ waiting' = [waiting EXCEPT ![h][b] = IF o \in Unread \ Blind THEN {u} ELSE {}]
               /\ lost' = [lost EXCEPT ![b] = @ \/ o \in Blind]
       /\ seq' = IF o \in Landings THEN seq + 2 ELSE seq + 1
       /\ UNCHANGED <<body, rows, gone, live, cur>>

\* retractRemoved and retractAbsentRows: rows of the window the record lacks,
\* those the call names, or all of them.
RetractGone(h, absent, o) ==
    /\ InEffect(Current(h).items)
    /\ absent # {}
    /\ WriteLeaving(h, "retract", absent, o)

AbsentRows(h) == {x \in WindowOf(Current(h).items) : x \notin Held(cur[h])}

-----------------------------------------------------------------------------
(* Calls that write nothing, reads, branches, and the restart.             *)

\* A call that settles and then writes nothing: refused, or naming nothing.
SettleOnly(h) ==
    /\ Due(h) # {}
    /\ reading' = [reading EXCEPT ![h] = Current(h)]
    /\ belief' = [belief EXCEPT ![cur[h]] = Settled(h)]
    /\ waiting' = [waiting EXCEPT ![h][cur[h]] = {}]
    /\ UNCHANGED <<store, cur, lost>>

\* A hook that hears a settled write moves the store: the call writes nothing.
SettleMoved(h, b) ==
    /\ \E u \in Due(h) : EnteredOf(u, Current(h).items) \cup LeftOf(u, Current(h).items) # {}
    /\ b \in live \ {cur[h]}
    /\ cur' = [cur EXCEPT ![h] = b]
    /\ reading' = [reading EXCEPT ![h] = Current(h)]
    /\ belief' = [belief EXCEPT ![cur[h]] = Settled(h)]
    /\ waiting' = [waiting EXCEPT ![h][cur[h]] = {}]
    /\ UNCHANGED <<store, lost>>

\* A strategy's select reads the window: the index is read, and a hearing
\* that was given up is made good.
Select(h) ==
    LET b == cur[h]
        s == Current(h).items
    IN /\ reading' = [reading EXCEPT ![h] = Current(h)]
       /\ belief' = [belief EXCEPT ![b] = IF lost[b] THEN WindowOf(s) ELSE @]
       /\ lost' = [lost EXCEPT ![b] = FALSE]
       /\ UNCHANGED <<store, cur, waiting>>

SwitchBranch(h, b) ==
    /\ b \in live \ {cur[h]}
    /\ cur' = [cur EXCEPT ![h] = b]
    /\ UNCHANGED <<store, reading, waiting, history>>

\* Mutant of BranchPoint: the row's own sequence, in any mode.
BranchPointOwn(b, s, r) == r

\* Where branchAt cuts for row r: its own sequence; for a row of the window,
\* the latest write that presented a shard of its body, and never before the
\* body's last shard; for a body the write-down presented, that last shard.
BranchPoint(b, s, r) ==
    IF ~(InEffect(s) /\ InWindow(s, r)) \/ r \notin Held(b) THEN r
    ELSE LET shards == BodyOf(b, r)
             written == \A x \in shards : InWindow(s, x) /\ OrdinalIn(s, x) < HeaderIn(s)
             points == shards \cup
                 IF written THEN {}
                 ELSE {s[OrdinalIn(s, x)].by : x \in {y \in shards : InWindow(s, y)}}
         IN CHOOSE p \in points : \A q \in points : q <= p

\* A branch named new made of branch b as it stood at sequence t.
MakeBranch(b, t, new) ==
    /\ new \in Branches \ live
    /\ live' = live \cup {new}
    /\ rows' = [rows EXCEPT ![new] = {r \in rows[b] : r <= t}]
    /\ gone' = [gone EXCEPT ![new] = {g \in gone[b] : g.at <= t}]
    /\ \E n \in Boundary(b, t) :
         /\ log' = [log EXCEPT ![new] = SubSeq(log[b], 1, n)]
         /\ belief' = [belief EXCEPT ![new] = WindowOf(SubSeq(log[b], 1, n))]
    /\ lost' = [lost EXCEPT ![new] = FALSE]
    /\ UNCHANGED <<seq, body>>

BranchAt(h, r, new) ==
    /\ r \in Held(cur[h])
    /\ MakeBranch(cur[h], BranchPoint(cur[h], Current(h).items, r), new)
    /\ reading' = [reading EXCEPT ![h] = Current(h)]
    /\ UNCHANGED <<cur, waiting>>

\* fork: a branch at the head, and the handle on it.
Fork(h, new) ==
    /\ MakeBranch(cur[h], seq, new)
    /\ cur' = [cur EXCEPT ![h] = new]
    /\ UNCHANGED <<reading, waiting>>

\* derive at the head: another handle, closed before, opens on a new branch
\* and starts from the parent's reading while that is of the same record.
Derive(h, g, new) ==
    /\ g # h
    /\ MakeBranch(cur[h], seq, new)
    /\ cur' = [cur EXCEPT ![g] = new]
    /\ reading' = [reading EXCEPT ![g] =
            IF reading[h].rev = Revision(log[cur[h]]) THEN reading[h] ELSE NoReading]
    /\ waiting' = [waiting EXCEPT ![g] = [b \in Branches |-> {}]]

LongestLog ==
    CHOOSE n \in {Len(log[b]) : b \in Branches} : \A b \in Branches : Len(log[b]) <= n

\* A crash loses every record after t; all handles open again on Main.
Restart(t) ==
    /\ t <= seq /\ seq <= t + MaxLoss
    /\ seq' = t
    /\ body' = [r \in {x \in DOMAIN body : x <= t} |-> body[r]]
    /\ rows' = [b \in Branches |-> {r \in rows[b] : r <= t}]
    /\ gone' = [b \in Branches |-> {g \in gone[b] : g.at <= t}]
    /\ \E n \in [Branches -> 0 .. LongestLog] :
         /\ \A b \in Branches : n[b] \in Boundary(b, t)
         /\ log' = [b \in Branches |-> SubSeq(log[b], 1, n[b])]
         /\ belief' = [b \in Branches |-> WindowOf(SubSeq(log[b], 1, n[b]))]
    /\ live' = live
    /\ cur' = [h \in Handles |-> Main]
    /\ reading' = [h \in Handles |-> NoReading]
    /\ waiting' = [h \in Handles |-> [b \in Branches |-> {}]]
    /\ lost' = [b \in Branches |-> FALSE]

-----------------------------------------------------------------------------
Next ==
    \/ \E h \in Handles, n \in 1 .. 2 : AddMessage(h, n)
    \/ \E h \in Handles, o \in Outcomes :
         \/ \E r \in Held(cur[h]) : RemoveMessage(h, r, o)
         \/ WriteDown(h, o)
         \/ \E names \in Calls(cur[h]) : PresentRows(h, names, o)
         \/ \E names \in Calls(cur[h]), kind \in {"retract", "undo"} : RetractRows(h, names, kind, o)
         \/ \E id \in Held(cur[h]), kind \in {"retract", "undo"} : RetractFirst(h, id, kind, o)
         \/ \E absent \in SUBSET AbsentRows(h) : RetractGone(h, absent, o)
    \/ \E h \in Handles :
         \/ \E r \in Held(cur[h]) : RemoveUnread(h, r)
         \/ \E r \in Held(cur[h]) : RemoveElsewhere(h, r)
         \/ SettleOnly(h)
         \/ Select(h)
         \/ \E b \in Branches : SettleMoved(h, b)
         \/ \E b \in Branches : SwitchBranch(h, b)
         \/ \E new \in Branches : Fork(h, new)
         \/ \E new \in Branches, r \in Held(cur[h]) : BranchAt(h, r, new)
         \/ \E new \in Branches, g \in Handles : Derive(h, g, new)
    \/ \E t \in Len(Bodies0) .. MaxSeq : Restart(t)

Spec == Init /\ [][Next]_vars

-----------------------------------------------------------------------------
(* Properties.                                                             *)

\* Every variable has its type.
TypeOK ==
    /\ seq \in Nat
    /\ rows \in [Branches -> SUBSET (DOMAIN body)]
    /\ DOMAIN body \subseteq 1 .. seq /\ \A r \in DOMAIN body : body[r] \in 1 .. r
    /\ gone \in [Branches -> SUBSET [row : Nat, at : Nat]]
    /\ log \in [Branches -> Seq(Item)]
    /\ live \in SUBSET Branches
    /\ cur \in [Handles -> Branches]
    /\ reading \in [Handles -> [rev : Int, items : Seq(Item)]]
    /\ waiting \in [Handles -> [Branches -> SUBSET Settlement]]
    /\ belief \in [Branches -> SUBSET Nat]
    /\ lost \in [Branches -> BOOLEAN]

\* A reading whose revision is a branch's newest record is that branch's
\* index, on whatever branch it was read and whatever has been written,
\* made, switched or lost since (WindowIndex.current, readOn, seedFrom).
ReadingIsStore ==
    \A h \in Handles, b \in live :
        reading[h].rev = Revision(log[b]) => reading[h].items = log[b]

\* A row is presented once: no item presents a row the window holds where it
\* is written (presentRows refuses one in the window already), so no item
\* goes without an ordinal of its own.
PresentedOnce ==
    \A b \in live : \A i \in 1 .. Len(log[b]) :
        log[b][i].kind = "present" => IssuedAt(log[b], i) = log[b][i].id

\* The write-down changes no window: where it put its header, the rows in
\* the index were the record's as it then stood, in record order.
WriteDownIsRecord ==
    \A b \in live :
        LET s == log[b]
            k == HeaderIn(s)
            before == SubSeq(s, 1, k - 1)
        IN k # 0 =>
            /\ WindowOf(before) = HeldAt(b, s[k].by)
            /\ \A x, y \in WindowOf(before) : x < y => OrdinalIn(before, x) < OrdinalIn(before, y)

\* Once no write waits to be settled on a branch and no hearing was given
\* up, the strategy's hooks have told it the window the index holds, among
\* the rows the record still has (the module comment; present, afterThrow,
\* settled, retractOnRemoval).
HeardIsWindow ==
    \A b \in live :
        /\ InEffect(log[b])
        /\ ~lost[b]
        /\ \A h \in Handles : waiting[h][b] = {}
        => belief[b] \cap Held(b) = WindowOf(log[b]) \cap Held(b)

\* branchAt keeps the row it is cut at: a branch cut where branchSequenceOf
\* says holds the row in its window, and every shard of its body the record
\* holds in its record (branchPointOf).
CutKeepsRow ==
    \A b \in live :
        LET s == log[b] IN
        InEffect(s) => \A r \in WindowOf(s) \cap Held(b) :
            LET t == BranchPoint(b, s, r)
                cut == LogAt(b, t)
            IN /\ BodyOf(b, r) \subseteq HeldAt(b, t)
               /\ IF InEffect(cut) THEN InWindow(cut, r) ELSE r \in HeldAt(b, t)

\* Bodies enter and leave the window whole: every shard of a body that the
\* record holds is in the window, or none is (present, retract: one record
\* each, and a branch cut falls between records).
BodiesWhole ==
    \A b \in live :
        InEffect(log[b]) => \A x, y \in Held(b) :
            body[x] = body[y] => (InWindow(log[b], x) <=> InWindow(log[b], y))

\* The rows unpresented lists: out of the window, and not an undone turn's,
\* unless the window holds an earlier shard of the body.
Unpresented(b) ==
    LET s == log[b] IN
    {x \in Held(b) : /\ ~InWindow(s, x)
                     /\ \/ ~UndoneIn(s, x)
                        \/ \E y \in BodyOf(b, x) : y < x /\ InWindow(s, y)}

\* A host that presents the rows unpresented lists, by id, is not refused:
\* each first listed shard of a body is a name presentRows takes.
UnpresentedIsPresentable ==
    \A b \in live :
        InEffect(log[b]) => \A x \in Unpresented(b) :
            (\A y \in Unpresented(b) \cap BodyOf(b, x) : x <= y) => Presentable(b, log[b], x)

\* Of a write the store did not keep, the strategy hears nothing (the comment
\* on WindowWriteOutcomeUnknownError): whatever a settlement tells, the
\* write it is of landed.
HearsWhatLanded ==
    \A h \in Handles : \A u \in Due(h) :
        cur[h] \in live /\ EnteredOf(u, log[cur[h]]) \cup LeftOf(u, log[cur[h]]) # {} => u.landed

=============================================================================
