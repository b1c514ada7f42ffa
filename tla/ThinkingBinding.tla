--------------------------- MODULE ThinkingBinding ---------------------------
(***************************************************************************)
(* Which signed thinking a compile sends (src/src/thinking-binding.ts and  *)
(* the compiles and notes of src/src/context-manager.ts).  A provider      *)
(* takes a reply's thinking back only after the very messages, and the     *)
(* head, of the request that minted it.  A branch keeps a record of what   *)
(* it last sent: the messages of its last committing compile, and the      *)
(* rows its stream was noted to have sent after them.                      *)
(*                                                                         *)
(* A message is a row's id, its content's version and whether its thinking *)
(* goes with it; a digest is the message.  A summary stands for the rows   *)
(* it folds, and an injection is request-only.                             *)
(***************************************************************************)
EXTENDS Integers, Sequences, SequencesExt, FiniteSets

CONSTANTS
    Branches, Main,
    Worlds,     \* what a compile may be of (heads, drops, folds, injects), who else writes, whether
                \* reads and writes of the record fail; bounds: rows stored, compiles, edits, branches
    None

VARIABLES
    plan,     \* the world
    turns,    \* per branch, its rows in order; None where there is no branch
    record,   \* per branch, what it last sent, or None
    streams,  \* the streams begun, each with the request it has sent so far
    minted,   \* history: per row, the head and messages its thinking was minted after
    now,      \* the store's sequence
    edits     \* edits, removals and changes of head so far

vars == <<plan, turns, record, streams, minted, now, edits>>

Live == {b \in Branches : turns[b] # None}
Unvouched == [r |-> 0, ver |-> 0, th |-> FALSE]
Said(row, th) == [r |-> row.id, ver |-> row.ver, th |-> th]
Stored == Len(minted)

-----------------------------------------------------------------------------
(* What a compile sends: the rows after those a summary folds, and an      *)
(* injection before the last user's.                                       *)
Summary(k) == [id |-> 0, who |-> "summary", th |-> FALSE, ver |-> k, seq |-> 0]
InjectedTurn == [id |-> -1, who |-> "system", th |-> FALSE, ver |-> 0, seq |-> 0]
Rendered(rows, k) == (IF k = 0 THEN <<>> ELSE <<Summary(k)>>) \o SubSeq(rows, k + 1, Len(rows))
Injected(ms, inject) ==
    LET users == {i \in DOMAIN ms : ms[i].who = "user"}
        at == IF users = {} THEN Len(ms) + 1 ELSE CHOOSE i \in users : \A j \in users : j <= i
    IN IF inject THEN InsertAt(ms, at, InjectedTurn) ELSE ms

\* bindThinking.
Recorded(rec) == rec.sent \o rec.continued
Before(rec, row) == row.seq <= (IF rec = None THEN now ELSE rec.after)
Owned(rec, row) == row.th /\ row.who = "agent" /\ (rec # None => row.id \notin rec.without)
MayKeep(rec, row, drop) == Owned(rec, row) /\ (drop \/ ~Before(rec, row))
\* Mutant of Vouched: past its end a record vouches for everything.
VouchedPastEnd(rec, ms, i, drop) ==
    \A j \in 1 .. i : j <= Len(Recorded(rec)) => Said(ms[j], MayKeep(rec, ms[j], drop)) = Recorded(rec)[j]
\* Nothing up to the i-th differs from the record, and it is within it.
Vouched(rec, ms, i, drop) ==
    \A j \in 1 .. i : j <= Len(Recorded(rec)) /\ Said(ms[j], MayKeep(rec, ms[j], drop)) = Recorded(rec)[j]
Keeps(rec, ms, i, drop, head) ==
    MayKeep(rec, ms[i], drop) /\ (rec # None => rec.head = head /\ Vouched(rec, ms, i, drop))
Bound(rec, ms, drop, head, id) ==
    LET sent == [i \in DOMAIN ms |-> Said(ms[i], Keeps(rec, ms, i, drop, head))]
    IN [sent |-> sent, continued |-> <<>>, head |-> head, id |-> id,
        without |-> {ms[i].id : i \in {x \in DOMAIN ms : ms[x].th /\ ~sent[x].th}},
        after |-> IF rec = None THEN now ELSE rec.after]

-----------------------------------------------------------------------------
Wrote == now' = now + 1

\* A committing compile with binds; its record's write may fail, and what the
\* branch held may be unreadable to it.
Compile(b, head, drop, k, inject) ==
    /\ b \in Live /\ Len(streams) < plan.compiles /\ turns[b] # <<>>
    /\ \E read \in {record[b]} \cup (IF plan.fails THEN {None} ELSE {}) :
         LET made == Bound(read, Injected(Rendered(turns[b], k), inject), drop, head, Len(streams) + 1) IN
         /\ streams' = Append(streams, [branch |-> b, head |-> head, drop |-> drop, from |-> head, begun |-> made.sent, sent |-> made.sent, noted |-> <<>>])
         /\ \/ record' = [record EXCEPT ![b] = made] /\ UNCHANGED turns /\ Wrote
            \/ plan.fails /\ UNCHANGED <<turns, record, now>>
    /\ UNCHANGED <<plan, minted, edits>>

\* A row is stored, minted by the stream's request where the model replied.
Store(b, who, th, mint) ==
    /\ b \in Live /\ Stored < plan.rows
    /\ turns' = [turns EXCEPT ![b] = Append(@, [id |-> Stored + 1, who |-> who, th |-> th, ver |-> 0, seq |-> now + 1])]
    /\ minted' = Append(minted, mint)
    /\ UNCHANGED <<plan, record, edits>> /\ Wrote
AddMessage(b, who) == Store(b, who, who = "other", None) /\ UNCHANGED streams
\* The model's reply, and the result its tool gives, which the stream's next
\* request carries after what it sent before.
Goes(s, th) ==
    streams' = [streams EXCEPT ![s].sent = Append(@, [r |-> Stored + 1, ver |-> 0, th |-> th]),
                               ![s].noted = Append(@, Stored + 1)]
Reply(s) ==
    /\ Store(streams[s].branch, "agent", TRUE, [head |-> streams[s].head, after |-> streams[s].sent])
    /\ Goes(s, TRUE)
ToolResult(s) == Store(streams[s].branch, "user", FALSE, None) /\ Goes(s, FALSE)
\* The host declares other tools, say, while a stream runs.
ChangeHead(s, head) ==
    /\ streams[s].head # head
    /\ edits < plan.edits /\ edits' = edits + 1
    /\ streams' = [streams EXCEPT ![s].head = head]
    /\ UNCHANGED <<plan, turns, record, minted, now>>

\* noteRequestSent: what the stream has carried; a row no longer stored, or
\* stored otherwise than sent, vouches for nothing.
Noted(b, s) ==
    LET ids == streams[s].noted
        row(id) == {n \in DOMAIN turns[b] : turns[b][n].id = id /\ turns[b][n].ver = 0}
    IN [n \in DOMAIN ids |-> IF row(ids[n]) = {} THEN Unvouched
                             ELSE LET x == turns[b][CHOOSE k \in row(ids[n]) : TRUE] IN Said(x, x.th)]
\* Mutant of Continued: a note's head is not looked at.
ContinuedAnyHead(rec, rows, head) == [rec EXCEPT !.continued = rows]
Continued(rec, rows, head) ==
    IF head = rec.head THEN [rec EXCEPT !.continued = rows]
    ELSE [rec EXCEPT !.sent = <<Unvouched>>, !.continued = <<>>]
NoteRequestSent(s) ==
    LET b == streams[s].branch IN
    /\ record[b] # None /\ record[b].id = s
    /\ record' = [record EXCEPT ![b] = Continued(@, Noted(b, s), streams[s].head)]
    /\ record' # record
    /\ UNCHANGED turns /\ Wrote
    /\ UNCHANGED <<plan, streams, minted, edits>>

Changes(b, rows) ==
    /\ edits < plan.edits /\ edits' = edits + 1
    /\ turns' = [turns EXCEPT ![b] = rows]
    /\ UNCHANGED record /\ Wrote /\ UNCHANGED <<plan, streams, minted>>
EditMessage(b, n) == b \in Live /\ n \in DOMAIN turns[b] /\ Changes(b, [turns[b] EXCEPT ![n].ver = now + 1])
RemoveMessage(b, n) == b \in Live /\ n \in DOMAIN turns[b] /\ Changes(b, RemoveAt(turns[b], n))
\* A branch from another: one cut at an earlier write is one made then.
Fork(b, from) ==
    /\ Cardinality(Live) < plan.branches /\ b \notin Live /\ from \in Live
    /\ turns' = [turns EXCEPT ![b] = turns[from]]
    /\ record' = [record EXCEPT ![b] = record[from]]
    /\ UNCHANGED <<plan, streams, minted, now, edits>>

Init ==
    /\ plan \in Worlds
    /\ turns = [b \in Branches |-> IF b = Main THEN <<>> ELSE None]
    /\ record = [b \in Branches |-> None]
    /\ streams = <<>> /\ minted = <<>> /\ now = 0 /\ edits = 0
Next ==
    \/ \E b \in Branches :
         \/ \E head \in plan.heads, drop \in plan.drops, inject \in plan.injects, k \in plan.folds : Compile(b, head, drop, k, inject)
         \/ \E who \in plan.who : AddMessage(b, who)
         \/ \E n \in 1 .. plan.rows : EditMessage(b, n) \/ RemoveMessage(b, n)
         \/ \E from \in Branches : Fork(b, from)
    \/ \E s \in DOMAIN streams :
         Reply(s) \/ ToolResult(s) \/ NoteRequestSent(s) \/ (\E head \in plan.heads : ChangeHead(s, head))
Spec == Init /\ [][Next]_vars

-----------------------------------------------------------------------------
\* Thinking a compile without the drop control sends goes after the very
\* messages, and under the head, its reply was minted after: a provider that
\* binds thinking to its request never refuses one, whatever was folded,
\* edited, removed, injected, forked or noted since (bindThinking, #155).
SentWhereMinted ==
    \A s \in DOMAIN streams : ~streams[s].drop =>
        LET ms == streams[s].begun IN
        \A i \in DOMAIN ms : ms[i].th =>
            /\ minted[ms[i].r] # None
            /\ minted[ms[i].r] = [head |-> streams[s].from, after |-> SubSeq(ms, 1, i - 1)]
=============================================================================
