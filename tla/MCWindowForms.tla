---------------------------- MODULE MCWindowForms ----------------------------
(* The window index over the ways its log comes to be: written by a handle *)
(* whose every write may fail; left by a build before batched writes; read *)
(* an item at a time; and written on two branches, as the window a strategy *)
(* is promised; the notices by which a strategy hears of it; and the       *)
(* anchored window a strategy sends from it.  `form` says which a          *)
(* behaviour is of.                                                        *)
EXTENDS WindowRead, WindowedPassthrough
CONSTANTS main, b1, h1

VARIABLES form, world, at, stack, gen, attempt, ready, initing, closed, stored, rec, mode, win, issued, out, stamp,
          unheardIn, unheardOut, busy, seen, moved, late, calls,
          seq, body, rows, gone, live, reading, waiting, belief, lost

indexVars == <<seq, body, rows, gone, log, live, cur, reading, waiting, belief, lost>>
noticesButFaults == <<world, at, stack, gen, attempt, ready, initing, closed, stored, rec, mode, win, issued, out, stamp,
                      unheardIn, unheardOut, busy, seen, moved, late, calls>>
noticeVars == <<noticesButFaults, faults>>
sendVars == <<plan, record, slot, clock, loaded, mem, turns, sent>>
formVars == <<form, indexVars, readVars, noticeVars, sendVars>>

\* Indexes a build before batched writes wrote, one record per item, cut
\* short anywhere: the write-down, a retraction of the body, its
\* presentation again.
PreRelease ==
    LET kinds == <<"present", "present", "present", "header", "undo", "undo", "present", "present">>
        ids   == <<1, 2, 3, 0, 2, 3, 2, 3>>
    IN [n \in 1 .. 8 |-> [i \in 1 .. n |-> [kind |-> kinds[i], id |-> ids[i], by |-> 11 - n + i]]]

\* With them: a write-down from before a slot holding older rows was merged,
\* another version's index, and one whose items can't be read.
OldLogs ==
    {PreRelease[n] : n \in 1 .. 8}
      \cup {<<[kind |-> "present", id |-> 2, by |-> 11]>>,
            <<[kind |-> "otherFormat", id |-> 0, by |-> 11]>>,
            <<[kind |-> "unreadable", id |-> 0, by |-> 11]>>}

\* One row stored, nothing written down, and any write failing; and a row and
\* a body of two shards under an older build's index, and no failure.
F == INSTANCE WindowIndex WITH
       Handles <- {h1}, Branches <- {main}, Main <- main, Bodies0 <- <<1>>, Logs0 <- {<<>>},
       Outcomes <- {"refused", "refusedUnread", "refusedBlind", "ok", "landed", "landedUnread", "landedBlind"},
       MaxSeq <- 6, MaxNames <- 1, MaxLoss <- 1
P == INSTANCE WindowIndex WITH
       Handles <- {h1}, Branches <- {main}, Main <- main, Bodies0 <- <<1, 2, 2>>, Logs0 <- OldLogs,
       Outcomes <- {"ok"}, MaxSeq <- 14, MaxNames <- 2, MaxLoss <- 0
\* Indexes of one body of two shards: nothing written down; written down in
\* one record; and of a build whose retraction took the first shard only.
Written == <<[kind |-> "present", id |-> 1, by |-> 3], [kind |-> "present", id |-> 2, by |-> 3],
             [kind |-> "header", id |-> 0, by |-> 3]>>
A == INSTANCE WindowRefinement WITH
       Handles <- {h1}, Branches <- {main, b1}, Main <- main, Bodies0 <- <<1, 1>>,
       Logs0 <- {<<>>, Written, Append(Written, [kind |-> "retract", id |-> 1, by |-> 4])},
       Outcomes <- {"ok", "landedUnread"}, MaxSeq <- 5, MaxNames <- 1, MaxLoss <- 0

\* Three rows, two of one body; a window that holds the last, or a legacy one.
N == INSTANCE WindowNotices WITH
       Rows <- {1, 2, 3}, BodyOf <- <<1, 2, 2>>, Branches <- {main, b1}, Main <- main,
       Worlds <- {[rows |-> {1, 2, 3}, window |-> {3}, mode |-> "presented", hook |-> h, calls |-> IF h = "row" THEN 3 ELSE 4, nest |-> 2, faults |-> 1] :
                     h \in {"rows", "row"}}
                   \cup {[rows |-> {1}, window |-> {}, mode |-> "legacy", hook |-> "row", calls |-> 4, nest |-> 2, faults |-> 1]}

\* The window written down and made to hold an anchor; writes that fail; a
\* second branch; budgets that are spent; a slot of a newer build.
Sends == [price |-> <<1, 1>>, changes |-> {}, maxTokens |-> 9, slot |-> None, branches |-> 1, items |-> 6, faults |-> 0,
          turns |-> 2, anchors |-> {2}, ordinals |-> {}]
MCWorlds == {Sends, [Sends EXCEPT !.items = 5, !.faults = 1, !.anchors = {0, 2}, !.ordinals = {2}],
             [Sends EXCEPT !.price = <<1>>, !.branches = 2, !.items = 3, !.faults = 1, !.anchors = {1}, !.ordinals = {2}],
             [Sends EXCEPT !.price = <<1, 1, 2, 1>>, !.changes = {2}, !.maxTokens = 3, !.items = 0, !.turns = 1, !.anchors = {1, 3}],
             [Sends EXCEPT !.price = <<1, 2, 1>>, !.maxTokens = 2, !.items = 5, !.turns = 1, !.anchors = {}, !.ordinals = {2}],
             [Sends EXCEPT !.slot = Newer, !.items = 3]}

NoticesButFaults ==
    /\ world = 0 /\ at = 0 /\ stack = 0
    /\ gen = 0 /\ attempt = 0 /\ ready = 0 /\ initing = 0 /\ closed = 0 /\ stored = 0
    /\ rec = 0 /\ mode = 0 /\ win = 0 /\ issued = 0 /\ out = 0 /\ stamp = 0 /\ unheardIn = 0 /\ unheardOut = 0
    /\ busy = 0 /\ seen = 0 /\ moved = 0 /\ late = 0 /\ calls = 0
NoticesIdle == NoticesButFaults /\ faults = 0
IndexIdle ==
    /\ seq = 0 /\ body = 0 /\ rows = 0 /\ gone = 0 /\ live = 0
    /\ reading = 0 /\ waiting = 0 /\ lost = 0
LogIdle == log = 0 /\ cur = 0
ItemsIdle == ReadInit
SendsIdle == /\ plan = 0 /\ record = 0 /\ slot = 0 /\ clock = 0 /\ loaded = None /\ mem = Start /\ turns = 0 /\ sent = 0
FormsInit ==
    \/ form = "failing" /\ F!Init /\ ItemsIdle /\ NoticesIdle /\ SendsIdle
    \/ form = "older" /\ P!Init /\ ItemsIdle /\ NoticesIdle /\ SendsIdle
    \/ form = "promised" /\ A!Init /\ ItemsIdle /\ NoticesIdle /\ SendsIdle
    \/ form = "items" /\ ReadInit /\ IndexIdle /\ LogIdle /\ belief = 0 /\ NoticesIdle /\ SendsIdle
    \/ form = "notices" /\ N!Init /\ IndexIdle /\ LogIdle /\ ItemsIdle /\ SendsIdle
    \/ form = "sends" /\ Init /\ IndexIdle /\ belief = 0 /\ ItemsIdle /\ NoticesButFaults

Failing == form = "failing" /\ F!Next /\ UNCHANGED <<form, readVars, noticeVars, sendVars>>
Older   == form = "older" /\ P!Next /\ UNCHANGED <<form, readVars, noticeVars, sendVars>>
Promised == form = "promised" /\ A!Next /\ UNCHANGED <<form, readVars, noticeVars, sendVars>>
ByItem  == form = "items" /\ ReadNext /\ UNCHANGED <<form, indexVars, noticeVars, sendVars>>
Notices == /\ form = "notices" /\ N!Next
           /\ UNCHANGED <<form, seq, body, rows, gone, log, live, cur, reading, waiting, lost, readVars, sendVars>>
Sending == /\ form = "sends" /\ Next
           /\ UNCHANGED <<form, seq, body, rows, gone, live, reading, waiting, belief, lost, readVars, noticesButFaults>>
FormsNext == Failing \/ Older \/ Promised \/ ByItem \/ Notices \/ Sending
FormsSpec == FormsInit /\ [][FormsNext]_formVars

\* Whatever writes threw, the strategy hears exactly what the window came to
\* hold, and of a write that did not land nothing; a row is presented once, its
\* body whole (WindowIndex).  Once nothing runs or waits, the strategy takes
\* the window to hold what it holds, but for the rows HeardToGoFirst finds
\* after a failed read (WindowNotices).
HeardIsWindow ==
    /\ form = "failing" => F!HeardIsWindow /\ F!HearsWhatLanded /\ F!PresentedOnce /\ F!BodiesWhole
    /\ form = "notices" => N!ToldIsWindow
\* No row of the window was last heard to go (WindowNotices): the code's own
\* claim, which a retried retraction breaks.
HeardToGoFirst == form = "notices" => N!HeardToGoFirst
\* Of an index an older build left, cut short or not, the write-down is the
\* record in record order, and what unpresented lists presentRows takes
\* (WindowIndex).
UnpresentedIsPresentable == form = "older" => P!UnpresentedIsPresentable /\ P!WriteDownIsRecord
\* Only rows that cannot fit are refused (WindowedPassthrough).
RefusedCannotFit == form = "sends" => RefusesWhatCannotFit
\* What is told to enter is in the window, and nothing is told after close()
\* (WindowNotices); what a request sent, the next one sends first
\* (WindowedPassthrough).
WhatIsToldStands ==
    [][(form = "notices" => N!TellIsIn) /\ (form = "sends" => WhatWasSentStays)]_formVars
\* The listing a strategy reads is the window AgentWindow promises (WindowRefinement).
ImplementsAgentWindow ==
    /\ form = "promised" => A!Window!Init
    /\ [][form = "promised" => [A!Window!Next]_A!Window!vars]_formVars
=============================================================================
