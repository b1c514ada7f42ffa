-------------------------- MODULE WindowRefinement --------------------------
(* The window index implements AgentWindow: the listing a strategy reads is *)
(* the abstract window, the branch's mode the abstract mode.                *)
EXTENDS WindowIndex

\* WindowIndex.mode on branch b.
ModeOf(b) == IF InEffect(log[b]) THEN "presented" ELSE "legacy"

\* WindowIndex.listing on branch b: in legacy mode the record, in record
\* order; in presented mode the rows the index holds, by ordinal, leaving out
\* those the record no longer has.
ListingOf(b) ==
    LET s == log[b]
        held == Held(b)
        stands == SelectSeq([i \in 1 .. Len(s) |-> i],
                            LAMBDA i : s[i].id \in held /\ IssuedAt(s, i) # 0 /\ StandsAt(s, i, s[i].id))
    IN IF InEffect(s) THEN [k \in 1 .. Len(stands) |-> s[stands[k]].id]
       ELSE SelectSeq([r \in 1 .. seq |-> r], LAMBDA r : r \in held)

Window == INSTANCE AgentWindow WITH
    window <- [b \in Branches |-> ListingOf(b)],
    mode <- [b \in Branches |-> ModeOf(b)],
    made <- live

\* Every step of the index is a step of the window it promises: presentations
\* enter at the end and whole, the write-down changes the mode and nothing
\* else, a row that leaves moves no other, and a write whose outcome is
\* unknown, a settlement, a read, a switch or another branch's write changes
\* no window.
ImplementsAgentWindow == Window!Spec

=============================================================================
