----------------------------- MODULE AgentWindow -----------------------------
(***************************************************************************)
(* What a window index promises (the module comment of                     *)
(* src/src/window-index.ts): per branch, a sequence of rows.  While the    *)
(* branch is in legacy mode it is the record, and grows as rows are        *)
(* stored; the switch to presented mode changes nothing but the mode; from *)
(* then on rows enter only at the end, in one step a call, and those that  *)
(* leave disturb no other.  Nothing else ever moves a row.                 *)
(***************************************************************************)
EXTENDS Integers, Sequences, Functions

CONSTANTS Branches, Main

VARIABLES window, mode, made

vars == <<window, mode, made>>

Only(s, S) == SelectSeq(s, LAMBDA x : x \in S)

Init ==
    /\ \A b \in Branches : window[b] \in Seq(Nat) /\ IsInjective(window[b])
    /\ \A b \in Branches : mode[b] \in {"legacy", "presented"}
    /\ made = {Main}

\* Rows are stored while the window is the record.
Arrive(b) ==
    /\ mode[b] = "legacy"
    /\ Len(window'[b]) > Len(window[b])
    /\ SubSeq(window'[b], 1, Len(window[b])) = window[b]
    /\ IsInjective(window'[b])
    /\ UNCHANGED <<mode, made>>

\* What is left of the window when rows leave it and none moves.
Rest(b) == Only(window[b], Range(window'[b]))

\* Rows leave, taken out or removed from the record.
Leave(b) ==
    /\ window'[b] = Rest(b) /\ window'[b] # window[b]
    /\ UNCHANGED <<mode, made>>

\* The window is written down; rows a retraction names leave it with that.
Adopt(b) ==
    /\ mode[b] = "legacy"
    /\ mode' = [mode EXCEPT ![b] = "presented"]
    /\ window'[b] = Rest(b)
    /\ UNCHANGED made

\* One call's rows enter at the end, after the rows that stay: those of the
\* window it moves there are shards of a body it puts back whole.
Enter(b) ==
    /\ mode[b] = "presented"
    /\ Range(window[b]) \subseteq Range(window'[b])
    /\ \E n \in 0 .. Len(window'[b]) - 1 :
         LET stay == SubSeq(window'[b], 1, n)
         IN stay = Only(window[b], Range(stay)) /\ Len(window'[b]) > Len(window[b])
    /\ IsInjective(window'[b])
    /\ UNCHANGED <<mode, made>>

\* A branch is made, with some window of its own.
Begin(b) ==
    /\ b \notin made
    /\ made' = made \cup {b}
    /\ IsInjective(window'[b])
    /\ mode'[b] \in {"legacy", "presented"}
    /\ \A c \in made : mode'[c] = mode[c]

Next ==
    \E b \in Branches :
        /\ \A c \in made \ {b} : window'[c] = window[c]
        /\ Arrive(b) \/ Leave(b) \/ Adopt(b) \/ Enter(b) \/ Begin(b)

Spec == Init /\ [][Next]_vars

=============================================================================
