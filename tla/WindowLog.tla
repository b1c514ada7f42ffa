------------------------------ MODULE WindowLog ------------------------------
(***************************************************************************)
(* How one reads a window index (src/src/window-index.ts): an append-only  *)
(* log of items, kept per branch, from which the rows in an agent's        *)
(* window, their ordinals, and the mode follow.                            *)
(*                                                                         *)
(* The code applies the items one at a time to a reading it keeps          *)
(* (`apply`); here each part of the reading is said of the log as a whole, *)
(* which is what the proofs use.  WindowRead checks that the two agree.    *)
(*                                                                         *)
(* Positions count from 1, so the ordinal the code calls i is i + 1 here.  *)
(***************************************************************************)
EXTENDS Integers, Sequences, FiniteSets

\* The items apply tells apart.  "retract" and "undo" are tombstones, the
\* second with `undone`; "header" names this version's format, "otherFormat"
\* another; "unreadable" is an item apply can't read.
Kinds == {"present", "retract", "undo", "header", "otherFormat", "unreadable"}

\* An item: the row it names (0 where it names none) and its stamp, the
\* record that wrote it (`by`), which is also that record's sequence (`at`).
Item == [kind : Kinds, id : Nat, by : Nat]

Presents(s, i, id) == s[i].kind = "present" /\ s[i].id = id
TakesOut(s, i, id) == s[i].kind \in {"retract", "undo"} /\ s[i].id = id

\* A presentation of id no later tombstone took out again.
StandsAt(s, i, id) ==
    /\ Presents(s, i, id)
    /\ \A j \in i + 1 .. Len(s) : ~TakesOut(s, j, id)

InWindow(s, id) == \E i \in 1 .. Len(s) : StandsAt(s, i, id)

WindowOf(s) == {id \in {s[i].id : i \in 1 .. Len(s)} : InWindow(s, id)}

\* A row presented twice keeps its first ordinal.
OrdinalIn(s, id) ==
    CHOOSE i \in 1 .. Len(s) :
        /\ StandsAt(s, i, id)
        /\ \A j \in 1 .. i - 1 : ~StandsAt(s, j, id)

\* The row the presentation at ordinal i put in the window, 0 for none.
IssuedAt(s, i) ==
    IF /\ i \in 1 .. Len(s)
       /\ s[i].kind = "present"
       /\ ~InWindow(SubSeq(s, 1, i - 1), s[i].id)
    THEN s[i].id ELSE 0

\* The header's position, 0 while the log holds none.
HeaderIn(s) ==
    IF \E i \in 1 .. Len(s) : s[i].kind = "header"
    THEN CHOOSE i \in 1 .. Len(s) :
            /\ s[i].kind = "header"
            /\ \A j \in 1 .. i - 1 : s[j].kind # "header"
    ELSE 0

\* Rows of an undone turn, out of the window until presented again.
UndoneIn(s, id) ==
    \E i \in 1 .. Len(s) :
        /\ s[i].kind = "undo" /\ s[i].id = id
        /\ \A j \in i + 1 .. Len(s) : ~Presents(s, j, id) /\ ~TakesOut(s, j, id)

\* Rows a tombstone after the header took out and none has put back.
LeftIn(s, id) ==
    \E i \in 1 .. Len(s) :
        /\ TakesOut(s, i, id)
        /\ HeaderIn(s) \in 1 .. i - 1
        /\ \A j \in i + 1 .. Len(s) : ~Presents(s, j, id)

\* An index this version must not write to: another format's header, or
\* items it can't read and no header to say whose they are.
Foreign(s) ==
    \/ \E i \in 1 .. Len(s) : s[i].kind = "otherFormat"
    \/ HeaderIn(s) = 0 /\ \E i \in 1 .. Len(s) : s[i].kind = "unreadable"

\* Whether the index is the window; otherwise the window is the record.
InEffect(s) == HeaderIn(s) # 0 /\ ~Foreign(s)

=============================================================================
