----------------------------- MODULE WindowRead -----------------------------
(***************************************************************************)
(* How the code reads an index log (src/src/window-index.ts): `apply`      *)
(* takes the items one at a time into a reading.  The other modules read a *)
(* log as a whole, by the operators of WindowLog; the invariants here say  *)
(* that both give the same window.                                         *)
(***************************************************************************)
EXTENDS WindowLog

CONSTANTS
    Named,      \* the rows an item may name
    MaxItems    \* bound on the items of the log

ASSUME NamedAssumption == Named \subseteq Nat \ {0}

VARIABLES
    items,      \* the log's items
    state       \* IndexState: the reading after them

readVars == <<items, state>>

\* rows and issued per ordinal (0 where the code holds null), ordinals by id,
\* the header's ordinal (0 for none), the rows undone and left.
NothingRead ==
    [rows |-> <<>>, issued |-> <<>>, ordinals |-> <<>>, undone |-> {}, left |-> {},
     header |-> 0, otherFormat |-> FALSE, unreadable |-> 0]

Reading(rows, issued, ordinals, undone, left, st) ==
    [rows |-> rows, issued |-> issued, ordinals |-> ordinals, undone |-> undone, left |-> left,
     header |-> st.header, otherFormat |-> st.otherFormat, unreadable |-> st.unreadable]
Placing(st, id, n) == [x \in DOMAIN st.ordinals \cup {id} |-> IF x = id THEN n ELSE st.ordinals[x]]

\* Mutant of ApplyPresent: a row presented again moves to its new ordinal.
PresentMoves(st, id, n) ==
    Reading(Append(st.rows, id), Append(st.issued, id), Placing(st, id, n), st.undone \ {id}, st.left \ {id}, st)
\* An item that puts id in the window, at ordinal n unless it is in already.
ApplyPresent(st, id, n) ==
    LET new == id \notin DOMAIN st.ordinals
        here == IF new THEN id ELSE 0
    IN Reading(Append(st.rows, here), Append(st.issued, here), IF new THEN Placing(st, id, n) ELSE st.ordinals,
               st.undone \ {id}, st.left \ {id}, st)

\* A tombstone for id, an undone turn's or not.
ApplyTombstone(st, id, undo) ==
    LET hole == Append(st.rows, 0)
        rows == IF id \in DOMAIN st.ordinals THEN [hole EXCEPT ![st.ordinals[id]] = 0] ELSE hole
    IN Reading(rows, Append(st.issued, 0), [x \in DOMAIN st.ordinals \ {id} |-> st.ordinals[x]],
               IF undo THEN st.undone \cup {id} ELSE st.undone \ {id},
               IF st.header # 0 THEN st.left \cup {id} ELSE st.left, st)

\* An item that names no row, and what is read of the log by it.
Hole(st, header, otherFormat, unreadable) ==
    [rows |-> Append(st.rows, 0), issued |-> Append(st.issued, 0),
     ordinals |-> st.ordinals, undone |-> st.undone, left |-> st.left,
     header |-> header, otherFormat |-> otherFormat, unreadable |-> unreadable]

Apply(st, item, n) ==
    CASE item.kind = "present" -> ApplyPresent(st, item.id, n)
      [] item.kind \in {"retract", "undo"} -> ApplyTombstone(st, item.id, item.kind = "undo")
      [] item.kind = "header" ->
           Hole(st, IF st.header = 0 THEN n ELSE st.header, st.otherFormat, st.unreadable)
      [] item.kind = "otherFormat" -> Hole(st, st.header, TRUE, st.unreadable)
      [] item.kind = "unreadable" -> Hole(st, st.header, st.otherFormat, st.unreadable + 1)

Foreignness(st) == st.otherFormat \/ (st.header = 0 /\ st.unreadable > 0)

ReadInit == items = <<>> /\ state = NothingRead

\* Read the log's next item.
Read(item) ==
    /\ Len(items) < MaxItems
    /\ items' = Append(items, item)
    /\ state' = Apply(state, item, Len(items) + 1)

ReadNext == \E item \in [kind : {"present", "retract", "undo"}, id : Named, by : {0}]
                     \cup [kind : {"header", "otherFormat", "unreadable"}, id : {0}, by : {0}] :
                Read(item)

ReadSpec == ReadInit /\ [][ReadNext]_readVars

-----------------------------------------------------------------------------
\* The window read item by item is the one the log as a whole holds: the same
\* rows at the same ordinals, and each ordinal issued to the row that took it,
\* whatever of presentations, tombstones and repeats comes between (apply).
WindowAsRead ==
    /\ DOMAIN state.ordinals = WindowOf(items)
    /\ \A x \in WindowOf(items) : state.ordinals[x] = OrdinalIn(items, x)
    /\ \A x \in WindowOf(items) : state.rows[OrdinalIn(items, x)] = x
    /\ \A i \in 1 .. Len(items) :
         /\ state.rows[i] # 0 => state.rows[i] \in WindowOf(items) /\ OrdinalIn(items, state.rows[i]) = i
         /\ state.issued[i] = IssuedAt(items, i)

\* What is read beside the window: undone rows are out of it, so are those
\* that left, and a log is in effect exactly as the whole of it says.
ModeAsRead ==
    /\ \A x \in Named : x \in state.undone <=> UndoneIn(items, x)
    /\ \A x \in Named : x \in state.left <=> LeftIn(items, x)
    /\ (state.undone \cup state.left) \cap DOMAIN state.ordinals = {}
    /\ (state.header # 0 /\ ~Foreignness(state)) <=> InEffect(items)
    /\ Foreignness(state) <=> Foreign(items)

\* Read by items or as a whole, a log gives one window and one mode.
LogAsRead == WindowAsRead /\ ModeAsRead

=============================================================================
