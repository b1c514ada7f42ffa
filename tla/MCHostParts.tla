----------------------------- MODULE MCHostParts -----------------------------
(* Parts of the host that share no state, a part to a behaviour: the       *)
(* message store, and the journal of accepted layouts.                     *)
EXTENDS MessageStore, TLC
CONSTANTS A, B, D, view

VARIABLES part,
    stack, log, unreadable, synced, unsaved, ix, announced, marks, live, opens, rots, heard, answers

journalVars == <<log, unreadable, synced, unsaved, ix, announced, marks, live, opens, rots, heard, answers>>
partVars == <<part, stack, vars, journalVars>>

\* A message, and a body a write left short and wrote again, on two instances on the root handle
\* and one on a handle of its own: siblings on one branch; siblings and two
\* branches; a store derived.
MCHandleOf == [i \in Instances |-> IF i = D THEN view ELSE Root]
MCRows0 == <<[id |-> 1, ver |-> 1, body |-> 0, shard |-> 0],
             [id |-> 2, ver |-> 2, body |-> 2, shard |-> 0],
             [id |-> 3, ver |-> 3, body |-> 2, shard |-> 0],
             [id |-> 4, ver |-> 4, body |-> 2, shard |-> 1]>>
MCWorlds == {[who |-> {A, B}, writes |-> 3, uncounted |-> 1, moves |-> 0],
             [who |-> {A, B}, writes |-> 2, uncounted |-> 1, moves |-> 2],
             [who |-> {A, D}, writes |-> 2, uncounted |-> 1, moves |-> 1]}
\* Two journals and two compiles of one branch, one of them from before rows
\* were presented, on a store where another release wrote first, or last and on
\* another branch.
Old(b, c, fmt, lay) == [br |-> b, compile |-> c, fmt |-> fmt, lay |-> lay, receipt |-> TRUE, pr |-> 0, base |-> 0]
J == INSTANCE FoldJournal WITH
       Journals <- {A, B}, Branches <- {"b1", "b2"}, Formats <- {"sequence", "ordinal"}, Compiles <- {"c1", "c2"},
       BranchOf <- [c \in {"c1", "c2"} |-> "b1"],
       FormatOf <- [c \in {"c1", "c2"} |-> IF c = "c1" THEN "sequence" ELSE "ordinal"],
       LayoutOf <- [c \in {"c1", "c2"} |-> IF c = "c2" THEN "l2" ELSE "l1"],
       Deletable <- {"b1"}, MaxRecords <- 4, MaxOpens <- 1, MaxRot <- 1, MaxNest <- 2,
       Logs0 <- {<<Old("b1", "o0", "other", "l2"), Old("b1", "o1", "sequence", "l1")>>,
                 <<Old("b1", "o0", "sequence", "l1"), [Old("b1", "o1", "ordinal", "l2") EXCEPT !.pr = 1], Old("b2", "o2", "other", "l1")>>}
Siblings == Permutations({A, B})

JournalIdle ==
    /\ log = 0 /\ unreadable = 0 /\ synced = 0 /\ unsaved = 0 /\ ix = 0 /\ announced = 0
    /\ marks = 0 /\ live = 0 /\ opens = 0 /\ rots = 0 /\ heard = 0 /\ answers = 0
\* The journal's part leaves the store as it began.
PartsInit ==
    /\ Init
    /\ \/ part = "store" /\ JournalIdle /\ stack = 0
       \/ part = "journal" /\ J!Init /\ world = CHOOSE w \in Worlds : TRUE

Store   == part = "store" /\ Next /\ UNCHANGED <<part, stack, journalVars>>
Journal == part = "journal" /\ J!Next /\ UNCHANGED <<part, vars>>
PartsNext == Store \/ Journal
PartsSpec == PartsInit /\ [][PartsNext]_partVars

\* A compile is accepted once and answered once, however it is tried again;
\* what is heard is durable, as is the state a record names; and a journal's
\* answer to a query holds every receipt there is (FoldJournal).
HeardIsDurable == part = "journal" =>
    /\ J!OneRecordPerCompile /\ J!AnsweredOnce
    /\ J!HeardIsDurable /\ J!StateBeforeRecord /\ J!QueryIsWhole
\* No change of layout is accepted without a receipt (FoldJournal).
ChangesAreTold == [][part = "journal" => J!ChangeIsTold]_partVars
=============================================================================
