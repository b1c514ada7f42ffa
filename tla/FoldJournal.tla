----------------------------- MODULE FoldJournal -----------------------------
(***************************************************************************)
(* The fold journal (src/src/fold-journal.ts): the accepted layouts of a   *)
(* store's branches, one record an acceptance, with a receipt where the    *)
(* layout changed form.                                                    *)
(*                                                                         *)
(* The journals on one open store share its index (StoreIndex), which      *)
(* lists the records once and is extended as records are written.  A       *)
(* record's identity is its position in the log.  An append may throw and  *)
(* have landed, a sync may throw, a listener that hears a receipt may      *)
(* accept another compile, and a crash loses records no sync covered; at a *)
(* reopening a record may have rotted, and one at the log's end is dropped, *)
(* its identity free for the next.  The host keeps what its compiles       *)
(* returned, and may accept each of them any number of times.              *)
(*                                                                         *)
(* A branch stands for a namespace's branch.  The code reads the history   *)
(* back only as far as a use needs; a record doesn't change while a store  *)
(* is open, so here the index reads all of it at its first use.            *)
(***************************************************************************)
EXTENDS Integers, Sequences, FiniteSets, SequencesExt

CONSTANTS
    Journals,   \* the journals on the open store
    Branches,   \* the branches
    Formats,    \* what a layout's members count: each a record format read
    Compiles,   \* the compiles the host runs
    BranchOf, FormatOf, LayoutOf,   \* per compile, what its provenance says
    Deletable,  \* the branches the host may delete
    Logs0,      \* the logs the store may hold at the start
    MaxRecords, \* bound on the records
    MaxOpens,   \* bound on the reopenings
    MaxRot,     \* bound on the records that rot
    MaxNest     \* bound on acceptances inside one another's listeners

VARIABLES
    log,        \* the records
    unreadable, \* those that rotted
    synced,     \* how many records a crash leaves
    unsaved,    \* the compiles whose layout names state no sync has covered
    ix,         \* the store's index (StoreIndex)
    announced,  \* per journal and branch, the newest receipt announced
    stack,      \* the acceptances under way, each inside the listener of the one before
    marks,      \* per compile the host has run, the mark it carries
    live,       \* the branches not deleted
    opens, rots,\* the reopenings and the rotted records so far
    heard,      \* history: the newest receipt listeners and queries were given
    answers     \* history: what acceptances returned, by compile

store == <<log, unreadable, synced, unsaved>>
told  == <<heard, answers>>
vars  == <<store, ix, announced, stack, marks, live, opens, rots, told>>

NoMark == [id |-> 0, compile |-> "none"]
Call   == [journal : Journals, compile : Compiles, listening : BOOLEAN]

Largest(S) == IF S = {} THEN 0 ELSE CHOOSE x \in S : \A y \in S : y <= x

-----------------------------------------------------------------------------
(* The records: readHead, headOf, reconstruct.                             *)

Positions == 1 .. Len(log)
Heads     == Positions \ unreadable
OnBranch(b) == {i \in Heads : log[i].br = b}

\* The branch's newest receipt as record i says it; another format's receipt
\* and links aren't read.
ReceiptUpTo(i) ==
    IF i = 0 \/ log[i].fmt \notin Formats THEN 0
    ELSE IF log[i].receipt THEN i ELSE log[i].pr

IsReceipt(i, b) == i \in OnBranch(b) /\ log[i].fmt \in Formats /\ log[i].receipt

\* Whether record i's layout rebuilds from its snapshot and the deltas since.
Rebuilds(i) ==
    LET sound[n \in 0 .. Len(log)] ==
            /\ n \in OnBranch(log[i].br) /\ log[n].fmt = log[i].fmt
            /\ log[n].base = 0 \/ sound[log[n].base]
    IN sound[i]

\* The receipts reached by links from receipt r, oldest first.
Walk(b, r) ==
    LET back[n \in 0 .. Len(log)] ==
            IF IsReceipt(n, b) THEN Append(back[log[n].pr], n) ELSE <<>>
    IN back[r]

-----------------------------------------------------------------------------
(* The index: storeIndex, noteRecord, readBack, markDurable.               *)

Unbuilt ==
    [built |-> FALSE, stale |-> FALSE, known |-> 0, durable |-> 0, mark |-> NoMark,
     newest |-> [b \in Branches |-> 0], newestReceipt |-> [b \in Branches |-> 0],
     shadowed |-> {}, walked |-> {}, receipts |-> [b \in Branches |-> <<>>]]

MarkOf(i) == [id |-> i, compile |-> log[i].compile]

\* The first use of an open store: everything present is listed and synced.
\* A branch whose newest readable record lies below one that can't be read
\* is shadowed by it; one with no record starts here, its receipts known.
Built ==
    LET newest == [b \in Branches |-> Largest(OnBranch(b))]
        last == Largest(Heads)
    IN [Unbuilt EXCEPT
          !.built = TRUE, !.known = Len(log), !.durable = Len(log),
          !.mark = IF last = 0 THEN NoMark ELSE MarkOf(last),
          !.newest = newest,
          !.newestReceipt = [b \in Branches |-> ReceiptUpTo(newest[b])],
          !.shadowed = {b \in Branches : newest[b] # 0 /\ \E i \in unreadable : i > newest[b]},
          !.walked = {b \in Branches : newest[b] = 0}]

\* Mutant of Note: the receipts before a record without one are forgotten.
NoteForgets(x, r, i) ==
    [x EXCEPT !.known = i,
              !.newest[r.br] = i,
              !.newestReceipt[r.br] = IF r.receipt THEN i ELSE 0,
              !.shadowed = @ \ {r.br},
              !.receipts[r.br] = IF r.br \in x.walked /\ r.receipt THEN Append(@, i) ELSE @]

\* Record r, at position i, is the newest of its branch.
Note(x, r, i) ==
    [x EXCEPT !.known = i,
              !.newest[r.br] = i,
              !.newestReceipt[r.br] = IF r.receipt THEN i ELSE r.pr,
              !.shadowed = @ \ {r.br},
              !.receipts[r.br] = IF r.br \in x.walked /\ r.receipt THEN Append(@, i) ELSE @]

\* After an append that threw: list again, in case it landed.
Listed(x) ==
    [(IF Len(log) > x.known THEN Note(x, log[Len(log)], Len(log)) ELSE x) EXCEPT !.stale = FALSE]

IndexNow == IF ~ix.built THEN Built ELSE IF ix.stale THEN Listed(ix) ELSE ix

\* The first use of a store that holds records syncs it.
OpeningSync == ~ix.built /\ log # <<>>

\* A sync that succeeded makes everything listed durable; the newest record
\* is the mark compiles carry from then on, r at position x.known.
Durable(x, r) ==
    [x EXCEPT !.durable = x.known, !.mark = [id |-> x.known, compile |-> r.compile]]

AllDurable(x) ==
    IF x.known \in Heads THEN Durable(x, log[x.known]) ELSE [x EXCEPT !.durable = x.known]

\* Mutant of Undurable: a listed record is taken for durable.
UnlistedOnly(x, i) == i > x.known

\* makeDurable has to sync for record i.
Undurable(x, i) == i > x.durable

Synced(done) ==
    IF done THEN synced' = Len(log) /\ unsaved' = {} ELSE UNCHANGED <<synced, unsaved>>

-----------------------------------------------------------------------------
(* Finding an acceptance, and the layout to compare with.                  *)

\* Mutant of Found: the mark's record is trusted, whosever it is now.
FoundPastMark(x, c) ==
    LET from == IF marks[c].id \in Heads THEN marks[c].id ELSE 0
    IN Largest({i \in Heads : from < i /\ i <= x.known /\ log[i].compile = c})

\* Mutant of Found: only an acceptance that wrote a receipt is found.
FoundReceipt(x, c) ==
    Largest({i \in Heads : i <= x.known /\ log[i].compile = c /\ log[i].receipt})

\* The record of compile c's acceptance, 0 for none: after the compile's
\* mark, where that names the record it named when the compile ran.
Found(x, c) ==
    LET m == marks[c]
        from == IF m.id \in Heads /\ log[m.id].compile = m.compile THEN m.id ELSE 0
    IN Largest({i \in Heads : from < i /\ i <= x.known /\ log[i].compile = c})

\* Mutant of Latest: a record newer than it that can't be read is passed over.
LatestInShadow(x, b, fmt) ==
    LET i == x.newest[b]
    IN IF i # 0 /\ log[i].fmt = fmt /\ Rebuilds(i) THEN i ELSE 0

\* The record whose layout an acceptance is compared with, 0 for a baseline.
Latest(x, b, fmt) ==
    LET i == x.newest[b]
    IN IF i # 0 /\ log[i].fmt = fmt /\ b \notin x.shadowed /\ Rebuilds(i) THEN i ELSE 0

-----------------------------------------------------------------------------
(* Compiles, acceptances, queries.                                         *)

\* A call can be made from outside, or by a listener that is hearing a receipt.
MayCall == stack # <<>> => Last(stack).listening

\* A compile runs, naming state the store may not have synced; it carries the
\* journal's mark, or none where the store can't be read or synced.
Compile(c) ==
    /\ MayCall
    /\ c \notin DOMAIN marks
    /\ \/ /\ ix' = IndexNow
          /\ marks' = [k \in DOMAIN marks \cup {c} |-> IF k = c THEN IndexNow.mark ELSE marks[k]]
          /\ synced' = IF OpeningSync THEN Len(log) ELSE synced
          /\ unsaved' = (IF OpeningSync THEN {} ELSE unsaved) \cup {c}
       \/ /\ marks' = [k \in DOMAIN marks \cup {c} |-> IF k = c THEN NoMark ELSE marks[k]]
          /\ unsaved' = unsaved \cup {c}
          /\ UNCHANGED <<ix, synced>>
    /\ UNCHANGED <<log, unreadable, announced, stack, live, opens, rots, told>>

Newer(r) == IF r.id > heard.id THEN r ELSE heard

\* Listeners hear receipt i of branch b, but for the one the journal
\* announced last.
Announce(j, b, i) ==
    /\ announced' = [announced EXCEPT ![j][b] = IF i > @ THEN i ELSE @]
    /\ heard' = IF announced[j][b] = i THEN heard ELSE Newer(MarkOf(i))

\* accept, as far as its first announcement: the branch's newest receipt, if
\* this journal hasn't announced it.  A branch neither live nor recorded is
\* refused.
Accept(j, c, syncs) ==
    LET x == IndexNow
        b == BranchOf[c]
        r == x.newestReceipt[b]
        due == r # 0 /\ announced[j][b] # r /\ IsReceipt(r, b)
        sync == due /\ Undurable(x, r)
        call == [journal |-> j, compile |-> c, listening |-> due]
    IN /\ MayCall
       /\ Len(stack) < MaxNest
       /\ c \in DOMAIN marks
       /\ Len(log) + Len(stack) < MaxRecords \/ \E i \in Heads : log[i].compile = c
       /\ IF x.newest[b] = 0 /\ b \notin live
          THEN ix' = x /\ Synced(OpeningSync) /\ UNCHANGED <<announced, stack, heard>>
          ELSE IF sync /\ ~syncs
          THEN ix' = x /\ Synced(OpeningSync) /\ UNCHANGED <<announced, stack, heard>>
          ELSE /\ ix' = IF sync THEN AllDurable(x) ELSE x
               /\ Synced(OpeningSync \/ sync)
               /\ IF due THEN Announce(j, b, r) ELSE UNCHANGED <<announced, heard>>
               /\ stack' = Append(stack, call)
       /\ UNCHANGED <<log, unreadable, marks, live, opens, rots, answers>>

Top == Last(stack)
Returned == stack' = Front(stack)

\* The index as the acceptance goes on: a listener's acceptance may have left
\* an append whose outcome is unknown.
Resumed == IF ix.stale THEN Listed(ix) ELSE ix

\* A compile accepted before: its record is made durable, its receipt is the
\* answer, and listeners hear it.
Retry(syncs) ==
    LET c == Top.compile
        x == Resumed
        i == Found(x, c)
        sync == Undurable(x, i)
    IN /\ stack # <<>>
       /\ i # 0
       /\ Returned
       /\ IF sync /\ ~syncs
          THEN ix' = x /\ UNCHANGED <<synced, unsaved, announced, told>>
          ELSE /\ ix' = IF sync THEN AllDurable(x) ELSE x
               /\ Synced(sync)
               /\ IF log[i].receipt THEN Announce(Top.journal, log[i].br, i) ELSE UNCHANGED <<announced, heard>>
               /\ answers' = answers \cup {[compile |-> c, id |-> IF log[i].receipt THEN i ELSE 0]}
       /\ UNCHANGED <<log, unreadable, marks, live, opens, rots>>

\* The record an acceptance of compile c appends, a delta on record base or,
\* with base 0, a snapshot.
RecordOf(x, c, base) ==
    LET b == BranchOf[c]
        prev == Latest(x, b, FormatOf[c])
    IN [br |-> b, compile |-> c, fmt |-> FormatOf[c], lay |-> LayoutOf[c],
        receipt |-> (prev = 0 \/ log[prev].lay # LayoutOf[c]), pr |-> x.newestReceipt[b], base |-> base]

\* Mutant of UnsavedAfter: the record is appended before the state it names
\* is synced.
UnsavedAppendFirst(how) == IF how = "ok" THEN {} ELSE unsaved

\* The state an acceptance's syncs leave unsaved: the first comes before the
\* append.
UnsavedAfter(how) == IF how = "unsynced" THEN unsaved ELSE {}

\* commit, of a compile not accepted yet: a sync, the append, a sync.  It may
\* throw at the first sync, at an append that was lost, or after one that
\* landed; then the index is stale.
Commit(how) ==
    LET c == Top.compile
        x == Resumed
        b == BranchOf[c]
        n == Len(log) + 1
        prev == Latest(x, b, FormatOf[c])
    IN /\ stack # <<>>
       /\ Found(x, c) = 0
       /\ Returned
       /\ \E base \in {0, prev} :
            LET r == RecordOf(x, c, base)
                lands == how \in {"landed", "ok"}
            IN /\ log' = IF lands THEN Append(log, r) ELSE log
               /\ ix' = CASE how = "unsynced" -> [x EXCEPT !.stale = TRUE]
                          [] how \in {"lost", "landed"} -> [AllDurable(x) EXCEPT !.stale = TRUE]
                          [] how = "ok" -> Durable(Note(x, r, n), r)
               /\ synced' = CASE how = "unsynced" -> synced
                              [] how \in {"lost", "landed"} -> Len(log)
                              [] how = "ok" -> n
               /\ unsaved' = UnsavedAfter(how)
               /\ IF how = "ok" /\ r.receipt
                  THEN /\ announced' = [announced EXCEPT ![Top.journal][b] = n]
                       /\ heard' = Newer([id |-> n, compile |-> c])
                  ELSE UNCHANGED <<announced, heard>>
               /\ answers' = IF how = "ok"
                             THEN answers \cup {[compile |-> c, id |-> IF r.receipt THEN n ELSE 0]}
                             ELSE answers
       /\ UNCHANGED <<unreadable, marks, live, opens, rots>>

\* The receipts a query of branch b lists: walked back once, then kept.
Listing(x, b) == IF b \in x.walked THEN x.receipts[b] ELSE Walk(b, x.newestReceipt[b])

\* query: what it lists is durable before it is handed out.
Query(b, syncs) ==
    LET x == IndexNow
        list == Listing(x, b)
        y == [x EXCEPT !.walked = @ \cup {b}, !.receipts[b] = list]
        sync == list # <<>> /\ Undurable(x, Last(list))
    IN /\ MayCall
       /\ IF sync /\ ~syncs
          THEN ix' = y /\ Synced(OpeningSync) /\ UNCHANGED heard
          ELSE /\ ix' = IF sync THEN AllDurable(y) ELSE y
               /\ Synced(OpeningSync \/ sync)
               /\ heard' = IF list = <<>> THEN heard ELSE Newer(MarkOf(Last(list)))
       /\ UNCHANGED <<log, unreadable, announced, stack, marks, live, opens, rots, answers>>

DeleteBranch(b) ==
    /\ MayCall
    /\ b \in live \cap Deletable
    /\ live' = live \ {b}
    /\ UNCHANGED <<store, ix, announced, stack, marks, opens, rots, told>>

\* The store is closed, or the process dies, and opens again: it holds the
\* records up to some one at or after the last sync, of which those in rot
\* can't be read, and the last is dropped if it is one of them.  What was
\* said of the rotted records is history no more.
Reopen(n, rot) ==
    LET m == Largest((1 .. n) \ rot)
        compiles == {log[i].compile : i \in rot}
    IN /\ opens < MaxOpens /\ opens' = opens + 1
       /\ n \in synced .. Len(log)
       /\ rot \subseteq (1 .. n) \ unreadable
       /\ rots + Cardinality(rot) <= MaxRot /\ rots' = rots + Cardinality(rot)
       /\ log' = SubSeq(log, 1, m)
       /\ unreadable' = (unreadable \cup rot) \cap (1 .. m)
       /\ synced' = m
       /\ unsaved' = {}
       /\ ix' = Unbuilt
       /\ announced' = [j \in Journals |-> [b \in Branches |-> 0]]
       /\ stack' = <<>>
       /\ heard' = IF heard.id \in rot THEN NoMark ELSE heard
       /\ answers' = {a \in answers : a.compile \notin compiles}
       /\ UNCHANGED <<marks, live>>

-----------------------------------------------------------------------------
Init ==
    /\ log \in Logs0
    /\ unreadable = {}
    /\ synced = Len(log)
    /\ unsaved = {}
    /\ ix = Unbuilt
    /\ announced = [j \in Journals |-> [b \in Branches |-> 0]]
    /\ stack = <<>>
    /\ marks = <<>>
    /\ live = Branches
    /\ opens = 0 /\ rots = 0
    /\ heard = NoMark /\ answers = {}

Next ==
    \/ \E c \in Compiles : Compile(c)
    \/ \E j \in Journals, c \in Compiles, syncs \in BOOLEAN : Accept(j, c, syncs)
    \/ \E syncs \in BOOLEAN : Retry(syncs)
    \/ \E how \in {"unsynced", "lost", "landed", "ok"} : Commit(how)
    \/ \E b \in Branches, syncs \in BOOLEAN : Query(b, syncs)
    \/ \E b \in Branches : DeleteBranch(b)
    \/ \E n \in 0 .. Len(log) : \E rot \in {{}} \cup {{i} : i \in Positions} : Reopen(n, rot)

Spec == Init /\ [][Next]_vars

-----------------------------------------------------------------------------
(* Properties.                                                             *)

\* A compile is accepted once: no two records that can be read are of one
\* compile, whichever journal it was accepted on, however often it was tried
\* again, after appends that threw and landed, crashes, and a mark whose
\* record is gone or whose identity went to another (findAccepted).
OneRecordPerCompile ==
    \A i, k \in Heads : log[i].compile = log[k].compile => i = k

\* Whoever accepts a compile again gets the answer the first acceptance gave:
\* its receipt, or none (accept).
AnsweredOnce ==
    \A a1, a2 \in answers : a1.compile = a2.compile => a1 = a2

\* A receipt is durable before anyone hears of it, and stays the record it
\* was: no crash takes back what a listener or a query was given.
HeardIsDurable ==
    heard # NoMark =>
        heard.id <= synced /\ log[heard.id].compile = heard.compile /\ log[heard.id].receipt

\* An acceptance whose record holds no receipt left the branch's layout as it
\* was: the record before it on the branch has the same layout, counted the
\* same way, and no record between them is past reading.  A delta is on that
\* record (accept, loadLatest, commit).
ChangeIsTold ==
    Len(log') = Len(log) + 1 =>
      LET n == Len(log')
          r == log'[n]
          before == Largest(OnBranch(r.br))
      IN /\ ~r.receipt => /\ before # 0
                          /\ log[before].fmt = r.fmt /\ log[before].lay = r.lay
                          /\ \A i \in unreadable : i < before
         /\ r.base \in {0, before}

\* The newest record of branch b another release wrote, read or not.
LastOther(b) == Largest({i \in Positions : log[i].br = b /\ log[i].fmt \notin Formats})

\* What a query lists of a branch is its receipts that can be read, in log
\* order, and all of them since another release last wrote there, unless a
\* link led to a record that can't be read (query, receiptsOf).
QueryIsWhole ==
    \A b \in Branches :
        LET x == IndexNow
            list == Listing(x, b)
            first == IF list = <<>> THEN x.newestReceipt[b] ELSE log[list[1]].pr
            readable == {i \in Positions : IsReceipt(i, b)}
        IN /\ \A k \in 1 .. Len(list) - 1 : list[k] < list[k + 1]
           /\ Range(list) \subseteq readable
           /\ first \notin unreadable => \A i \in readable : i > LastOther(b) => i \in Range(list)

\* A record that landed names no state a crash could still take: what was
\* stored before the acceptance was synced before the append (commit).
StateBeforeRecord ==
    \A i \in Positions : log[i].compile \notin unsaved

=============================================================================
