---------------------------- MODULE WindowNotices ----------------------------
(***************************************************************************)
(* How ContextManager tells its strategy of rows that enter and leave the  *)
(* window (src/src/context-manager.ts).  A strategy hears while it is      *)
(* initialized; what happens meanwhile waits, and so does what a delivery  *)
(* failed to read, until the next notification.  Its hooks run inside the  *)
(* notification, and may call the manager again: present, retract, remove, *)
(* set a strategy, move the store's branch, close.                         *)
(*                                                                         *)
(* `stack` is the call stack: a frame per call that a hook can run under,  *)
(* with what it has still to do.  The index is its window, per branch: a   *)
(* presentation is a number of its own, which stands for the ordinal and   *)
(* the record that issued it, and a branch made later shares it.           *)
(***************************************************************************)
EXTENDS Integers, Sequences, SequencesExt, FiniteSets

CONSTANTS
    Rows,       \* the rows there may be, in record order
    BodyOf,     \* each row's body's first row
    Branches, Main,
    Worlds,     \* the start (rows, window, mode), the strategy's hook, and bounds: calls, nest, faults
    None

VARIABLES
    world,      \* the world
    stack,      \* the calls running
    at, gen,    \* the store's branch, and its generation as last observed
    attempt,    \* initializationAttempt
    ready,      \* initializedAttempt
    initing,    \* the initialization that awaits its strategy: the scope it began in
    closed,
    stored,     \* the rows ever stored
    rec, mode,  \* per branch, the record's rows and the index's mode (None: no such branch)
    win,        \* per branch, the presentation each row is in the window by (0: it isn't)
    issued,     \* per branch, the presentations its index issued
    out,        \* per branch, the rows its index took out
    stamp,      \* presentations so far
    unheardIn,  \* presentedUnheard: per row 0, 1 (it waits), 2 (it entered a legacy window)
    unheardOut, \* retractedUnheard
    busy,       \* the flags of a delivery that are up
    belief,     \* history: the window as the strategy read it and was told of it
    seen,       \* history: the window when its initialization began
    moved,      \* history: the store moved beneath the strategy
    late,       \* history: rows told to leave, once what waited was retried, that were in the window again
    calls, faults

store == <<at, gen, stored, rec, mode, win, issued, out, stamp>>
mgr   == <<attempt, ready, initing, closed>>
queue == <<unheardIn, unheardOut, busy>>
hist  == <<belief, seen, moved, late>>
bound == <<world, calls, faults>>
vars  == <<stack, store, mgr, queue, hist, bound>>

Ready == ready = attempt
Waiting == busy \cap {"out", "in"} # {} \/ unheardOut # <<>> \/ \E r \in Rows : unheardIn[r] # 0
Legacy(b) == mode[b] = "legacy"
Window(b) == IF Legacy(b) THEN rec[b] ELSE {r \in rec[b] : win[b][r] # 0}
InOrder(S, w) == SetToSortSeq(S, LAMBDA x, y : w[x] < w[y] \/ (w[x] = w[y] /\ x < y))
Leaving(S) == {[id |-> r, by |-> win[at][r]] : r \in S}

\* observeStoreBranch, hookScope, inHookScope.
Observed == IF gen.name = at THEN gen ELSE [name |-> at, n |-> gen.n + 1]
Scope == [attempt |-> attempt, gen |-> Observed]
InScope(s) == ~closed /\ s = Scope

-----------------------------------------------------------------------------
(* The call stack.  A frame is what is running and what it has left to do. *)
Call(f) == [f |-> f, rows |-> <<>>, left |-> {}, removed |-> FALSE, scope |-> None, legacy |-> FALSE, queued |-> <<>>]
NotifyIn(rows, legacy) == [Call("notifyIn") EXCEPT !.rows = rows, !.legacy = legacy]
NotifyOut(left, removed) == [Call("notifyOut") EXCEPT !.left = left, !.removed = removed]
Top == stack[Len(stack)]
Below == SubSeq(stack, 1, Len(stack) - 1)
Running(f) == stack # <<>> /\ Top.f = f
Returns == stack' = Below
Becomes(f) == stack' = Append(Below, f)
\* deliverUnheard, unless one runs: it takes over what waits.
Delivers(base) ==
    IF "delivering" \in busy \/ ~Ready THEN stack' = base /\ UNCHANGED busy
    ELSE stack' = Append(base, Call("deliver")) /\ busy' = busy \cup {"delivering"}

\* waitToBeHeard, and deferPresented, deferRetracted.
Waits(rows, legacy) ==
    unheardIn' = [r \in Rows |-> IF r \notin ToSet(rows) THEN unheardIn[r]
                                 ELSE IF legacy \/ unheardIn[r] = 2 THEN 2 ELSE 1]
WaitsOut(left, removed) == unheardOut' = Append(unheardOut, [left |-> left, removed |-> removed])
DeferIn(rows, legacy) ==
    IF closed THEN Returns /\ UNCHANGED queue
    ELSE Waits(rows, legacy) /\ Delivers(Below) /\ UNCHANGED unheardOut
DeferOut(left, removed) ==
    IF closed \/ left = {} THEN Returns /\ UNCHANGED queue
    ELSE WaitsOut(left, removed) /\ Delivers(Below) /\ UNCHANGED unheardIn

\* The strategy hears rows enter, or leave.
Hears(rows) ==
    belief' = belief \cup ToSet(rows) /\ late' = late \ ToSet(rows) /\ UNCHANGED <<seen, moved>>
HearsOut(left) ==
    belief' = belief \ {l.id : l \in left} /\ UNCHANGED <<seen, moved, late>>

-----------------------------------------------------------------------------
(* notifyPresented, tellPresented.                                         *)
MustWait == ~Ready \/ (Waiting /\ "delivering" \in busy)
AllIn(rows) == \A r \in ToSet(rows) : win[at][r] # 0
\* Mutant of StillHolds: a retried hook is taken to have changed nothing.
StillHoldsAlways(fr) == TRUE
StillHolds(fr) == InScope(fr.scope) /\ (fr.legacy \/ AllIn(fr.rows))

StartNotifyIn ==
    /\ Running("notifyIn")
    /\ \/ (Top.rows = <<>> \/ closed) /\ Returns /\ UNCHANGED queue
       \/ Top.rows # <<>> /\ ~closed /\ MustWait
          /\ Waits(Top.rows, Top.legacy) /\ Returns /\ UNCHANGED <<unheardOut, busy>>
       \/ Top.rows # <<>> /\ ~closed /\ ~MustWait /\ UNCHANGED <<unheardIn, unheardOut>>
          /\ IF Waiting THEN Delivers(Append(Below, [Top EXCEPT !.f = "retriedIn", !.scope = Scope]))
             ELSE Becomes([Top EXCEPT !.f = "tellIn"]) /\ UNCHANGED busy
    /\ gen' = Observed
    /\ UNCHANGED <<at, stored, rec, mode, win, issued, out, stamp, mgr, hist, bound>>

\* callWaits has tried again what waited.
RetriedIn ==
    /\ Running("retriedIn")
    /\ IF Waiting \/ ~Ready THEN Waits(Top.rows, Top.legacy) /\ Returns /\ UNCHANGED <<unheardOut, busy>>
       ELSE IF ~StillHolds(Top) THEN DeferIn(Top.rows, Top.legacy)
       ELSE Becomes([Top EXCEPT !.f = "tellIn"]) /\ UNCHANGED queue
    /\ gen' = Observed
    /\ UNCHANGED <<at, stored, rec, mode, win, issued, out, stamp, mgr, hist, bound>>

\* One call with every row, or one per row, each but the first checked again.
TellIn ==
    /\ Running("tellIn")
    /\ IF Top.rows = <<>> \/ closed THEN Returns /\ UNCHANGED hist
       ELSE IF world.hook = "rows" THEN Hears(Top.rows) /\ Becomes(Call("hook"))
       ELSE /\ Hears(<<Head(Top.rows)>>)
            /\ stack' = Below \o <<[Top EXCEPT !.f = "nextRow", !.rows = Tail(@), !.scope = Scope, !.legacy = Legacy(at)], Call("hook")>>
    /\ gen' = Observed
    /\ UNCHANGED <<at, stored, rec, mode, win, issued, out, stamp, mgr, queue, bound>>
\* Mutant of RowHolds: the row after a hook's is told whatever it did.
RowHoldsAlways(fr) == TRUE
RowHolds(fr) == InScope(fr.scope) /\ (fr.legacy \/ win[at][Head(fr.rows)] # 0)
NextRow ==
    /\ Running("nextRow")
    /\ IF Top.rows = <<>> THEN Returns /\ UNCHANGED <<queue, hist>>
       ELSE IF ~RowHolds(Top) THEN DeferIn(Top.rows, Top.legacy) /\ UNCHANGED hist
       ELSE /\ Hears(<<Head(Top.rows)>>)
            /\ stack' = Below \o <<[Top EXCEPT !.rows = Tail(@)], Call("hook")>>
            /\ UNCHANGED queue
    /\ gen' = Observed
    /\ UNCHANGED <<at, stored, rec, mode, win, issued, out, stamp, mgr, bound>>

-----------------------------------------------------------------------------
(* notifyRetracted, tellRetracted.                                         *)
TellsOut(left) ==
    IF left = {} \/ closed THEN Returns /\ UNCHANGED hist
    ELSE HearsOut(left) /\ Becomes(Call("hook"))
StartNotifyOut ==
    /\ Running("notifyOut")
    /\ \/ (Top.left = {} \/ closed) /\ Returns /\ UNCHANGED <<queue, hist>>
       \/ Top.left # {} /\ ~closed /\ MustWait
          /\ WaitsOut(Top.left, Top.removed) /\ Returns /\ UNCHANGED <<unheardIn, busy, hist>>
       \/ Top.left # {} /\ ~closed /\ ~MustWait /\ UNCHANGED <<unheardIn, unheardOut>>
          /\ IF Waiting THEN Delivers(Append(Below, [Top EXCEPT !.f = "retriedOut", !.scope = Scope])) /\ UNCHANGED hist
             ELSE TellsOut(Top.left) /\ UNCHANGED busy
    /\ gen' = Observed
    /\ UNCHANGED <<at, stored, rec, mode, win, issued, out, stamp, mgr, bound>>
RetriedOut ==
    /\ Running("retriedOut")
    /\ IF Waiting \/ ~Ready
       THEN WaitsOut(Top.left, Top.removed) /\ Returns /\ UNCHANGED <<unheardIn, busy, hist>>
       ELSE IF ~InScope(Top.scope) THEN DeferOut(Top.left, Top.removed) /\ UNCHANGED hist
       ELSE IF closed THEN Returns /\ UNCHANGED <<queue, hist>>
       ELSE /\ belief' = belief \ {l.id : l \in Top.left} /\ late' = late \cup {l.id : l \in {x \in Top.left : win[at][x.id] # 0}}
            /\ Becomes(Call("hook")) /\ UNCHANGED <<queue, seen, moved>>
    /\ gen' = Observed
    /\ UNCHANGED <<at, stored, rec, mode, win, issued, out, stamp, mgr, bound>>

\* The second call of presentRows and of retractRows (tellPresentation, tellRetraction).
SecondIn ==
    /\ Running("thenIn")
    /\ IF InScope(Top.scope) /\ AllIn(Top.rows) THEN Becomes(NotifyIn(Top.rows, FALSE)) /\ UNCHANGED queue
       ELSE DeferIn(Top.rows, FALSE)
    /\ gen' = Observed
    /\ UNCHANGED <<at, stored, rec, mode, win, issued, out, stamp, mgr, hist, bound>>
SecondOut ==
    /\ Running("thenOut")
    /\ IF InScope(Top.scope) THEN Becomes(NotifyOut(Top.left, TRUE)) /\ UNCHANGED queue
       ELSE DeferOut(Top.left, TRUE)
    /\ gen' = Observed
    /\ UNCHANGED <<at, stored, rec, mode, win, issued, out, stamp, mgr, hist, bound>>

-----------------------------------------------------------------------------
(* deliverUnheard.                                                         *)
Fails == faults < world.faults /\ faults' = faults + 1
Delivered == Returns /\ busy' = busy \ {"delivering"}
DeliverMore ==
    /\ Running("deliver")
    /\ \/ /\ closed \/ ~Ready \/ (unheardOut = <<>> /\ \A r \in Rows : unheardIn[r] = 0)
          /\ Delivered /\ UNCHANGED <<unheardIn, unheardOut, faults>>
       \/ /\ ~closed /\ Ready /\ unheardOut # <<>>
          /\ stack' = Append(stack, [Call("deliverOut") EXCEPT !.queued = unheardOut])
          /\ unheardOut' = <<>> /\ busy' = busy \cup {"out"}
          /\ UNCHANGED <<unheardIn, faults>>
       \/ /\ ~closed /\ Ready /\ unheardOut = <<>> /\ \E r \in Rows : unheardIn[r] # 0
          /\ LET rows == {r \in Window(at) : unheardIn[r] = 2 \/ (unheardIn[r] = 1 /\ ~Legacy(at))} IN
             stack' = stack \o <<Call("deliveredIn"), [Call("tellIn") EXCEPT !.rows = InOrder(rows, win[at])]>>
          /\ unheardIn' = [r \in Rows |-> 0] /\ busy' = busy \cup {"in"}
          /\ UNCHANGED <<unheardOut, faults>>
       \* the read of the window fails: what waits, waits still
       \/ /\ ~closed /\ Ready /\ unheardOut = <<>> /\ \E r \in Rows : unheardIn[r] # 0
          /\ Fails /\ Delivered /\ UNCHANGED <<unheardIn, unheardOut>>
    /\ UNCHANGED <<store, mgr, hist, world, calls>>
DeliveredIn ==
    /\ Running("deliveredIn") /\ Returns /\ busy' = busy \ {"in"}
    /\ UNCHANGED <<unheardIn, unheardOut, store, mgr, hist, bound>>

\* Whether a row left the window of the branch the store is on, as the call left it.
LeftHere(l) ==
    LET shared == l.by # 0 /\ <<l.id, l.by>> \in issued[at] IN
    IF win[at][l.id] = 0 THEN l.id \in out[at] /\ (l.by = 0 \/ shared)
    ELSE (shared /\ win[at][l.id] # l.by) \/ l.id \notin rec[at]

DeliverOut ==
    /\ Running("deliverOut")
    /\ LET told == IF Top.queued = <<>> \/ Legacy(at) THEN {} ELSE {l \in Head(Top.queued).left : LeftHere(l)}
           gone == IF Top.queued = <<>> \/ Head(Top.queued).removed THEN {} ELSE {l \in told : l.id \notin rec[at]}
           held == told \ gone
           rest == [Top EXCEPT !.queued = Tail(@), !.left = IF held = {} THEN {} ELSE gone, !.scope = Scope]
           tell == IF held = {} THEN gone ELSE held IN
       \* a second call of the one being made: here if the first's hook moved nothing
       \/ /\ Top.left # {}
          /\ \/ /\ InScope(Top.scope) /\ HearsOut(Top.left)
                /\ stack' = Below \o <<[Top EXCEPT !.left = {}], Call("hook")>>
             \/ /\ ~InScope(Top.scope) /\ UNCHANGED hist
                /\ Becomes([Top EXCEPT !.left = {}, !.queued = <<[left |-> Top.left, removed |-> TRUE]>> \o @])
          /\ UNCHANGED <<unheardOut, busy, faults>>
       \/ /\ Top.left = {} /\ (Top.queued = <<>> \/ closed \/ ~Ready)
          /\ Returns /\ busy' = busy \ {"out"}
          /\ unheardOut' = Top.queued \o unheardOut
          /\ UNCHANGED <<hist, faults>>
       \/ /\ Top.left = {} /\ Top.queued # <<>> /\ ~closed /\ Ready
          /\ IF tell = {} THEN Becomes(rest) /\ UNCHANGED hist
             ELSE HearsOut(tell) /\ stack' = Below \o <<rest, Call("hook")>>
          /\ UNCHANGED <<unheardOut, busy, faults>>
       \* the read fails: this call and those after it wait, and the delivery ends
       \/ /\ Top.left = {} /\ Top.queued # <<>> /\ ~closed /\ Ready
          /\ Fails
          /\ stack' = SubSeq(stack, 1, Len(stack) - 2) /\ busy' = busy \ {"out", "delivering"}
          /\ unheardOut' = Top.queued \o unheardOut
          /\ UNCHANGED hist
    /\ gen' = Observed
    /\ UNCHANGED <<at, stored, rec, mode, win, issued, out, stamp, unheardIn, mgr, world, calls>>

-----------------------------------------------------------------------------
(* What the host, or a hook, calls.                                        *)
Hooks == Cardinality({n \in DOMAIN stack : stack[n].f = "hook"})
Calls ==
    /\ stack = <<>> \/ (Running("hook") /\ Hooks <= world.nest)
    /\ calls < world.calls /\ calls' = calls + 1
    /\ ~closed
HookReturns ==
    /\ Running("hook") /\ Returns
    /\ UNCHANGED <<store, mgr, queue, hist, bound>>
Rest(r) == {x \in rec[at] : BodyOf[x] = BodyOf[r] /\ x >= r}
Body(r) == {x \in rec[at] : BodyOf[x] = BodyOf[r]}

\* A body's rows enter, those in the window already leaving it first.
PresentRows(r) ==
    LET entering == Rest(r)
        leaving == {x \in entering : win[at][x] # 0}
        place == [x \in Rows |-> IF x \in entering THEN stamp + Cardinality({y \in entering : y <= x}) ELSE win[at][x]]
        rows == InOrder(entering, place) IN
    /\ Calls /\ ~Legacy(at) /\ r \in rec[at] /\ win[at][r] = 0
    /\ \A x \in Body(r) : x < r => win[at][x] # 0
    /\ win' = [win EXCEPT ![at] = place]
    /\ issued' = [issued EXCEPT ![at] = @ \cup {<<x, place[x]>> : x \in entering}]
    /\ out' = [out EXCEPT ![at] = @ \ entering]
    /\ stamp' = stamp + Cardinality(entering)
    /\ stack' = IF leaving = {} THEN Append(stack, NotifyIn(rows, FALSE))
                ELSE stack \o <<[Call("thenIn") EXCEPT !.rows = rows, !.scope = Scope], NotifyOut(Leaving(leaving), FALSE)>>
    /\ gen' = Observed
    /\ UNCHANGED <<at, stored, rec, mode, mgr, queue, hist, world, faults>>

TakesOut(S) ==
    /\ win' = [win EXCEPT ![at] = [x \in Rows |-> IF x \in S THEN 0 ELSE @[x]]]
    /\ out' = [out EXCEPT ![at] = @ \cup S]
\* retractRows, retractRemoved, retractAbsentRows: rows the record holds, and rows it lost.
RetractRows(S) ==
    LET held == S \cap rec[at]
        gone == S \ rec[at] IN
    /\ Calls /\ ~Legacy(at) /\ S # {}
    /\ \A x \in S : win[at][x] # 0 /\ (x \in rec[at] => Body(x) \cap {y \in Rows : win[at][y] # 0} \subseteq S)
    /\ TakesOut(S)
    /\ stack' = IF held = {} THEN Append(stack, NotifyOut(Leaving(gone), TRUE))
                ELSE IF gone = {} THEN Append(stack, NotifyOut(Leaving(held), FALSE))
                ELSE stack \o <<[Call("thenOut") EXCEPT !.left = Leaving(gone), !.scope = Scope], NotifyOut(Leaving(held), FALSE)>>
    /\ gen' = Observed
    /\ UNCHANGED <<at, stored, rec, mode, issued, stamp, mgr, queue, hist, world, faults>>

\* A body removed from the record; retractOnRemoval takes it out of the
\* window, or fails to write its tombstone, or to read the index at all.
RemoveMessage(r) ==
    LET S == Body(r)
        inside == {x \in S : win[at][x] # 0} IN
    /\ Calls /\ r \in rec[at]
    /\ rec' = [rec EXCEPT ![at] = @ \ S]
    \* in legacy mode the strategy reads the record itself
    /\ \/ /\ Legacy(at) /\ belief' = belief \ S /\ seen' = seen \ S
          /\ UNCHANGED <<stack, win, out, moved, late, faults>>
       \/ /\ ~Legacy(at) /\ TakesOut(inside)
          /\ stack' = IF inside = {} THEN stack ELSE Append(stack, NotifyOut(Leaving(inside), TRUE))
          /\ UNCHANGED <<hist, faults>>
       \/ /\ ~Legacy(at) /\ inside # {} /\ Fails /\ UNCHANGED <<win, out, hist>>
          /\ \E left \in {Leaving(inside), {[id |-> x, by |-> 0] : x \in S}} :
               stack' = Append(stack, NotifyOut(left, TRUE))
    /\ UNCHANGED <<at, gen, stored, mode, issued, stamp, mgr, queue, world>>

\* The next row is stored; a legacy window takes it in.
AddMessage(r) ==
    /\ Calls /\ r = stored + 1 /\ stored' = r
    /\ rec' = [rec EXCEPT ![at] = @ \cup {r}]
    /\ stack' = IF Legacy(at) THEN Append(stack, NotifyIn(<<r>>, TRUE)) ELSE stack
    /\ UNCHANGED <<at, gen, mode, win, issued, out, stamp, mgr, queue, hist, world, faults>>

\* The window is written down as it stands.
WriteDown ==
    LET place == [x \in Rows |-> IF x \in rec[at] THEN stamp + Cardinality({y \in rec[at] : y <= x}) ELSE 0] IN
    /\ Calls /\ Legacy(at)
    /\ mode' = [mode EXCEPT ![at] = "presented"]
    /\ win' = [win EXCEPT ![at] = place]
    /\ issued' = [issued EXCEPT ![at] = {<<x, place[x]>> : x \in rec[at]}]
    /\ stamp' = stamp + Cardinality(rec[at])
    /\ UNCHANGED <<stack, at, gen, stored, rec, out, mgr, queue, hist, world, faults>>

\* initializeStrategy, on branch b: a strategy with no initialize is
\* initialized at once, and what waits is delivered.
Initializes(b, g) ==
    /\ attempt' = attempt + 1 /\ gen' = g /\ at' = b
    /\ seen' = Window(b) /\ moved' = FALSE /\ late' = {}
    /\ \/ /\ ready' = attempt + 1 /\ initing' = None /\ belief' = Window(b)
          /\ IF "delivering" \in busy THEN UNCHANGED <<stack, busy>>
             ELSE stack' = Append(stack, Call("deliver")) /\ busy' = busy \cup {"delivering"}
       \/ /\ ready' = 0 /\ initing' = g /\ belief' = {}
          /\ UNCHANGED <<stack, busy>>
    /\ UNCHANGED <<unheardIn, unheardOut, closed>>
SetStrategy ==
    /\ Calls /\ Initializes(at, Observed)
    /\ UNCHANGED <<stored, rec, mode, win, issued, out, stamp, world, faults>>
SwitchBranch(b) ==
    /\ Calls /\ mode[b] # None
    /\ Initializes(b, [name |-> b, n |-> gen.n + 1])
    /\ UNCHANGED <<stored, rec, mode, win, issued, out, stamp, world, faults>>
\* A branch made at the head, the store left where it is.
CreateBranch(b) ==
    /\ Calls /\ mode[b] = None
    /\ rec' = [rec EXCEPT ![b] = rec[at]] /\ mode' = [mode EXCEPT ![b] = mode[at]]
    /\ win' = [win EXCEPT ![b] = win[at]] /\ issued' = [issued EXCEPT ![b] = issued[at]]
    /\ out' = [out EXCEPT ![b] = out[at]]
    /\ UNCHANGED <<stack, at, gen, stored, stamp, mgr, queue, hist, world, faults>>
\* The store moved beneath the manager.
MoveStore(b) ==
    /\ Calls /\ mode[b] # None /\ b # at
    /\ at' = b /\ moved' = TRUE
    /\ UNCHANGED <<stack, gen, stored, rec, mode, win, issued, out, stamp, mgr, queue, belief, seen, late, world, faults>>

\* The strategy's initialize ends, having read the window at some time
\* since it began; or it rejects, or the store is on another branch by then.
Initialized ==
    /\ stack = <<>> /\ initing # None /\ initing' = None
    /\ \/ /\ ~closed /\ initing = Observed
          /\ ready' = attempt /\ belief' \in {seen, Window(at)}
          /\ stack' = <<Call("deliver")>> /\ busy' = busy \cup {"delivering"}
       \/ UNCHANGED <<ready, belief, stack, busy>>
    /\ gen' = Observed
    /\ UNCHANGED <<at, stored, rec, mode, win, issued, out, stamp, attempt, closed, unheardIn, unheardOut, seen, moved, late, bound>>

Close ==
    /\ Calls /\ closed' = TRUE
    /\ unheardIn' = [r \in Rows |-> 0] /\ unheardOut' = <<>>
    /\ UNCHANGED <<stack, store, attempt, ready, initing, busy, hist, world, faults>>

Init ==
    /\ world \in Worlds
    /\ stack = <<>> /\ at = Main /\ gen = [name |-> Main, n |-> 0]
    /\ stored = Cardinality(world.rows)
    /\ rec = [b \in Branches |-> IF b = Main THEN world.rows ELSE {}]
    /\ mode = [b \in Branches |-> IF b = Main THEN world.mode ELSE None]
    /\ win = [b \in Branches |-> [r \in Rows |-> IF b = Main /\ r \in world.window THEN r ELSE 0]]
    /\ issued = [b \in Branches |-> IF b = Main THEN {<<r, r>> : r \in world.window} ELSE {}]
    /\ out = [b \in Branches |-> {}] /\ stamp = Cardinality(Rows)
    /\ attempt = 1 /\ initing = None /\ closed = FALSE
    /\ ready = 1 /\ belief = Window(Main) /\ seen = {} /\ moved = FALSE /\ late = {}
    /\ unheardIn = [r \in Rows |-> 0] /\ unheardOut = <<>> /\ busy = {}
    /\ calls = 0 /\ faults = 0

Next ==
    \/ StartNotifyIn \/ RetriedIn \/ TellIn \/ NextRow
    \/ StartNotifyOut \/ RetriedOut \/ SecondIn \/ SecondOut
    \/ DeliverMore \/ DeliveredIn \/ DeliverOut \/ HookReturns
    \/ \E r \in Rows : PresentRows(r) \/ RemoveMessage(r) \/ AddMessage(r)
    \/ \E S \in SUBSET Rows : RetractRows(S)
    \/ WriteDown \/ SetStrategy \/ Initialized \/ Close
    \/ \E b \in Branches : SwitchBranch(b) \/ CreateBranch(b) \/ MoveStore(b)
Spec == Init /\ [][Next]_vars

-----------------------------------------------------------------------------
\* Rows a removal took and its failed tombstone left in the index; a legacy
\* window is the record, where a strategy reads what is gone.
Torn(b) == {r \in Rows \ rec[b] : Legacy(b) \/ win[b][r] # 0}

Settled == stack = <<>> /\ Ready /\ ~closed /\ ~Waiting /\ ~moved

\* Once nothing runs and nothing waits, the strategy takes the window to hold
\* what it holds, whatever its hooks did inside each other, while it was
\* initialized or not, and whatever reads failed (notifyPresented,
\* notifyRetracted, deliverUnheard); a row whose tombstone failed inside a
\* hook may be believed in still.  It does not hold of the rows in `late`,
\* which the run of HeardToGoFirst shows: they are left out, but only once a
\* read has failed.
ToldIsWindow ==
    Settled => /\ Window(at) \ late \subseteq belief
               /\ belief \subseteq Window(at) \cup Torn(at)
               /\ faults = 0 => Window(at) \subseteq belief

\* "A row that left and was presented again is heard to go before it is heard
\* to enter" (unheardStillWaiting): no row of the window was last heard to go.
\* What the code does violates it: notifyRetracted, once what waited was
\* retried, asks whether it is in its scope still, and not, as
\* notifyPresented does, whether the rows are still as they were to be told.
HeardToGoFirst == Settled => Window(at) \cap late = {}

\* A row is told to enter where the window of the branch the store is on
\* holds it, and nothing is told after close() (tellPresented, inHookScope).
TellIsIn ==
    (stack' # <<>> /\ Len(stack') >= Len(stack) /\ Last(stack').f = "hook") =>
        belief' \ belief \subseteq (Window(at) \cup Torn(at))' /\ ~closed
TellsWhatIsIn == [][TellIsIn]_stack
=============================================================================
