------------------------ MODULE RequestLadderProofs ------------------------
(***************************************************************************)
(* No answer is bought twice, what was dropped stays dropped, a quarantine *)
(* is told once and its records are bounded, and a checkpoint keeps what   *)
(* the ledger says, proved for any number of instances, families, worlds   *)
(* and restarts.  The first two rest on one fact: a family in flight is    *)
(* one instance's, so the progress its ladder reads and writes is written  *)
(* by no other ladder, and only ever goes away under it.  The ledger's     *)
(* rest on what its holder still owes, and on a record that is not said    *)
(* sent having been told only before a crash.                              *)
(***************************************************************************)
EXTENDS RequestLadder, WellFoundedInduction, SequenceTheorems, FiniteSetTheorems, TLAPS

RunFields == {"stage", "known", "ask", "seen", "wrapped", "targets"}
IsRun(r) == DOMAIN r = RunFields

\* Each instance asks in a family there is.
Shaped ==
    /\ world.asking \subseteq Instance
    /\ shape \in [Instance -> world.families]
    /\ progress = [f \in world.families |-> progress[f]]
    /\ run = [i \in Instance |-> run[i]]
    /\ \A i \in Instance : IsRun(run[i])

\* A family in flight is one instance's.
OneFlight == \A i, j \in Instance : InFlight(i) /\ InFlight(j) /\ Family(i) = Family(j) => i = j

\* The rung a ladder asks is none it knows the outcome of, and it knows all
\* that its family's progress holds.
Asks(i) == run[i].stage = "asking" =>
    /\ run[i].ask \notin DOMAIN run[i].known
    /\ progress[Family(i)] # None => DOMAIN progress[Family(i)] \subseteq DOMAIN run[i].known

IInv == Shaped /\ OneFlight /\ \A i \in Instance : Asks(i)

-----------------------------------------------------------------------------
\* Of any places one is the first.
LEMMA LeastPlace ==
    ASSUME NEW S, S \subseteq Nat, S # {}
    PROVE  \E x \in S : \A y \in S : x <= y
<1>1. PICK x \in S : \A y \in S : ~(<<y, x>> \in OpToRel(<, Nat))
    BY NatLessThanWellFounded, WFMin
<1>2. \A y \in S : ~(y < x)
    BY <1>1 DEF OpToRel
<1>. QED  BY <1>2

\* The first place of those given is one of them.
LEMMA FirstPlace ==
    ASSUME NEW S, S \subseteq Nat, S # {}
    PROVE  Min(S) \in S
BY LeastPlace, Zenon DEF Min

\* A ladder's next step asks a rung it knows no outcome of, or ends it.
LEMMA StepAsksUnknown ==
    ASSUME NEW r, IsRun(r), NEW k, NEW w
    PROVE  LET s == Step(r, k, w)
           IN  /\ IsRun(s) /\ s.known = k /\ s.seen = r.seen
               /\ \/ s.stage = "ending"
                  \/ s.stage = "asking" /\ s.ask \notin DOMAIN k
<1> DEFINE next == Unasked(k, w)
           ended == [r EXCEPT !.stage = "ending", !.known = k, !.ask = None, !.wrapped = w]
           asks == [r EXCEPT !.stage = "asking", !.known = k, !.ask = Rungs[Min(next)], !.wrapped = w]
<1>. HIDE DEF next
<1>1. IsRun(ended) /\ ended.known = k /\ ended.seen = r.seen /\ ended.stage = "ending"
    BY DEF IsRun, RunFields
<1>2. IsRun(asks) /\ asks.known = k /\ asks.seen = r.seen /\ asks.stage = "asking" /\ asks.ask = Rungs[Min(next)]
    BY DEF IsRun, RunFields
<1>3. ASSUME next # {} PROVE Rungs[Min(next)] \notin DOMAIN k
    <2>1. next \subseteq Nat
        BY DEF next, Unasked, Rungs
    <2>2. Min(next) \in next
        BY <1>3, <2>1, FirstPlace
    <2>. QED  BY <2>2 DEF next, Unasked
<1>4. Step(r, k, w) = IF next = {} THEN ended ELSE asks
    BY Zenon DEF Step, next
<1>. HIDE DEF ended, asks
<1>. QED  BY <1>1, <1>2, <1>3, <1>4

\* An instance idle, or at work on what takes no family in flight.
Quiet(r) == IsRun(r) /\ r.stage \in {"idle", "loading", "clearing"}
LEMMA QuietForms ==
    /\ Quiet(Idle)
    /\ Quiet([Idle EXCEPT !.stage = "loading"])
    /\ \A t : Quiet([Idle EXCEPT !.stage = "clearing", !.targets = t])
BY DEF Quiet, IsRun, RunFields, Idle

-----------------------------------------------------------------------------
\* What the invariant needs of a step: an instance that moved is quiet, or was
\* in flight before and asks nothing now, and progress only went away.
Forgot == \E fs : progress' = [f \in world.families |-> IF f \in fs THEN None ELSE progress[f]]
Moved(i, r) == run' = [run EXCEPT ![i] = r]

LEMMA SettlingKeeps ==
    ASSUME IInv, UNCHANGED <<world, shape>>, progress' = progress \/ Forgot,
           NEW i \in Instance, NEW r, Moved(i, r), IsRun(r),
           Quiet(r) \/ (InFlight(i) /\ r.stage # "asking")
    PROVE  IInv'
<1>1. Shaped'
    BY DEF IInv, Shaped, Forgot, Moved
<1>2. \A j \in Instance : run'[j] = IF j = i THEN r ELSE run[j]
    BY DEF IInv, Shaped, Moved
<1>3. \A j \in Instance : InFlight(j)' => InFlight(j)
    BY <1>2 DEF InFlight, Quiet
<1>4. OneFlight'
    BY <1>3 DEF IInv, OneFlight, Family
<1>5. ASSUME NEW j \in Instance PROVE Asks(j)'
    <2>1. CASE j = i
        BY <1>2, <2>1 DEF Asks, Quiet
    <2>2. CASE j # i
        <3>1. progress'[Family(j)] \in {None, progress[Family(j)]}
            BY DEF IInv, Shaped, Forgot, Family
        <3>. QED  BY <1>2, <2>2, <3>1 DEF IInv, Asks, Family
    <2>. QED  BY <2>1, <2>2
<1>. QED  BY <1>1, <1>4, <1>5 DEF IInv

\* Progress is written by the one ladder in flight of its family.
LEMMA PersistKeeps ==
    ASSUME IInv, UNCHANGED <<world, shape>>, NEW i \in Instance, run[i].stage = "asking",
           NEW k, DOMAIN run[i].known \subseteq DOMAIN k, Persist(i, k),
           NEW r, Moved(i, r), IsRun(r),
           Quiet(r) \/ (r.known = k /\ (r.stage = "ending" \/ (r.stage = "asking" /\ r.ask \notin DOMAIN k)))
    PROVE  IInv'
<1>1. Shaped'
    BY DEF IInv, Shaped, Persist, Moved
<1>2. \A j \in Instance : run'[j] = IF j = i THEN r ELSE run[j]
    BY DEF IInv, Shaped, Moved
<1>3. InFlight(i) /\ \A j \in Instance : InFlight(j)' => InFlight(j)
    BY <1>2 DEF InFlight, Quiet
<1>4. OneFlight'
    BY <1>3 DEF IInv, OneFlight, Family
<1>5. Family(i) \in world.families
    BY DEF IInv, Shaped, Family
<1>6. progress[Family(i)] # None => DOMAIN progress[Family(i)] \subseteq DOMAIN k
    BY DEF IInv, Asks
<1>7. progress'[Family(i)] # None => DOMAIN progress'[Family(i)] \subseteq DOMAIN k
    <2>1. CASE progress' = progress
        BY <1>6, <2>1
    <2>2. CASE progress' = [progress EXCEPT ![Family(i)] = IF @ = None THEN k ELSE Filled(@, k)]
        <3>1. progress'[Family(i)] = IF progress[Family(i)] = None THEN k ELSE Filled(progress[Family(i)], k)
            BY <1>5, <2>2 DEF IInv, Shaped
        <3>2. DOMAIN Filled(progress[Family(i)], k) = DOMAIN progress[Family(i)] \cup DOMAIN k
            BY DEF Filled
        <3>. QED  BY <1>6, <3>1, <3>2
    <2>. QED  BY <2>1, <2>2 DEF Persist
<1>8. ASSUME NEW j \in Instance PROVE Asks(j)'
    <2>1. CASE j = i
        BY <1>2, <1>7, <2>1 DEF Asks, Quiet, Family
    <2>2. CASE j # i /\ run[j].stage = "asking"
        <3>1. Family(j) # Family(i)
            BY <1>3, <2>2 DEF IInv, OneFlight, InFlight
        <3>2. progress'[Family(j)] = progress[Family(j)]
            BY <1>5, <3>1 DEF IInv, Shaped, Persist
        <3>. QED  BY <1>2, <2>2, <3>2 DEF IInv, Asks, Family
    <2>3. CASE j # i /\ run[j].stage # "asking"
        BY <1>2, <2>3 DEF Asks
    <2>. QED  BY <2>1, <2>2, <2>3
<1>. QED  BY <1>1, <1>4, <1>8 DEF IInv

-----------------------------------------------------------------------------
\* Steps that move no instance write no progress, but for what they drop.
LEMMA StillKeeps ==
    ASSUME IInv, UNCHANGED <<world, shape, run>>, progress' = progress \/ Forgot
    PROVE  IInv'
<1>1. Shaped'
    BY DEF IInv, Shaped, Forgot
<1>2. OneFlight'
    BY DEF IInv, OneFlight, InFlight, Family
<1>3. ASSUME NEW j \in Instance PROVE Asks(j)'
    <2>1. progress'[Family(j)] \in {None, progress[Family(j)]}
        BY DEF IInv, Shaped, Forgot, Family
    <2>. QED  BY <2>1 DEF IInv, Asks, Family
<1>. QED  BY <1>1, <1>2, <1>3 DEF IInv

\* A ladder begins where no other of its family is in flight, with all that
\* the family's progress holds.
LEMMA BeginKeeps ==
    ASSUME IInv, NEW i \in Instance, Begin(i)
    PROVE  IInv'
<1> DEFINE p == progress[Family(i)]
           k == IF p = None THEN <<>> ELSE p
           start == [Idle EXCEPT !.seen = p # None]
           no == FALSE
           r == Step(start, k, no)
<1>1. Moved(i, r) /\ UNCHANGED <<world, shape, progress>> /\ ~Joins(i)
    BY Zenon DEF Begin, Moved, store
<1>2. IsRun(start)
    BY DEF IsRun, RunFields, Idle
<1> HIDE DEF start, k, no
<1>3. r.known = k /\ IsRun(r) /\ (r.stage = "ending" \/ (r.stage = "asking" /\ r.ask \notin DOMAIN k))
    BY <1>2, StepAsksUnknown
<1> HIDE DEF r
<1>4. Shaped'
    BY <1>1, <1>3 DEF IInv, Shaped, Moved
<1>5. \A j \in Instance : run'[j] = IF j = i THEN r ELSE run[j]
    BY <1>1 DEF IInv, Shaped, Moved
<1>6. \A j \in Instance \ {i} : InFlight(j)' => Family(j)' # Family(i)'
    BY <1>1, <1>5 DEF Joins, InFlight, Family
<1>7. OneFlight'
    BY <1>1, <1>5, <1>6 DEF IInv, OneFlight, InFlight, Family
<1>8. ASSUME NEW j \in Instance PROVE Asks(j)'
    BY <1>1, <1>3, <1>5 DEF IInv, Asks, Family, k
<1>. QED  BY <1>4, <1>7, <1>8 DEF IInv

LEMMA DecideKeeps ==
    ASSUME IInv, NEW i \in Instance, NEW o, Decide(i, o)
    PROVE  IInv'
<1> DEFINE a == run[i].ask
           k == Filled(run[i].known, [x \in {a} |-> o])
           seen == run[i].seen \/ Open(i)
           ended == [run[i] EXCEPT !.stage = "ending", !.known = k, !.seen = seen, !.ask = None]
           wraps == run[i].wrapped \/ (o = "empty" /\ a = "expand")
           asked == [run[i] EXCEPT !.seen = seen]
           next == Step(asked, k, wraps)
           r == IF EndsLadder(a, o) THEN ended ELSE next
<1>1. run[i].stage = "asking" /\ Persist(i, k) /\ Moved(i, r) /\ UNCHANGED <<world, shape>>
    BY Zenon DEF Decide, Moved
<1>2. DOMAIN run[i].known \subseteq DOMAIN k
    BY DEF Filled
<1>3. IsRun(run[i])
    BY DEF IInv, Shaped
<1> HIDE DEF k, seen
<1>4. IsRun(ended) /\ ended.known = k /\ ended.stage = "ending"
    BY <1>3 DEF IsRun, RunFields
<1>5. IsRun(asked)
    BY <1>3 DEF IsRun, RunFields
<1> HIDE DEF asked, wraps
<1>6. IsRun(next) /\ next.known = k /\ (next.stage = "ending" \/ (next.stage = "asking" /\ next.ask \notin DOMAIN k))
    BY <1>5, StepAsksUnknown
<1> HIDE DEF ended, next
<1>7. IsRun(r) /\ r.known = k /\ (r.stage = "ending" \/ (r.stage = "asking" /\ r.ask \notin DOMAIN k))
    BY <1>4, <1>6
<1>. QED  BY <1>1, <1>2, <1>7, PersistKeeps, Zenon

LEMMA InstanceKeeps ==
    ASSUME IInv, NEW i \in Instance,
           \/ Adopt(i) \/ Mint(i) \/ Interrupt(i) \/ Abandon(i)
           \/ Exhaust(i) \/ Deliver(i) \/ Settle(i) \/ ClearMinted(i)
    PROVE  IInv'
<1>1. IsRun(run[i]) /\ run = [j \in Instance |-> run[j]]
    BY DEF IInv, Shaped
<1> DEFINE loading == [Idle EXCEPT !.stage = "loading"]
           clearing(t) == [Idle EXCEPT !.stage = "clearing", !.targets = t]
           at(stage) == [run[i] EXCEPT !.stage = stage]
           toClear(t) == [run[i] EXCEPT !.targets = t]
<1>2. /\ IsRun(Idle) /\ Quiet(Idle) /\ IsRun(loading) /\ Quiet(loading)
      /\ \A t : IsRun(clearing(t)) /\ Quiet(clearing(t))
    BY QuietForms DEF Quiet
<1>3. \A stage : IsRun(at(stage)) /\ at(stage).stage = stage
    BY <1>1 DEF IsRun, RunFields
<1>4. \A t : IsRun(toClear(t)) /\ toClear(t).stage = run[i].stage
    BY <1>1 DEF IsRun, RunFields
<1> HIDE DEF loading, clearing, at, toClear
<1>5. CASE Adopt(i)
    <2>1. Moved(i, clearing(Active)) /\ Forgot /\ UNCHANGED <<world, shape>>
        BY <1>5 DEF Adopt, Moved, clearing, Forgot, Forget
    <2>. QED  BY <1>2, <2>1, SettlingKeeps, Zenon
<1>6. CASE Mint(i)
    <2>1. UNCHANGED <<world, shape>>
        BY <1>6 DEF Mint
    <2>2. CASE left
        <3>1. Moved(i, Idle) /\ progress' = progress
            BY <1>6, <2>2 DEF Mint, Moved
        <3>. QED  BY <1>2, <2>1, <3>1, SettlingKeeps, Zenon
    <2>3. CASE ~left
        <3>1. Moved(i, clearing(Active)) /\ Forgot
            BY <1>6, <2>3 DEF Mint, Moved, clearing, Forgot, Forget
        <3>. QED  BY <1>2, <2>1, <3>1, SettlingKeeps, Zenon
    <2>. QED  BY <2>2, <2>3
<1>7. CASE Interrupt(i)
    <2>1. Moved(i, Idle) /\ UNCHANGED <<world, shape>> /\ run[i].stage = "asking" /\ Persist(i, run[i].known)
        BY <1>7, Zenon DEF Interrupt, Moved
    <2>2. DOMAIN run[i].known \subseteq DOMAIN run[i].known
        OBVIOUS
    <2>. QED  BY <1>2, <2>1, <2>2, PersistKeeps, Zenon
<1>8. CASE Abandon(i)
    <2>1. Moved(i, loading) /\ UNCHANGED <<world, shape, progress>>
        BY <1>8 DEF Abandon, Moved, loading, store
    <2>. QED  BY <1>2, <2>1, SettlingKeeps, Zenon
<1>9. CASE Exhaust(i)
    <2>1. UNCHANGED <<world, shape, progress>> /\ InFlight(i)
        BY <1>9 DEF Exhaust, store, InFlight
    <2>2. Moved(i, Idle) \/ Moved(i, at("settling")) \/ Moved(i, at("alerting"))
        BY <1>9 DEF Exhaust, Moved, at
    <2>. QED  BY <1>2, <1>3, <2>1, <2>2, SettlingKeeps
<1>10. CASE Deliver(i)
    <2>1. UNCHANGED <<world, shape, progress>> /\ run[i].stage \in {"alerting", "loading"}
        BY <1>10 DEF Deliver, store
    <2>2. CASE run[i].stage = "loading"
        <3>1. Moved(i, Idle)
            BY <1>1, <1>10, <2>2 DEF Deliver, Moved
        <3>. QED  BY <1>2, <2>1, <3>1, SettlingKeeps, Zenon
    <2>3. CASE run[i].stage = "alerting"
        <3>1. Moved(i, at("settling")) /\ InFlight(i)
            BY <1>1, <1>10, <2>3 DEF Deliver, Moved, at, InFlight
        <3>. QED  BY <1>3, <2>1, <3>1, SettlingKeeps
    <2>. QED  BY <2>1, <2>2, <2>3
<1>11. CASE Settle(i)
    <2>1. Moved(i, Idle) /\ Forgot /\ UNCHANGED <<world, shape>>
        BY <1>11 DEF Settle, Moved, Forgot, Forget
    <2>. QED  BY <1>2, <2>1, SettlingKeeps, Zenon
<1>12. CASE ClearMinted(i)
    <2>1. UNCHANGED <<world, shape>> /\ run[i].stage = "clearing"
        BY <1>12 DEF ClearMinted
    <2>2. CASE run[i].targets \cap Active = {}
        <3>1. Moved(i, Idle) /\ progress' = progress
            BY <1>12, <2>2 DEF ClearMinted, Moved
        <3>. QED  BY <1>2, <2>1, <3>1, SettlingKeeps, Zenon
    <2>3. CASE run[i].targets \cap Active # {}
        <3>1. PICK f \in run[i].targets \cap Active :
                  run' = [run EXCEPT ![i].targets = @ \ {f}] /\ ClearNow(Observed(f))
            BY <1>12, <2>3, Zenon DEF ClearMinted
        <3>2. Moved(i, toClear(run[i].targets \ {f}))
            BY <1>1, <3>1 DEF Moved, toClear
        <3>3. progress' = progress \/ Forgot
            BY <3>1 DEF ClearNow, Forgot, Forget
        <3>4. Quiet(toClear(run[i].targets \ {f}))
            BY <1>4, <2>1 DEF Quiet
        <3>. QED  BY <1>4, <2>1, <3>2, <3>3, <3>4, SettlingKeeps, Zenon
    <2>. QED  BY <2>2, <2>3
<1>. QED  BY <1>5, <1>6, <1>7, <1>8, <1>9, <1>10, <1>11, <1>12

LEMMA NextKeeps ==
    ASSUME IInv, [Next]_vars
    PROVE  IInv'
<1>1. CASE UNCHANGED vars
    BY <1>1, StillKeeps DEF vars, store
<1>2. ASSUME NEW i \in world.asking,
             \/ Adopt(i) \/ Begin(i) \/ Mint(i) \/ Interrupt(i) \/ Abandon(i)
             \/ \E o \in world.answers : Decide(i, o)
             \/ Exhaust(i) \/ Deliver(i) \/ Settle(i) \/ ClearMinted(i)
      PROVE  IInv'
    <2>1. i \in Instance
        BY DEF IInv, Shaped
    <2>. QED  BY <1>2, <2>1, BeginKeeps, DecideKeeps, InstanceKeeps, Zenon
<1>3. ASSUME NEW i \in world.asking, NEW f \in world.families, Shift(i, f)
      PROVE  IInv'
    <2>1. i \in Instance /\ run[i].stage = "idle" /\ UNCHANGED <<world, progress, run>>
        BY <1>3 DEF IInv, Shaped, Shift, store
    <2>2. \A j \in Instance : shape'[j] = IF j = i THEN f ELSE shape[j]
        BY <1>3 DEF IInv, Shaped, Shift
    <2>3. Shaped'
        BY <1>3, <2>1 DEF IInv, Shaped, Shift
    <2>4. OneFlight'
        BY <2>1, <2>2 DEF IInv, OneFlight, InFlight, Family
    <2>5. \A j \in Instance : Asks(j)'
        BY <2>1, <2>2 DEF IInv, Asks, Family
    <2>. QED  BY <2>3, <2>4, <2>5 DEF IInv
<1>4. CASE AppendExhausted \/ AppendNote \/ Emit \/ EmitFails \/ Check \/ Redact \/ Compact \/ LeaveWindow
    <2>1. UNCHANGED <<world, shape, run, progress>>
        BY <1>4 DEF AppendExhausted, AppendNote, Emit, EmitFails, Check, Redact, Compact, LeaveWindow, store
    <2>. QED  BY <2>1, StillKeeps
<1>5. ASSUME NEW f \in world.families, AskClear(f) \/ Sweep(f)
      PROVE  IInv'
    <2>1. UNCHANGED <<world, shape, run, progress>>
        BY <1>5 DEF AskClear, Sweep, store
    <2>. QED  BY <2>1, StillKeeps
<1>6. CASE ApplyClear
    <2>1. UNCHANGED <<world, shape, run>> /\ (progress' = progress \/ Forgot)
        BY <1>6 DEF ApplyClear, ClearNow, Forgot, Forget
    <2>. QED  BY <2>1, StillKeeps
<1>7. CASE Crash
    <2>1. UNCHANGED <<world, shape, progress>> /\ run' = [i \in Instance |-> [Idle EXCEPT !.stage = "loading"]]
        BY <1>7 DEF Crash, store
    <2>2. \A i \in Instance : Quiet(run'[i])
        BY <2>1, QuietForms
    <2>3. Shaped'
        BY <2>1, <2>2 DEF IInv, Shaped, Quiet
    <2>4. OneFlight' /\ \A i \in Instance : Asks(i)'
        BY <2>2 DEF OneFlight, InFlight, Asks, Quiet
    <2>. QED  BY <2>3, <2>4 DEF IInv
<1>. QED
    <2>1. CASE Next
        BY <1>2, <1>3, <1>4, <1>5, <1>6, <1>7, <2>1, Zenon DEF Next
    <2>. QED  BY <1>1, <2>1

LEMMA InitKeeps ==
    ASSUME Init
    PROVE  IInv
<1>1. \A i \in Instance : run[i] = Idle
    BY DEF Init
<1>2. Shaped
    <2>1. \A i \in Instance : IsRun(run[i])
        BY <1>1, QuietForms DEF Quiet
    <2>. QED  BY <2>1, WorldsTyped DEF Init, Shaped
<1>3. OneFlight /\ \A i \in Instance : Asks(i)
    BY <1>1 DEF OneFlight, InFlight, Asks, Idle
<1>. QED  BY <1>2, <1>3 DEF IInv

-----------------------------------------------------------------------------
\* However many instances, families and restarts, a ladder never asks a rung
\* whose answer its family's progress holds (compressChunkHierarchical).
THEOREM NoAnswerIsBoughtTwice == Spec => []PaidOnce
<1>1. Init => IInv
    BY InitKeeps
<1>2. IInv /\ [Next]_vars => IInv'
    BY NextKeeps
<1>3. IInv => PaidOnce
    BY DEF IInv, Asks, PaidOnce
<1>. QED  BY <1>1, <1>2, <1>3, PTL DEF Spec

\* A ladder that ends goes on to its alert only for a span that is there, no
\* record of its family, and progress nobody dropped.
LEMMA AlertsWhatIsOpen ==
    ASSUME IInv, [Next]_vars, NEW i \in Instance, run[i].stage \in {"asking", "ending"},
           run'[i].stage = "alerting"
    PROVE  ~left /\ Open(i)
<1>1. run = [j \in Instance |-> run[j]] /\ world.asking \subseteq Instance /\ \A j \in Instance : IsRun(run[j])
    BY DEF IInv, Shaped
<1>2. run'[i] # run[i]
    OBVIOUS
<1>3. ASSUME NEW j \in Instance, NEW r, Moved(j, r) PROVE j = i /\ r.stage = "alerting"
    BY <1>1, <1>2, <1>3 DEF Moved
<1>4. ASSUME NEW j \in world.asking,
             \/ Adopt(j) \/ Begin(j) \/ Mint(j) \/ Interrupt(j) \/ Abandon(j)
             \/ Deliver(j) \/ Settle(j) \/ ClearMinted(j)
             \/ \E f \in world.families : Shift(j, f)
      PROVE  FALSE
    <2>1. j \in Instance
        BY <1>1
    <2>2. CASE Adopt(j) \/ Mint(j) \/ Interrupt(j) \/ Abandon(j) \/ Settle(j)
        <3>1. \/ Moved(j, [Idle EXCEPT !.stage = "clearing", !.targets = Active])
              \/ Moved(j, Idle) \/ Moved(j, [Idle EXCEPT !.stage = "loading"])
            BY <2>2, Zenon DEF Adopt, Mint, Interrupt, Abandon, Settle, Moved
        <3>. QED  BY <1>3, <2>1, <3>1, QuietForms DEF Quiet
    <2>3. CASE Begin(j) \/ Deliver(j) \/ ClearMinted(j)
        <3>1. run[j].stage \in {"idle", "alerting", "loading", "clearing"}
            BY <2>3 DEF Begin, Deliver, ClearMinted
        <3>2. run'[i] = run[i]
            BY <1>1, <2>1, <2>3, <3>1 DEF Begin, Deliver, ClearMinted
        <3>. QED  BY <1>2, <3>2
    <2>4. CASE \E f \in world.families : Shift(j, f)
        BY <1>2, <2>4 DEF Shift
    <2>. QED  BY <1>4, <2>2, <2>3, <2>4, Zenon
<1>5. ASSUME NEW j \in world.asking, NEW o \in world.answers, Decide(j, o) PROVE FALSE
    <2> DEFINE a == run[j].ask
               k == Filled(run[j].known, [x \in {a} |-> o])
               seen == run[j].seen \/ Open(j)
               ended == [run[j] EXCEPT !.stage = "ending", !.known = k, !.seen = seen, !.ask = None]
               wraps == run[j].wrapped \/ (o = "empty" /\ a = "expand")
               asked == [run[j] EXCEPT !.seen = seen]
               next == Step(asked, k, wraps)
    <2>1. j \in Instance /\ IsRun(run[j])
        BY <1>1
    <2>2. Moved(j, ended) \/ Moved(j, next)
        BY <1>5, Zenon DEF Decide, Moved
    <2> HIDE DEF k, seen
    <2>3. ended.stage = "ending" /\ IsRun(asked)
        BY <2>1 DEF IsRun, RunFields
    <2> HIDE DEF asked, wraps
    <2>4. next.stage \in {"ending", "asking"}
        BY <2>3, StepAsksUnknown
    <2> HIDE DEF ended, next
    <2>. QED  BY <1>3, <2>1, <2>2, <2>3, <2>4
<1>6. ASSUME NEW j \in world.asking, Exhaust(j) PROVE ~left /\ Open(i)
    <2>1. j \in Instance /\ IsRun(run[j])
        BY <1>1
    <2>2. \/ Moved(j, Idle) \/ Moved(j, [run[j] EXCEPT !.stage = "settling"])
          \/ Moved(j, [run[j] EXCEPT !.stage = "alerting"]) /\ ~left /\ Open(j)
        BY <1>6 DEF Exhaust, Moved
    <2>3. ~Moved(j, Idle) /\ ~Moved(j, [run[j] EXCEPT !.stage = "settling"])
        <3>1. Idle.stage # "alerting" /\ [run[j] EXCEPT !.stage = "settling"].stage # "alerting"
            BY <2>1 DEF IsRun, RunFields, Idle
        <3>. QED  BY <1>3, <2>1, <3>1, Zenon
    <2>. QED  BY <1>3, <2>1, <2>2, <2>3
<1>7. CASE AppendExhausted \/ AppendNote \/ Emit \/ EmitFails \/ Check \/ Redact \/ Compact \/ ApplyClear \/ LeaveWindow
    BY <1>2, <1>7 DEF AppendExhausted, AppendNote, Emit, EmitFails, Check, Redact, Compact, ApplyClear, LeaveWindow
<1>8. ASSUME NEW f \in world.families, AskClear(f) \/ Sweep(f) PROVE FALSE
    BY <1>2, <1>8 DEF AskClear, Sweep
<1>9. CASE Crash
    BY <1>9, QuietForms DEF Crash, Quiet
<1>10. CASE UNCHANGED vars
    BY <1>2, <1>10 DEF vars
<1>11. CASE Next
    BY <1>4, <1>5, <1>6, <1>7, <1>8, <1>9, <1>11, Zenon DEF Next
<1>. QED  BY <1>10, <1>11

\* A family's progress, dropped by a mint, a clear or the sweep under a ladder
\* that saw it, is not written again by that ladder nor by any other, and no
\* ladder quarantines a family so dropped, or a span that left
\* (recordCompressionFamilyProgress, exhaustCompressionRequestFamily).
LEMMA StepBringsNothingBack ==
    ASSUME IInv, [Next]_vars
    PROVE  BringsNothingBack
<1> SUFFICES ASSUME NEW i \in Instance, run[i].stage \in {"asking", "ending"}
             PROVE  LET dropped == run[i].seen /\ progress[Family(i)] = None
                    IN  /\ dropped => progress'[Family(i)] = None
                        /\ dropped \/ left => run'[i].stage # "alerting"
    BY DEF BringsNothingBack
<1> DEFINE dropped == run[i].seen /\ progress[Family(i)] = None
<1>1. Family(i) \in world.families /\ InFlight(i) /\ IsRun(run[i]) /\ world.asking \subseteq Instance
    BY DEF IInv, Shaped, Family, InFlight
<1>2. ASSUME dropped PROVE progress'[Family(i)] = None
    <2>1. CASE progress' = progress \/ Forgot
        BY <1>1, <1>2, <2>1 DEF Forgot
    <2>2. ASSUME NEW j \in Instance, NEW k, Persist(j, k), run[j].stage = "asking" PROVE progress'[Family(i)] = None
        <3>1. CASE j = i
            BY <1>2, <2>2, <3>1 DEF Persist, Open
        <3>2. CASE j # i
            <4>1. Family(j) # Family(i)
                BY <1>1, <2>2, <3>2 DEF IInv, OneFlight, InFlight
            <4>. QED  BY <1>2, <2>2, <4>1 DEF Persist, IInv, Shaped
        <3>. QED  BY <3>1, <3>2
    <2>3. \/ progress' = progress \/ Forgot
          \/ \E j \in Instance : run[j].stage = "asking" /\ \E k : Persist(j, k)
        <3>1. ASSUME NEW j \in world.asking, Adopt(j) \/ Mint(j) \/ Settle(j) \/ ClearMinted(j)
              PROVE  progress' = progress \/ Forgot
            BY <3>1 DEF Adopt, Mint, Settle, ClearMinted, ClearNow, Forget, Forgot
        <3>2. ASSUME NEW j \in world.asking, Begin(j) \/ Abandon(j) \/ Exhaust(j) \/ Deliver(j)
              PROVE  progress' = progress
            BY <3>2 DEF Begin, Abandon, Exhaust, Deliver, store
        <3>3. ASSUME NEW j \in world.asking, Interrupt(j) \/ \E o \in world.answers : Decide(j, o)
              PROVE  \E k : Persist(j, k) /\ run[j].stage = "asking"
            BY <3>3, Zenon DEF Interrupt, Decide
        <3>4. ASSUME NEW j \in world.asking, NEW f \in world.families, Shift(j, f)
              PROVE  progress' = progress
            BY <3>4 DEF Shift, store
        <3>5. CASE AppendExhausted \/ AppendNote \/ Emit \/ EmitFails \/ Check \/ Redact \/ Compact \/ LeaveWindow \/ Crash
            BY <3>5 DEF AppendExhausted, AppendNote, Emit, EmitFails, Check, Redact, Compact, LeaveWindow, Crash, store
        <3>6. ASSUME NEW f \in world.families, AskClear(f) \/ Sweep(f)
              PROVE  progress' = progress
            BY <3>6 DEF AskClear, Sweep, store
        <3>7. CASE ApplyClear
            BY <3>7 DEF ApplyClear, ClearNow, Forget, Forgot
        <3>8. CASE UNCHANGED vars
            BY <3>8 DEF vars, store
        <3>9. CASE Next
            BY <1>1, <3>1, <3>2, <3>3, <3>4, <3>5, <3>6, <3>7, <3>9, Zenon DEF Next
        <3>. QED  BY <3>8, <3>9
    <2>. QED  BY <2>1, <2>2, <2>3
<1>3. ASSUME dropped \/ left PROVE run'[i].stage # "alerting"
    BY <1>3, AlertsWhatIsOpen DEF Open
<1>. QED  BY <1>2, <1>3

\* What the ledger's step takes away stays away.
THEOREM NothingComesBack == Spec => NothingBack
<1>1. Init => IInv
    BY InitKeeps
<1>2. IInv /\ [Next]_vars => IInv'
    BY NextKeeps
<1>3. IInv /\ [Next]_vars => BringsNothingBack
    BY StepBringsNothingBack
<1>. QED  BY <1>1, <1>2, <1>3, PTL DEF Spec, NothingBack

-----------------------------------------------------------------------------
\* The rungs of a replay: what each event makes of what those before it say.
ReplayOf(F, b, l) == F = [n \in 0..Len(l) |-> IF n = 0 THEN b ELSE Replay(F[n - 1], l[n])]

\* A replay of a ledger is made step by step.
LEMMA ReplaySteps ==
    ASSUME NEW X, NEW b, NEW l \in Seq(X)
    PROVE  \E F : ReplayOf(F, b, l) /\ Replayed(b, l) = F[Len(l)]
<1> DEFINE upTo[n \in 0..Len(l)] == IF n = 0 THEN b ELSE Replay(upTo[n - 1], l[n])
           Made(F, m) == DOMAIN F = 0..m /\ F[0] = b /\ \A n \in 1..m : F[n] = Replay(F[n - 1], l[n])
           bad == {m \in 0..Len(l) : ~\E F : Made(F, m)}
<1>1. Len(l) \in Nat
    OBVIOUS
<1>2. bad = {}
    <2> SUFFICES ASSUME bad # {} PROVE FALSE
        OBVIOUS
    <2>1. PICK m \in bad : \A y \in bad : m <= y
        <3>1. bad \subseteq Nat
            BY <1>1
        <3>. QED  BY <3>1, LeastPlace
    <2>2. m # 0
        <3>1. Made([n \in 0..0 |-> b], 0)
            OBVIOUS
        <3>. QED  BY <3>1
    <2>3. m - 1 \in 0..Len(l) /\ m - 1 \notin bad
        BY <1>1, <2>1, <2>2
    <2>4. PICK F : Made(F, m - 1)
        BY <2>3
    <2>5. Made([n \in 0..m |-> IF n = m THEN Replay(F[m - 1], l[m]) ELSE F[n]], m)
        <3> DEFINE G == [n \in 0..m |-> IF n = m THEN Replay(F[m - 1], l[m]) ELSE F[n]]
        <3>1. m \in Nat \ {0}
            BY <1>1, <2>1, <2>2
        <3>2. DOMAIN G = 0..m /\ G[0] = b
            BY <2>4, <3>1
        <3>3. ASSUME NEW n \in 1..m PROVE G[n] = Replay(G[n - 1], l[n])
            <4>1. n \in 0..m /\ n - 1 \in 0..m /\ n - 1 # m
                BY <3>1
            <4>2. G[n - 1] = F[n - 1] /\ G[n] = IF n = m THEN Replay(F[m - 1], l[m]) ELSE F[n]
                BY <4>1
            <4>3. n # m => n \in 1..(m - 1)
                BY <3>1
            <4>. QED  BY <2>4, <4>2, <4>3
        <3>. QED  BY <3>2, <3>3
    <2>. QED  BY <2>1, <2>5
<1>3. PICK F : Made(F, Len(l))
    BY <1>1, <1>2
<1>4. \E G : ReplayOf(G, b, l)
    <2>1. ReplayOf([n \in 0..Len(l) |-> F[n]], b, l)
        BY <1>1, <1>3 DEF ReplayOf
    <2>. QED  BY <2>1
<1>5. ReplayOf(upTo, b, l)
    BY <1>4, Zenon DEF ReplayOf
<1>6. Replayed(b, l) = upTo[Len(l)]
    BY Zenon DEF Replayed
<1>. QED  BY <1>5, <1>6

\* Two replays of one beginning agree on it.
LEMMA ReplaysAgree ==
    ASSUME NEW X, NEW b, NEW l \in Seq(X), NEW k \in Seq(X), NEW m \in Nat, m <= Len(l), m <= Len(k),
           \A n \in 1..m : l[n] = k[n],
           NEW F, ReplayOf(F, b, l), NEW G, ReplayOf(G, b, k)
    PROVE  F[m] = G[m]
<1> DEFINE bad == {n \in 0..m : F[n] # G[n]}
<1>1. Len(l) \in Nat /\ Len(k) \in Nat
    OBVIOUS
<1>2. bad = {}
    <2> SUFFICES ASSUME bad # {} PROVE FALSE
        OBVIOUS
    <2>1. PICK n \in bad : \A y \in bad : n <= y
        <3>1. bad \subseteq Nat
            OBVIOUS
        <3>. QED  BY <3>1, LeastPlace
    <2>2. F[0] = b /\ G[0] = b
        BY <1>1 DEF ReplayOf
    <2>3. n - 1 \in 0..m /\ n - 1 \notin bad
        BY <2>1, <2>2
    <2>4. F[n] = Replay(F[n - 1], l[n]) /\ G[n] = Replay(G[n - 1], k[n])
        <3>1. n \in 0..Len(l) /\ n \in 0..Len(k) /\ n # 0
            BY <1>1, <2>1, <2>2
        <3>2. F[n] = Replay(F[n - 1], l[n])
            BY <3>1, Zenon DEF ReplayOf
        <3>3. G[n] = Replay(G[n - 1], k[n])
            BY <3>1, Zenon DEF ReplayOf
        <3>. QED  BY <3>2, <3>3
    <2>. QED  BY <2>1, <2>2, <2>3, <2>4
<1>. QED  BY <1>2

\* An event appended is replayed last.
LEMMA AppendReplayed ==
    ASSUME NEW X, NEW b, NEW l \in Seq(X), NEW e \in X
    PROVE  Replayed(b, Append(l, e)) = Replay(Replayed(b, l), e)
<1> DEFINE k == Append(l, e)
<1>1. k \in Seq(X) /\ Len(k) = Len(l) + 1 /\ Len(l) \in Nat /\ k[Len(k)] = e /\ \A n \in 1..Len(l) : k[n] = l[n]
    OBVIOUS
<1>2. PICK F : ReplayOf(F, b, l) /\ Replayed(b, l) = F[Len(l)]
    BY ReplaySteps
<1> HIDE DEF k
<1>3. PICK G : ReplayOf(G, b, k) /\ Replayed(b, k) = G[Len(k)]
    BY <1>1, ReplaySteps
<1>4. F[Len(l)] = G[Len(l)]
    <2>1. Len(l) <= Len(l) /\ Len(l) <= Len(k)
        BY <1>1
    <2> DEFINE m == Len(l)
    <2>2. m \in Nat /\ m <= Len(l) /\ m <= Len(k) /\ \A n \in 1..m : l[n] = k[n]
        BY <1>1, <2>1
    <2> HIDE DEF m
    <2>3. F[m] = G[m]
        <3>1. l \in Seq(X) /\ k \in Seq(X) /\ ReplayOf(F, b, l) /\ ReplayOf(G, b, k)
            BY <1>1, <1>2, <1>3
        <3>. QED  BY <2>2, <3>1, ReplaysAgree, SMTT(30)
    <2>. QED  BY <2>3 DEF m
<1>5. G[Len(k)] = Replay(G[Len(k) - 1], k[Len(k)])
    <2>1. Len(k) \in 0..Len(k) /\ Len(k) # 0
        BY <1>1
    <2>. QED  BY <1>3, <2>1, Zenon DEF ReplayOf
<1>. QED  BY <1>1, <1>2, <1>3, <1>4, <1>5 DEF k

\* A ledger that ends in a checkpoint says what the checkpoint says.
Checks(e) == e # None /\ e.kind = "checkpoint"
LEMMA CheckpointReplayed ==
    ASSUME NEW X, NEW b, NEW l \in Seq(X), Len(l) > 0, Checks(l[Len(l)])
    PROVE  Replayed(b, l) = l[Len(l)].list
<1>1. PICK F : ReplayOf(F, b, l) /\ Replayed(b, l) = F[Len(l)]
    BY ReplaySteps
<1>2. F[Len(l)] = Replay(F[Len(l) - 1], l[Len(l)])
    <2>1. Len(l) \in 0..Len(l) /\ Len(l) # 0
        OBVIOUS
    <2>. QED  BY <1>1, <2>1, Zenon DEF ReplayOf
<1>. QED  BY <1>1, <1>2 DEF Replay, Checks

-----------------------------------------------------------------------------
\* The families of the ladders under way.
Flying == {Family(i) : i \in {j \in world.asking : InFlight(j)}}
Unsent(p, f) == p[f].gen # 0 /\ ~p[f].sent
Logged == Events(world) \cup {None}

\* Every event is one the ledger writes, and what they say is a record a family.
Typed ==
    /\ world \in Worlds
    /\ ledger \in Seq(Logged) /\ seq \in Nat /\ crashes \in Nat /\ alerts \in Seq(Nat)
    /\ Projection \in [world.families -> Record]
    /\ clear = None \/ clear \in [f : world.families, gen : Nat]

\* A telling owes each family's alert and then the word that it was sent, and
\* names no family twice; whoever is next is not sent yet.
LastChecks == Len(ledger) > 0 /\ Checks(ledger[Len(ledger)])
OwesTelling ==
    /\ todo \in Seq([op : {"emit", "sent", "check"}, f : world.families \cup {None}])
    /\ \A n \in DOMAIN todo :
         /\ todo[n].op = "emit" =>
              n + 1 \in DOMAIN todo /\ todo[n + 1] = Owe("sent", todo[n].f) /\ todo[n].f \in world.families /\ Unsent(Projection, todo[n].f)
         /\ todo[n].op = "sent" => n = 1 \/ todo[n - 1] = Owe("emit", todo[n].f)
         /\ todo[n].op = "check" <=> n = Len(todo)
    /\ \A m, n \in DOMAIN todo : todo[m] = todo[n] => m = n
    /\ Doing("sent") => Head(todo).f \in world.families /\ Unsent(Projection, Head(todo).f)
\* What the holder of the lock still owes is the rest of one of the code's
\* sequences; a redaction or a compaction comes after its checkpoint.
Owes ==
    \/ todo = <<>>
    \/ \E f \in Flying \ Active : todo = <<Owe("exhausted", f), Owe("pending", f), Owe("check", f)>>
    \/ \E f \in world.families : todo = <<Owe("pending", f), Owe("check", f)>> /\ Unsent(Projection, f)
    \/ \E f \in world.families : todo = <<Owe("clear", f), Owe("check", None)>>
    \/ \E f : todo = <<Owe("check", f)>>
    \/ todo = <<Owe("redact", None), Owe("compact", None)>> /\ LastChecks
    \/ todo = <<Owe("compact", None)>> /\ LastChecks /\ \A n \in 1..(Len(ledger) - 1) : ledger[n] = None
    \/ (Doing("emit") \/ Doing("sent")) /\ OwesTelling

\* A generation is the number of an event past, is one unsent family's, and was
\* alerted of no oftener than once and once more a crash; an unsent one not
\* even that once more, unless its alert just went out.
At(as, g) == {n \in 1..Len(as) : as[n] = g}
Times(as, g) == Cardinality(At(as, g))
AlertsPast == \A n \in 1..Len(alerts) : alerts[n] \in 1..seq
UnsentPast == \A f \in world.families : Projection[f].gen <= seq \/ Projection[f].sent
OneUnsent ==
    \A f, g \in world.families : Unsent(Projection, f) /\ Unsent(Projection, g) /\ Projection[f].gen = Projection[g].gen => f = g
OncePerRun == \A g \in Nat : Times(alerts, g) <= 1 + crashes
UnsentLess == \A f \in world.families :
    Unsent(Projection, f) => Times(alerts, Projection[f].gen) <= crashes \/ (Doing("sent") /\ Head(todo).f = f)
Unforgotten == crashes = 0 => \A f \in Active :
    Projection[f].pending \/ Projection[f].sent \/ (Doing("pending") /\ Head(todo).f = f)
Tells == AlertsPast /\ UnsentPast /\ OneUnsent /\ OncePerRun /\ UnsentLess /\ Unforgotten
\* The records there are and the ladders under way.
Bound == Cardinality(Active \cup Flying) < world.cap + Cardinality(world.asking)

-----------------------------------------------------------------------------
\* What the ledger says changes only with its events.
LEMMA ProjectionStays ==
    ASSUME UNCHANGED <<world, ledger>>
    PROVE  Projection' = Projection /\ Active' = Active /\ (\A f : Unsent(Projection', f) = Unsent(Projection, f))
<1>1. Legacy' = Legacy
    BY DEF Legacy, NoFamily
<1>2. Projection' = Projection
    BY <1>1, Zenon DEF Projection
<1>. QED  BY <1>2 DEF Active, Unsent

LEMMA AppendedSays ==
    ASSUME Typed, UNCHANGED world, NEW e \in Events(world), Appended(e)
    PROVE  /\ Projection' = Replay(Projection, e)
           /\ ledger' \in Seq(Logged) /\ Len(ledger') = Len(ledger) + 1 /\ ledger'[Len(ledger')] = e
           /\ seq' = seq + 1 /\ e # None
<1>1. Legacy' = Legacy
    BY DEF Legacy, NoFamily
<1>2. ledger' = Append(ledger, e) /\ seq' = seq + 1 /\ e \in Logged /\ ledger \in Seq(Logged)
    BY DEF Appended, Typed, Logged
<1>3. Projection' = Replayed(Legacy, Append(ledger, e))
    BY <1>1, <1>2 DEF Projection
<1>4. Projection' = Replay(Projection, e)
    <2>1. \A b : Replayed(b, Append(ledger, e)) = Replay(Replayed(b, ledger), e)
        BY <1>2, AppendReplayed
    <2>. QED  BY <1>3, <2>1 DEF Projection
<1>5. e # None
    BY NoneIsNoEvent DEF Typed
<1>6. ledger' \in Seq(Logged) /\ Len(ledger') = Len(ledger) + 1 /\ ledger'[Len(ledger')] = e
    BY <1>2
<1>. QED  BY <1>2, <1>4, <1>5, <1>6

\* A checkpoint, and what is redacted and compacted of the events before it,
\* leaves what it says.
LEMMA CheckedSays ==
    ASSUME Typed, UNCHANGED world, ledger' \in Seq(Logged), LastChecks, LastChecks',
           ledger'[Len(ledger')] = ledger[Len(ledger)]
    PROVE  Projection' = Projection
<1>1. Projection = ledger[Len(ledger)].list
    <2>1. ledger \in Seq(Logged) /\ Len(ledger) > 0 /\ Checks(ledger[Len(ledger)])
        BY DEF Typed, LastChecks
    <2>. QED  BY <2>1, CheckpointReplayed, Zenon DEF Projection
<1>2. Projection' = ledger'[Len(ledger')].list
    <2>1. Len(ledger') > 0 /\ Checks(ledger'[Len(ledger')])
        BY DEF LastChecks, Checks
    <2>. QED  BY <2>1, CheckpointReplayed, Zenon DEF Projection
<1>. QED  BY <1>1, <1>2

-----------------------------------------------------------------------------
\* The ledger's next say of each family.
New(n) == [gen |-> n, pending |-> FALSE, sent |-> FALSE]
Noted(op, r) ==
    CASE op = "clear" -> NoFamily
      [] op = "pending" -> [gen |-> r.gen, pending |-> TRUE, sent |-> r.sent]
      [] op = "sent" -> [gen |-> r.gen, pending |-> FALSE, sent |-> TRUE]
Says(f, r) ==
    /\ Projection' \in [world.families -> Record]
    /\ Projection'[f] = r
    /\ \A g \in world.families \ {f} : Projection'[g] = Projection[g]

LEMMA RecordSame ==
    ASSUME NEW a \in Record, NEW b \in Record, a.gen = b.gen, a.pending = b.pending, a.sent = b.sent
    PROVE  a = b
BY DEF Record

LEMMA RecordNoted ==
    ASSUME NEW r \in Record
    PROVE  /\ Noted("pending", r) = [r EXCEPT !.pending = TRUE] /\ Noted("pending", r) \in Record
           /\ Noted("sent", r) = [gen |-> r.gen, pending |-> FALSE, sent |-> TRUE] /\ Noted("sent", r) \in Record
<1>1. /\ DOMAIN r = {"gen", "pending", "sent"} /\ r.gen \in Nat /\ r.pending \in BOOLEAN /\ r.sent \in BOOLEAN
    BY DEF Record
<1>2. Noted("pending", r) = [gen |-> r.gen, pending |-> TRUE, sent |-> r.sent]
    BY DEF Noted
<1>3. Noted("sent", r) = [gen |-> r.gen, pending |-> FALSE, sent |-> TRUE]
    BY DEF Noted
<1>4. Noted("pending", r) = [r EXCEPT !.pending = TRUE]
    BY <1>1, <1>2
<1>5. \A n \in Nat, p, s \in BOOLEAN : [gen |-> n, pending |-> p, sent |-> s] \in Record
    BY DEF Record
<1>6. Noted("pending", r) \in Record /\ Noted("sent", r) \in Record
    BY <1>1, <1>2, <1>3, <1>5, Zenon
<1>. QED  BY <1>3, <1>4, <1>6

LEMMA ExhaustedSays ==
    ASSUME Typed, UNCHANGED world, NEW f \in world.families,
           Appended([kind |-> "exhausted", f |-> f, id |-> seq + 1])
    PROVE  Says(f, New(seq + 1)) /\ ledger' \in Seq(Logged) /\ seq' = seq + 1
<1> DEFINE e == [kind |-> "exhausted", f |-> f, id |-> seq + 1]
<1>1. e \in Events(world) /\ e.kind = "exhausted" /\ e.f = f /\ e.id = seq + 1
    BY DEF Events, Typed
<1> HIDE DEF e
<1>2. Projection' = Replay(Projection, e) /\ ledger' \in Seq(Logged) /\ seq' = seq + 1 /\ e # None
    BY <1>1, AppendedSays DEF e
<1>3. Replay(Projection, e) = [Projection EXCEPT ![f] = [NoFamily EXCEPT !.gen = seq + 1]]
    BY <1>1, <1>2, Zenon DEF Replay
<1>4. [NoFamily EXCEPT !.gen = seq + 1] = New(seq + 1) /\ New(seq + 1) \in Record
    <2>1. seq + 1 \in Nat
        BY DEF Typed
    <2> DEFINE a == [NoFamily EXCEPT !.gen = seq + 1]
    <2>2. a \in Record /\ a.gen = seq + 1 /\ a.pending = FALSE /\ a.sent = FALSE
        BY <2>1 DEF NoFamily, Record
    <2>3. New(seq + 1) \in Record /\ New(seq + 1).gen = seq + 1 /\ New(seq + 1).pending = FALSE /\ New(seq + 1).sent = FALSE
        BY <2>1 DEF New, Record
    <2> HIDE DEF a
    <2>4. a = New(seq + 1)
        BY <2>2, <2>3, RecordSame
    <2>. QED  BY <2>3, <2>4 DEF a
<1>. QED  BY <1>2, <1>3, <1>4 DEF Typed, Says

LEMMA NotedSays ==
    ASSUME Typed, UNCHANGED world, NEW f \in world.families, NEW op \in {"pending", "sent", "clear"},
           Appended([kind |-> op, f |-> f, gen |-> Projection[f].gen])
    PROVE  Says(f, Noted(op, Projection[f])) /\ ledger' \in Seq(Logged) /\ seq' = seq + 1
<1> DEFINE r == Projection[f]
           e == [kind |-> op, f |-> f, gen |-> r.gen]
<1>1. r \in Record /\ Projection \in [world.families -> Record]
    BY DEF Typed
<1>2. e \in Events(world) /\ e.kind = op /\ e.f = f /\ e.gen = r.gen
    BY <1>1 DEF Events, Record
<1> HIDE DEF e
<1>3. Projection' = Replay(Projection, e) /\ ledger' \in Seq(Logged) /\ seq' = seq + 1 /\ e # None
    BY <1>2, AppendedSays DEF e
<1>4. CASE op = "clear"
    <2>1. Replay(Projection, e) = [Projection EXCEPT ![f] = NoFamily]
        BY <1>2, <1>3, <1>4 DEF Replay
    <2>2. NoFamily \in Record /\ Noted(op, r) = NoFamily
        BY <1>4 DEF NoFamily, Record, Noted
    <2>. QED  BY <1>1, <1>3, <2>1, <2>2 DEF Says
<1>5. CASE op = "pending"
    <2>1. Replay(Projection, e) = [Projection EXCEPT ![f].pending = TRUE]
        BY <1>2, <1>3, <1>5, Zenon DEF Replay
    <2>2. Noted(op, r) = [r EXCEPT !.pending = TRUE] /\ Noted(op, r) \in Record
        BY <1>1, <1>5, RecordNoted
    <2>3. Replay(Projection, e) = [Projection EXCEPT ![f] = Noted(op, r)]
        BY <2>1, <2>2
    <2>. QED  BY <1>1, <1>3, <2>2, <2>3 DEF Says
<1>6. CASE op = "sent"
    <2>1. Replay(Projection, e) = [Projection EXCEPT ![f] = [gen |-> r.gen, pending |-> FALSE, sent |-> TRUE]]
        BY <1>2, <1>3, <1>6, Zenon DEF Replay
    <2>2. Noted(op, r) = [gen |-> r.gen, pending |-> FALSE, sent |-> TRUE] /\ Noted(op, r) \in Record
        BY <1>1, <1>6, RecordNoted
    <2>3. Replay(Projection, e) = [Projection EXCEPT ![f] = Noted(op, r)]
        BY <1>1, <2>1, <2>2
    <2>. QED  BY <1>1, <1>3, <2>2, <2>3 DEF Says
<1>. QED  BY <1>4, <1>5, <1>6

\* A checkpoint says of each family what the ledger said, or nothing.
LEMMA KeptSays ==
    ASSUME Typed, UNCHANGED world, Appended([kind |-> "checkpoint", list |-> Kept])
    PROVE  /\ Projection' = Kept /\ Kept \in [world.families -> Record]
           /\ \A f \in world.families : Kept[f] \in {Projection[f], NoFamily}
           /\ ledger' \in Seq(Logged) /\ seq' = seq + 1 /\ LastChecks'
<1> DEFINE e == [kind |-> "checkpoint", list |-> Kept]
<1>1. /\ Kept \in [world.families -> Record]
      /\ \A f \in world.families : Kept[f] \in {Projection[f], NoFamily}
    BY DEF Kept, Typed, NoFamily, Record
<1>2. e \in Events(world) /\ e.kind = "checkpoint" /\ e.list = Kept
    BY <1>1 DEF Events
<1> HIDE DEF e
<1>3. /\ Projection' = Replay(Projection, e) /\ ledger' \in Seq(Logged) /\ seq' = seq + 1 /\ e # None
      /\ Len(ledger') = Len(ledger) + 1 /\ ledger'[Len(ledger')] = e
    BY <1>2, AppendedSays DEF e
<1>4. Projection' = Kept
    BY <1>2, <1>3 DEF Replay
<1>5. LastChecks'
    BY <1>2, <1>3 DEF LastChecks, Checks, Typed
<1>. QED  BY <1>1, <1>3, <1>4, <1>5

-----------------------------------------------------------------------------
\* A step that emits nothing, whose records keep their generation and what is
\* told of them, or go, tells no more.
LEMMA StillTells ==
    ASSUME Typed, Tells, UNCHANGED <<world, alerts, crashes>>, seq' \in {seq, seq + 1},
           Projection' \in [world.families -> Record],
           \A f \in world.families :
             \/ Projection'[f].gen = 0
             \/ /\ Projection'[f].gen = Projection[f].gen
                /\ Projection[f].sent => Projection'[f].sent
                /\ Projection[f].pending => Projection'[f].pending \/ Projection'[f].sent,
           \A f \in world.families : Doing("sent") /\ Head(todo).f = f /\ Unsent(Projection', f) =>
             Doing("sent")' /\ Head(todo').f = f,
           \A f \in world.families : Doing("pending") /\ Head(todo).f = f =>
             \/ Projection'[f].gen = 0 \/ Projection'[f].pending \/ Projection'[f].sent
             \/ Doing("pending")' /\ Head(todo').f = f
    PROVE  Tells'
<1>1. seq \in Nat /\ \A f \in world.families : Projection[f] \in Record /\ Projection'[f] \in Record
    BY DEF Typed
<1>2. \A f \in world.families : Projection[f].gen \in Nat /\ Projection'[f].gen \in Nat
    BY <1>1 DEF Record
<1>3. \A g : Times(alerts', g) = Times(alerts, g)
    BY DEF Times, At
<1>4. \A f \in world.families : Unsent(Projection', f) => Unsent(Projection, f) /\ Projection'[f].gen = Projection[f].gen
    BY DEF Unsent
<1>5. AlertsPast'
    BY <1>1 DEF Tells, AlertsPast
<1>6. UnsentPast'
    BY <1>1, <1>2 DEF Tells, UnsentPast
<1>7. OneUnsent'
    BY <1>4 DEF Tells, OneUnsent
<1>8. OncePerRun'
    BY <1>3 DEF Tells, OncePerRun
<1>9. ASSUME NEW f \in world.families, Unsent(Projection', f)
      PROVE  Times(alerts', Projection'[f].gen) <= crashes \/ (Doing("sent")' /\ Head(todo').f = f)
    BY <1>3, <1>4, <1>9 DEF Tells, UnsentLess
<1>10. ASSUME crashes = 0, NEW f \in world.families, Projection'[f].gen # 0
      PROVE  Projection'[f].pending \/ Projection'[f].sent \/ (Doing("pending")' /\ Head(todo').f = f)
    <2>1. f \in Active
        BY <1>10 DEF Active
    <2>. QED  BY <1>10, <2>1 DEF Tells, Unforgotten
<1>11. UnsentLess'
    BY <1>9 DEF UnsentLess
<1>12. Unforgotten'
    BY <1>10 DEF Unforgotten, Active
<1>. QED  BY <1>5, <1>6, <1>7, <1>8, <1>11, <1>12 DEF Tells

\* A new record is told of not once so far.
LEMMA NewTells ==
    ASSUME Typed, Tells, UNCHANGED <<world, alerts, crashes>>, seq' = seq + 1,
           NEW f \in world.families, Says(f, New(seq + 1)),
           ~Doing("sent"), ~Doing("pending"), Doing("pending")', Head(todo').f = f
    PROVE  Tells'
<1>1. seq \in Nat /\ crashes \in Nat /\ alerts \in Seq(Nat) /\ \A g \in world.families : Projection[g] \in Record
    BY DEF Typed
<1>2. \A g \in world.families : Projection[g].gen \in Nat
    BY <1>1 DEF Record
<1>3. \A g : Times(alerts', g) = Times(alerts, g)
    BY DEF Times, At
<1>4. Projection'[f].gen = seq + 1 /\ ~Projection'[f].sent
    BY DEF Says, New
<1>5. \A g \in world.families \ {f} : Projection'[g] = Projection[g] /\ (Unsent(Projection', g) => Unsent(Projection, g) /\ Projection'[g].gen <= seq)
    BY DEF Unsent, Says, Tells, UnsentPast
<1>6. Times(alerts, seq + 1) = 0
    <2>1. At(alerts, seq + 1) = {}
        BY <1>1 DEF At, Tells, AlertsPast
    <2>. QED  BY <2>1, FS_EmptySet DEF Times
<1>7. AlertsPast'
    BY <1>1 DEF Tells, AlertsPast
<1>8. UnsentPast'
    BY <1>1, <1>2, <1>4, <1>5 DEF Tells, UnsentPast
<1>9. OneUnsent'
    <2>1. \A g \in world.families \ {f} : Unsent(Projection', g) => Projection'[g].gen # Projection'[f].gen
        BY <1>1, <1>2, <1>4, <1>5
    <2>. QED  BY <1>5, <2>1 DEF Tells, OneUnsent
<1>10. OncePerRun'
    BY <1>3 DEF Tells, OncePerRun
<1>11. ASSUME NEW g \in world.families, Unsent(Projection', g)
       PROVE  Times(alerts', Projection'[g].gen) <= crashes
    <2>1. CASE g = f
        BY <1>1, <1>3, <1>4, <1>6, <2>1
    <2>2. CASE g # f
        BY <1>3, <1>5, <1>11, <2>2 DEF Tells, UnsentLess
    <2>. QED  BY <2>1, <2>2
<1>12. ASSUME crashes = 0, NEW g \in world.families, Projection'[g].gen # 0
      PROVE  Projection'[g].pending \/ Projection'[g].sent \/ (Doing("pending")' /\ Head(todo').f = g)
    <2>1. CASE g = f
        BY <2>1
    <2>2. CASE g # f
        <3>1. g \in Active
            BY <1>5, <1>12, <2>2 DEF Active
        <3>. QED  BY <1>5, <1>12, <2>2, <3>1 DEF Tells, Unforgotten
    <2>. QED  BY <2>1, <2>2
<1>13. UnsentLess'
    BY <1>11 DEF UnsentLess
<1>14. Unforgotten'
    BY <1>12 DEF Unforgotten, Active
<1>. QED  BY <1>7, <1>8, <1>9, <1>10, <1>13, <1>14 DEF Tells

\* An alert emitted is its generation's next.
LEMMA EmittedTells ==
    ASSUME Typed, Tells, UNCHANGED <<world, ledger, seq, crashes>>,
           NEW f \in world.families, Unsent(Projection, f), alerts' = Append(alerts, Projection[f].gen),
           ~Doing("sent"), ~Doing("pending"), Doing("sent")', Head(todo').f = f
    PROVE  Tells'
<1> DEFINE g == Projection[f].gen
<1>1. seq \in Nat /\ crashes \in Nat /\ alerts \in Seq(Nat) /\ g \in Nat
    BY DEF Typed, Record
<1>2. Projection' = Projection /\ Active' = Active /\ \A h : Unsent(Projection', h) = Unsent(Projection, h)
    BY ProjectionStays
<1>3. g \in 1..seq
    BY <1>1 DEF Unsent, Tells, UnsentPast
<1> HIDE DEF g
<1>4. Len(alerts') = Len(alerts) + 1 /\ alerts'[Len(alerts) + 1] = g /\ \A n \in 1..Len(alerts) : alerts'[n] = alerts[n]
    BY <1>1 DEF g
<1>5. AlertsPast'
    BY <1>1, <1>3, <1>4 DEF Tells, AlertsPast
<1>6. \A h : h # g => Times(alerts', h) = Times(alerts, h)
    <2>1. \A h : h # g => At(alerts', h) = At(alerts, h)
        BY <1>1, <1>4 DEF At
    <2>. QED  BY <2>1 DEF Times
<1>7. Times(alerts', g) = Times(alerts, g) + 1
    <2>1. At(alerts', g) = At(alerts, g) \cup {Len(alerts) + 1} /\ Len(alerts) + 1 \notin At(alerts, g)
        <3>1. \A n \in 1..Len(alerts') : n \in 1..Len(alerts) \/ n = Len(alerts) + 1
            BY <1>1, <1>4
        <3>2. \A n \in 1..Len(alerts) : n \in 1..Len(alerts')
            BY <1>1, <1>4
        <3>3. Len(alerts) + 1 \in 1..Len(alerts') /\ Len(alerts) + 1 \notin 1..Len(alerts)
            BY <1>1, <1>4
        <3>. QED  BY <1>4, <3>1, <3>2, <3>3 DEF At
    <2>2. IsFiniteSet(At(alerts, g))
        <3>1. IsFiniteSet(1..Len(alerts)) /\ At(alerts, g) \subseteq 1..Len(alerts)
            BY <1>1, FS_Interval DEF At
        <3>. QED  BY <3>1, FS_Subset
    <2>3. Cardinality(At(alerts, g) \cup {Len(alerts) + 1}) = Cardinality(At(alerts, g)) + 1
        BY <2>1, <2>2, FS_AddElement
    <2>. QED  BY <2>1, <2>3 DEF Times
<1>8. Times(alerts, g) <= crashes
    BY DEF Tells, UnsentLess, g
<1>9. OncePerRun'
    <2>1. Times(alerts', g) <= 1 + crashes
        <3>1. Times(alerts, g) \in Nat
            <4>1. IsFiniteSet(1..Len(alerts)) /\ At(alerts, g) \subseteq 1..Len(alerts)
                BY <1>1, FS_Interval DEF At
            <4>. QED  BY <4>1, FS_Subset, FS_CardinalityType DEF Times
        <3>. QED  BY <1>1, <1>7, <1>8, <3>1
    <2>. QED  BY <1>6, <2>1 DEF Tells, OncePerRun
<1>10. ASSUME NEW h \in world.families, Unsent(Projection', h)
       PROVE  Times(alerts', Projection'[h].gen) <= crashes \/ (Doing("sent")' /\ Head(todo').f = h)
    <2>1. CASE h = f
        BY <2>1
    <2>2. CASE h # f
        <3>1. Projection[h].gen # g
            BY <1>2, <1>10, <2>2 DEF Tells, OneUnsent, g
        <3>. QED  BY <1>2, <1>6, <1>10, <3>1 DEF Tells, UnsentLess
    <2>. QED  BY <2>1, <2>2
<1>11. UnsentLess'
    BY <1>10 DEF UnsentLess
<1>12. UnsentPast'
    BY <1>2 DEF Tells, UnsentPast
<1>13. OneUnsent'
    BY <1>2 DEF Tells, OneUnsent
<1>14. Unforgotten'
    BY <1>2 DEF Tells, Unforgotten
<1>. QED  BY <1>5, <1>9, <1>11, <1>12, <1>13, <1>14 DEF Tells

\* A crash may come before an alert emitted is said sent.
LEMMA CrashTells ==
    ASSUME Typed, Tells, UNCHANGED <<world, ledger, seq, alerts>>, crashes' = crashes + 1
    PROVE  Tells'
<1>1. crashes \in Nat /\ alerts \in Seq(Nat) /\ \A f \in world.families : Projection[f].gen \in Nat
    BY DEF Typed, Record
<1>2. Projection' = Projection /\ Active' = Active /\ \A h : Unsent(Projection', h) = Unsent(Projection, h)
    BY ProjectionStays
<1>3. \A g \in Nat : Times(alerts', g) = Times(alerts, g) /\ Times(alerts, g) \in Nat
    <2>1. \A g : Times(alerts', g) = Times(alerts, g)
        BY DEF Times, At
    <2>2. ASSUME NEW g \in Nat PROVE Times(alerts, g) \in Nat
        <3>1. IsFiniteSet(1..Len(alerts)) /\ At(alerts, g) \subseteq 1..Len(alerts)
            BY <1>1, FS_Interval DEF At
        <3>. QED  BY <3>1, FS_Subset, FS_CardinalityType DEF Times
    <2>. QED  BY <2>1, <2>2
<1>4. \A g \in Nat : Times(alerts', g) <= crashes' /\ Times(alerts', g) <= 1 + crashes'
    <2> SUFFICES ASSUME NEW g \in Nat PROVE Times(alerts', g) <= crashes' /\ Times(alerts', g) <= 1 + crashes'
        OBVIOUS
    <2> DEFINE k == Times(alerts, g)
    <2>1. k <= 1 + crashes /\ k \in Nat /\ Times(alerts', g) = k
        BY <1>3 DEF Tells, OncePerRun
    <2> HIDE DEF k
    <2>. QED  BY <1>1, <2>1
<1>5. AlertsPast' /\ UnsentPast' /\ OneUnsent'
    BY <1>2 DEF Tells, AlertsPast, UnsentPast, OneUnsent
<1>6. OncePerRun' /\ UnsentLess'
    BY <1>1, <1>2, <1>4 DEF OncePerRun, UnsentLess
<1>7. Unforgotten'
    BY <1>1 DEF Unforgotten
<1>. QED  BY <1>5, <1>6, <1>7 DEF Tells

-----------------------------------------------------------------------------
\* The invariant of the ledger.
LInv == Typed /\ Owes /\ Tells

LEMMA OneLong ==
    ASSUME NEW S, NEW q \in Seq(S), Len(q) = 1
    PROVE  q = <<q[1]>>
<1>1. q[1] \in S
    OBVIOUS
<1>2. <<q[1]>> \in Seq(S) /\ Len(<<q[1]>>) = 1 /\ <<q[1]>>[1] = q[1]
    BY <1>1
<1>. QED  BY <1>2, SeqEqual

\* What is owed, by what comes first.
LEMMA OwesFirst ==
    ASSUME Owes
    PROVE  /\ Doing("exhausted") => \E f \in Flying \ Active : todo = <<Owe("exhausted", f), Owe("pending", f), Owe("check", f)>>
           /\ Doing("pending") => \E f \in world.families : todo = <<Owe("pending", f), Owe("check", f)>> /\ Unsent(Projection, f)
           /\ Doing("clear") => \E f \in world.families : todo = <<Owe("clear", f), Owe("check", None)>>
           /\ Doing("check") => \E f : todo = <<Owe("check", f)>>
           /\ Doing("redact") => todo = <<Owe("redact", None), Owe("compact", None)>> /\ LastChecks
           /\ Doing("compact") => todo = <<Owe("compact", None)>> /\ LastChecks /\ \A n \in 1..(Len(ledger) - 1) : ledger[n] = None
           /\ Doing("emit") \/ Doing("sent") => OwesTelling
<1>1. \A op : Doing(op) <=> todo # <<>> /\ Head(todo).op = op
    BY DEF Doing
<1>2. \A op, f : Owe(op, f).op = op
    BY DEF Owe
<1>3. ASSUME NEW op, NEW f, NEW t, todo = <<Owe(op, f)>> \/ todo = <<Owe(op, f), t>> \/ \E u : todo = <<Owe(op, f), t, u>>
      PROVE  \A p : Doing(p) <=> p = op
    BY <1>1, <1>2, <1>3
<1>4. todo = <<>> => \A op : ~Doing(op)
    BY <1>1
<1>5. \A p, q : Doing(p) /\ Doing(q) => p = q
    BY <1>1
<1>6. CASE todo = <<>>
    BY <1>4, <1>6
<1>7. CASE \E f \in Flying \ Active : todo = <<Owe("exhausted", f), Owe("pending", f), Owe("check", f)>>
    <2>1. \A p : Doing(p) <=> p = "exhausted"
        BY <1>3, <1>7
    <2>. QED  BY <1>7, <2>1
<1>8. CASE \E f \in world.families : todo = <<Owe("pending", f), Owe("check", f)>> /\ Unsent(Projection, f)
    <2>1. \A p : Doing(p) <=> p = "pending"
        BY <1>3, <1>8
    <2>. QED  BY <1>8, <2>1
<1>9. CASE \E f \in world.families : todo = <<Owe("clear", f), Owe("check", None)>>
    <2>1. \A p : Doing(p) <=> p = "clear"
        BY <1>3, <1>9
    <2>. QED  BY <1>9, <2>1
<1>10. CASE \E f : todo = <<Owe("check", f)>>
    <2>1. \A p : Doing(p) <=> p = "check"
        BY <1>3, <1>10
    <2>. QED  BY <1>10, <2>1
<1>11. CASE todo = <<Owe("redact", None), Owe("compact", None)>> /\ LastChecks
    <2>1. \A p : Doing(p) <=> p = "redact"
        BY <1>3, <1>11
    <2>. QED  BY <1>11, <2>1
<1>12. CASE todo = <<Owe("compact", None)>> /\ LastChecks /\ \A n \in 1..(Len(ledger) - 1) : ledger[n] = None
    <2>1. \A p : Doing(p) <=> p = "compact"
        BY <1>3, <1>12
    <2>. QED  BY <1>12, <2>1
<1>13. CASE (Doing("emit") \/ Doing("sent")) /\ OwesTelling
    <2>1. \A p : Doing(p) => p = "emit" \/ p = "sent"
        BY <1>5, <1>13
    <2>. QED  BY <1>13, <2>1
<1>. QED  BY <1>6, <1>7, <1>8, <1>9, <1>10, <1>11, <1>12, <1>13 DEF Owes

-----------------------------------------------------------------------------
\* With the lock free, what is owed next is all a step can change.
LEMMA FreeKeeps ==
    ASSUME LInv, Free, UNCHANGED <<world, ledger, seq, alerts, crashes>>,
           clear' = None \/ clear' \in [f : world.families, gen : Nat], Owes'
    PROVE  LInv'
<1>1. Projection' = Projection
    BY ProjectionStays
<1>2. Typed'
    BY <1>1 DEF LInv, Typed, Logged
<1>3. ~Doing("sent") /\ ~Doing("pending")
    BY DEF Free, Doing
<1>4. Tells'
    <2>1. Typed /\ Tells /\ Projection' \in [world.families -> Record]
        BY <1>1 DEF LInv, Typed
    <2>. QED  BY <1>1, <1>3, <2>1, StillTells
<1>. QED  BY <1>2, <1>4 DEF LInv

\* A step of the ledger: what it writes, tells and owes next.
LEMMA LockedKeeps ==
    ASSUME LInv, UNCHANGED <<world, alerts, crashes, clear>>,
           Projection' \in [world.families -> Record], ledger' \in Seq(Logged), seq' \in {seq, seq + 1},
           Owes', Tells'
    PROVE  LInv'
BY DEF LInv, Typed, Logged

\* A telling goes on with the next of the families it tells.
LEMMA TellingGoesOn ==
    ASSUME OwesTelling, NEW k \in {1, 2}, k + 1 <= Len(todo), todo[k].op = "sent",
           Len(todo') = Len(todo) - k, todo' \in Seq([op : {"emit", "sent", "check"}, f : world.families \cup {None}]),
           \A n \in 1..Len(todo') : todo'[n] = todo[n + k],
           UNCHANGED world,
           \A n \in DOMAIN todo : n > k /\ todo[n].op = "emit" => Unsent(Projection', todo[n].f)
    PROVE  Owes'
<1>1. todo \in Seq([op : {"emit", "sent", "check"}, f : world.families \cup {None}])
    BY DEF OwesTelling
<1>2. Len(todo) \in Nat /\ DOMAIN todo = 1..Len(todo) /\ DOMAIN todo' = 1..Len(todo')
    BY <1>1
<1>3. \A n \in 1..Len(todo') : n + k \in DOMAIN todo /\ n + k > k
    BY <1>2
<1>4. todo' # <<>> /\ Head(todo') = todo'[1] /\ 1 \in 1..Len(todo') /\ todo'[1] = todo[1 + k]
    BY <1>2
<1>9. todo'[1] \in [op : {"emit", "sent", "check"}, f : world.families \cup {None}]
    <2> DEFINE S == [op : {"emit", "sent", "check"}, f : world.families \cup {None}]
    <2>1. todo' \in Seq(S) /\ 1 \in DOMAIN todo'
        BY <1>2, <1>4
    <2> HIDE DEF S
    <2>2. todo'[1] \in S
        BY <2>1
    <2>. QED  BY <2>2 DEF S
<1>5. todo'[1].op \in {"emit", "check"}
    <2>1. todo[1 + k].op = "sent" => FALSE
        <3>1. 1 + k \in DOMAIN todo /\ (1 + k) - 1 = k /\ 1 + k # 1
            BY <1>2
        <3>2. todo[k] # Owe("emit", todo[1 + k].f)
            BY DEF Owe
        <3>. QED  BY <3>1, <3>2 DEF OwesTelling
    <2>2. todo'[1] \in [op : {"emit", "sent", "check"}, f : world.families \cup {None}]
        BY <1>9
    <2>. QED  BY <1>4, <2>1, <2>2
<1>6. CASE todo'[1].op = "check"
    <2>1. 1 + k = Len(todo)
        BY <1>3, <1>4, <1>6 DEF OwesTelling
    <2>2. Len(todo') = 1
        BY <1>2, <2>1
    <2>3. todo'[1] = Owe("check", todo'[1].f)
        <3>1. todo'[1] \in [op : {"emit", "sent", "check"}, f : world.families \cup {None}]
            BY <1>9
        <3>. QED  BY <1>6, <3>1 DEF Owe
    <2>4. todo' = <<todo'[1]>>
        <3> DEFINE S == [op : {"emit", "sent", "check"}, f : world.families \cup {None}]
        <3>1. todo' \in Seq(S) /\ Len(todo') = 1
            BY <2>2
        <3> HIDE DEF S
        <3>. QED  BY <3>1, OneLong
    <2>5. \E f : todo' = <<Owe("check", f)>>
        BY <2>3, <2>4
    <2>. QED  BY <2>5 DEF Owes
<1>7. CASE todo'[1].op = "emit"
    <2>1. Doing("emit")' /\ ~Doing("sent")'
        BY <1>4, <1>7 DEF Doing
    <2>2. ASSUME NEW n \in DOMAIN todo', todo'[n].op = "emit"
          PROVE  n + 1 \in DOMAIN todo' /\ todo'[n + 1] = Owe("sent", todo'[n].f) /\ todo'[n].f \in world.families /\ Unsent(Projection', todo'[n].f)
        <3>1. n + k \in DOMAIN todo /\ todo'[n] = todo[n + k] /\ n + k > k
            BY <1>2, <1>3
        <3>2. (n + k) + 1 \in DOMAIN todo /\ todo[(n + k) + 1] = Owe("sent", todo[n + k].f) /\ todo[n + k].f \in world.families
            BY <2>2, <3>1 DEF OwesTelling
        <3>3. n + 1 \in DOMAIN todo' /\ (n + k) + 1 = (n + 1) + k
            BY <1>2, <3>2
        <3>4. todo'[n + 1] = todo[(n + k) + 1]
            BY <1>2, <3>3
        <3>5. Unsent(Projection', todo[n + k].f)
            BY <2>2, <3>1
        <3>. QED  BY <3>1, <3>2, <3>3, <3>4, <3>5
    <2>3. ASSUME NEW n \in DOMAIN todo', todo'[n].op = "sent"
          PROVE  n = 1 \/ todo'[n - 1] = Owe("emit", todo'[n].f)
        <3>1. n + k \in DOMAIN todo /\ todo'[n] = todo[n + k] /\ n + k # 1
            BY <1>2, <1>3
        <3>2. todo[(n + k) - 1] = Owe("emit", todo[n + k].f)
            BY <2>3, <3>1 DEF OwesTelling
        <3>3. n # 1 => todo'[n - 1] = todo[(n + k) - 1]
            BY <1>2
        <3>. QED  BY <3>1, <3>2, <3>3
    <2>4. \A n \in DOMAIN todo' : todo'[n].op = "check" <=> n = Len(todo')
        <3>1. \A n \in DOMAIN todo' : n + k \in DOMAIN todo /\ todo'[n] = todo[n + k] /\ (n + k = Len(todo) <=> n = Len(todo'))
            BY <1>2, <1>3
        <3>. QED  BY <3>1 DEF OwesTelling
    <2>5. \A m, n \in DOMAIN todo' : todo'[m] = todo'[n] => m = n
        <3>1. \A n \in DOMAIN todo' : n + k \in DOMAIN todo /\ todo'[n] = todo[n + k]
            BY <1>2, <1>3
        <3>2. \A m, n \in DOMAIN todo' : m + k = n + k => m = n
            BY <1>2
        <3>. QED  BY <3>1, <3>2 DEF OwesTelling
    <2>6. OwesTelling'
        BY <2>1, <2>2, <2>3, <2>4, <2>5 DEF OwesTelling
    <2>. QED  BY <2>1, <2>6 DEF Owes
<1>. QED  BY <1>5, <1>6, <1>7

-----------------------------------------------------------------------------
LEMMA IdleOwes ==
    ASSUME LInv, Free, UNCHANGED <<world, ledger, seq, alerts, crashes, todo>>,
           clear' = clear \/ clear' = None \/ clear' \in [f : world.families, gen : Nat]
    PROVE  LInv'
<1>1. Owes'
    BY DEF Free, Owes
<1>2. clear' = None \/ clear' \in [f : world.families, gen : Nat]
    BY DEF LInv, Typed
<1>. QED  BY <1>1, <1>2, FreeKeeps

\* A clear that observed the generation there is owes its event.
LEMMA ClearOwes ==
    ASSUME LInv, Free, UNCHANGED <<world, ledger, seq, alerts, crashes>>, clear' = clear \/ clear' = None,
           NEW t, t.f \in world.families, ClearNow(t)
    PROVE  LInv'
<1>1. CASE todo' = todo
    BY <1>1, IdleOwes
<1>2. CASE todo' = <<Owe("clear", t.f), Owe("check", None)>>
    <2>1. Owes'
        BY <1>2 DEF Owes
    <2>2. clear' = None \/ clear' \in [f : world.families, gen : Nat]
        BY DEF LInv, Typed
    <2>. QED  BY <2>1, <2>2, FreeKeeps
<1>. QED  BY <1>1, <1>2 DEF ClearNow

LEMMA ActiveIn == Active \subseteq world.families
BY DEF Active

LEMMA ExhaustOwes ==
    ASSUME LInv, IInv, NEW i \in world.asking, Exhaust(i)
    PROVE  LInv'
<1>1. Free /\ UNCHANGED <<world, ledger, seq, alerts, crashes, clear, shape>> /\ i \in Instance /\ run = [j \in Instance |-> run[j]]
    BY DEF Exhaust, store, IInv, Shaped
<1> DEFINE f == Family(i)
<1>2. \/ UNCHANGED todo
      \/ /\ f \notin Active /\ run' = [run EXCEPT ![i].stage = "alerting"]
         /\ todo' = <<Owe("exhausted", f), Owe("pending", f), Owe("check", f)>>
    BY DEF Exhaust
<1>3. CASE UNCHANGED todo
    BY <1>1, <1>3, IdleOwes
<1>4. CASE /\ f \notin Active /\ run' = [run EXCEPT ![i].stage = "alerting"]
           /\ todo' = <<Owe("exhausted", f), Owe("pending", f), Owe("check", f)>>
    <2>1. run'[i].stage = "alerting"
        <3>1. IsRun(run[i])
            BY <1>1 DEF IInv, Shaped
        <3>2. run'[i] = [run[i] EXCEPT !.stage = "alerting"]
            BY <1>1, <1>4
        <3>. QED  BY <3>1, <3>2 DEF IsRun, RunFields
    <2>2. f \in Flying'
        BY <1>1, <2>1 DEF Flying, InFlight, Family
    <2>3. Active' = Active
        BY <1>1, ProjectionStays
    <2>4. Owes'
        BY <1>4, <2>2, <2>3 DEF Owes
    <2>5. clear' = None \/ clear' \in [f : world.families, gen : Nat]
        BY <1>1 DEF LInv, Typed
    <2>. QED  BY <1>1, <2>4, <2>5, FreeKeeps
<1>. QED  BY <1>2, <1>3, <1>4

\* The parts of a telling.
LEMMA HalfOf ==
    ASSUME NEW k \in Nat, NEW n \in 1..(2 * k)
    PROVE  \/ \E m \in 1..k : n = 2 * m - 1 /\ n % 2 = 1 /\ (n + 1) \div 2 = m
           \/ \E m \in 1..k : n = 2 * m /\ n % 2 = 0 /\ n \div 2 = m
OBVIOUS

LEMMA TellingParts ==
    ASSUME NEW S, NEW order \in Seq(S)
    PROVE  /\ Telling(order) \in Seq([op : {"emit", "sent"}, f : S]) /\ Len(Telling(order)) = 2 * Len(order)
           /\ \A m \in 1..Len(order) : /\ Telling(order)[2 * m - 1] = Owe("emit", order[m])
                                       /\ Telling(order)[2 * m] = Owe("sent", order[m])
<1> DEFINE k == Len(order)
           q == Telling(order)
           T == [op : {"emit", "sent"}, f : S]
<1>1. k \in Nat /\ \A m \in 1..k : order[m] \in S
    OBVIOUS
<1>2. DOMAIN q = 1..(2 * k)
    BY DEF Telling
<1>3. \A n \in 1..(2 * k) : q[n] = IF n % 2 = 1 THEN Owe("emit", order[(n + 1) \div 2]) ELSE Owe("sent", order[n \div 2])
    BY DEF Telling
<1> HIDE DEF q, k
<1>4. \A m \in 1..k : /\ 2 * m - 1 \in 1..(2 * k) /\ (2 * m - 1) % 2 = 1 /\ ((2 * m - 1) + 1) \div 2 = m
                      /\ 2 * m \in 1..(2 * k) /\ (2 * m) % 2 = 0 /\ (2 * m) \div 2 = m
    BY <1>1
<1>5. \A m \in 1..k : q[2 * m - 1] = Owe("emit", order[m]) /\ q[2 * m] = Owe("sent", order[m])
    BY <1>3, <1>4
<1>6. \A m \in 1..k : Owe("emit", order[m]) \in T /\ Owe("sent", order[m]) \in T
    BY <1>1 DEF Owe
<1>7. ASSUME NEW n \in 1..(2 * k) PROVE q[n] \in T
    <2>1. \E m \in 1..k : n = 2 * m - 1 \/ n = 2 * m
        BY <1>1, HalfOf
    <2>. QED  BY <1>5, <1>6, <2>1
<1>8. q \in [1..(2 * k) -> T]
    <2>1. \E h : q = [n \in 1..(2 * k) |-> h[n]]
        <3> DEFINE h == [n \in 1..(2 * k) |-> IF n % 2 = 1 THEN Owe("emit", order[(n + 1) \div 2]) ELSE Owe("sent", order[n \div 2])]
        <3>1. q = h
            BY Zenon DEF q, Telling, k
        <3>2. h = [n \in 1..(2 * k) |-> h[n]]
            OBVIOUS
        <3>. QED  BY <3>1, <3>2
    <2>. QED  BY <1>7, <2>1
<1>9. q \in Seq(T) /\ Len(q) = 2 * k
    <2> DEFINE n == 2 * k
    <2>1. n \in Nat /\ q \in [1..n -> T]
        BY <1>1, <1>8
    <2> HIDE DEF n, T
    <2>2. q \in Seq(T) /\ Len(q) = n
        BY <2>1
    <2>. QED  BY <2>2 DEF n, T
<1>. QED  BY <1>5, <1>9 DEF q, k

LEMMA DeliverOwes ==
    ASSUME LInv, NEW i \in world.asking, Deliver(i)
    PROVE  LInv'
<1> DEFINE S == {f \in Active : Projection[f].pending /\ ~Projection[f].sent}
           T == [op : {"emit", "sent", "check"}, f : world.families \cup {None}]
           check == Owe("check", None)
<1>1. Free /\ UNCHANGED <<world, ledger, seq, alerts, crashes, clear>>
    BY DEF Deliver, store
<1>2. PICK order \in SetToSeqs(S) : todo' = Telling(order) \o <<check>>
    BY DEF Deliver
<1>3. S \subseteq world.families /\ \A f \in S : Unsent(Projection, f)
    BY DEF Active, Unsent
<1>4. order \in Seq(S) /\ Len(order) \in Nat /\ \A m, n \in 1..Len(order) : order[m] = order[n] => m = n
    <2>1. IsFiniteSet(S)
        BY <1>3, WorldsTyped, FS_Subset DEF LInv, Typed
    <2>2. Cardinality(S) \in Nat
        BY <2>1, FS_CardinalityType
    <2>3. order \in [1..Cardinality(S) -> S] /\ \A m, n \in 1..Cardinality(S) : m # n => order[m] # order[n]
        BY <1>2 DEF SetToSeqs
    <2> HIDE DEF S
    <2>. QED  BY <2>2, <2>3
<1> DEFINE k == Len(order)
           q == Telling(order)
<1>5. /\ q \in Seq([op : {"emit", "sent"}, f : S]) /\ Len(q) = 2 * k /\ k \in Nat
      /\ \A m \in 1..k : q[2 * m - 1] = Owe("emit", order[m]) /\ q[2 * m] = Owe("sent", order[m])
    BY <1>4, TellingParts
<1> HIDE DEF k, q, S
<1>6. q \in Seq(T)
    <2>1. [op : {"emit", "sent"}, f : S] \subseteq T
        BY <1>3
    <2>. QED  BY <1>5, <2>1, SeqMonotonic
<1>7. check \in T
    BY DEF Owe
<1> HIDE DEF T, check
<1>8. todo' \in Seq(T) /\ Len(todo') = 2 * k + 1 /\ todo'[2 * k + 1] = check /\ \A n \in 1..(2 * k) : todo'[n] = q[n]
    <2>1. <<check>> \in Seq(T) /\ Len(<<check>>) = 1 /\ <<check>>[1] = check
        BY <1>7
    <2>2. /\ q \o <<check>> \in Seq(T) /\ Len(q \o <<check>>) = Len(q) + 1
          /\ \A n \in 1..(Len(q) + 1) : (q \o <<check>>)[n] = IF n <= Len(q) THEN q[n] ELSE <<check>>[n - Len(q)]
        BY <1>6, <2>1, ConcatProperties
    <2>3. todo' = q \o <<check>>
        BY <1>2 DEF q
    <2> HIDE DEF check
    <2>4. 2 * k + 1 \in 1..(2 * k + 1) /\ ~(2 * k + 1 <= 2 * k) /\ (2 * k + 1) - 2 * k = 1
        BY <1>5
    <2>5. \A n \in 1..(2 * k) : n \in 1..(2 * k + 1) /\ n <= 2 * k
        BY <1>5
    <2>. QED  BY <1>5, <2>1, <2>2, <2>3, <2>4, <2>5
<1>9. Projection' = Projection /\ \A f : Unsent(Projection', f) = Unsent(Projection, f)
    BY <1>1, ProjectionStays
<1>10. \A m \in 1..k : todo'[2 * m - 1] = Owe("emit", order[m]) /\ todo'[2 * m] = Owe("sent", order[m]) /\ order[m] \in S
    <2>1. \A m \in 1..k : 2 * m - 1 \in 1..(2 * k) /\ 2 * m \in 1..(2 * k)
        BY <1>5
    <2>2. \A m \in 1..k : order[m] \in S
        BY <1>4 DEF k
    <2>. QED  BY <1>5, <1>8, <2>1, <2>2
<1>11. \A n \in 1..(2 * k + 1) : n = 2 * k + 1 \/ \E m \in 1..k : n = 2 * m - 1 \/ n = 2 * m
    <2> SUFFICES ASSUME NEW n \in 1..(2 * k + 1), n # 2 * k + 1 PROVE \E m \in 1..k : n = 2 * m - 1 \/ n = 2 * m
        OBVIOUS
    <2>1. n \in 1..(2 * k)
        BY <1>5
    <2>. QED  BY <1>5, <2>1, HalfOf
<1>12. check.op = "check" /\ check.f = None /\ \A f : Owe("emit", f).op = "emit" /\ Owe("emit", f).f = f /\ Owe("sent", f).op = "sent" /\ Owe("sent", f).f = f
    BY DEF check, Owe
<1>13. CASE k = 0
    <2>1. todo' = <<check>>
        BY <1>8, <1>13, OneLong
    <2>2. Owes'
        BY <2>1 DEF Owes, check
    <2>3. clear' = None \/ clear' \in [f : world.families, gen : Nat]
        BY <1>1 DEF LInv, Typed
    <2>. QED  BY <1>1, <2>2, <2>3, FreeKeeps
<1>14. CASE k # 0
    <2>1. DOMAIN todo' = 1..(2 * k + 1) /\ 1 \in 1..k /\ 2 * 1 - 1 = 1
        BY <1>5, <1>8, <1>14
    <2>2. todo' # <<>> /\ Head(todo') = todo'[1]
        BY <1>5, <1>8
    <2>3. Doing("emit")' /\ ~Doing("sent")'
        BY <1>10, <1>12, <2>1, <2>2 DEF Doing
    <2>4. ASSUME NEW n \in DOMAIN todo', todo'[n].op = "emit"
          PROVE  n + 1 \in DOMAIN todo' /\ todo'[n + 1] = Owe("sent", todo'[n].f) /\ todo'[n].f \in world.families /\ Unsent(Projection', todo'[n].f)
        <3>1. PICK m \in 1..k : n = 2 * m - 1
            <4>1. n # 2 * k + 1
                BY <1>8, <1>12, <2>4
            <4>2. \A m \in 1..k : n # 2 * m
                BY <1>10, <1>12, <2>4
            <4>. QED  BY <1>11, <2>1, <4>1, <4>2
        <3>2. n + 1 \in DOMAIN todo' /\ n + 1 = 2 * m
            BY <1>5, <2>1, <3>1
        <3>. QED  BY <1>3, <1>9, <1>10, <1>12, <3>1, <3>2
    <2>5. ASSUME NEW n \in DOMAIN todo', todo'[n].op = "sent"
          PROVE  n = 1 \/ todo'[n - 1] = Owe("emit", todo'[n].f)
        <3>1. PICK m \in 1..k : n = 2 * m
            <4>1. n # 2 * k + 1
                BY <1>8, <1>12, <2>5
            <4>2. \A m \in 1..k : n # 2 * m - 1
                BY <1>10, <1>12, <2>5
            <4>. QED  BY <1>11, <2>1, <4>1, <4>2
        <3>2. n - 1 = 2 * m - 1
            BY <1>5, <3>1
        <3>. QED  BY <1>10, <1>12, <3>1, <3>2
    <2>6. ASSUME NEW n \in DOMAIN todo'
          PROVE  todo'[n].op = "check" <=> n = Len(todo')
        <3>1. CASE n = 2 * k + 1
            BY <1>8, <1>12, <3>1
        <3>2. ASSUME NEW m \in 1..k, n = 2 * m - 1 \/ n = 2 * m PROVE todo'[n].op # "check" /\ n # 2 * k + 1
            <4>1. todo'[n].op # "check"
                BY <1>10, <1>12, <3>2
            <4>2. n # 2 * k + 1
                BY <1>5, <3>2
            <4>. QED  BY <4>1, <4>2
        <3>. QED  BY <1>8, <1>11, <2>1, <3>1, <3>2
    <2>7. ASSUME NEW m \in DOMAIN todo', NEW n \in DOMAIN todo', todo'[m] = todo'[n]
          PROVE  m = n
        <3>1. CASE m = 2 * k + 1 \/ n = 2 * k + 1
            BY <1>8, <1>12, <2>6, <2>7, <3>1
        <3>2. ASSUME NEW u \in 1..k, NEW v \in 1..k, m = 2 * u - 1 \/ m = 2 * u, n = 2 * v - 1 \/ n = 2 * v PROVE m = n
            <4>1. order[u] = order[v] => u = v
                BY <1>4 DEF k
            <4>. QED  BY <1>10, <1>12, <2>7, <3>2, <4>1
        <3>. QED  BY <1>11, <2>1, <3>1, <3>2
    <2>8. OwesTelling'
        BY <1>1, <1>8, <2>3, <2>4, <2>5, <2>6, <2>7 DEF OwesTelling, T
    <2>9. Owes'
        BY <2>3, <2>8 DEF Owes
    <2>10. clear' = None \/ clear' \in [f : world.families, gen : Nat]
        BY <1>1 DEF LInv, Typed
    <2>. QED  BY <1>1, <2>9, <2>10, FreeKeeps
<1>. QED  BY <1>13, <1>14

-----------------------------------------------------------------------------
LEMMA FlyingIn ==
    ASSUME IInv
    PROVE  Flying \subseteq world.families
BY DEF IInv, Shaped, Flying, Family

LEMMA AppendExhaustedOwes ==
    ASSUME LInv, IInv, AppendExhausted
    PROVE  LInv' /\ Active' \subseteq Active \cup Flying
<1>1. PICK f \in Flying \ Active : todo = <<Owe("exhausted", f), Owe("pending", f), Owe("check", f)>>
    BY OwesFirst DEF LInv, AppendExhausted
<1>2. /\ UNCHANGED <<world, alerts, crashes, clear>> /\ todo' = Tail(todo)
      /\ Appended([kind |-> "exhausted", f |-> Head(todo).f, id |-> seq + 1])
    BY DEF AppendExhausted, Done
<1>3. Head(todo).f = f /\ todo' = <<Owe("pending", f), Owe("check", f)>>
    BY <1>1, <1>2 DEF Owe
<1>4. f \in world.families /\ seq \in Nat /\ Typed /\ Tells
    BY FlyingIn DEF LInv, Typed
<1>5. Says(f, New(seq + 1)) /\ ledger' \in Seq(Logged) /\ seq' = seq + 1
    BY <1>2, <1>3, <1>4, ExhaustedSays
<1>6. Doing("pending")' /\ Head(todo').f = f /\ ~Doing("sent") /\ ~Doing("pending")
    BY <1>1, <1>3 DEF Doing, Owe
<1>7. Tells'
    BY <1>2, <1>4, <1>5, <1>6, NewTells
<1>8. Unsent(Projection', f)
    BY <1>4, <1>5 DEF Unsent, Says, New
<1>9. Owes'
    BY <1>2, <1>3, <1>4, <1>8 DEF Owes
<1>10. LInv'
    BY <1>2, <1>5, <1>7, <1>9, LockedKeeps DEF Says
<1>11. Active' \subseteq Active \cup {f}
    BY <1>2, <1>5 DEF Active, Says
<1>. QED  BY <1>10, <1>11

\* A note keeps its record's generation, or lets it go.
LEMMA NoteOwes ==
    ASSUME LInv, NEW op \in {"pending", "sent", "clear"}, Doing(op), Done,
           Appended([kind |-> op, f |-> Head(todo).f, gen |-> Projection[Head(todo).f].gen]),
           UNCHANGED <<world, alerts, crashes, clear>>
    PROVE  LInv' /\ Active' \subseteq Active
<1> DEFINE f == Head(todo).f
<1>1. Typed /\ Tells /\ todo' = Tail(todo) /\ \A g \in world.families : Projection[g] \in Record
    BY DEF LInv, Typed, Done
<1>2. f \in world.families
    <2>1. CASE op = "sent"
        BY <2>1, OwesFirst DEF LInv, OwesTelling
    <2>2. CASE op # "sent"
        <3>1. PICK g \in world.families : \E t : todo = <<Owe(op, g), t>>
            BY <2>2, OwesFirst DEF LInv
        <3>. QED  BY <3>1 DEF Owe
    <2>. QED  BY <2>1, <2>2
<1> HIDE DEF f
<1>3. Says(f, Noted(op, Projection[f])) /\ ledger' \in Seq(Logged) /\ seq' = seq + 1
    BY <1>1, <1>2, NotedSays DEF f
<1>4. \A g \in world.families \ {f} : Projection'[g] = Projection[g]
    BY <1>3 DEF Says
<1>5. /\ op = "clear" => Projection'[f].gen = 0
      /\ op = "pending" => Projection'[f].gen = Projection[f].gen /\ Projection'[f].pending /\ Projection'[f].sent = Projection[f].sent
      /\ op = "sent" => Projection'[f].gen = Projection[f].gen /\ Projection'[f].sent
    <2>1. \A r : Noted("clear", r).gen = 0
        BY DEF Noted, NoFamily
    <2>2. \A r : Noted("pending", r).gen = r.gen /\ Noted("pending", r).pending /\ Noted("pending", r).sent = r.sent
        BY DEF Noted
    <2>3. \A r : Noted("sent", r).gen = r.gen /\ Noted("sent", r).sent
        BY DEF Noted
    <2>. QED  BY <1>3, <2>1, <2>2, <2>3 DEF Says
<1>6. \A p : Doing(p) => p = op
    BY DEF Doing
<1>7. Tells'
    <2>1. \A g \in world.families :
             \/ Projection'[g].gen = 0
             \/ /\ Projection'[g].gen = Projection[g].gen
                /\ Projection[g].sent => Projection'[g].sent
                /\ Projection[g].pending => Projection'[g].pending \/ Projection'[g].sent
        BY <1>4, <1>5
    <2>2. \A g \in world.families : Doing("sent") /\ Head(todo).f = g /\ Unsent(Projection', g) => FALSE
        BY <1>5, <1>6 DEF Unsent, f
    <2>3. \A g \in world.families : Doing("pending") /\ Head(todo).f = g =>
             Projection'[g].gen = 0 \/ Projection'[g].pending \/ Projection'[g].sent
        BY <1>5, <1>6 DEF f
    <2>4. Projection' \in [world.families -> Record]
        BY <1>3 DEF Says
    <2>. QED  BY <1>1, <1>3, <2>1, <2>2, <2>3, <2>4, StillTells
<1>8. Owes'
    <2>1. CASE op = "sent"
        <3>1. OwesTelling
            BY <2>1, OwesFirst DEF LInv
        <3> DEFINE T == [op : {"emit", "sent", "check"}, f : world.families \cup {None}]
        <3>2. todo \in Seq(T) /\ todo # <<>>
            BY <3>1 DEF OwesTelling, Doing
        <3> HIDE DEF T
        <3>3. /\ Len(todo) \in Nat \ {0} /\ DOMAIN todo = 1..Len(todo) /\ Head(todo) = todo[1]
              /\ todo' \in Seq(T) /\ Len(todo') = Len(todo) - 1 /\ \A n \in 1..Len(todo') : todo'[n] = todo[n + 1]
            BY <1>1, <3>2
        <3>4. todo[1].op = "sent" /\ todo[1].f = f
            BY <2>1, <3>3 DEF Doing, f
        <3>5. 1 + 1 <= Len(todo)
            <4>1. 1 # Len(todo)
                BY <3>1, <3>3, <3>4 DEF OwesTelling
            <4>. QED  BY <3>3, <4>1
        <3>6. ASSUME NEW n \in DOMAIN todo, n > 1, todo[n].op = "emit" PROVE Unsent(Projection', todo[n].f)
            <4>1. n + 1 \in DOMAIN todo /\ todo[n + 1] = Owe("sent", todo[n].f) /\ todo[n].f \in world.families /\ Unsent(Projection, todo[n].f)
                BY <3>1, <3>6 DEF OwesTelling
            <4>2. todo[n].f # f
                <5>1. todo[1] = Owe("sent", f)
                    <6>1. todo[1] \in T
                        BY <3>2, <3>3
                    <6>. QED  BY <3>4, <6>1 DEF T, Owe
                <5>2. n + 1 # 1
                    BY <3>3, <3>6
                <5>. QED  BY <3>1, <3>3, <4>1, <5>1, <5>2 DEF OwesTelling
            <4>. QED  BY <1>4, <4>1, <4>2 DEF Unsent
        <3>. QED  BY <3>1, <3>3, <3>4, <3>5, <3>6, TellingGoesOn DEF T
    <2>2. CASE op # "sent"
        <3>1. PICK g, h : todo = <<Owe(op, g), Owe("check", h)>>
            BY <2>2, OwesFirst DEF LInv
        <3>2. todo' = <<Owe("check", h)>>
            BY <1>1, <3>1
        <3>. QED  BY <3>2 DEF Owes
    <2>. QED  BY <2>1, <2>2
<1>9. LInv'
    BY <1>3, <1>7, <1>8, LockedKeeps DEF Says
<1>10. Active' \subseteq Active
    BY <1>2, <1>4, <1>5 DEF Active
<1>. QED  BY <1>9, <1>10

-----------------------------------------------------------------------------
\* A telling's parts by their places.
TellingSet == [op : {"emit", "sent", "check"}, f : world.families \cup {None}]
LEMMA TellingPlaces ==
    ASSUME OwesTelling, Doing("emit")
    PROVE  /\ todo \in Seq(TellingSet) /\ Len(todo) \in Nat /\ Len(todo) >= 3 /\ DOMAIN todo = 1..Len(todo)
           /\ todo[1] = Owe("emit", Head(todo).f) /\ todo[2] = Owe("sent", Head(todo).f)
           /\ Head(todo).f \in world.families /\ Unsent(Projection, Head(todo).f)
           /\ \A n \in DOMAIN todo : n > 1 /\ todo[n].op = "emit" => todo[n].f # Head(todo).f
<1>1. todo \in Seq(TellingSet) /\ todo # <<>>
    BY DEF OwesTelling, Doing, TellingSet
<1>2. Len(todo) \in Nat \ {0} /\ DOMAIN todo = 1..Len(todo) /\ Head(todo) = todo[1] /\ todo[1] \in TellingSet /\ 1 \in DOMAIN todo
    BY <1>1
<1>3. todo[1] = Owe("emit", Head(todo).f)
    <2>1. todo[1].op = "emit"
        BY <1>2 DEF Doing
    <2>. QED  BY <1>2, <2>1 DEF TellingSet, Owe
<1>4. 1 + 1 \in DOMAIN todo /\ todo[1 + 1] = Owe("sent", Head(todo).f) /\ Head(todo).f \in world.families /\ Unsent(Projection, Head(todo).f)
    BY <1>2, <1>3 DEF OwesTelling, Owe
<1>5. 2 # Len(todo)
    <2>1. 2 \in DOMAIN todo /\ todo[2].op = "sent"
        BY <1>4 DEF Owe
    <2>. QED  BY <2>1 DEF OwesTelling
<1>6. ASSUME NEW n \in DOMAIN todo, n > 1, todo[n].op = "emit" PROVE todo[n].f # Head(todo).f
    <2>1. todo[n] \in TellingSet
        BY <1>1
    <2>2. todo[n] = Owe("emit", todo[n].f)
        BY <1>6, <2>1 DEF TellingSet, Owe
    <2>3. n # 1
        BY <1>2, <1>6
    <2>. QED  BY <1>2, <1>3, <2>2, <2>3 DEF OwesTelling
<1>. QED  BY <1>1, <1>2, <1>3, <1>4, <1>5, <1>6

LEMMA EmitOwes ==
    ASSUME LInv, Emit
    PROVE  LInv'
<1> DEFINE f == Head(todo).f
<1>1. /\ OwesTelling /\ Doing("emit") /\ Typed /\ Tells /\ todo' = Tail(todo) /\ UNCHANGED <<world, ledger, seq, clear, crashes>>
      /\ alerts' = Append(alerts, Projection[f].gen)
    BY OwesFirst DEF LInv, Emit, Done, store
<1>2. /\ todo \in Seq(TellingSet) /\ Len(todo) \in Nat /\ Len(todo) >= 3 /\ DOMAIN todo = 1..Len(todo)
      /\ todo[1] = Owe("emit", f) /\ todo[2] = Owe("sent", f) /\ f \in world.families /\ Unsent(Projection, f)
    BY <1>1, TellingPlaces
<1> HIDE DEF f
<1>3. Projection' = Projection
    BY <1>1, ProjectionStays
<1>4. /\ todo' \in Seq(TellingSet) /\ Len(todo') = Len(todo) - 1 /\ DOMAIN todo' = 1..Len(todo') /\ todo' # <<>>
      /\ Head(todo') = todo'[1] /\ \A n \in 1..Len(todo') : todo'[n] = todo[n + 1] /\ n + 1 \in DOMAIN todo
    BY <1>1, <1>2
<1>5. Head(todo') = Owe("sent", f)
    BY <1>2, <1>4
<1>6. Doing("sent")' /\ Head(todo').f = f /\ ~Doing("sent") /\ ~Doing("pending")
    BY <1>1, <1>4, <1>5 DEF Doing, Owe
<1>7. Tells'
    BY <1>1, <1>2, <1>6, EmittedTells DEF f
<1>8. ASSUME NEW n \in DOMAIN todo', todo'[n].op = "emit"
      PROVE  n + 1 \in DOMAIN todo' /\ todo'[n + 1] = Owe("sent", todo'[n].f) /\ todo'[n].f \in world.families /\ Unsent(Projection', todo'[n].f)
    <2>1. n + 1 \in DOMAIN todo /\ todo'[n] = todo[n + 1]
        BY <1>4
    <2>2. (n + 1) + 1 \in DOMAIN todo /\ todo[(n + 1) + 1] = Owe("sent", todo[n + 1].f) /\ todo[n + 1].f \in world.families /\ Unsent(Projection, todo[n + 1].f)
        BY <1>1, <1>8, <2>1 DEF OwesTelling
    <2>3. n + 1 \in DOMAIN todo'
        BY <1>2, <1>4, <2>2
    <2>. QED  BY <1>3, <1>4, <2>1, <2>2, <2>3
<1>9. ASSUME NEW n \in DOMAIN todo', todo'[n].op = "sent"
      PROVE  n = 1 \/ todo'[n - 1] = Owe("emit", todo'[n].f)
    <2>1. n + 1 \in DOMAIN todo /\ todo'[n] = todo[n + 1] /\ n + 1 # 1 /\ (n + 1) - 1 = n /\ (n # 1 => n - 1 \in 1..Len(todo') /\ (n - 1) + 1 = n)
        BY <1>4
    <2>2. todo[n] = Owe("emit", todo[n + 1].f)
        BY <1>1, <1>9, <2>1 DEF OwesTelling
    <2>. QED  BY <1>4, <2>1, <2>2
<1>10. \A n \in DOMAIN todo' : todo'[n].op = "check" <=> n = Len(todo')
    <2>1. \A n \in DOMAIN todo' : n + 1 \in DOMAIN todo /\ todo'[n] = todo[n + 1] /\ (n + 1 = Len(todo) <=> n = Len(todo'))
        BY <1>2, <1>4
    <2>. QED  BY <1>1, <2>1 DEF OwesTelling
<1>11. \A m, n \in DOMAIN todo' : todo'[m] = todo'[n] => m = n
    <2>1. \A n \in DOMAIN todo' : n + 1 \in DOMAIN todo /\ todo'[n] = todo[n + 1]
        BY <1>4
    <2>2. \A m, n \in DOMAIN todo' : m + 1 = n + 1 => m = n
        BY <1>4
    <2>. QED  BY <1>1, <2>1, <2>2 DEF OwesTelling
<1>12. OwesTelling'
    BY <1>1, <1>2, <1>3, <1>4, <1>6, <1>8, <1>9, <1>10, <1>11 DEF OwesTelling, TellingSet
<1>13. Owes'
    BY <1>6, <1>12 DEF Owes
<1>14. Typed'
    <2>1. Projection[f].gen \in Nat
        BY <1>1, <1>2 DEF Typed, Record
    <2>2. alerts' \in Seq(Nat)
        BY <1>1, <2>1 DEF Typed
    <2>. QED  BY <1>1, <1>3, <2>2 DEF Typed, Logged
<1>. QED  BY <1>7, <1>13, <1>14 DEF LInv

LEMMA EmitFailsOwes ==
    ASSUME LInv, EmitFails
    PROVE  LInv'
<1> DEFINE f == Head(todo).f
<1>1. /\ OwesTelling /\ Doing("emit") /\ Typed /\ Tells /\ todo' = Tail(Tail(todo))
      /\ UNCHANGED <<world, ledger, seq, clear, crashes, alerts>>
    BY OwesFirst DEF LInv, EmitFails, store
<1>2. /\ todo \in Seq(TellingSet) /\ Len(todo) \in Nat /\ Len(todo) >= 3 /\ DOMAIN todo = 1..Len(todo)
      /\ todo[2] = Owe("sent", f)
    BY <1>1, TellingPlaces
<1> HIDE DEF f
<1>3. Projection' = Projection
    BY <1>1, ProjectionStays
<1>4. todo' \in Seq(TellingSet) /\ Len(todo') = Len(todo) - 2 /\ \A n \in 1..Len(todo') : todo'[n] = todo[n + 2]
    <2> DEFINE t == Tail(todo)
    <2>1. t \in Seq(TellingSet) /\ Len(t) = Len(todo) - 1 /\ \A n \in 1..Len(t) : t[n] = todo[n + 1]
        BY <1>2
    <2> HIDE DEF t
    <2>2. todo' = Tail(t)
        BY <1>1 DEF t
    <2>3. todo' \in Seq(TellingSet) /\ Len(todo') = Len(t) - 1 /\ \A n \in 1..Len(todo') : todo'[n] = t[n + 1] /\ n + 1 \in 1..Len(t)
        <3>1. t # <<>> /\ Len(t) \in Nat
            BY <1>2, <2>1
        <3>. QED  BY <2>1, <2>2, <3>1
    <2>. QED  BY <1>2, <2>1, <2>3
<1>5. \A n \in DOMAIN todo : todo[n].op = "emit" => Unsent(Projection', todo[n].f)
    BY <1>1, <1>3 DEF OwesTelling
<1>6. Owes'
    <2>1. 2 + 1 <= Len(todo) /\ todo[2].op = "sent"
        BY <1>2 DEF Owe
    <2>. QED  BY <1>1, <1>2, <1>4, <1>5, <2>1, TellingGoesOn DEF TellingSet
<1>7. ~Doing("sent") /\ ~Doing("pending")
    BY <1>1 DEF Doing
<1>8. Tells'
    <2>1. Projection' \in [world.families -> Record]
        BY <1>1, <1>3 DEF Typed
    <2>. QED  BY <1>1, <1>3, <1>7, <2>1, StillTells
<1>9. Typed'
    BY <1>1, <1>3 DEF Typed, Logged
<1>. QED  BY <1>6, <1>8, <1>9 DEF LInv

-----------------------------------------------------------------------------
LEMMA CheckOwes ==
    ASSUME LInv, Check
    PROVE  LInv' /\ Active' \subseteq Active
<1>1. PICK f : todo = <<Owe("check", f)>>
    BY OwesFirst DEF LInv, Check
<1>2. Typed /\ Tells /\ UNCHANGED <<world, alerts, crashes, clear>> /\ Tail(todo) = <<>> /\ ~Doing("sent") /\ ~Doing("pending")
    BY <1>1 DEF LInv, Check, Doing, Owe
<1>3. CASE UNCHANGED <<ledger, seq>> /\ todo' = <<>>
    <2>1. Projection' = Projection /\ Active' = Active /\ Projection' \in [world.families -> Record]
        BY <1>2, <1>3, ProjectionStays DEF Typed
    <2>2. Tells'
        BY <1>2, <1>3, <2>1, StillTells
    <2>3. Owes' /\ ledger' \in Seq(Logged)
        BY <1>2, <1>3 DEF Owes, Typed
    <2>. QED  BY <1>2, <1>3, <2>1, <2>2, <2>3, LockedKeeps
<1>4. CASE Appended([kind |-> "checkpoint", list |-> Kept]) /\ todo' = <<Owe("redact", None), Owe("compact", None)>> \o Tail(todo)
    <2>1. /\ Projection' = Kept /\ Kept \in [world.families -> Record]
          /\ \A g \in world.families : Kept[g] \in {Projection[g], NoFamily}
          /\ ledger' \in Seq(Logged) /\ seq' = seq + 1 /\ LastChecks'
        BY <1>2, <1>4, KeptSays
    <2>2. \A g \in world.families : Projection'[g] = Projection[g] \/ Projection'[g].gen = 0
        BY <2>1 DEF NoFamily
    <2>3. Tells'
        BY <1>2, <2>1, <2>2, StillTells
    <2>4. todo' = <<Owe("redact", None), Owe("compact", None)>>
        <3>1. <<Owe("redact", None), Owe("compact", None)>> \in Seq({Owe("redact", None), Owe("compact", None)})
            OBVIOUS
        <3>. QED  BY <1>2, <1>4, <3>1, ConcatEmptySeq
    <2>5. Owes'
        BY <2>1, <2>4 DEF Owes
    <2>6. Active' \subseteq Active
        BY <1>2, <2>2 DEF Active
    <2>. QED  BY <1>2, <2>1, <2>3, <2>5, <2>6, LockedKeeps
<1>. QED  BY <1>1, <1>2, <1>3, <1>4 DEF Check, Done

\* What a checkpoint replaces goes without a word of it.
LEMMA RedactOwes ==
    ASSUME LInv, Redact
    PROVE  LInv' /\ Projection' = Projection
<1>1. todo = <<Owe("redact", None), Owe("compact", None)>> /\ LastChecks
    BY OwesFirst DEF LInv, Redact
<1>2. /\ Typed /\ Tells /\ UNCHANGED <<world, alerts, crashes, clear, seq>> /\ todo' = <<Owe("compact", None)>>
      /\ ~Doing("sent") /\ ~Doing("pending")
    BY <1>1 DEF LInv, Redact, Done, Doing, Owe
<1>3. ledger' = [n \in 1..Len(ledger) |-> IF n < Len(ledger) THEN None ELSE ledger[n]]
    BY DEF Redact
<1>4. ledger \in Seq(Logged) /\ Len(ledger) \in Nat /\ Len(ledger) > 0 /\ None \in Logged
    BY <1>1, <1>2 DEF Typed, LastChecks, Logged
<1>5. ledger' \in Seq(Logged) /\ Len(ledger') = Len(ledger)
    BY <1>3, <1>4
<1>6. ledger'[Len(ledger')] = ledger[Len(ledger)] /\ \A n \in 1..(Len(ledger') - 1) : ledger'[n] = None
    BY <1>3, <1>4, <1>5
<1>7. LastChecks'
    BY <1>1, <1>4, <1>5, <1>6 DEF LastChecks, Checks
<1>8. Projection' = Projection
    BY <1>1, <1>2, <1>5, <1>6, <1>7, CheckedSays
<1>9. Projection' \in [world.families -> Record]
    BY <1>2, <1>8 DEF Typed
<1>10. Tells'
    BY <1>2, <1>8, <1>9, StillTells
<1>11. Owes'
    BY <1>2, <1>6, <1>7 DEF Owes
<1>. QED  BY <1>2, <1>5, <1>8, <1>9, <1>10, <1>11, LockedKeeps

LEMMA CompactOwes ==
    ASSUME LInv, Compact
    PROVE  LInv' /\ Projection' = Projection
<1> DEFINE last == ledger[Len(ledger)]
<1>1. todo = <<Owe("compact", None)>> /\ LastChecks /\ \A n \in 1..(Len(ledger) - 1) : ledger[n] = None
    BY OwesFirst DEF LInv, Compact
<1>2. /\ Typed /\ Tells /\ UNCHANGED <<world, alerts, crashes, clear, seq>> /\ todo' = <<>>
      /\ ~Doing("sent") /\ ~Doing("pending")
    BY <1>1 DEF LInv, Compact, Done, Doing, Owe
<1>3. ledger \in Seq(Logged) /\ Len(ledger) \in Nat \ {0} /\ last # None /\ last \in Logged /\ DOMAIN ledger = 1..Len(ledger)
    BY <1>1, <1>2 DEF Typed, LastChecks, Checks
<1>4. ledger' = ledger \/ ledger' = <<last>>
    <2> DEFINE S == ToSet(ledger) \ {None}
               at == {i \in DOMAIN ledger : ledger[i] \in S}
               nth(n) == CHOOSE i \in at : Cardinality({j \in at : j <= i}) = n
    <2>1. ledger' = IF ToSet(ledger) \subseteq S THEN ledger ELSE [n \in 1..Cardinality(at) |-> ledger[nth(n)]]
        BY Zenon DEF Compact, Without, Only
    <2>2. at = {Len(ledger)}
        <3>1. \A n \in DOMAIN ledger : n # Len(ledger) => ledger[n] = None
            BY <1>1, <1>3
        <3>2. last \in S
            BY <1>3 DEF ToSet
        <3>. QED  BY <1>3, <3>1, <3>2
    <2> HIDE DEF S, at
    <2>3. Cardinality({Len(ledger)}) = 1 /\ {j \in {Len(ledger)} : j <= Len(ledger)} = {Len(ledger)}
        <3>1. \A n : Cardinality({n}) = 1
            BY FS_Singleton
        <3>2. \A n \in Nat : {j \in {n} : j <= n} = {n}
            OBVIOUS
        <3>3. Len(ledger) \in Nat
            BY <1>3
        <3>. QED  BY <3>1, <3>2, <3>3
    <2>4. nth(1) = Len(ledger)
        BY <2>2, <2>3
    <2> HIDE DEF nth
    <2>5. [n \in 1..Cardinality(at) |-> ledger[nth(n)]] = <<last>>
        <3>1. [n \in 1..1 |-> ledger[nth(n)]] = <<ledger[nth(1)]>>
            OBVIOUS
        <3>. QED  BY <2>2, <2>3, <2>4, <3>1
    <2>. QED  BY <2>1, <2>5
<1>5. ledger' \in Seq(Logged) /\ Len(ledger') > 0 /\ ledger'[Len(ledger')] = last
    <2>1. CASE ledger' = ledger
        BY <1>3, <2>1
    <2>2. CASE ledger' = <<last>>
        <3> HIDE DEF last
        <3>1. <<last>> \in Seq(Logged) /\ Len(<<last>>) = 1 /\ <<last>>[1] = last
            BY <1>3
        <3>. QED  BY <2>2, <3>1
    <2>. QED  BY <1>4, <2>1, <2>2
<1>6. LastChecks'
    BY <1>1, <1>5 DEF LastChecks, Checks
<1>7. Projection' = Projection
    BY <1>1, <1>2, <1>5, <1>6, CheckedSays
<1>8. Projection' \in [world.families -> Record]
    BY <1>2, <1>7 DEF Typed
<1>9. Tells'
    BY <1>2, <1>7, <1>8, StillTells
<1>10. Owes'
    BY <1>2 DEF Owes
<1>. QED  BY <1>2, <1>5, <1>7, <1>8, <1>9, <1>10, LockedKeeps

LEMMA CrashOwes ==
    ASSUME LInv, Crash
    PROVE  LInv'
<1>1. Typed /\ Tells /\ UNCHANGED <<world, ledger, seq, alerts>> /\ crashes' = crashes + 1 /\ todo' = <<>> /\ clear' = None
    BY DEF LInv, Crash, store
<1>2. Projection' = Projection
    BY <1>1, ProjectionStays
<1>3. Typed'
    BY <1>1, <1>2 DEF Typed, Logged
<1>4. Tells'
    BY <1>1, CrashTells
<1>. QED  BY <1>1, <1>3, <1>4 DEF LInv, Owes

-----------------------------------------------------------------------------
LEMMA ObservedIn ==
    ASSUME LInv, NEW f \in world.families
    PROVE  Observed(f) \in [f : world.families, gen : Nat]
BY DEF LInv, Typed, Observed, Record

LEMMA ClearsOwe ==
    ASSUME LInv, (\E i \in world.asking : ClearMinted(i)) \/ (\E f \in world.families : AskClear(f) \/ Sweep(f)) \/ ApplyClear
    PROVE  LInv'
<1>1. Active \subseteq world.families
    BY ActiveIn
<1>2. ASSUME NEW i \in world.asking, ClearMinted(i) PROVE LInv'
    <2>1. Free /\ UNCHANGED <<world, ledger, seq, clear, alerts, crashes>>
        BY <1>2 DEF ClearMinted
    <2>2. UNCHANGED todo \/ \E f \in Active : ClearNow(Observed(f))
        BY <1>2, Zenon DEF ClearMinted
    <2>3. CASE UNCHANGED todo
        BY <2>1, <2>3, IdleOwes
    <2>4. ASSUME NEW f \in Active, ClearNow(Observed(f)) PROVE LInv'
        <3>1. Observed(f).f \in world.families
            BY <1>1 DEF Observed
        <3>. QED  BY <2>1, <2>4, <3>1, ClearOwes
    <2>. QED  BY <2>2, <2>3, <2>4
<1>3. ASSUME NEW f \in world.families, AskClear(f) \/ Sweep(f) PROVE LInv'
    <2>1. Free /\ UNCHANGED <<world, ledger, seq, alerts, crashes, todo>> /\ clear' = Observed(f)
        BY <1>3 DEF AskClear, Sweep, store
    <2>. QED  BY <2>1, ObservedIn, IdleOwes
<1>4. CASE ApplyClear
    <2>1. Free /\ UNCHANGED <<world, ledger, seq, alerts, crashes>> /\ clear # None /\ clear' = None /\ ClearNow(clear)
        BY <1>4 DEF ApplyClear
    <2>2. clear.f \in world.families
        BY <2>1 DEF LInv, Typed
    <2>. QED  BY <2>1, <2>2, ClearOwes
<1>. QED  BY <1>2, <1>3, <1>4

\* The ledger's invariant, by whoever steps; and but for a ladder that ended,
\* no record comes to stand.
LEMMA LedgerNext ==
    ASSUME LInv, IInv, [Next]_vars
    PROVE  LInv' /\ Active' \subseteq Active \cup Flying
<1>1. CASE UNCHANGED vars
    <2>1. UNCHANGED <<world, ledger, seq, alerts, crashes, todo, clear, run, shape>>
        BY <1>1 DEF vars, store
    <2>2. Projection' = Projection /\ Active' = Active
        BY <2>1, ProjectionStays
    <2>3. Flying' = Flying /\ LastChecks' = LastChecks
        BY <2>1 DEF Flying, InFlight, Family, LastChecks, Checks
    <2>4. OwesTelling' = OwesTelling /\ (\A op : Doing(op)' = Doing(op))
        BY <2>1, <2>2 DEF OwesTelling, Doing
    <2>5. Owes'
        BY <2>1, <2>2, <2>3, <2>4 DEF LInv, Owes
    <2>6. Tells'
        BY <2>1, <2>2, <2>4 DEF LInv, Tells, AlertsPast, UnsentPast, OneUnsent, OncePerRun, UnsentLess, Unforgotten
    <2>7. Typed'
        BY <2>1, <2>2 DEF LInv, Typed, Logged
    <2>. QED  BY <2>2, <2>5, <2>6, <2>7 DEF LInv
<1>2. ASSUME NEW i \in world.asking,
             Adopt(i) \/ Begin(i) \/ Mint(i) \/ Interrupt(i) \/ Abandon(i) \/ Settle(i)
             \/ (\E o \in world.answers : Decide(i, o)) \/ (\E f \in world.families : Shift(i, f))
      PROVE  LInv' /\ Active' \subseteq Active
    <2>1. Free /\ UNCHANGED <<world, ledger, seq, alerts, crashes, todo, clear>>
        BY <1>2 DEF Adopt, Begin, Mint, Interrupt, Abandon, Settle, Decide, Shift, store
    <2>. QED  BY <2>1, IdleOwes, ProjectionStays
<1>3. CASE LeaveWindow
    <2>1. Free /\ UNCHANGED <<world, ledger, seq, alerts, crashes, todo, clear>>
        BY <1>3 DEF LeaveWindow, store
    <2>. QED  BY <2>1, IdleOwes, ProjectionStays
<1>4. ASSUME NEW i \in world.asking, Exhaust(i) \/ Deliver(i) \/ ClearMinted(i)
      PROVE  LInv' /\ Active' \subseteq Active
    <2>1. UNCHANGED <<world, ledger>>
        BY <1>4 DEF Exhaust, Deliver, ClearMinted, store
    <2>. QED  BY <1>4, <2>1, ExhaustOwes, DeliverOwes, ClearsOwe, ProjectionStays
<1>5. CASE (\E f \in world.families : AskClear(f) \/ Sweep(f)) \/ ApplyClear
    <2>1. UNCHANGED <<world, ledger>>
        BY <1>5 DEF AskClear, Sweep, ApplyClear, store
    <2>. QED  BY <1>5, <2>1, ClearsOwe, ProjectionStays
<1>6. CASE AppendExhausted
    BY <1>6, AppendExhaustedOwes
<1>7. CASE AppendNote
    <2>1. PICK op \in {"pending", "sent", "clear"} :
              /\ Doing(op) /\ Done
              /\ Appended([kind |-> op, f |-> Head(todo).f, gen |-> Projection[Head(todo).f].gen])
        BY <1>7, Zenon DEF AppendNote
    <2>2. UNCHANGED <<world, alerts, crashes, clear>>
        BY <1>7 DEF AppendNote
    <2>. QED  BY <2>1, <2>2, NoteOwes
<1>8. CASE Emit \/ EmitFails \/ Crash
    <2>1. UNCHANGED <<world, ledger>>
        BY <1>8 DEF Emit, EmitFails, Crash, store
    <2>. QED  BY <1>8, <2>1, EmitOwes, EmitFailsOwes, CrashOwes, ProjectionStays
<1>9. CASE Check
    BY <1>9, CheckOwes
<1>10. CASE Redact \/ Compact
    <2>1. LInv' /\ Projection' = Projection /\ world' = world
        BY <1>10, RedactOwes, CompactOwes DEF Redact, Compact
    <2>. QED  BY <2>1 DEF Active
<1>. QED
    <2>1. CASE Next
        BY <1>2, <1>3, <1>4, <1>5, <1>6, <1>7, <1>8, <1>9, <1>10, <2>1, Zenon DEF Next
    <2>. QED  BY <1>1, <2>1

-----------------------------------------------------------------------------
\* At the start only the first release's snapshot speaks, and all of it is sent.
LEMMA InitOwes ==
    ASSUME Init
    PROVE  LInv
<1>1. world \in Worlds /\ ledger = <<>> /\ seq = 0 /\ crashes = 0 /\ alerts = <<>> /\ clear = None /\ todo = <<>>
    BY DEF Init
<1>2. Projection = Legacy
    <2>1. ledger \in Seq({}) /\ Len(ledger) = 0
        BY <1>1
    <2>2. PICK F : ReplayOf(F, Legacy, ledger) /\ Replayed(Legacy, ledger) = F[Len(ledger)]
        BY <2>1, ReplaySteps
    <2>3. F[0] = Legacy
        BY <2>1, <2>2 DEF ReplayOf
    <2>. QED  BY <2>1, <2>2, <2>3 DEF Projection
<1>3. /\ Projection \in [world.families -> Record]
      /\ \A f \in world.families : Projection[f].gen = 0 \/ Projection[f].sent
    BY <1>2 DEF Legacy, NoFamily, Record
<1>4. Typed
    BY <1>1, <1>3 DEF Typed
<1>5. \A g : Times(alerts, g) = 0
    <2>1. Len(alerts) = 0
        BY <1>1
    <2>2. \A g : At(alerts, g) = {}
        BY <2>1 DEF At
    <2>. QED  BY <2>2, FS_EmptySet DEF Times
<1>6. Tells
    <2>1. AlertsPast /\ UnsentPast
        BY <1>1, <1>3 DEF AlertsPast, UnsentPast
    <2>2. OneUnsent /\ UnsentLess
        BY <1>3 DEF OneUnsent, UnsentLess, Unsent
    <2>3. OncePerRun
        BY <1>1, <1>5 DEF OncePerRun
    <2>4. Unforgotten
        BY <1>3 DEF Unforgotten, Active
    <2>. QED  BY <2>1, <2>2, <2>3, <2>4 DEF Tells
<1>. QED  BY <1>1, <1>4, <1>6 DEF LInv, Owes

-----------------------------------------------------------------------------
\* Families in flight, where no other ladder began.
LEMMA FlyingLess ==
    ASSUME IInv, UNCHANGED world,
           \A j \in Instance : InFlight(j)' => InFlight(j) /\ shape'[j] = shape[j]
    PROVE  Flying' \subseteq Flying
BY DEF IInv, Shaped, Flying, Family

LEMMA FlyingStays ==
    ASSUME IInv, UNCHANGED <<world, shape>>,
           NEW i \in Instance, NEW r, Moved(i, r), InFlight(i) \/ Quiet(r)
    PROVE  Flying' \subseteq Flying
<1>1. \A j \in Instance : run'[j] = IF j = i THEN r ELSE run[j]
    BY DEF IInv, Shaped, Moved
<1>2. \A j \in Instance : InFlight(j)' => InFlight(j) /\ shape'[j] = shape[j]
    BY <1>1 DEF InFlight, Quiet
<1>. QED  BY <1>2, FlyingLess

\* Only a ladder that begins adds to those under way.
LEMMA FlyingNext ==
    ASSUME IInv, [Next]_vars
    PROVE  Flying' \subseteq Flying \/ \E i \in world.asking : Begin(i)
<1>0. world.asking \subseteq Instance /\ (\A i \in Instance : IsRun(run[i])) /\ run = [i \in Instance |-> run[i]]
    BY DEF IInv, Shaped
<1>1. ASSUME UNCHANGED <<world, shape, run>> PROVE Flying' \subseteq Flying
    BY <1>1 DEF Flying, Family, InFlight
<1>2. CASE \/ UNCHANGED vars
           \/ AppendExhausted \/ AppendNote \/ Emit \/ EmitFails \/ Check \/ Redact \/ Compact
           \/ (\E f \in world.families : AskClear(f) \/ Sweep(f)) \/ ApplyClear \/ LeaveWindow
    <2>1. UNCHANGED <<world, shape, run>>
        BY <1>2 DEF vars, store, AppendExhausted, AppendNote, Emit, EmitFails, Check, Redact, Compact,
                    AskClear, Sweep, ApplyClear, LeaveWindow
    <2>. QED  BY <1>1, <2>1
<1>3. CASE Crash
    <2>1. UNCHANGED <<world, shape>> /\ run' = [i \in Instance |-> [Idle EXCEPT !.stage = "loading"]]
        BY <1>3 DEF Crash, store
    <2>2. \A j \in Instance : ~InFlight(j)'
        BY <2>1, QuietForms DEF InFlight, Quiet
    <2>. QED  BY <2>1, <2>2, FlyingLess
<1>4. ASSUME NEW i \in world.asking, NEW f \in world.families, Shift(i, f)
      PROVE  Flying' \subseteq Flying
    <2>1. UNCHANGED <<world, run>> /\ run[i].stage = "idle" /\ i \in Instance
        BY <1>0, <1>4 DEF Shift, store
    <2>2. \A j \in Instance : shape'[j] = IF j = i THEN f ELSE shape[j]
        BY <1>4, <2>1 DEF Shift, IInv, Shaped
    <2>3. \A j \in Instance : InFlight(j)' => InFlight(j) /\ shape'[j] = shape[j]
        BY <2>1, <2>2 DEF InFlight
    <2>. QED  BY <2>1, <2>3, FlyingLess
<1>5. ASSUME NEW i \in world.asking,
             \/ Adopt(i) \/ Mint(i) \/ Interrupt(i) \/ Abandon(i) \/ (\E o \in world.answers : Decide(i, o))
             \/ Exhaust(i) \/ Deliver(i) \/ Settle(i) \/ ClearMinted(i)
      PROVE  Flying' \subseteq Flying
    <2>1. i \in Instance /\ UNCHANGED <<world, shape>>
        BY <1>0, <1>5 DEF Adopt, Mint, Interrupt, Abandon, Decide, Exhaust, Deliver, Settle, ClearMinted, store
    <2>2. UNCHANGED run \/ \E r : Moved(i, r)
        <3>1. CASE Adopt(i) \/ Mint(i) \/ Interrupt(i) \/ Abandon(i)
            BY <3>1 DEF Adopt, Mint, Interrupt, Abandon, Moved
        <3>2. ASSUME NEW o, Decide(i, o) PROVE \E r : Moved(i, r)
            BY <3>2 DEF Decide, Moved
        <3>3. CASE Exhaust(i)
            BY <3>3 DEF Exhaust, Moved
        <3>4. CASE Deliver(i) \/ Settle(i)
            BY <3>4 DEF Deliver, Settle, Moved
        <3>5. CASE ClearMinted(i)
            BY <3>5 DEF ClearMinted, Moved
        <3>. QED  BY <1>5, <3>1, <3>2, <3>3, <3>4, <3>5
    <2>3. CASE InFlight(i)
        <3>1. ASSUME NEW r, Moved(i, r) PROVE Flying' \subseteq Flying
            BY <2>1, <2>3, <3>1, FlyingStays
        <3>. QED  BY <1>1, <2>1, <2>2, <3>1
    <2>4. CASE ~InFlight(i)
        <3>1. Adopt(i) \/ (Deliver(i) /\ run[i].stage = "loading") \/ ClearMinted(i)
            BY <1>5, <2>4 DEF Mint, Interrupt, Abandon, Decide, Exhaust, Deliver, Settle, InFlight
        <3>2. CASE Adopt(i)
            <4>1. Moved(i, [Idle EXCEPT !.stage = "clearing", !.targets = Active])
                BY <3>2 DEF Adopt, Moved
            <4>. QED  BY <2>1, <4>1, QuietForms, FlyingStays, Zenon
        <3>3. CASE Deliver(i) /\ run[i].stage = "loading"
            <4>1. Moved(i, Idle)
                BY <1>0, <2>1, <3>3 DEF Deliver, Moved
            <4>. QED  BY <2>1, <4>1, QuietForms, FlyingStays, Zenon
        <3>4. CASE ClearMinted(i)
            <4>1. run[i].stage = "clearing" /\ IsRun(run[i])
                BY <1>0, <2>1, <3>4 DEF ClearMinted
            <4>2. Moved(i, Idle) \/ \E f : Moved(i, [run[i] EXCEPT !.targets = @ \ {f}])
                BY <3>4 DEF ClearMinted, Moved
            <4>3. \A f : Quiet([run[i] EXCEPT !.targets = @ \ {f}])
                BY <4>1 DEF Quiet, IsRun, RunFields
            <4>. QED  BY <2>1, <4>2, <4>3, QuietForms, FlyingStays, Zenon
        <3>. QED  BY <3>1, <3>2, <3>3, <3>4
    <2>. QED  BY <2>3, <2>4
<1>. QED
    <2>1. CASE Next
        BY <1>2, <1>3, <1>4, <1>5, <2>1, Zenon DEF Next
    <2>. QED  BY <1>2, <2>1

LEMMA WorldStays ==
    ASSUME [Next]_vars
    PROVE  world' = world
<1>1. UNCHANGED vars => UNCHANGED world
    BY DEF vars
<1>2. ASSUME NEW i PROVE Adopt(i) \/ Begin(i) \/ Mint(i) \/ Interrupt(i) \/ Abandon(i) => UNCHANGED world
    BY DEF Adopt, Begin, Mint, Interrupt, Abandon
<1>3. ASSUME NEW i PROVE Exhaust(i) \/ Deliver(i) \/ Settle(i) \/ ClearMinted(i) => UNCHANGED world
    BY DEF Exhaust, Deliver, Settle, ClearMinted
<1>4. ASSUME NEW i, NEW x PROVE Decide(i, x) \/ Shift(i, x) \/ AskClear(x) \/ Sweep(x) => UNCHANGED world
    BY DEF Decide, Shift, AskClear, Sweep
<1>5. AppendExhausted \/ AppendNote \/ Emit \/ EmitFails => UNCHANGED world
    BY DEF AppendExhausted, AppendNote, Emit, EmitFails
<1>6. Check \/ Redact \/ Compact \/ ApplyClear \/ LeaveWindow \/ Crash => UNCHANGED world
    BY DEF Check, Redact, Compact, ApplyClear, LeaveWindow, Crash
<1>. QED  BY <1>1, <1>2, <1>3, <1>4, <1>5, <1>6, Zenon DEF Next

\* No more families are under way than instances ask.
LEMMA FlyingFew ==
    ASSUME NEW w \in Worlds, NEW s, NEW F, F \subseteq {s[j] : j \in w.asking}
    PROVE  /\ IsFiniteSet(w.families) /\ IsFiniteSet(F) /\ w.cap \in Nat
           /\ Cardinality(w.asking) \in Nat /\ Cardinality(F) <= Cardinality(w.asking)
<1>1. IsFiniteSet(w.families) /\ IsFiniteSet(w.asking) /\ w.cap \in Nat
    BY WorldsTyped
<1> DEFINE T == {s[j] : j \in w.asking}
           of == [j \in w.asking |-> s[j]]
<1>2. of \in Surjection(w.asking, T)
    BY DEF Surjection
<1>3. IsFiniteSet(T) /\ Cardinality(T) <= Cardinality(w.asking)
    BY <1>1, <1>2, FS_Surjection
<1> HIDE DEF T
<1>4. IsFiniteSet(F) /\ Cardinality(F) <= Cardinality(T)
    BY <1>3, FS_Subset DEF T
<1>5. Cardinality(T) \in Nat /\ Cardinality(F) \in Nat /\ Cardinality(w.asking) \in Nat
    BY <1>1, <1>3, <1>4, FS_CardinalityType
<1>. QED  BY <1>1, <1>3, <1>4, <1>5

\* A ladder that ends moves its family from those under way to the records; one
\* begins only while the records are fewer than the cap.
LEMMA BoundNext ==
    ASSUME LInv, IInv, Bound, [Next]_vars
    PROVE  Bound'
<1>1. Active' \subseteq Active \cup Flying
    BY LedgerNext
<1>2. world' = world /\ world \in Worlds
    <2>1. world' = world
        BY WorldStays
    <2>. QED  BY <2>1 DEF LInv, Typed
<1>3. /\ IsFiniteSet(world.families) /\ IsFiniteSet(Flying) /\ world.cap \in Nat
      /\ Cardinality(world.asking) \in Nat
    <2>1. Flying \subseteq {shape[j] : j \in world.asking}
        BY DEF Flying, Family
    <2>. QED  BY <1>2, <2>1, FlyingFew
<1>4. IsFiniteSet(Flying') /\ Cardinality(Flying') <= Cardinality(world.asking)
    <2>1. Flying' \subseteq {shape'[j] : j \in world.asking}
        BY <1>2 DEF Flying, Family
    <2>. QED  BY <1>2, <2>1, FlyingFew
<1>5. IsFiniteSet(Active) /\ IsFiniteSet(Active')
    <2>1. Active \subseteq world.families /\ Active' \subseteq world.families
        BY <1>2 DEF Active
    <2>. QED  BY <1>3, <2>1, FS_Subset
<1>6. CASE Flying' \subseteq Flying
    <2>1. Active' \cup Flying' \subseteq Active \cup Flying /\ IsFiniteSet(Active \cup Flying)
        BY <1>1, <1>3, <1>5, <1>6, FS_Union
    <2>2. IsFiniteSet(Active' \cup Flying') /\ Cardinality(Active' \cup Flying') <= Cardinality(Active \cup Flying)
        BY <2>1, FS_Subset
    <2>3. Cardinality(Active \cup Flying) \in Nat /\ Cardinality(Active' \cup Flying') \in Nat
        BY <2>1, <2>2, FS_CardinalityType
    <2>. QED  BY <1>2, <1>3, <2>2, <2>3 DEF Bound
<1>7. ASSUME NEW i \in world.asking, Begin(i)
      PROVE  Bound'
    <2>1. UNCHANGED <<world, ledger>> /\ ~Stops(Family(i))
        BY <1>7 DEF Begin, store
    <2>2. Active' = Active
        BY <2>1, ProjectionStays
    <2>3. ~(Cardinality(Active) >= world.cap)
        BY <2>1 DEF Stops
    <2>4. /\ IsFiniteSet(Active \cup Flying')
          /\ Cardinality(Active \cup Flying') = Cardinality(Active) + Cardinality(Flying') - Cardinality(Active \cap Flying')
        BY <1>4, <1>5, FS_Union
    <2>5. IsFiniteSet(Active \cap Flying')
        BY <1>5, FS_Subset
    <2>6. Cardinality(Active) \in Nat /\ Cardinality(Flying') \in Nat /\ Cardinality(Active \cap Flying') \in Nat
        BY <1>4, <1>5, <2>5, FS_CardinalityType
    <2>7. Cardinality(Active \cup Flying') < world.cap + Cardinality(world.asking)
        BY <1>3, <1>4, <2>3, <2>4, <2>6
    <2>. QED  BY <1>2, <2>2, <2>7 DEF Bound
<1>. QED  BY <1>6, <1>7, FlyingNext

-----------------------------------------------------------------------------
\* The first release's snapshot holds fewer of a chunk's families than the cap
\* and the ladders asking (readCompressionQuarantineProjection takes whatever it holds).
LegacyFits == \A w \in Worlds : Cardinality(w.legacy \cap w.families) < w.cap + Cardinality(w.asking)

LEMMA InitBound ==
    ASSUME LegacyFits, Init
    PROVE  Bound
<1>1. world \in Worlds /\ \A i \in Instance : run[i] = Idle
    BY DEF Init
<1>2. Flying = {}
    BY <1>1, InitKeeps DEF IInv, Shaped, Flying, InFlight, Idle
<1>3. Active = world.legacy \cap world.families
    <2>1. ledger \in Seq({}) /\ Len(ledger) = 0
        BY DEF Init
    <2>2. PICK F : ReplayOf(F, Legacy, ledger) /\ Replayed(Legacy, ledger) = F[Len(ledger)]
        BY <2>1, ReplaySteps
    <2>3. Projection = Legacy
        BY <2>1, <2>2 DEF ReplayOf, Projection
    <2>. QED  BY <2>3 DEF Active, Legacy, NoFamily
<1>. QED  BY <1>1, <1>2, <1>3 DEF Bound, LegacyFits

\* What the invariant makes of ToldOnce.
LEMMA TellsOnce ==
    ASSUME LInv
    PROVE  ToldOnce
<1>1. \A g \in ToSet(alerts) : Cardinality({n \in 1..Len(alerts) : alerts[n] = g}) <= 1 + crashes
    <2>1. \A g \in ToSet(alerts) : g \in Nat
        BY DEF LInv, Typed, ToSet
    <2>. QED  BY <2>1 DEF LInv, Tells, OncePerRun, Times, At
<1>2. \A f \in Active : Free /\ crashes = 0 => Projection[f].pending \/ Projection[f].sent
    BY DEF LInv, Tells, Unforgotten, Free, Doing
<1>. QED  BY <1>1, <1>2 DEF ToldOnce

\* Whatever the first release's snapshot holds, a quarantine is alerted of once
\* and once more a crash, and none is left unsaid
\* (deliverPendingCompressionQuarantineAlerts).
THEOREM ToldOnceAlways == Spec => []ToldOnce
<1> DEFINE I == LInv /\ IInv
<1>1. Init => I
    BY InitOwes, InitKeeps
<1>2. I /\ [Next]_vars => I'
    BY LedgerNext, NextKeeps
<1>3. I => ToldOnce
    BY TellsOnce
<1>. QED  BY <1>1, <1>2, <1>3, PTL DEF Spec

\* However many families, instances and crashes, a quarantine is alerted of once
\* and once more a crash, none is forgotten, and a span's records pass the cap
\* only by the ladders under way (deliverPendingCompressionQuarantineAlerts,
\* durableQuarantineFor).
THEOREM AlertedOnceAlways ==
    ASSUME LegacyFits
    PROVE  Spec => []AlertedOnce
<1> DEFINE I == LInv /\ IInv /\ Bound
<1>1. Init => I
    BY InitOwes, InitKeeps, InitBound
<1>2. I /\ [Next]_vars => I'
    BY LedgerNext, NextKeeps, BoundNext
<1>3. I => AlertedOnce
    <2> SUFFICES ASSUME I PROVE AlertedOnce
        OBVIOUS
    <2>1. Cardinality(Active) < world.cap + Cardinality(world.asking)
        <3>1. world \in Worlds
            BY DEF LInv, Typed
        <3>2. IsFiniteSet(world.families) /\ IsFiniteSet(Flying) /\ world.cap \in Nat /\ Cardinality(world.asking) \in Nat
            <4>1. Flying \subseteq {shape[j] : j \in world.asking}
                BY DEF Flying, Family
            <4>. QED  BY <3>1, <4>1, FlyingFew
        <3>3. IsFiniteSet(Active)
            BY <3>2, ActiveIn, FS_Subset
        <3>4. IsFiniteSet(Active \cup Flying)
            BY <3>2, <3>3, FS_Union
        <3>5. Cardinality(Active) <= Cardinality(Active \cup Flying)
            BY <3>4, FS_Subset
        <3>6. Cardinality(Active) \in Nat /\ Cardinality(Active \cup Flying) \in Nat
            BY <3>3, <3>4, FS_CardinalityType
        <3>. QED  BY <3>2, <3>5, <3>6 DEF Bound
    <2>. QED  BY <2>1, TellsOnce DEF AlertedOnce, RecordsBounded
<1>. QED  BY <1>1, <1>2, <1>3, PTL DEF Spec

\* Under the ledger's lock only the checkpoint's own steps change the ledger.
LEMMA CheckKept ==
    ASSUME LInv, IInv, [Next]_vars
    PROVE  CheckKeeps
<1> SUFFICES ASSUME Doing("check") \/ Doing("redact") \/ Doing("compact"), NEW f \in Newest(world.active)
             PROVE  Projection'[f] = Projection[f]
    BY DEF CheckKeeps
<1>1. todo # <<>> /\ Head(todo).op \in {"check", "redact", "compact"}
    BY DEF Doing
<1>2. ~Free /\ \A op \in {"exhausted", "pending", "sent", "clear", "emit"} : ~Doing(op)
    BY <1>1 DEF Free, Doing
<1>3. UNCHANGED vars \/ Crash \/ Check \/ Redact \/ Compact
    BY <1>2, Zenon DEF Next, Adopt, Begin, Mint, Interrupt, Abandon, Decide, Exhaust, Deliver, Settle, ClearMinted, Shift,
           AppendExhausted, AppendNote, Emit, EmitFails, AskClear, Sweep, ApplyClear, LeaveWindow
<1>4. CASE UNCHANGED <<world, ledger>>
    BY <1>4, ProjectionStays
<1>5. CASE Check /\ ~UNCHANGED <<world, ledger>>
    <2>1. Appended([kind |-> "checkpoint", list |-> Kept]) /\ UNCHANGED world
        BY <1>5 DEF Check
    <2>2. Projection' = Kept
        BY <2>1, KeptSays DEF LInv
    <2>3. f \in world.families
        BY DEF Newest, Active
    <2>. QED  BY <2>2, <2>3 DEF Kept
<1>6. CASE Redact \/ Compact
    BY <1>6, RedactOwes, CompactOwes
<1>. QED  BY <1>3, <1>4, <1>5, <1>6 DEF vars, store, Crash

\* A checkpoint, its redaction and its compaction change nothing of what the
\* ledger says of the families it keeps, cut short by a crash or not
\* (checkpointCompressionQuarantineIfNeeded).
THEOREM LedgerKeepsAlways == Spec => LedgerKeeps
<1> DEFINE I == LInv /\ IInv
<1>1. Init => I
    BY InitOwes, InitKeeps
<1>2. I /\ [Next]_vars => I'
    BY LedgerNext, NextKeeps
<1>3. I /\ [Next]_vars => [CheckKeeps]_vars
    BY CheckKept
<1>. QED  BY <1>1, <1>2, <1>3, PTL DEF Spec, LedgerKeeps
=============================================================================
