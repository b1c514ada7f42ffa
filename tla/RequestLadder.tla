---------------------------- MODULE RequestLadder ----------------------------
(***************************************************************************)
(* The requests of one chunk: a ladder of rungs asked until one answers    *)
(* with a usable summary, the progress a family of requests keeps in the   *)
(* store, and the ledger that quarantines a family whose ladder ended with *)
(* none.  Instances share one store handle of one process, so a family in  *)
(* flight is joined, never asked twice at once; each may ask in a family   *)
(* of its own.  A family's key, plan and hashes are its name here.  A rung *)
(* whose reasoning carriers the transport refuses is asked again in text   *)
(* within its one ask, and the split rung's many calls are one ask.        *)
(***************************************************************************)
EXTENDS Naturals, Sequences, SequencesExt, FiniteSets, KeptSequences

CONSTANTS Instance, Worlds, None
\* A world's fields:
\*   families, shape      the families there are; the one each instance asks in
\*   rungs, answers       the optional rungs there are; what a call may answer
\*   cap                  CHUNK_QUARANTINE_SHAPE_CAP
\*   checkpoint, active   COMPRESSION_QUARANTINE_CHECKPOINT_EVENTS, _MAX_ACTIVE
\*   legacy               families the first release's snapshot holds
\*   asking               the instances that ask
\*   maxCrashes, maxClears, maxShifts   bounds: restarts, clears and alerts that fail, new shapes
\*   maxLeaves            bound: runs withdrawn, and the row that leaves

VARIABLES
    world,
    ledger,    \* the ledger's events; None where one was redacted
    seq,       \* the number of the last event appended
    progress,  \* the outcomes each family's progress holds, or None
    covered,   \* whether an L1 of the chunk is in the store
    left,      \* whether a row of the chunk left the window
    shape,     \* the family an instance asks in
    run,       \* what each instance does with the chunk
    todo,      \* the appends still owed by whoever holds the ledger's lock
    clear,     \* the record an operator or the sweep observed, to clear
    alerts,    \* the generations alerted of, in order
    crashes, clears, shifts, leaves

\* What a world is made of, as far as the proofs need it.
ASSUME WorldsTyped == \A w \in Worlds :
    /\ w.shape \in [Instance -> w.families] /\ w.asking \subseteq Instance
    /\ IsFiniteSet(w.families) /\ IsFiniteSet(w.asking) /\ w.cap \in Nat

store == <<ledger, seq, progress, covered>>
vars == <<world, store, left, shape, run, todo, clear, alerts, crashes, clears, shifts, leaves>>

-----------------------------------------------------------------------------
(* The ledger, replayed. *)
Record == [gen : Nat, pending : BOOLEAN, sent : BOOLEAN]
Events(w) == [kind : {"exhausted"}, f : w.families, id : Nat]
             \cup [kind : {"pending", "sent", "clear"}, f : w.families, gen : Nat]
             \cup [kind : {"checkpoint"}, list : [w.families -> Record]]
ASSUME NoneIsNoEvent == \A w \in Worlds : None \notin Events(w)

NoFamily == [gen |-> 0, pending |-> FALSE, sent |-> FALSE]
Legacy == [f \in world.families |->
             IF f \in world.legacy THEN [gen |-> 1000, pending |-> FALSE, sent |-> TRUE] ELSE NoFamily]
Replay(p, e) ==
    CASE e = None -> p
      [] e # None /\ e.kind = "checkpoint" -> e.list
      [] e # None /\ e.kind = "exhausted" -> [p EXCEPT ![e.f] = [NoFamily EXCEPT !.gen = e.id]]
      [] e # None /\ e.kind \in {"clear", "pending", "sent"} ->
           IF p[e.f].gen # e.gen THEN p
           ELSE CASE e.kind = "clear" -> [p EXCEPT ![e.f] = NoFamily]
                  [] e.kind = "pending" -> [p EXCEPT ![e.f].pending = TRUE]
                  [] e.kind = "sent" -> [p EXCEPT ![e.f] = [gen |-> e.gen, pending |-> FALSE, sent |-> TRUE]]
Replayed(first, events) ==
    LET upTo[n \in 0..Len(events)] == IF n = 0 THEN first ELSE Replay(upTo[n - 1], events[n])
    IN upTo[Len(events)]
Projection == Replayed(Legacy, ledger)
Active == {f \in world.families : Projection[f].gen # 0}

(* The records of a span stop it once they are as many as the cap, though  *)
(* its own family is none of them.                                         *)
StopsOwn(f) == f \in Active
Stops(f) == f \in Active \/ Cardinality(Active) >= world.cap

-----------------------------------------------------------------------------
(* The ladder: the rungs in the order they are asked, and when one is due. *)
Rungs == <<"canonical", "no-tools", "toolless", "hoist", "expand", "source-only",
           "source-only-hoist", "split", "plain-prose">>
Got(k, r, o) == r \in DOMAIN k /\ k[r] = o
CanonicalRungs == {"canonical", "no-tools", "toolless"}
Rejected(k) == \E r \in CanonicalRungs : Got(k, r, "rejected")
Ended(k, wrapped) == wrapped \/ \E r \in CanonicalRungs : Got(k, r, "empty")
Due(k, wrapped) ==
    {"canonical"}
    \cup {r \in {"no-tools"} : Got(k, "canonical", "tool-use")}
    \cup {r \in {"toolless"} : Got(k, "no-tools", "tool-use")}
    \cup {r \in {"plain-prose"} : Ended(k, wrapped)}
    \cup {r \in world.rungs : ~Ended(k, wrapped) /\
            CASE r = "hoist" -> Got(k, "canonical", "refusal")
              [] r = "expand" -> ~Rejected(k)
              [] r = "source-only" -> TRUE
              [] r = "source-only-hoist" -> ~Rejected(k) /\ Got(k, "source-only", "refusal")
              [] r = "split" -> ~Rejected(k) /\ "source-only" \in world.rungs}
Unasked(k, wrapped) == {n \in DOMAIN Rungs : Rungs[n] \in Due(k, wrapped) \ DOMAIN k}

(* What a rung may answer but a usable summary: text that strips to        *)
(* nothing ends a ladder, or the canonical family's with plain prose.      *)
Outcomes(r) == world.answers \
    (CASE r \in {"canonical", "no-tools"} -> {}
       [] r = "split" -> {"tool-use", "empty", "incomplete"}
       [] OTHER -> {"tool-use"})
EndsLadder(r, o) == o = "empty" /\ r \in {"hoist", "source-only", "source-only-hoist"}

Idle == [stage |-> "idle", known |-> <<>>, ask |-> None, seen |-> FALSE, wrapped |-> FALSE, targets |-> {}]
Family(i) == shape[i]
InFlight(i) == run[i].stage \in {"asking", "ending", "alerting", "settling"}
Free == todo = <<>>
Step(r, k, wrapped) ==
    LET next == Unasked(k, wrapped) IN
    IF next = {} THEN [r EXCEPT !.stage = "ending", !.known = k, !.ask = None, !.wrapped = wrapped]
    ELSE [r EXCEPT !.stage = "asking", !.known = k, !.ask = Rungs[Min(next)], !.wrapped = wrapped]

(* A family in flight under the process is joined: its caller waits, and   *)
(* asks nothing.                                                           *)
JoinNone(i) == FALSE
Joins(i) == \E j \in Instance \ {i} : InFlight(j) /\ Family(j) = Family(i)
Forget(fs) == progress' = [f \in world.families |-> IF f \in fs THEN None ELSE progress[f]]

(* An exact L1 is adopted, and what the ledger holds of the chunk cleared. *)
Adopt(i) ==
    /\ Free /\ run[i].stage = "idle" /\ covered
    /\ Active \cup {f \in world.families : progress[f] # None} # {}
    /\ Forget(world.families)
    /\ run' = [run EXCEPT ![i] = [Idle EXCEPT !.stage = "clearing", !.targets = Active]]
    /\ UNCHANGED <<world, ledger, seq, covered, left, shape, todo, clear, alerts, crashes, clears, shifts, leaves>>

Begin(i) ==
    /\ Free /\ run[i].stage = "idle" /\ ~covered /\ ~left
    /\ ~Stops(Family(i)) /\ ~Joins(i)
    /\ LET p == progress[Family(i)] IN
       run' = [run EXCEPT ![i] = Step([Idle EXCEPT !.seen = p # None], IF p = None THEN <<>> ELSE p, FALSE)]
    /\ UNCHANGED <<world, store, left, shape, todo, clear, alerts, crashes, clears, shifts, leaves>>

(* Progress is written while the family is open: not seen yet, or there.   *)
OpenAlways(i) == TRUE
Open(i) == run[i].seen => progress[Family(i)] # None
Filled(k, more) == [r \in DOMAIN k \cup DOMAIN more |-> IF r \in DOMAIN k THEN k[r] ELSE more[r]]
Persist(i, k) ==
    progress' = IF ~Open(i) THEN progress
                ELSE [progress EXCEPT ![Family(i)] = IF @ = None THEN k ELSE Filled(@, k)]

(* An answer that is no usable summary, or a failure that decides.         *)
Decide(i, o) ==
    /\ Free /\ run[i].stage = "asking" /\ o \in Outcomes(run[i].ask)
    /\ LET r == run[i].ask
           k == Filled(run[i].known, [x \in {r} |-> o])
           seen == run[i].seen \/ Open(i) IN
       /\ Persist(i, k)
       /\ run' = [run EXCEPT ![i] =
            IF EndsLadder(r, o) THEN [run[i] EXCEPT !.stage = "ending", !.known = k, !.seen = seen, !.ask = None]
            ELSE Step([run[i] EXCEPT !.seen = seen], k, run[i].wrapped \/ (o = "empty" /\ r = "expand"))]
    /\ UNCHANGED <<world, ledger, seq, covered, left, shape, todo, clear, alerts, crashes, clears, shifts, leaves>>

(* A usable summary, unless a row left meanwhile.                          *)
Mint(i) ==
    /\ Free /\ run[i].stage = "asking"
    /\ IF left THEN run' = [run EXCEPT ![i] = Idle] /\ UNCHANGED <<progress, covered>>
       ELSE /\ covered' = TRUE /\ Forget(world.families)
            /\ run' = [run EXCEPT ![i] = [Idle EXCEPT !.stage = "clearing", !.targets = Active]]
    /\ UNCHANGED <<world, ledger, seq, left, shape, todo, clear, alerts, crashes, clears, shifts, leaves>>

(* A failure that decides nothing: what was decided is kept.               *)
Interrupt(i) ==
    /\ Free /\ run[i].stage = "asking"
    /\ Persist(i, run[i].known) /\ run' = [run EXCEPT ![i] = Idle]
    /\ UNCHANGED <<world, ledger, seq, covered, left, shape, todo, clear, alerts, crashes, clears, shifts, leaves>>

(* Withdrawn, or its branch was left: loading it again delivers what was   *)
(* pending.                                                                *)
Abandon(i) ==
    /\ Free /\ InFlight(i) /\ run[i].stage # "alerting"
    /\ leaves < world.maxLeaves /\ leaves' = leaves + 1
    /\ run' = [run EXCEPT ![i] = [Idle EXCEPT !.stage = "loading"]]
    /\ UNCHANGED <<world, store, left, shape, todo, clear, alerts, crashes, clears, shifts>>

-----------------------------------------------------------------------------
(* Under the ledger's lock: the appends one holder makes, each durable     *)
(* before the next.                                                        *)
Owe(op, f) == [op |-> op, f |-> f]
Appended(e) == ledger' = Append(ledger, e) /\ seq' = seq + 1
Doing(op) == todo # <<>> /\ Head(todo).op = op
Done == todo' = Tail(todo)

(* The ladder ended with no summary: the span and the ledger are asked     *)
(* again, and the family, before it is quarantined.                        *)
Exhaust(i) ==
    /\ Free /\ run[i].stage = "ending"
    /\ LET f == Family(i) IN
       CASE left -> run' = [run EXCEPT ![i] = Idle] /\ UNCHANGED todo
         [] ~left /\ f \in Active -> run' = [run EXCEPT ![i].stage = "settling"] /\ UNCHANGED todo
         [] ~left /\ f \notin Active /\ ~Open(i) -> run' = [run EXCEPT ![i] = Idle] /\ UNCHANGED todo
         [] OTHER -> /\ run' = [run EXCEPT ![i].stage = "alerting"]
                     /\ todo' = <<Owe("exhausted", f), Owe("pending", f), Owe("check", f)>>
    /\ UNCHANGED <<world, store, left, shape, clear, alerts, crashes, clears, shifts, leaves>>

AppendExhausted ==
    /\ Doing("exhausted") /\ Done
    /\ Appended([kind |-> "exhausted", f |-> Head(todo).f, id |-> seq + 1])
    /\ UNCHANGED <<world, progress, covered, left, shape, run, clear, alerts, crashes, clears, shifts, leaves>>
AppendNote ==
    /\ \E op \in {"pending", "sent", "clear"} :
         /\ Doing(op) /\ Done
         /\ Appended([kind |-> op, f |-> Head(todo).f, gen |-> Projection[Head(todo).f].gen])
    /\ UNCHANGED <<world, progress, covered, left, shape, run, clear, alerts, crashes, clears, shifts, leaves>>
Emit ==
    /\ Doing("emit") /\ Done
    /\ alerts' = Append(alerts, Projection[Head(todo).f].gen)
    /\ UNCHANGED <<world, store, left, shape, run, clear, crashes, clears, shifts, leaves>>
EmitFails ==
    /\ Doing("emit") /\ todo' = Tail(Tail(todo)) /\ clears < world.maxClears /\ clears' = clears + 1
    /\ UNCHANGED <<world, store, left, shape, run, clear, alerts, crashes, shifts, leaves>>

(* A checkpoint is appended first, then what it replaces is redacted, then *)
(* the state compacted.  It keeps the newest of the active families.       *)
Newest(n) == {f \in Active : Cardinality({g \in Active : Projection[g].gen % 1000 > Projection[f].gen % 1000}) < n}
KeptUnsent == [f \in world.families |->
    IF f \in Newest(world.active) THEN [Projection[f] EXCEPT !.pending = TRUE, !.sent = FALSE] ELSE NoFamily]
KeptNone == [f \in world.families |-> NoFamily]
Kept == [f \in world.families |-> IF f \in Newest(world.active) THEN Projection[f] ELSE NoFamily]
Check ==
    /\ Doing("check")
    /\ IF Len(ledger) < world.checkpoint THEN Done /\ UNCHANGED <<ledger, seq>>
       ELSE /\ Appended([kind |-> "checkpoint", list |-> Kept])
            /\ todo' = <<Owe("redact", None), Owe("compact", None)>> \o Tail(todo)
    /\ UNCHANGED <<world, progress, covered, left, shape, run, clear, alerts, crashes, clears, shifts, leaves>>
Redact ==
    /\ Doing("redact") /\ Done
    /\ ledger' = [n \in 1..Len(ledger) |-> IF n < Len(ledger) THEN None ELSE ledger[n]]
    /\ UNCHANGED <<world, seq, progress, covered, left, shape, run, clear, alerts, crashes, clears, shifts, leaves>>
Compact ==
    /\ Doing("compact") /\ Done
    /\ ledger' = Without(ledger, None)
    /\ UNCHANGED <<world, seq, progress, covered, left, shape, run, clear, alerts, crashes, clears, shifts, leaves>>

(* Pending alerts go out after an exhaustion and as a branch loads: each   *)
(* emitted, then said sent.                                                *)
Telling(order) == [n \in 1..(2 * Len(order)) |-> IF n % 2 = 1 THEN Owe("emit", order[(n + 1) \div 2]) ELSE Owe("sent", order[n \div 2])]
Deliver(i) ==
    /\ Free /\ run[i].stage \in {"alerting", "loading"}
    /\ \E order \in SetToSeqs({f \in Active : Projection[f].pending /\ ~Projection[f].sent}) :
         todo' = Telling(order) \o <<Owe("check", None)>>
    /\ run' = [run EXCEPT ![i] = IF @.stage = "loading" THEN Idle ELSE [@ EXCEPT !.stage = "settling"]]
    /\ UNCHANGED <<world, store, left, shape, clear, alerts, crashes, clears, shifts, leaves>>
Settle(i) ==
    /\ Free /\ run[i].stage = "settling"
    /\ Forget({Family(i)}) /\ run' = [run EXCEPT ![i] = Idle]
    /\ UNCHANGED <<world, ledger, seq, covered, left, shape, todo, clear, alerts, crashes, clears, shifts, leaves>>

(* A clear waits for the lock, and then clears the generation it observed, *)
(* with its family's progress.                                             *)
Observed(f) == [f |-> f, gen |-> Projection[f].gen]
ClearNow(t) ==
    IF Projection[t.f].gen = t.gen
    THEN Forget({t.f}) /\ todo' = <<Owe("clear", t.f), Owe("check", None)>>
    ELSE UNCHANGED <<progress, todo>>
ClearMinted(i) ==
    /\ Free /\ run[i].stage = "clearing"
    /\ IF run[i].targets \cap Active = {} THEN run' = [run EXCEPT ![i] = Idle] /\ UNCHANGED <<progress, todo>>
       ELSE \E f \in run[i].targets \cap Active :
              /\ run' = [run EXCEPT ![i].targets = @ \ {f}]
              /\ ClearNow(Observed(f))
    /\ UNCHANGED <<world, ledger, seq, covered, left, shape, clear, alerts, crashes, clears, shifts, leaves>>
AskClear(f) ==
    /\ Free /\ clear = None /\ f \in Active /\ clears < world.maxClears /\ clears' = clears + 1
    /\ clear' = Observed(f)
    /\ UNCHANGED <<world, store, left, shape, run, todo, alerts, crashes, shifts, leaves>>
(* The sweep clears what a summary of the span already paid off, and what  *)
(* no chunk has any more.                                                  *)
Sweep(f) ==
    /\ Free /\ clear = None /\ f \in Active /\ (covered \/ left)
    /\ clear' = Observed(f)
    /\ UNCHANGED <<world, store, left, shape, run, todo, alerts, crashes, clears, shifts, leaves>>
ApplyClear ==
    /\ Free /\ clear # None /\ clear' = None
    /\ ClearNow(clear)
    /\ UNCHANGED <<world, ledger, seq, covered, left, shape, run, alerts, crashes, clears, shifts, leaves>>

-----------------------------------------------------------------------------
(* A new frontier, model or setting gives an instance's next run a family  *)
(* of another shape.                                                       *)
Shift(i, f) ==
    /\ Free /\ run[i].stage = "idle" /\ ~covered /\ f # shape[i]
    /\ shifts < world.maxShifts /\ shifts' = shifts + 1
    /\ shape' = [shape EXCEPT ![i] = f]
    /\ UNCHANGED <<world, store, left, run, todo, clear, alerts, crashes, clears, leaves>>
LeaveWindow ==
    /\ Free /\ ~left /\ ~covered /\ left' = TRUE
    /\ leaves < world.maxLeaves /\ leaves' = leaves + 1
    /\ UNCHANGED <<world, store, shape, run, todo, clear, alerts, crashes, clears, shifts>>
Crash ==
    /\ crashes < world.maxCrashes /\ crashes' = crashes + 1
    /\ run' = [i \in Instance |-> [Idle EXCEPT !.stage = "loading"]]
    /\ todo' = <<>> /\ clear' = None
    /\ UNCHANGED <<world, store, left, shape, alerts, clears, shifts, leaves>>

Init ==
    /\ world \in Worlds
    /\ ledger = <<>> /\ seq = 0 /\ progress = [f \in world.families |-> None]
    /\ covered = FALSE /\ left = FALSE /\ shape = world.shape
    /\ run = [i \in Instance |-> Idle] /\ todo = <<>> /\ clear = None /\ alerts = <<>>
    /\ crashes = 0 /\ clears = 0 /\ shifts = 0 /\ leaves = 0

Next ==
    \/ \E i \in world.asking :
         \/ Adopt(i) \/ Begin(i) \/ Mint(i) \/ Interrupt(i) \/ Abandon(i)
         \/ \E o \in world.answers : Decide(i, o)
         \/ Exhaust(i) \/ Deliver(i) \/ Settle(i) \/ ClearMinted(i)
         \/ \E f \in world.families : Shift(i, f)
    \/ AppendExhausted \/ AppendNote \/ Emit \/ EmitFails \/ Check \/ Redact \/ Compact
    \/ \E f \in world.families : AskClear(f) \/ Sweep(f)
    \/ ApplyClear \/ LeaveWindow \/ Crash
Spec == Init /\ [][Next]_vars

-----------------------------------------------------------------------------
(* An answer is paid for once: no call asks a rung whose outcome the       *)
(* family's progress holds, across failures, sibling instances and         *)
(* restarts.                                                               *)
PaidOnce == \A i \in Instance : run[i].stage = "asking" =>
    (progress[Family(i)] # None => run[i].ask \notin DOMAIN progress[Family(i)])

(* A span that refuses does not fill the ledger as its requests change     *)
(* shape: its records pass the cap only by the ladders already under way.  *)
RecordsBounded == Cardinality(Active) < world.cap + Cardinality(world.asking)

(* What was dropped stays dropped: a ladder under way writes neither       *)
(* progress nor a quarantine for a family whose progress went since it saw *)
(* it, nor a quarantine for a span that left.                              *)
BringsNothingBack == \A i \in Instance : run[i].stage \in {"asking", "ending"} =>
    LET dropped == run[i].seen /\ progress[Family(i)] = None IN
    /\ dropped => progress'[Family(i)] = None
    /\ dropped \/ left => run'[i].stage # "alerting"
NothingBack == [][BringsNothingBack]_vars

(* A checkpoint, finished or cut short by a crash, changes nothing that    *)
(* the ledger says, but for the oldest families past the limit.            *)
CheckKeeps == Doing("check") \/ Doing("redact") \/ Doing("compact") =>
    \A f \in Newest(world.active) : Projection'[f] = Projection[f]
LedgerKeeps == [][CheckKeeps]_vars

(* Every quarantine is told once: again only after a crash, and unsent     *)
(* only while its alert is pending or the crash came before that was said. *)
ToldOnce ==
    /\ \A g \in ToSet(alerts) : Cardinality({n \in 1..Len(alerts) : alerts[n] = g}) <= 1 + crashes
    /\ \A f \in Active : Free /\ crashes = 0 => Projection[f].pending \/ Projection[f].sent

(* An alert is told once, and a span that is refused does not fill the     *)
(* ledger.                                                                 *)
AlertedOnce == ToldOnce /\ RecordsBounded
=============================================================================
