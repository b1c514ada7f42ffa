----------------------------- MODULE ToolPairing -----------------------------
(***************************************************************************)
(* The pairing repair of a compile (postProcessToolEntries of              *)
(* src/src/strategies/autobiographical.ts) and the split of messages that  *)
(* hold whole tool cycles (src/src/normalize-tool-messages.ts).  A         *)
(* selection leaves entries out anywhere, and a provider takes a tool_use  *)
(* only before a message of its results.                                   *)
(*                                                                         *)
(* A block is its kind, the call's id, and whether a result is the tool's  *)
(* own: a stub is not.                                                     *)
(***************************************************************************)
EXTENDS Naturals, Sequences, SequencesExt, FiniteSets

CONSTANTS
    Messages,    \* what an entry may be of: a role and blocks
    LookAhead,   \* LOOKAHEAD, 6 in the source
    MaxEntries   \* bound

VARIABLE entries   \* what the selection emitted, in order
vars == <<entries>>

Text == [kind |-> "text", id |-> 0, own |-> FALSE]
Use(id) == [kind |-> "use", id |-> id, own |-> FALSE]
Result(id) == [kind |-> "result", id |-> id, own |-> TRUE]
Stub(id) == [kind |-> "result", id |-> id, own |-> FALSE]

IdsOf(blocks, kind) == {b.id : b \in {x \in ToSet(blocks) : x.kind = kind}}
Holds(blocks, kind) == \E b \in ToSet(blocks) : b.kind = kind
\* The calls of some blocks, each once, in order.
Calls(blocks) == FoldLeft(LAMBDA ids, b : IF b.kind = "use" /\ b.id \notin ToSet(ids) THEN Append(ids, b.id) ELSE ids, <<>>, blocks)

\* A run is results or none.
Runs(blocks) ==
    FoldLeft(LAMBDA runs, b :
        IF runs # <<>> /\ (Last(runs)[1].kind = "result") = (b.kind = "result")
        THEN [runs EXCEPT ![Len(runs)] = Append(@, b)] ELSE Append(runs, <<b>>), <<>>, blocks)
\* cycleParts: a run that answers a call of the same content is a part, and so
\* is what follows it.
CycleParts(blocks) ==
    FoldLeft(LAMBDA cut, run :
        LET cycle == IdsOf(run, "result") \cap cut.waiting # {} IN
        [parts |-> IF cut.parts = <<>> \/ cycle \/ cut.after THEN Append(cut.parts, run)
                   ELSE [cut.parts EXCEPT ![Len(cut.parts)] = @ \o run],
         waiting |-> (cut.waiting \cup IdsOf(run, "use")) \ IdsOf(run, "result"),
         after |-> cycle],
      [parts |-> <<>>, waiting |-> {}, after |-> FALSE], Runs(blocks)).parts

\* An entry cut, its parts of one unit; a part that is emptied adds nothing.
Cut(es) ==
    FlattenSeq([u \in DOMAIN es |->
        LET parts == CycleParts(es[u].blocks)
        IN [n \in DOMAIN parts |-> [unit |-> u, blocks |-> parts[n], whole |-> Len(parts) = 1]]])
Emptied(part, blocks) == [part EXCEPT !.blocks = IF blocks = <<>> /\ part.whole THEN <<Text>> ELSE blocks]

-----------------------------------------------------------------------------
(* repairToolPairing.                                                      *)
\* Mutant of Answering: a second answer to one call stays.
AnsweringTwice(blocks, calls) == SelectSeq(blocks, LAMBDA b : b.kind = "result" => b.id \in calls)
\* The results that answer the part before, each once.
Answering(blocks, calls) ==
    FoldLeft(LAMBDA kept, b :
        IF b.kind = "result" /\ (b.id \notin calls \/ b.id \in IdsOf(kept, "result")) THEN kept ELSE Append(kept, b), <<>>, blocks)

\* Mutant of Reach: the parts behind it are counted, not their units.
ReachParts(ps, i) == {j \in i + 1 .. Len(ps) : j <= i + LookAhead}
\* The parts a displaced result is looked for in.
Reach(ps, i) ==
    {j \in i + 1 .. Len(ps) : Cardinality({k \in i + 1 .. j : ps[k].unit # ps[k - 1].unit}) <= LookAhead}

\* relocateOrDropMissingResults: each missing result, from within reach or a stub.
Relocated(ps, i, missing) ==
    FoldLeft(LAMBDA acc, id :
        LET at == {j \in Reach(ps, i) : id \in IdsOf(acc.parts[j].blocks, "result")} IN
        IF at = {} THEN [acc EXCEPT !.results = Append(@, Stub(id))]
        ELSE LET j == CHOOSE x \in at : \A y \in at : x <= y
                 n == SelectInSeq(acc.parts[j].blocks, LAMBDA b : b.kind = "result" /\ b.id = id)
             IN [parts |-> [acc.parts EXCEPT ![j] = Emptied(@, RemoveAt(@.blocks, n))],
                 results |-> Append(acc.results, acc.parts[j].blocks[n])],
      [parts |-> ps, results |-> <<>>], missing)

RECURSIVE RepairFrom(_, _, _)
RepairFrom(ps, i, calls) ==
    IF i > Len(ps)
    THEN IF calls = <<>> THEN ps
         ELSE Append(ps, [unit |-> 0, blocks |-> [n \in DOMAIN calls |-> Stub(calls[n])], whole |-> TRUE])
    ELSE LET kept == Emptied(ps[i], Answering(ps[i].blocks, ToSet(calls)))
             answered == IdsOf(kept.blocks, "result")
             moved == Relocated([ps EXCEPT ![i] = kept], i, SelectSeq(calls, LAMBDA id : id \notin answered))
         IN IF moved.results = <<>> THEN RepairFrom(moved.parts, i + 1, Calls(kept.blocks))
            ELSE IF answered # {}
                 THEN RepairFrom([moved.parts EXCEPT ![i].blocks = moved.results \o @], i + 1, Calls(kept.blocks))
                 ELSE RepairFrom(InsertAt(moved.parts, i, [unit |-> 0, blocks |-> moved.results, whole |-> TRUE]), i + 1, <<>>)

\* enforceToolPairing: the parts of a unit, and what stands between them, fold
\* back into its entry; what stands elsewhere is a user entry of its own.
FoldedBack(es, ps) ==
    LET of(u) == {n \in DOMAIN ps : ps[n].unit = u}
        first(u) == CHOOSE n \in of(u) : \A k \in of(u) : n <= k
        last(u) == CHOOSE n \in of(u) : \A k \in of(u) : k <= n
        inside(n) == \E u \in DOMAIN es : first(u) < n /\ n <= last(u)
        heads == SelectSeq([n \in DOMAIN ps |-> n], LAMBDA n : ~inside(n))
    IN [k \in DOMAIN heads |->
          IF ps[heads[k]].unit = 0 THEN [role |-> "user", blocks |-> ps[heads[k]].blocks]
          ELSE LET u == ps[heads[k]].unit IN
               [role |-> es[u].role,
                blocks |-> FlattenSeq([n \in 1 .. last(u) - first(u) + 1 |-> ps[first(u) + n - 1].blocks])]]
\* trimOrphanedToolUse.
RECURSIVE Trimmed(_)
Trimmed(es) ==
    IF es # <<>> /\ Holds(Last(es).blocks, "use") /\ ~Holds(Last(es).blocks, "result") THEN Trimmed(Front(es)) ELSE es
PostProcess(es) == LET kept == Trimmed(es) IN FoldedBack(kept, RepairFrom(Cut(kept), 1, <<>>))

\* splitMixedToolMessages: a run of results is a user's message.
Split(es) ==
    FlattenSeq([u \in DOMAIN es |->
        IF es[u].role = "user" \/ ~Holds(es[u].blocks, "result") THEN <<es[u]>>
        ELSE LET runs == Runs(es[u].blocks)
             IN [n \in DOMAIN runs |->
                   [role |-> IF runs[n][1].kind = "result" THEN "user" ELSE es[u].role, blocks |-> runs[n]]]])

-----------------------------------------------------------------------------
Emit(m) == Len(entries) < MaxEntries /\ entries' = Append(entries, m)
Init == entries = <<>>
Next == \E m \in Messages : Emit(m)
Spec == Init /\ [][Next]_vars

Answers(message, calls) ==
    LET results == SelectSeq(message.blocks, LAMBDA b : b.kind = "result")
    IN IdsOf(results, "result") = calls /\ Len(results) = Cardinality(calls)
Pairs(sent) ==
    /\ \A n \in DOMAIN sent : Answers(sent[n], IF n = 1 THEN {} ELSE IdsOf(sent[n - 1].blocks, "use"))
    /\ sent # <<>> => ~Holds(Last(sent).blocks, "use")
\* Whatever the selection left out, a request pairs: every call is answered,
\* once, in the message right after its own, and every result answers a call
\* of the message right before (bug 6.7).
RequestPairs == Pairs(Split(PostProcess(entries)))

\* A result the selection moved away from its call, not further than the
\* look-ahead, is sent, and no stub in its place.
DisplacedIsSent ==
    LET kept == Trimmed(entries)
        places(id, kind) == {<<u, n>> \in (DOMAIN kept) \X (1 .. 4) :
                                n \in DOMAIN kept[u].blocks /\ kept[u].blocks[n].kind = kind /\ kept[u].blocks[n].id = id}
        ids == UNION {IdsOf(kept[u].blocks, "use") : u \in DOMAIN kept}
    IN \A id \in ids : \A p \in places(id, "use"), q \in places(id, "result") :
         /\ places(id, "use") = {p} /\ places(id, "result") = {q}
         /\ p[1] < q[1] /\ q[1] <= p[1] + LookAhead + 1
         => \E m \in ToSet(PostProcess(entries)) : Result(id) \in ToSet(m.blocks)
=============================================================================
