------------------------------ MODULE ContextLog ------------------------------
(***************************************************************************)
(* The context log of a namespace (src/src/context-log.ts): entries made   *)
(* from messages, each stored with its index and found by its message, and *)
(* what the manager does to them when a message is edited or removed       *)
(* (src/src/context-manager.ts).                                           *)
(***************************************************************************)
EXTENDS Naturals, Sequences, SequencesExt, FiniteSets

CONSTANTS Messages, MaxEntries

VARIABLES
    entries,  \* the log: each entry's message, relation and stored index
    found,    \* sourceToIndices: per message, the indices it is found at
    astray    \* history: an edit or a removal of a message reached another's entry
vars == <<entries, found, astray>>

Relations == {"copy", "derived"}
Positions(es, m) == {i \in DOMAIN es : es[i].src = m}
\* rebuildSourceIndex.
Rebuilt(es) == [m \in Messages |-> Positions(es, m)]
\* findBySource.
FindBySource(m) == {entries[i] : i \in found[m] \cap DOMAIN entries}
Copies(m) == {e.index : e \in {x \in FindBySource(m) : x.rel = "copy"}}

Appended(es, m, rel) == Append(es, [src |-> m, rel |-> rel, index |-> Len(es) + 1])
AppendEntry(m, rel) ==
    /\ Len(entries) < MaxEntries
    /\ entries' = Appended(entries, m, rel)
    /\ found' = [found EXCEPT ![m] = @ \cup {Len(entries) + 1}]
    /\ UNCHANGED astray
\* The entries at S redacted.
Redacted(S) ==
    LET left == SetToSortSeq(DOMAIN entries \ S, LAMBDA x, y : x < y)
    IN [n \in DOMAIN left |-> entries[left[n]]]
RemoveEntry(i) ==
    /\ entries' = Redacted({i}) /\ found' = Rebuilt(entries')
    /\ UNCHANGED astray
RemoveRange(a, z) ==
    /\ a <= z /\ entries' = Redacted(a .. z) /\ found' = Rebuilt(entries')
    /\ UNCHANGED astray
\* The log is cleared, and one entry written.
ReplaceEntries(m, rel) ==
    /\ entries' = Appended(<<>>, m, rel)
    /\ found' = [found EXCEPT ![m] = @ \cup {1}]
    /\ UNCHANGED astray
\* handleMessageEdit, handleMessageRemove: what a message's copies are
\* reached by is their stored index.
Reaches(m) == astray' = (astray \/ \E i \in Copies(m) \cap DOMAIN entries : entries[i].src # m)
MessageEdited(m) == Reaches(m) /\ UNCHANGED <<entries, found>>
MessageRemoved(m) ==
    /\ Copies(m) # {} /\ Copies(m) \subseteq DOMAIN entries
    /\ Reaches(m)
    /\ entries' = Redacted(Copies(m)) /\ found' = Rebuilt(entries')

Init == entries = <<>> /\ found = [m \in Messages |-> {}] /\ astray = FALSE
Next ==
    \/ \E m \in Messages :
         \/ \E rel \in Relations : AppendEntry(m, rel) \/ ReplaceEntries(m, rel)
         \/ MessageEdited(m) \/ MessageRemoved(m)
    \/ \E i \in DOMAIN entries : RemoveEntry(i) \/ (\E z \in DOMAIN entries : RemoveRange(i, z))
Spec == Init /\ [][Next]_vars

\* ContextEntry.index is the "index in the context log" also of an entry
\* found by its message: what the manager edits or removes by it is that
\* message's entry (findBySource, handleMessageEdit, handleMessageRemove).
IndexIsPlace ==
    /\ \A m \in Messages : \A e \in FindBySource(m) : e.index \in DOMAIN entries /\ entries[e.index] = e
    /\ ~astray
=============================================================================
