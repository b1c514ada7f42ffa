---------------------------- MODULE KeptSequences ----------------------------
(***************************************************************************)
(* The filters of the source's lists: what a list keeps of a set, in its   *)
(* own order.  They are SelectSeq by the set that is kept, spelled out by  *)
(* the places kept so that facts about them can be proved                  *)
(* (CompressionLaneProofs).                                                *)
(***************************************************************************)
EXTENDS Naturals, Sequences, FiniteSets, SequencesExt

\* The part of q whose elements are of S.
Only(q, S) ==
    LET at == {i \in DOMAIN q : q[i] \in S}
        nth(n) == CHOOSE i \in at : Cardinality({j \in at : j <= i}) = n
    IN IF ToSet(q) \subseteq S THEN q ELSE [n \in 1..Cardinality(at) |-> q[nth(n)]]

\* q without k.
Without(q, k) == Only(q, ToSet(q) \ {k})
=============================================================================
