------------------------ MODULE MCHierarchicalSelect ------------------------
(* HierarchicalSelect where the code departs from what it says.            *)
EXTENDS HierarchicalSelect

Rows(kinds) == [n \in DOMAIN kinds |-> [kind |-> kinds[n], price |-> 1]]
Plain == [rows |-> Rows([n \in 1..7 |-> "text"]), pairs |-> {}, head |-> 1, tails |-> {1}, budget |-> 20, grace |-> 20,
          levels |-> <<9, 9, 9>>, tokens |-> <<1, 1, 1>>, label |-> 0, depth |-> 3, positioned |-> TRUE, cap |-> 0,
          resets |-> FALSE, holds |-> FALSE, pins |-> FALSE, turns |-> 1]
\* One recall pair of every summary, its answer held to a cap.
Combined == {[Plain EXCEPT !.positioned = FALSE, !.cap = 1]}
\* A call with two results, the second where the recent window comes to start.
Results == {[Plain EXCEPT !.rows = Rows(<<"text", "call", "result", "result", "text", "text">>),
                          !.pairs = {<<2, 3>>, <<2, 4>>}, !.tails = {1, 2}]}
=============================================================================
