-------------------------- MODULE MCCompressionLane --------------------------
(* The worlds of the lane's run: each brings one kind of trouble, so that  *)
(* their state spaces add up.                                              *)
EXTENDS CompressionLane
Plain == [chunks |-> 3, groups |-> <<{1, 2}>>, cap |-> 9, holdback |-> 0, needsTools |-> FALSE,
          holdable |-> {}, persistent |-> 3, limit |-> 2, rungs |-> 1, maxReloads |-> 0, maxNoCalls |-> 0]
Contended == [Plain EXCEPT !.persistent = 2, !.rungs = 2]
Interrupted == [Plain EXCEPT !.maxNoCalls = 1, !.limit = 1, !.holdback = 1]
Held == [Plain EXCEPT !.holdable = {2}, !.persistent = 2, !.limit = 1]
Reloaded == [Plain EXCEPT !.chunks = 2, !.maxReloads = 2, !.limit = 1]
Toolless == [Plain EXCEPT !.needsTools = TRUE, !.limit = 1, !.persistent = 2, !.maxReloads = 1]
Capped == [Plain EXCEPT !.cap = 1]
TwoMerges == [Plain EXCEPT !.chunks = 4, !.groups = <<{1, 2}, {3, 4}>>, !.persistent = 2, !.limit = 1]
MCWorlds == {Contended, Interrupted, Held, Reloaded, Toolless, Capped, TwoMerges}
=============================================================================
