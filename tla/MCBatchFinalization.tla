------------------------ MODULE MCBatchFinalization ------------------------
(* BatchFinalization on a small instance: a Run that can be retried beside   *)
(* one with two items.                                                       *)
EXTENDS BatchFinalization, TLC

CONSTANTS r1, r2, i1, i2, i3

\* The Runs' shards.
TwoShards == (r1 :> {i1}) @@ (r2 :> {i2, i3})
OneShard  == r1 :> {i1}

\* The first Run can be retried, the second runs once; a Run on its own.
RetryOnce == (r1 :> 2) @@ (r2 :> 1)
Once      == r1 :> 1

\* Callers are interchangeable, and so are the items of one shard.
Symmetry == Permutations(Callers) \cup Permutations({i2, i3})

=============================================================================
