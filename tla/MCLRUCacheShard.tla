---------------------------- MODULE MCLRUCacheShard ----------------------------
(* Instances of LRUCacheShard for TLC.                                       *)
EXTENDS LRUCacheShard, TLC

Symmetry == Permutations(Handle) \cup Permutations(Key)
Item(n, p) == {[key |-> k, charge |-> n, priority |-> p] : k \in Key}
Items == UNION {Item(n, p) : n \in {1, 2}, p \in {"high", "low"}}
SomeItems == Item(1, "high") \cup Item(2, "low")

\* With a low-pri pool the capacity stays what it is.
NoShrinking == [low \in LowRatios |-> IF low = 0 THEN {2, 3} ELSE {3}]
Shrinking == [low \in LowRatios |-> {3, 4}]
================================================================================
