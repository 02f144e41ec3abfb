-------------------------- MODULE MCBaseDeltaIterator --------------------------
(* Instances of BaseDeltaIterator for TLC: column family 1 is read, 0 and 2   *)
(* lie beside it in the index.                                              *)
EXTENDS BaseDeltaIterator

Types == {"put", "delete", "merge"}
InCf == {[type |-> t, cf |-> 1, key |-> k] : t \in Types, k \in Key}
Beside == {[type |-> "put", cf |-> c, key |-> 1] : c \in {0, 2}}
FewMerges == {u \in InCf \cup Beside : u.type = "merge" => u.key = 2}

FewStores == {<<{1, 3}, {}>>, <<{2}, {}>>, <<{1, 2, 3}, {2}>>}
================================================================================
