-------------------------- MODULE MCPointLockManager --------------------------
EXTENDS PointLockManager, TLC
CONSTANTS k1, k2, k3, s1, s2, c1, c2
Keys == {k1, k2}
TwoStripes == (k1 :> s1) @@ (k2 :> s2)
TwoColumnFamilies == (s1 :> c1) @@ (s2 :> c2)
OneColumnFamily == (s1 :> c1) @@ (s2 :> c1)
FewRequests == {<<k1, TRUE, TRUE>>, <<k2, FALSE, TRUE>>, <<k2, TRUE, FALSE>>, <<k2, TRUE, TRUE>>}
ThreeKeys == {k1, k2, k3}
ThreeInTwoStripes == (k1 :> s1) @@ (k2 :> s2) @@ (k3 :> s1)
CycleRequests == {<<k1, TRUE, TRUE>>, <<k2, FALSE, TRUE>>, <<k2, TRUE, TRUE>>, <<k3, TRUE, TRUE>>}
Families == {c1, c2}
Symmetry == Permutations(Txn)
================================================================================
