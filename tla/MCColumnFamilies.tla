---------------------------- MODULE MCColumnFamilies ----------------------------
(* Instances of ColumnFamilies for TLC.                                     *)
EXTENDS ColumnFamilies, TLC

RefSymmetry == Permutations(Ref)
================================================================================
