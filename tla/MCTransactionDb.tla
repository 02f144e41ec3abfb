---------------------------- MODULE MCTransactionDb ----------------------------
(* Instances of TransactionDb for TLC.                                      *)
EXTENDS TransactionDb, FiniteSets, TLC

TxnSymmetry == Permutations(Txn)

Default == InternalOptions
WithSnapshot == [Default EXCEPT !.set_snapshot = TRUE]
Expiring == [Default EXCEPT !.expires = TRUE]
NoConcurrencyControl == [Default EXCEPT !.skip_concurrency_control = TRUE]
Unprepared == [Default EXCEPT !.skip_prepare = FALSE]

OnlyExpiring == {Expiring}
OptingOut == {WithSnapshot, NoConcurrencyControl, Unprepared}
NoBatches == {}
AllKeys == {Key}
================================================================================
