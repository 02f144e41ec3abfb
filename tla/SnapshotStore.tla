----------------------------- MODULE SnapshotStore -----------------------------
(***************************************************************************)
(* What the write path of autorocks promises its callers, with no locks,   *)
(* no transaction states and no calls in progress: a store of versions to  *)
(* which each transaction adds its writes once, all at one sequence        *)
(* number, and first committer wins among transactions that work from a    *)
(* snapshot.  `isolated` holds the transactions that take part in          *)
(* concurrency control; whoever opts out of it is promised nothing and     *)
(* may break the others' view of a key.                                    *)
(***************************************************************************)
EXTENDS Integers

CONSTANTS Key, Txn, NoTxn, MaxSeq

VARIABLES seq,       \* last published sequence number
          versions,  \* the committed writes: [key, seq, txn]
          snapshot,  \* sequence number a transaction works from, or NoSnapshot
          isolated   \* the transactions under concurrency control

vars == <<seq, versions, snapshot, isolated>>

NoSnapshot == -1
WritesOf(t) == {v \in versions : v.txn = t}

Init ==
  /\ seq = 0
  /\ versions = {}
  /\ snapshot = [t \in Txn |-> NoSnapshot]
  /\ isolated = Txn

\* A transaction begins: it may take a snapshot of the present, and it may opt
\* out of concurrency control.
Begin(t) ==
  /\ WritesOf(t) = {}
  /\ snapshot' \in {snapshot, [snapshot EXCEPT ![t] = seq]}
  /\ isolated' \in {isolated, isolated \ {t}}
  /\ UNCHANGED <<seq, versions>>

Add(t, w) ==
  /\ seq < MaxSeq
  /\ seq' = seq + 1
  /\ versions' = versions \cup
       {[key |-> k, seq |-> seq + 1, txn |-> t] : k \in w}
  /\ UNCHANGED <<snapshot, isolated>>

\* Nobody under concurrency control has written k since t's snapshot.
Unchanged(t, k) ==
  snapshot[t] # NoSnapshot =>
    \A v \in versions : v.key = k /\ v.txn \in isolated => v.seq <= snapshot[t]

Commit(t, w) ==
  /\ WritesOf(t) = {}
  /\ t \in isolated => \A k \in w : Unchanged(t, k)
  /\ Add(t, w)

Next ==
  \/ \E t \in Txn : Begin(t)
  \/ \E w \in SUBSET Key : Add(NoTxn, w) \/ \E t \in Txn : Commit(t, w)

Spec == Init /\ [][Next]_vars

-----------------------------------------------------------------------------
\* No lost update: when a transaction with a snapshot commits a key, nobody
\* else under concurrency control has committed that key in between.  This is
\* what `Transaction::put` promises by returning Busy for a key changed since
\* the transaction's snapshot (test_tx_and_tx_snapshot in src/tests/tests.rs).
NoLostUpdate ==
  \A v, w \in versions :
    /\ v.key = w.key /\ v.txn # w.txn
    /\ v.txn \in isolated /\ w.txn \in isolated
    /\ snapshot[v.txn] # NoSnapshot /\ w.seq > snapshot[v.txn]
    => w.seq > v.seq

\* A transaction's writes are published together and only once: a second
\* commit of the same object (refused by the code with InvalidArgument) or a
\* commit split in two would give it two sequence numbers.
AtomicCommit ==
  \A v, w \in versions : v.txn = w.txn /\ v.txn # NoTxn => v.seq = w.seq
================================================================================
