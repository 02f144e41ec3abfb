--------------------------- MODULE BaseDeltaIterator ---------------------------
(***************************************************************************)
(* How a transaction reads its own writes: the skip list that indexes its  *)
(* write batch, point reads through it, and the iterator that merges it    *)
(* with an iterator of the database, under autorocks' DbIterator.          *)
(*                                                                         *)
(* A write batch is the sequence of its records, and the offset of a       *)
(* record is its position in it.  A value is the sequence of what it is    *)
(* made of: the offset of a Put, 0 for the committed value or Nothing, and *)
(* the offsets of the Merge operands applied to it, oldest first.  The     *)
(* database's own iterator is external: a cursor over the keys of its      *)
(* snapshot, which stops with an error on a key it cannot read.  The batch *)
(* is not written while an iterator is open.  Iterators have no bounds.    *)
(***************************************************************************)
EXTENDS Integers, SequencesExt

CONSTANTS Key,         \* the user keys, integers
          Cf,          \* the column family that is read
          Stores,      \* the committed data: <<keys, those that cannot be read>>
          Updates,     \* what may be written: [type, cf, key]
          MaxUpdates,  \* bound on the records of a batch
          None         \* no key, no iterator

ASSUME StoresAssumption == \A s \in Stores : s[1] \subseteq Key /\ s[2] \subseteq s[1]
ASSUME UpdatesAssumption ==
  Updates \subseteq [type : {"put", "delete", "merge"}, cf : Int, key : Key]

VARIABLES ops,         \* the records of the batch
          skipList,    \* its index: [cf, key, off], sorted
          base,        \* the keys committed in column family Cf
          bad,         \* those of them that cannot be read
          it,          \* the BaseDeltaIterator, or None
          direction,   \* of the DbIterator
          just_seeked,
          call, item   \* the last call on the DbIterator, and its result

batchVars == <<ops, skipList>>
storeVars == <<base, bad>>
vars == <<batchVars, storeVars, it, direction, just_seeked, call, item>>

Nothing == -1
Gone == <<>>

-----------------------------------------------------------------------------
\* WBWIIteratorImpl: a position of the skip list L, 0 when off its ends, read
\* for one column family.

Valid(L, cf, p) == p # 0 /\ L[p].cf = cf

\* WBWIIteratorImpl::Next and Prev
Move(L, p, forward) == IF forward THEN (p + 1) % (Len(L) + 1) ELSE p - 1

Seek(L, cf, k) ==
  SelectInSeq(L, LAMBDA e : e.cf > cf \/ (e.cf = cf /\ e.key >= k))
SeekForPrev(L, cf, k) ==
  SelectLastInSeq(L, LAMBDA e : e.cf < cf \/ (e.cf = cf /\ e.key <= k))
SeekToFirst(L, cf) == SelectInSeq(L, LAMBDA e : e.cf >= cf)
SeekToLast(L, cf) == SelectLastInSeq(L, LAMBDA e : e.cf <= cf)

MatchesKey(L, cf, p, key) == Valid(L, cf, p) /\ L[p].key = key

AdvanceKey(L, cf, p, forward) ==
  LET past[q \in 0 .. Len(L)] ==
        IF MatchesKey(L, cf, q, L[p].key) THEN past[Move(L, q, forward)] ELSE q
  IN IF Valid(L, cf, p) THEN past[p] ELSE p

NextKey(L, cf, p) == AdvanceKey(L, cf, p, TRUE)

\* To the tail of the previous key, past its start, and back onto it.
PrevKey(L, cf, p) ==
  LET tail == AdvanceKey(L, cf, p, FALSE)
      past == AdvanceKey(L, cf, tail, FALSE)
  IN IF ~Valid(L, cf, tail) THEN tail
     ELSE IF Valid(L, cf, past) THEN Move(L, past, TRUE)
     ELSE SeekToFirst(L, cf)

\* The last record of the key at p
LastOfKey(L, cf, p) ==
  LET n == NextKey(L, cf, p)
  IN IF Valid(L, cf, n) THEN Move(L, n, FALSE) ELSE SeekToLast(L, cf)

\* Back from the newest record of the key at p, collecting Merge operands, to
\* its Put or Delete.  With none of either the cursor returns to the first
\* record of the key.
FindLatestUpdate(L, cf, p) ==
  LET scan[q \in 0 .. Len(L)] ==
        IF ~MatchesKey(L, cf, q, L[p].key)
        THEN [at |-> IF Valid(L, cf, q) THEN Move(L, q, TRUE) ELSE SeekToFirst(L, cf),
              result |-> "kMergeInProgress", operands |-> <<>>]
        ELSE CASE ops[L[q].off].type = "put" ->
                    [at |-> q, result |-> "kFound", operands |-> <<>>]
               [] ops[L[q].off].type = "delete" ->
                    [at |-> q, result |-> "kDeleted", operands |-> <<>>]
               [] ops[L[q].off].type = "merge" ->
                    LET older == scan[q - 1]
                    IN [older EXCEPT !.operands = Append(@, L[q].off)]
  IN scan[LastOfKey(L, cf, p)]

-----------------------------------------------------------------------------
\* WriteBatchWithIndex::Rep: the index of a batch.

\* WriteBatchEntryComparator: column family, key, offset.
Before(e, f) ==
  \/ e.cf < f.cf
  \/ e.cf = f.cf /\ e.key < f.key
  \/ e.cf = f.cf /\ e.key = f.key /\ e.off < f.off

AddNewEntry(L, e) ==
  InsertAt(L, 1 + SelectLastInSeq(L, LAMBDA f : Before(f, e)), e)

\* Mutant: moves the first entry of the key to the new record, not the last.
UpdatedEntry_First(L, cf, p) == p

\* The entry that a new Put or Delete of the key at p takes over
UpdatedEntry(L, cf, p) == LastOfKey(L, cf, p)

\* A Put or Delete takes over the last entry of its key; a Merge adds one.
AddOrUpdateIndex(L, u, off) ==
  LET p == Seek(L, u.cf, u.key)
  IN IF MatchesKey(L, u.cf, p, u.key) /\ u.type # "merge"
     THEN LET q == UpdatedEntry(L, u.cf, p)
          IN ReplaceAt(L, q, [L[q] EXCEPT !.off = off])
     ELSE AddNewEntry(L, [cf |-> u.cf, key |-> u.key, off |-> off])

\* All records of a batch, in order
ReBuildIndex(batch) ==
  LET indexed[n \in 0 .. Len(batch)] ==
        IF n = 0 THEN <<>> ELSE AddOrUpdateIndex(indexed[n - 1], batch[n], n)
  IN indexed[Len(batch)]

-----------------------------------------------------------------------------
\* MergeKey: operands applied to a value, or to nothing.
MergeKey(value, operands) ==
  (IF value = Gone THEN <<Nothing>> ELSE value) \o operands

BaseValue(k) == IF k \in base THEN <<0>> ELSE Gone

\* WriteBatchWithIndexInternal::GetFromBatch: found, deleted, to be merged with
\* the committed value, or not in the batch.
GetFromBatch(k) ==
  LET p == Seek(skipList, Cf, k)
      found == FindLatestUpdate(skipList, Cf, p)
      put == <<skipList[found.at].off>>
  IN IF ~MatchesKey(skipList, Cf, p, k)
     THEN [result |-> "kNotFound", value |-> Gone, operands |-> <<>>]
     ELSE CASE found.result = "kFound" ->
                 [result |-> "kFound", value |-> put \o found.operands, operands |-> <<>>]
            [] found.result = "kDeleted" /\ found.operands # <<>> ->
                 [result |-> "kFound", value |-> MergeKey(Gone, found.operands), operands |-> <<>>]
            [] OTHER ->
                 [result |-> found.result, value |-> Gone, operands |-> found.operands]

\* GetFromBatchAndDB: the value, Gone for NotFound, None for a read error.
GetFromBatchAndDB(k) ==
  LET batch == GetFromBatch(k)
  IN CASE batch.result = "kFound" -> batch.value
       [] batch.result = "kDeleted" -> Gone
       [] batch.result \in {"kNotFound", "kMergeInProgress"} /\ k \in bad -> None
       [] batch.result = "kMergeInProgress" /\ k \notin bad ->
            MergeKey(BaseValue(k), batch.operands)
       [] batch.result = "kNotFound" /\ k \notin bad -> BaseValue(k)

-----------------------------------------------------------------------------
\* The database's iterator.
Smallest(S) == IF S = {} THEN None ELSE Min(S)
Largest(S) == IF S = {} THEN None ELSE Max(S)

BaseAt(i, k) ==
  [i EXCEPT !.base = IF k \in bad THEN None ELSE k, !.baseOk = k \notin bad]
BaseSeek(i, k) == BaseAt(i, Smallest({j \in base : j >= k}))
BaseSeekForPrev(i, k) == BaseAt(i, Largest({j \in base : j <= k}))
BaseSeekToFirst(i) == BaseAt(i, Smallest(base))
BaseSeekToLast(i) == BaseAt(i, Largest(base))

AdvanceBase(i) ==
  BaseAt(i, IF i.forward THEN Smallest({j \in base : j > i.base})
                         ELSE Largest({j \in base : j < i.base}))

-----------------------------------------------------------------------------
\* BaseDeltaIterator: base and its status, delta (a position in the skip list),
\* the merge context, current_at_base_, forward_, equal_keys_ and status_.

NewIterator ==
  [base |-> None, baseOk |-> TRUE, delta |-> 0, operands |-> <<>>,
   atBase |-> TRUE, forward |-> TRUE, equal |-> FALSE, ok |-> TRUE]

BaseValid(i) == i.base # None
DeltaValid(i) == Valid(skipList, Cf, i.delta)
DeltaKey(i) == skipList[i.delta].key
IsValid(i) == i.ok /\ (IF i.atBase THEN BaseValid(i) ELSE DeltaValid(i))
key(i) == IF i.atBase THEN i.base ELSE DeltaKey(i)

value(i) ==
  LET off == skipList[i.delta].off
  IN CASE i.atBase -> BaseValue(i.base)
       [] ~i.atBase /\ ops[off].type = "put" -> <<off>> \o i.operands
       [] ~i.atBase /\ ops[off].type = "delete" -> MergeKey(Gone, i.operands)
       [] ~i.atBase /\ ops[off].type = "merge" ->
            MergeKey(IF i.equal THEN BaseValue(i.base) ELSE Gone, i.operands)

status(i) == i.ok /\ i.baseOk

AdvanceDelta(i) ==
  [i EXCEPT !.delta = IF i.forward THEN NextKey(skipList, Cf, @) ELSE PrevKey(skipList, Cf, @)]

SameKey(i) == BaseValid(i) /\ DeltaValid(i) /\ i.base = DeltaKey(i)

\* Is the key of the batch the one to show, both or only it being there?
DeltaFirst(i) ==
  ~BaseValid(i) \/ (IF i.forward THEN DeltaKey(i) <= i.base ELSE DeltaKey(i) >= i.base)

\* Does the batch remove the key?
Hidden(result, operands) == result = "kDeleted" /\ operands = <<>>

\* Mutant: a deleted key is skipped in the batch only.
SkipDeleted_DeltaOnly(i) == AdvanceDelta(i)

\* Past a key that the batch removes, in both
SkipDeleted(i) == IF i.equal THEN AdvanceBase(AdvanceDelta(i)) ELSE AdvanceDelta(i)

RECURSIVE UpdateCurrent(_)
UpdateCurrent(i) ==
  LET found == FindLatestUpdate(skipList, Cf, i.delta)
      started == [i EXCEPT !.ok = TRUE, !.equal = FALSE]
      j == IF DeltaValid(i)
           THEN [started EXCEPT !.delta = found.at, !.operands = found.operands]
           ELSE started
      e == [j EXCEPT !.equal = SameKey(j)]
  IN CASE ~BaseValid(j) /\ ~j.baseOk -> [j EXCEPT !.atBase = TRUE]
       [] ~BaseValid(j) /\ j.baseOk /\ ~DeltaValid(j) -> j
       [] BaseValid(j) /\ (~DeltaValid(j) \/ ~DeltaFirst(j)) -> [j EXCEPT !.atBase = TRUE]
       [] OTHER -> IF Hidden(found.result, found.operands)
                   THEN UpdateCurrent(SkipDeleted(e))
                   ELSE [e EXCEPT !.atBase = FALSE]

SeekIterator(i, k) ==
  UpdateCurrent([BaseSeek([i EXCEPT !.forward = TRUE], k)
                   EXCEPT !.delta = Seek(skipList, Cf, k)])
SeekForPrevIterator(i, k) ==
  UpdateCurrent([BaseSeekForPrev([i EXCEPT !.forward = FALSE], k)
                   EXCEPT !.delta = SeekForPrev(skipList, Cf, k)])
SeekIteratorToFirst(i) ==
  UpdateCurrent([BaseSeekToFirst([i EXCEPT !.forward = TRUE])
                   EXCEPT !.delta = SeekToFirst(skipList, Cf)])
SeekIteratorToLast(i) ==
  UpdateCurrent([BaseSeekToLast([i EXCEPT !.forward = FALSE])
                   EXCEPT !.delta = SeekToLast(skipList, Cf)])

\* Mutant: leaves the other iterator where it is.
ChangeDirection_CurrentOnly(i, forward) == [i EXCEPT !.forward = forward, !.equal = FALSE]

\* The iterator that is not current moves to the other side of the current key.
ChangeDirection(i, forward) ==
  LET j == [i EXCEPT !.forward = forward]
      t == CASE ~BaseValid(j) -> IF forward THEN BaseSeekToFirst(j) ELSE BaseSeekToLast(j)
             [] BaseValid(j) /\ ~DeltaValid(j) ->
                  [j EXCEPT !.delta = IF forward THEN SeekToFirst(skipList, Cf)
                                                 ELSE SeekToLast(skipList, Cf)]
             [] BaseValid(j) /\ DeltaValid(j) ->
                  IF j.atBase THEN AdvanceDelta(j) ELSE AdvanceBase(j)
  IN [t EXCEPT !.equal = SameKey(t)]

Advance(i) ==
  UpdateCurrent(CASE i.equal -> AdvanceDelta(AdvanceBase(i))
                  [] ~i.equal /\ i.atBase -> AdvanceBase(i)
                  [] ~i.equal /\ ~i.atBase -> AdvanceDelta(i))

\* Next (forward) and Prev
Step(i, forward) ==
  IF ~IsValid(i) THEN [i EXCEPT !.ok = FALSE]
  ELSE Advance(IF i.forward = forward THEN i ELSE ChangeDirection(i, forward))

-----------------------------------------------------------------------------
Init ==
  /\ ops = <<>> /\ skipList = <<>>
  /\ \E s \in Stores : base = s[1] /\ bad = s[2]
  /\ it = None /\ direction = None /\ just_seeked = FALSE
  /\ call = <<"none">> /\ item = None

\* Put, Delete, SingleDelete and Merge of the transaction
Write(u) ==
  /\ it = None
  /\ Len(ops) < MaxUpdates
  /\ ops' = Append(ops, u)
  /\ skipList' = AddOrUpdateIndex(skipList, u, Len(ops) + 1)
  /\ UNCHANGED <<storeVars, it, direction, just_seeked, call, item>>

\* To a savepoint set after the n-th record; Clear is n = 0.
RollbackToSavePoint(n) ==
  /\ it = None
  /\ ops' = SubSeq(ops, 1, n)
  /\ skipList' = ReBuildIndex(SubSeq(ops, 1, n))
  /\ UNCHANGED <<storeVars, it, direction, just_seeked, call, item>>

\* Transaction::iter
new(dir) ==
  /\ it = None
  /\ it' = IF dir = "Forward" THEN SeekIteratorToFirst(NewIterator)
                              ELSE SeekIteratorToLast(NewIterator)
  /\ direction' = dir /\ just_seeked' = TRUE
  /\ call' = <<"iter">> /\ item' = None
  /\ UNCHANGED <<batchVars, storeVars>>

seek(k) ==
  /\ it # None
  /\ it' = SeekIterator(it, k)
  /\ just_seeked' = TRUE
  /\ call' = <<"seek", k>> /\ item' = None
  /\ UNCHANGED <<batchVars, storeVars, direction>>

seek_for_prev(k) ==
  /\ it # None
  /\ it' = SeekForPrevIterator(it, k)
  /\ just_seeked' = TRUE
  /\ call' = <<"seek_for_prev", k>> /\ item' = None
  /\ UNCHANGED <<batchVars, storeVars, direction>>

next ==
  /\ it # None
  /\ it' = IF just_seeked THEN it ELSE Step(it, direction = "Forward")
  /\ just_seeked' = FALSE
  /\ call' = <<"next">>
  /\ item' = IF IsValid(it') THEN <<key(it'), value(it')>> ELSE None
  /\ UNCHANGED <<batchVars, storeVars, direction>>

\* The C++ iterator, moved through as_inner_mut
InnerMove(name, moved) ==
  /\ it # None
  /\ it' = moved
  /\ call' = <<name>> /\ item' = None
  /\ UNCHANGED <<batchVars, storeVars, direction, just_seeked>>

drop ==
  /\ it # None
  /\ it' = None /\ direction' = None /\ just_seeked' = FALSE
  /\ call' = <<"none">> /\ item' = None
  /\ UNCHANGED <<batchVars, storeVars>>

Next ==
  \/ \E u \in Updates : Write(u)
  \/ \E n \in 0 .. Len(ops) - 1 : RollbackToSavePoint(n)
  \/ \E dir \in {"Forward", "Backward"} : new(dir)
  \/ \E k \in Key : seek(k) \/ seek_for_prev(k)
  \/ next
  \/ InnerMove("Next", Step(it, TRUE))
  \/ InnerMove("Prev", Step(it, FALSE))
  \/ InnerMove("SeekToFirst", SeekIteratorToFirst(it))
  \/ InnerMove("SeekToLast", SeekIteratorToLast(it))
  \/ drop

Spec == Init /\ [][Next]_vars

-----------------------------------------------------------------------------
\* What the reads of a transaction must show: the committed data with the
\* records of its batch applied one after the other.
Merged(k) ==
  LET upTo[n \in 0 .. Len(ops)] ==
        CASE n = 0 -> BaseValue(k)
          [] n > 0 /\ (ops[n].cf # Cf \/ ops[n].key # k) -> upTo[n - 1]
          [] n > 0 /\ ops[n].cf = Cf /\ ops[n].key = k ->
               CASE ops[n].type = "put" -> <<n>>
                 [] ops[n].type = "delete" -> Gone
                 [] ops[n].type = "merge" -> MergeKey(upTo[n - 1], <<n>>)
  IN upTo[Len(ops)]

\* A point read in the transaction (GetFromBatchAndDB) gives the committed value
\* with the transaction's own writes applied, however the index got where it is;
\* it fails only when it needs a committed value that cannot be read.
ReadYourWrites ==
  \A k \in Key :
    \/ GetFromBatchAndDB(k) = Merged(k)
    \/ k \in bad /\ GetFromBatchAndDB(k) = None

\* While a BaseDeltaIterator is valid each of its two iterators is at the current
\* key or at its own nearest key beyond it, in the direction of travel, and
\* equal_keys_ says whether both have the current key: what Next, Prev, a change
\* of direction and value() rely on.  This is the order UpdateCurrent establishes;
\* the comment on the class and AssertInvariants, which is never reached, state
\* the reverse of it (CurrentAtBaseAsDocumented below).
IteratorsAgree ==
  (it # None /\ IsValid(it)) =>
    LET here == key(it)
        Beyond(S) == IF it.forward THEN Smallest({j \in S : j > here})
                                   ELSE Largest({j \in S : j < here})
        inBatch == {skipList[p].key : p \in {q \in DOMAIN skipList : Valid(skipList, Cf, q)}}
    IN /\ it.baseOk
       /\ it.equal = (here \in base \cap inBatch)
       /\ it.atBase => here \notin inBatch
       /\ it.atBase => (IF DeltaValid(it) THEN DeltaKey(it) ELSE None) = Beyond(inBatch)
       /\ ~it.atBase => it.base = IF it.equal THEN here ELSE Beyond(base)

\* The DbIterator of a transaction is a cursor over the merged map: a seek lands
\* on the right key, each next() gives the next key of the map with its merged
\* value, no key twice and none left out, after any mix of seeks and of moves in
\* both directions; a read error always shows in the status.
Cursor == INSTANCE MergedCursor WITH
  contents <- [k \in Key |-> Merged(k)],
  faulty <- bad # {},
  cur <- IF it = None THEN None ELSE IF IsValid(it) THEN key(it) ELSE None,
  ok <- IF it = None THEN TRUE ELSE status(it),
  fresh <- just_seeked
CursorSpec == Cursor!Spec

-----------------------------------------------------------------------------
(* A claim the code does not keep.                                         *)

\* The comment on the class: "when direction == forward * current_at_base_ <=>
\* base_iterator > delta_iterator, when direction == backwards *
\* current_at_base_ <=> base_iterator < delta_iterator", of a valid iterator with
\* both of its iterators valid.
CurrentAtBaseAsDocumented ==
  it # None /\ IsValid(it) /\ BaseValid(it) /\ DeltaValid(it) =>
    it.atBase = IF it.forward THEN it.base > DeltaKey(it) ELSE it.base < DeltaKey(it)
================================================================================
