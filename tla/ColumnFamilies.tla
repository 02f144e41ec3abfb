---------------------------- MODULE ColumnFamilies ----------------------------
(***************************************************************************)
(* Columns from DbOptions to the end of the database: the list of column   *)
(* family descriptors, `open`, the vector of column family handles every   *)
(* call indexes, `clear_cf` and `drop_cf`, which free handles, the Arc     *)
(* that keeps other users of the database out meanwhile, and the           *)
(* destructor.  The column families themselves outlive a crash.            *)
(*                                                                         *)
(* A column family is named by its column number, the default one by       *)
(* Default.  A handle is identified with the column family it was made     *)
(* for: no column family has two at a time.                                *)
(***************************************************************************)
EXTENDS Integers, FiniteSets

CONSTANTS Ref,         \* Rust values that hold the Arc: clones, transactions, snapshots, batches
          MaxColumns,  \* bound on the number of columns
          MaxCf        \* bound on the column families ever created

ASSUME MaxColumnsAssumption == MaxColumns \in Nat
ASSUME MaxCfAssumption == MaxCf \in Nat

Default == -1
Null == 0
Name == Default..MaxColumns

VARIABLES
  columns,        \* the argument of DbOptions::new
  descs,          \* cf_descriptors: index -> name
  createDb,       \* create_if_missing
  createMissing,  \* create_missing_column_families
  cfs,            \* the database on disk: name -> column family, or Null
  created,        \* column families ever created
  wrapper,        \* the TransactionDBWrapper: "none", "open", "failed" (its open failed)
  handles,        \* cf_handles: index -> handle, or Null
  live,           \* the handles not deleted yet
  ref,            \* what each Rust value is: "none", "db" (a TransactionDb), "holder"
  using,          \* the handle a call through that value has got from get_cf, or Null
  op              \* the clear_cf or drop_cf in progress

optVars == <<columns, descs, createDb, createMissing>>
diskVars == <<cfs, created>>
refVars == <<ref, using>>
vars == <<optVars, diskVars, wrapper, handles, live, refVars, op>>

-----------------------------------------------------------------------------
NoHandles == [i \in {} |-> Null]
NoOp == [step |-> "idle", call |-> "drop_cf", col |-> 0, by |-> "none"]
Op == [step : {"idle", "destroy", "create"}, call : {"clear_cf", "drop_cf"},
       col : 0..MaxColumns, by : Ref \cup {"none"}]

LastOf(f) == Cardinality(DOMAIN f) - 1
NamesIn(f) == {f[i] : i \in DOMAIN f}

\* The name of index i in a list whose last entry is the default column.
NameAt(i, last) == IF i = last THEN Default ELSE i

TypeOK ==
  /\ columns \in 0..MaxColumns
  /\ \E n \in 0..MaxColumns : descs \in [0..n -> Name]
  /\ createDb \in BOOLEAN /\ createMissing \in BOOLEAN
  /\ cfs \in [Name -> 0..MaxCf]
  /\ created \in 0..MaxCf
  /\ wrapper \in {"none", "open", "failed"}
  /\ \/ handles = NoHandles
     \/ \E n \in 0..MaxColumns : handles \in [0..n -> 0..MaxCf]
  /\ live \subseteq 1..MaxCf
  /\ ref \in [Ref -> {"none", "db", "holder"}]
  /\ using \in [Ref -> 0..MaxCf]
  /\ op \in Op

-----------------------------------------------------------------------------
(* DbOptions.                                                              *)

\* new_column_family_descriptor_vec.
NewDescs(n) == [i \in 0..n |-> NameAt(i, n)]

Init ==
  /\ columns \in 0..MaxColumns
  /\ descs = NewDescs(columns)
  /\ createDb = FALSE /\ createMissing = FALSE
  /\ cfs = [x \in Name |-> Null]
  /\ created = 0
  /\ wrapper = "none"
  /\ handles = NoHandles
  /\ live = {}
  /\ ref = [r \in Ref |-> "none"]
  /\ using = [r \in Ref |-> Null]
  /\ op = NoOp

\* DbOptions::new, for the next open.  (Options are copied by an open: that they
\* are prepared while the database is closed is no restriction.)
NewOptions(n) ==
  /\ wrapper = "none"
  /\ columns' = n
  /\ descs' = NewDescs(n)
  /\ createDb' = FALSE /\ createMissing' = FALSE
  /\ UNCHANGED <<diskVars, wrapper, handles, live, refVars, op>>

\* DbOptions::create_if_missing and ::create_missing_column_families.
SetCreate(b, c) ==
  /\ wrapper = "none"
  /\ createDb' = b /\ createMissing' = c
  /\ UNCHANGED <<columns, descs, diskVars, wrapper, handles, live, refVars, op>>

\* Mutant: the default column is sorted first, as its name is.
SortAndCompleteMissing_DefaultFirst(n) == [i \in 0..n |-> i - 1]

\* Mutant: what the file does not list is not completed.
SortAndCompleteMissing_NotCompleted(n) == [i \in 0..0 |-> Default]

\* sort_and_complete_missing: whatever the file listed, the result has the
\* names of n columns in order and the default one.
SortAndCompleteMissing(n) == [i \in 0..n |-> IF i < n THEN i ELSE Default]

\* DbOptions::load_options_from_file: `columns` is the size of the descriptor
\* list; the flags become the file's.  A file that cannot be parsed changes
\* nothing.
Load(b, c) ==
  LET size == Cardinality(DOMAIN descs)
  IN  /\ wrapper = "none" /\ size <= MaxColumns
      /\ descs' = SortAndCompleteMissing(size)
      /\ createDb' = b /\ createMissing' = c
      /\ UNCHANGED <<columns, diskVars, wrapper, handles, live, refVars, op>>

-----------------------------------------------------------------------------
(* Opening.                                                                *)

OnDisk == {x \in Name : cfs[x] # Null}
Missing == NamesIn(descs) \ OnDisk

\* DBImpl::Open accepts the descriptors: it wants all column families on disk
\* listed, and creates the ones that are not there only when it may.
Openable ==
  /\ OnDisk \subseteq NamesIn(descs)
  /\ cfs[Default] = Null => createDb
  /\ Missing \ {Default} # {} => createMissing

\* New column families, numbered from created + 1.
WithCreated(new) ==
  [x \in Name |-> IF x \in new THEN created + 1 + Cardinality({y \in new : y < x}) ELSE cfs[x]]

CreateAll(new) ==
  /\ created + Cardinality(new) <= MaxCf
  /\ created' = created + Cardinality(new)
  /\ cfs' = WithCreated(new)

HandlesFor(c) == [i \in DOMAIN descs |-> c[descs[i]]]

\* TransactionDb::open succeeds: one Arc, held by r.
Open(r) ==
  /\ wrapper = "none" /\ Openable
  /\ CreateAll(Missing)
  /\ wrapper' = "open"
  /\ handles' = HandlesFor(cfs')
  /\ live' = {handles'[i] : i \in DOMAIN handles'}
  /\ ref' = [ref EXCEPT ![r] = "db"]
  /\ UNCHANGED <<optVars, using, op>>

\* DBImpl::Open fails, perhaps after it has created some column families; it
\* deletes what handles it had made and returns none.
OpenFail ==
  /\ wrapper = "none" /\ Openable
  /\ \E new \in SUBSET Missing : CreateAll(new)
  /\ UNCHANGED <<optVars, wrapper, handles, live, refVars, op>>

\* WrapDB fails: it deletes the handles and the database, the vector keeps the
\* pointers, and `db` is never set.
WrapFail ==
  /\ wrapper = "none" /\ Openable
  /\ CreateAll(Missing)
  /\ wrapper' = "failed"
  /\ handles' = HandlesFor(cfs')
  /\ UNCHANGED <<optVars, live, refVars, op>>

\* The destructor after a failed open.
DestroyFailed ==
  /\ wrapper = "failed"
  /\ wrapper' = "none"
  /\ handles' = NoHandles
  /\ UNCHANGED <<optVars, diskVars, live, refVars, op>>

-----------------------------------------------------------------------------
(* An open database and its users.                                         *)

Refs == {r \in Ref : ref[r] # "none"}

\* A value nobody is calling or mutably borrowing.
Free(r) == ref[r] # "none" /\ using[r] = Null /\ op.by # r

\* Clone of a TransactionDb (by clone, begin_transaction, snapshot,
\* new_write_batch, timestamped_snapshot).
Clone(r, s, k) ==
  /\ Free(r) /\ ref[s] = "none"
  /\ k = "db" => ref[r] = "db"
  /\ ref' = [ref EXCEPT ![s] = k]
  /\ UNCHANGED <<optVars, diskVars, wrapper, handles, live, using, op>>

\* get_cf, and the call that works with the handle; a null handle is refused by
\* an assertion.
Use(r, i) ==
  /\ Free(r) /\ i \in DOMAIN handles /\ handles[i] # Null
  /\ using' = [using EXCEPT ![r] = handles[i]]
  /\ UNCHANGED <<optVars, diskVars, wrapper, handles, live, ref, op>>

EndUse(r) ==
  /\ using[r] # Null
  /\ using' = [using EXCEPT ![r] = Null]
  /\ UNCHANGED <<optVars, diskVars, wrapper, handles, live, ref, op>>

\* A value is dropped; the last one runs ~TransactionDBWrapper, which destroys
\* every handle of the vector.
DropRef(r) ==
  /\ Free(r)
  /\ ref' = [ref EXCEPT ![r] = "none"]
  /\ \/ /\ Refs # {r}
        /\ UNCHANGED <<wrapper, handles, live>>
     \/ /\ Refs = {r}
        /\ wrapper' = "none"
        /\ handles' = NoHandles
        /\ live' = live \ {handles[i] : i \in DOMAIN handles}
  /\ UNCHANGED <<optVars, diskVars, using, op>>

\* Mutant: Arc::get_mut is not asked.
Exclusive_Anybody(r) == TRUE

\* Arc::get_mut: r's is the only reference.
Exclusive(r) == Refs = {r}

\* clear_cf, drop_cf up to DropColumnFamily, which succeeds.  It refuses the
\* default column, and may fail; nothing has changed then.
StartReplace(r, c, i) ==
  /\ Free(r) /\ ref[r] = "db" /\ Exclusive(r)
  /\ i \in DOMAIN handles /\ handles[i] # Null /\ handles[i] # cfs[Default]
  /\ cfs' = [x \in Name |-> IF cfs[x] = handles[i] THEN Null ELSE cfs[x]]
  /\ op' = [step |-> "destroy", call |-> c, col |-> i, by |-> r]
  /\ UNCHANGED <<optVars, created, wrapper, handles, live, refVars>>

\* Mutant: drop_cf forgets the handle without deleting it.
DestroyHandle_Forgotten ==
  /\ op.step = "destroy"
  /\ op.call = "drop_cf"
  /\ handles' = [handles EXCEPT ![op.col] = Null]
  /\ op' = NoOp
  /\ UNCHANGED <<optVars, diskVars, wrapper, live, refVars>>

\* DestroyColumnFamilyHandle; drop_cf ends here with a null handle.  It fails for
\* the default column's handle only, which DropColumnFamily has refused before:
\* the early returns after it are never taken.
DestroyHandle ==
  /\ op.step = "destroy"
  /\ live' = live \ {handles[op.col]}
  /\ \/ /\ op.call = "drop_cf"
        /\ handles' = [handles EXCEPT ![op.col] = Null]
        /\ op' = NoOp
     \/ /\ op.call = "clear_cf"
        /\ op' = [op EXCEPT !.step = "create"]
        /\ UNCHANGED handles
  /\ UNCHANGED <<optVars, diskVars, wrapper, refVars>>

\* CreateColumnFamily(to_string(col)).
Recreate ==
  /\ op.step = "create" /\ cfs[op.col] = Null /\ created < MaxCf
  /\ created' = created + 1
  /\ cfs' = [cfs EXCEPT ![op.col] = created + 1]
  /\ handles' = [handles EXCEPT ![op.col] = created + 1]
  /\ live' = live \cup {created + 1}
  /\ op' = NoOp
  /\ UNCHANGED <<optVars, wrapper, refVars>>

\* Mutant: the deleted handle stays in the vector.
RecreateFail_KeepsHandle ==
  /\ op.step = "create"
  /\ op' = NoOp
  /\ UNCHANGED <<optVars, diskVars, wrapper, handles, live, refVars>>

\* It fails in the engine, which resets the handle it was to fill in.  (The
\* failure of VerifyCFOptions before that cannot happen: these are the options of
\* a column family that passed it.)
RecreateFail ==
  /\ op.step = "create"
  /\ handles' = [handles EXCEPT ![op.col] = Null]
  /\ op' = NoOp
  /\ UNCHANGED <<optVars, diskVars, wrapper, live, refVars>>

\* The process dies: only the disk remains.
Crash ==
  /\ wrapper # "none"
  /\ wrapper' = "none"
  /\ handles' = NoHandles
  /\ live' = {}
  /\ ref' = [r \in Ref |-> "none"]
  /\ using' = [r \in Ref |-> Null]
  /\ op' = NoOp
  /\ UNCHANGED <<optVars, diskVars>>

Next ==
  \/ \E n \in 0..MaxColumns : NewOptions(n)
  \/ \E b, c \in BOOLEAN : SetCreate(b, c) \/ Load(b, c)
  \/ \E r \in Ref : Open(r) \/ EndUse(r) \/ DropRef(r)
  \/ OpenFail \/ WrapFail \/ DestroyFailed
  \/ \E r, s \in Ref, k \in {"db", "holder"} : Clone(r, s, k)
  \/ \E r \in Ref, i \in 0..MaxColumns : Use(r, i)
  \/ \E r \in Ref, c \in {"clear_cf", "drop_cf"}, i \in 0..MaxColumns : StartReplace(r, c, i)
  \/ DestroyHandle \/ Recreate \/ RecreateFail
  \/ Crash

Spec == Init /\ [][Next]_vars

-----------------------------------------------------------------------------
\* A column number means the same column family from the descriptors to disk,
\* through clear_cf and drop_cf, their failures, crashes and reopening: a handle
\* that calls can get is not deleted and belongs to the column family of its
\* index, the last one to the default one.
HandlesMatchColumns ==
  wrapper = "open" /\ op.step = "idle" =>
    \A i \in DOMAIN handles : handles[i] # Null =>
      handles[i] \in live /\ handles[i] = cfs[NameAt(i, LastOf(handles))]

\* Every column DbOptions::new was asked for has an index of its own in an open
\* database, apart from default_col(), whatever files were loaded in between:
\* load may add columns (it takes the default descriptor for one of them, and so
\* does add one), but neither loses one nor makes the default column one of them.
ColumnsAreAddressable ==
  wrapper = "open" => 0..(columns - 1) \subseteq DOMAIN handles \ {LastOf(handles)}

\* No thread works with a handle that clear_cf, drop_cf or the destructor has
\* deleted: the Arc check keeps them apart.
NoUseAfterDestroy == \A r \in Ref : using[r] # Null => using[r] \in live

\* A closed database has no handle left, and an open one only those in its
\* vector: drop_cf, clear_cf and the destructor delete what they give up.
NoHandleLeak == live \subseteq {handles[i] : i \in DOMAIN handles}

\* Data is lost in the one column that clear_cf or drop_cf was called for, and
\* never in the default one.
OnlyTheNamedColumn ==
  [][\A x \in Name : cfs[x] # Null /\ cfs'[x] # cfs[x] => op'.step = "destroy" /\ op'.col = x]_vars

-----------------------------------------------------------------------------
(* What is behind them: an inductive invariant.                            *)

\* The default column comes last in the descriptors, the others in order.
DescsInOrder == \E n \in 0..MaxColumns : descs = NewDescs(n)

\* No column family has two names, and its number has been used up.
DiskIsSound ==
  /\ \A x \in Name : cfs[x] <= created
  /\ \A x, y \in Name : cfs[x] # Null /\ cfs[x] = cfs[y] => x = y

\* Nobody has a database that is not open, and only its owners use one.
OnlyOwnersUse ==
  /\ wrapper # "open" => live = {} /\ Refs = {} /\ op.step = "idle"
  /\ \A r \in Ref : using[r] # Null => ref[r] # "none"

\* Outside the column being replaced, handles are live and match.
OthersMatch ==
  wrapper = "open" =>
    \E n \in 0..MaxColumns :
      /\ DOMAIN handles = 0..n
      /\ op.step # "idle" => op.col \in 0..n - 1
      /\ \A i \in 0..n : handles[i] # Null /\ (op.step = "idle" \/ i # op.col) =>
           handles[i] \in live /\ handles[i] = cfs[NameAt(i, n)]

\* clear_cf and drop_cf have the database to themselves.  The handle they replace
\* is in no other place of the vector while it is live.
ReplacedAlone ==
  op.step # "idle" =>
    /\ Refs = {op.by} /\ using[op.by] = Null
    /\ cfs[op.col] = Null
    /\ IF op.step = "destroy"
       THEN \A i \in DOMAIN handles : i # op.col => handles[i] # handles[op.col]
       ELSE handles[op.col] \notin live

IndInv ==
  /\ TypeOK /\ DescsInOrder /\ DiskIsSound /\ OnlyOwnersUse /\ OthersMatch
  /\ ReplacedAlone /\ NoHandleLeak /\ NoUseAfterDestroy

-----------------------------------------------------------------------------
(* Claims the code does not keep.                                          *)

\* rocksdb/db.h: handles are destroyed "before closing a DB".  So whenever the
\* destructor may run, each handle in the vector is one it can still destroy.
DestructorFindsHandles ==
  wrapper # "none" /\ op.step = "idle" =>
    \A i \in DOMAIN handles : handles[i] # Null => handles[i] \in live
================================================================================
