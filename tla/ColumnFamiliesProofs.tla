------------------------- MODULE ColumnFamiliesProofs -------------------------
(***************************************************************************)
(* Proofs about ColumnFamilies: what a column number means, and who may    *)
(* use and delete a handle, for every number of columns, references and    *)
(* column families created.                                                *)
(***************************************************************************)
EXTENDS ColumnFamilies, FiniteSetTheorems, TLAPS

-----------------------------------------------------------------------------
(* Names and numbers.                                                      *)

\* A vector with indices 0..n has its last entry at n.
LEMMA LastIndex ==
  ASSUME NEW n \in Nat, NEW f, DOMAIN f = 0..n
  PROVE  LastOf(f) = n
  BY FS_Interval DEF LastOf

LEMMA NamesAreFinite ==
  ASSUME NEW S \in SUBSET Name
  PROVE  IsFiniteSet(S) /\ Cardinality(S) \in Nat
<1>1. IsFiniteSet(Name)
  BY FS_Interval, MaxColumnsAssumption DEF Name, Default
<1> QED
  BY <1>1, FS_Subset, FS_CardinalityType

LEMMA SmallerSet ==
  ASSUME NEW S \in SUBSET Name, NEW T \in SUBSET S, S # T
  PROVE  Cardinality(T) \in Nat /\ Cardinality(T) < Cardinality(S)
<1>1. IsFiniteSet(S) /\ Cardinality(S) \in Nat /\ Cardinality(T) \in Nat
  BY NamesAreFinite
<1>2. Cardinality(T) <= Cardinality(S) /\ Cardinality(S) # Cardinality(T)
  BY <1>1, FS_Subset
<1> QED
  BY <1>1, <1>2

\* The rank of a name among new ones: less than their number, and another for
\* each.
Below(new, x) == {y \in new : y < x}
Rank(new, x) == Cardinality(Below(new, x))

LEMMA RankBound ==
  ASSUME NEW new \in SUBSET Name, NEW x \in new
  PROVE  Rank(new, x) \in Nat /\ Rank(new, x) < Cardinality(new)
<1>1. x \in Int
  BY MaxColumnsAssumption DEF Name, Default
<1>2. Below(new, x) \in SUBSET new /\ new # Below(new, x)
  BY <1>1 DEF Below
<1> QED
  BY <1>2, SmallerSet DEF Rank

LEMMA RankOrder ==
  ASSUME NEW new \in SUBSET Name, NEW x \in new, NEW z \in new, x < z
  PROVE  Rank(new, x) < Rank(new, z)
<1>1. new \subseteq Int
  BY MaxColumnsAssumption DEF Name, Default
<1>2. \A y \in new : y < x => y < z
  <2> TAKE y \in new
  <2>1. x \in Int /\ y \in Int /\ z \in Int
    BY <1>1
  <2> QED
    BY <2>1
<1>3. Below(new, x) \in SUBSET Below(new, z) /\ Below(new, z) \in SUBSET Name
  BY <1>2 DEF Below
<1>4. x \in Below(new, z) /\ x \notin Below(new, x)
  <2>1. x \in Int
    BY <1>1
  <2> QED
    BY <2>1 DEF Below
<1> QED
  BY <1>3, <1>4, SmallerSet DEF Rank

\* What the engine creates gets numbers of its own, and nothing else changes.
LEMMA CreateAllSound ==
  ASSUME TypeOK, DiskIsSound, NEW new \in SUBSET Missing, CreateAll(new)
  PROVE  /\ cfs' \in [Name -> 0..MaxCf] /\ created' \in 0..MaxCf /\ DiskIsSound'
         /\ \A x \in Name \ new : cfs'[x] = cfs[x]
         /\ \A x \in new : cfs[x] = Null /\ cfs'[x] # Null
<1>1. new \in SUBSET Name /\ \A x \in new : cfs[x] = Null
  <2>1. NamesIn(descs) \subseteq Name
    BY DEF TypeOK, NamesIn
  <2> QED
    BY <2>1 DEF Missing, OnDisk
<1>2. Cardinality(new) \in Nat
  BY <1>1, NamesAreFinite
<1>3. /\ created' = created + Cardinality(new) /\ created' <= MaxCf
      /\ cfs' = [x \in Name |-> IF x \in new THEN created + 1 + Rank(new, x) ELSE cfs[x]]
  BY DEF CreateAll, WithCreated, Rank, Below
<1>4. created \in Nat /\ MaxCf \in Nat /\ cfs \in [Name -> 0..MaxCf]
  BY MaxCfAssumption DEF TypeOK
<1>5. \A x \in new : cfs'[x] \in Nat /\ cfs'[x] > created /\ cfs'[x] <= created'
  BY <1>1, <1>2, <1>3, <1>4, RankBound
<1>6. \A x \in Name \ new : cfs'[x] = cfs[x] /\ cfs[x] \in 0..MaxCf /\ cfs[x] <= created
  BY <1>3, <1>4 DEF DiskIsSound
<1>7. created' \in 0..MaxCf
  BY <1>2, <1>3, <1>4
<1>8. \A x \in Name : cfs'[x] \in 0..MaxCf /\ cfs'[x] <= created'
  BY <1>2, <1>3, <1>4, <1>5, <1>6
<1>9. ASSUME NEW x \in Name, NEW y \in Name, cfs'[x] # Null, cfs'[x] = cfs'[y]
      PROVE  x = y
  <2>1. CASE x \in new /\ y \in new
    <3>1. Rank(new, x) = Rank(new, y) /\ Rank(new, x) \in Nat
      BY <1>1, <1>3, <1>4, <1>9, <2>1, RankBound
    <3>2. x \in Int /\ y \in Int
      BY MaxColumnsAssumption DEF Name, Default
    <3> QED
      BY <1>1, <2>1, <3>1, <3>2, RankOrder
  <2>2. CASE x \notin new /\ y \notin new
    BY <1>6, <1>9, <2>2 DEF DiskIsSound
  <2>3. ~(x \in new /\ y \notin new) /\ ~(x \notin new /\ y \in new)
    BY <1>4, <1>5, <1>6, <1>9
  <2> QED
    BY <2>1, <2>2, <2>3
<1>10. cfs' \in [Name -> 0..MaxCf]
  BY <1>3, <1>8
<1>11. DiskIsSound'
  BY <1>8, <1>9 DEF DiskIsSound
<1> QED
  BY <1>1, <1>4, <1>5, <1>6, <1>7, <1>10, <1>11 DEF Null

-----------------------------------------------------------------------------
(* Who may act when.                                                       *)

\* A value that can be called or dropped belongs to an open database in which no
\* column is being replaced: the exclusive reference excludes all others.
LEMMA FreeMeansIdle ==
  ASSUME OnlyOwnersUse, ReplacedAlone, NEW r \in Ref, Free(r)
  PROVE  wrapper = "open" /\ op.step = "idle"
  BY DEF OnlyOwnersUse, ReplacedAlone, Free, Refs

LEMMA UsingMeansIdle ==
  ASSUME OnlyOwnersUse, ReplacedAlone, NEW r \in Ref, using[r] # Null
  PROVE  wrapper = "open" /\ op.step = "idle"
  BY DEF OnlyOwnersUse, ReplacedAlone, Refs

\* The descriptors after new_column_family_descriptor_vec.
LEMMA NewDescsType ==
  ASSUME NEW n \in 0..MaxColumns
  PROVE  NewDescs(n) \in [0..n -> Name]
  BY MaxColumnsAssumption DEF NewDescs, NameAt, Name, Default

\* A load leaves what DbOptions::new would make of one column more.
LEMMA LoadDescs ==
  ASSUME TypeOK, NEW b, NEW c, Load(b, c)
  PROVE  \E n \in 0..MaxColumns : descs' = NewDescs(n)
<1>1. PICK n \in 0..MaxColumns : descs \in [0..n -> Name]
  BY DEF TypeOK
<1>2. Cardinality(DOMAIN descs) = n + 1
  BY <1>1, FS_Interval, MaxColumnsAssumption
<1>3. n + 1 \in 0..MaxColumns /\ descs' = SortAndCompleteMissing(n + 1)
  BY <1>2, MaxColumnsAssumption DEF Load
<1>4. SortAndCompleteMissing(n + 1) = NewDescs(n + 1)
  BY <1>3, MaxColumnsAssumption DEF SortAndCompleteMissing, NewDescs, NameAt
<1> QED
  BY <1>3, <1>4

LEMMA DescsStep ==
  TypeOK /\ DescsInOrder /\ [Next]_vars => DescsInOrder'
<1> SUFFICES ASSUME TypeOK, DescsInOrder, [Next]_vars PROVE DescsInOrder'
  OBVIOUS
<1>1. ASSUME NEW n \in 0..MaxColumns, NewOptions(n) PROVE DescsInOrder'
  BY <1>1 DEF NewOptions, DescsInOrder
<1>2. ASSUME NEW b \in BOOLEAN, NEW c \in BOOLEAN, Load(b, c) PROVE DescsInOrder'
  BY <1>2, LoadDescs DEF DescsInOrder
<1>3. CASE UNCHANGED descs
  BY <1>3 DEF DescsInOrder
<1> QED
  BY <1>1, <1>2, <1>3 DEF Next, vars, optVars, SetCreate, Open, EndUse, DropRef, OpenFail,
     WrapFail, DestroyFailed, Clone, Use, StartReplace, DestroyHandle, Recreate, RecreateFail, Crash

\* An open gives each descriptor the column family of its name.
LEMMA OpenedHandles ==
  ASSUME TypeOK, DescsInOrder, DiskIsSound, CreateAll(Missing), handles' = HandlesFor(cfs')
  PROVE  \E n \in 0..MaxColumns :
           /\ handles' \in [0..n -> 1..MaxCf]
           /\ \A i \in 0..n : handles'[i] = cfs'[NameAt(i, n)]
<1>1. PICK n \in 0..MaxColumns : descs = NewDescs(n)
  BY DEF DescsInOrder
<1>2. /\ cfs' \in [Name -> 0..MaxCf]
      /\ \A x \in Name \ Missing : cfs'[x] = cfs[x]
      /\ \A x \in Missing : cfs'[x] # Null
  BY CreateAllSound
<1>3. NewDescs(n) \in [0..n -> Name]
  BY NewDescsType
<1>4. DOMAIN descs = 0..n /\ \A i \in 0..n : descs[i] = NameAt(i, n) /\ descs[i] \in Name
  BY <1>1, <1>3 DEF NewDescs
<1>5. \A i \in 0..n : cfs'[descs[i]] # Null
  BY <1>2, <1>4 DEF Missing, NamesIn, OnDisk
<1>6. \A i \in 0..n : cfs'[descs[i]] \in 1..MaxCf
  BY <1>2, <1>4, <1>5, MaxCfAssumption DEF Null
<1>7. handles' = [i \in 0..n |-> cfs'[descs[i]]]
  BY <1>4 DEF HandlesFor
<1> QED
  BY <1>4, <1>6, <1>7

-----------------------------------------------------------------------------
(* The disk and the owners.                                                *)

\* Dropping a column family takes its name away and changes no other.
LEMMA DropSound ==
  ASSUME TypeOK, DiskIsSound, NEW h,
         cfs' = [x \in Name |-> IF cfs[x] = h THEN Null ELSE cfs[x]], created' = created
  PROVE  cfs' \in [Name -> 0..MaxCf] /\ DiskIsSound'
<1>1. \A x \in Name : cfs'[x] = cfs[x] \/ cfs'[x] = Null
  OBVIOUS
<1>2. \A x \in Name : cfs[x] \in 0..MaxCf /\ created \in Nat
  BY MaxCfAssumption DEF TypeOK
<1>3. \A x \in Name : cfs'[x] \in 0..MaxCf /\ cfs'[x] <= created'
  BY <1>1, <1>2, MaxCfAssumption DEF DiskIsSound, Null
<1> QED
  BY <1>1, <1>3 DEF DiskIsSound

\* So does re-creating one that has no column family.
LEMMA RecreateSound ==
  ASSUME TypeOK, DiskIsSound, Recreate
  PROVE  /\ op.col \in Name /\ created + 1 \in 1..MaxCf /\ cfs' \in [Name -> 0..MaxCf]
         /\ created' \in 0..MaxCf /\ DiskIsSound'
<1>1. op.col \in Name
  BY MaxColumnsAssumption DEF TypeOK, Op, Name, Default
<1>2. created \in Nat /\ created + 1 \in 1..MaxCf /\ created' = created + 1
  BY MaxCfAssumption DEF TypeOK, Recreate
<1>3. cfs' = [cfs EXCEPT ![op.col] = created + 1] /\ cfs \in [Name -> 0..MaxCf]
  BY DEF TypeOK, Recreate
<1>4. \A x \in Name : cfs[x] \in 0..MaxCf /\ cfs[x] <= created
  BY <1>3 DEF DiskIsSound
<1>5. \A x \in Name : cfs'[x] = IF x = op.col THEN created + 1 ELSE cfs[x]
  BY <1>3
<1>6. cfs' \in [Name -> 0..MaxCf]
  BY <1>1, <1>2, <1>3, MaxCfAssumption
<1>7. \A x \in Name : cfs'[x] <= created'
  BY <1>2, <1>4, <1>5, MaxCfAssumption
<1>8. \A x, y \in Name : cfs'[x] # Null /\ cfs'[x] = cfs'[y] => x = y
  BY <1>2, <1>4, <1>5, MaxCfAssumption DEF DiskIsSound
<1> QED
  BY <1>1, <1>2, <1>6, <1>7, <1>8, MaxCfAssumption DEF DiskIsSound

LEMMA DiskStep ==
  TypeOK /\ DiskIsSound /\ [Next]_vars => cfs' \in [Name -> 0..MaxCf] /\ created' \in 0..MaxCf /\ DiskIsSound'
<1> DEFINE Goal == cfs' \in [Name -> 0..MaxCf] /\ created' \in 0..MaxCf /\ DiskIsSound'
<1> SUFFICES ASSUME TypeOK, DiskIsSound, [Next]_vars PROVE Goal
  OBVIOUS
<1>1. CASE UNCHANGED diskVars
  BY <1>1 DEF TypeOK, DiskIsSound, diskVars
<1>2. ASSUME NEW new \in SUBSET Missing, CreateAll(new) PROVE Goal
  BY <1>2, CreateAllSound
<1>3. ASSUME NEW r \in Ref, NEW c, NEW i, StartReplace(r, c, i) PROVE Goal
  <2>1. created' = created /\ cfs' = [x \in Name |-> IF cfs[x] = handles[i] THEN Null ELSE cfs[x]]
    BY <1>3 DEF StartReplace
  <2>2. created \in 0..MaxCf
    BY DEF TypeOK
  <2> QED
    BY <2>1, <2>2, DropSound
<1>4. CASE Recreate
  BY <1>4, RecreateSound
<1> HIDE DEF Goal
<1> QED
  BY <1>1, <1>2, <1>3, <1>4 DEF Next, vars, NewOptions, SetCreate, Load, Open, EndUse, DropRef, OpenFail,
     WrapFail, DestroyFailed, Clone, Use, DestroyHandle, RecreateFail, Crash

\* Only owners use the database, and only an open one has any.
LEMMA OwnersStep ==
  TypeOK /\ OnlyOwnersUse /\ OthersMatch /\ ReplacedAlone /\ NoHandleLeak /\ [Next]_vars => OnlyOwnersUse'
<1> SUFFICES ASSUME TypeOK, OnlyOwnersUse, OthersMatch, ReplacedAlone, NoHandleLeak, [Next]_vars PROVE OnlyOwnersUse'
  OBVIOUS
<1> USE DEF optVars, refVars
<1>1. CASE UNCHANGED <<wrapper, live, ref, using, op>>
  BY <1>1 DEF OnlyOwnersUse, Refs
<1>2. ASSUME NEW r \in Ref, Open(r) PROVE OnlyOwnersUse'
  BY <1>2 DEF OnlyOwnersUse, Open, TypeOK
<1>3. ASSUME NEW r \in Ref, EndUse(r) PROVE OnlyOwnersUse'
  BY <1>3 DEF OnlyOwnersUse, EndUse, TypeOK, Refs
<1>4. ASSUME NEW r \in Ref, DropRef(r) PROVE OnlyOwnersUse'
  <2>1. wrapper = "open" /\ op.step = "idle" /\ using[r] = Null
    BY <1>4, FreeMeansIdle DEF DropRef, Free
  <2>2. using' = using /\ op' = op /\ \A s \in Ref : ref'[s] = IF s = r THEN "none" ELSE ref[s]
    BY <1>4 DEF DropRef, TypeOK
  <2>3. wrapper' # "open" => live' = {} /\ Refs = {r}
    BY <1>4, <2>1 DEF DropRef, NoHandleLeak
  <2>4. Refs = {r} => Refs' = {}
    BY <2>2 DEF Refs
  <2> QED
    BY <2>1, <2>2, <2>3, <2>4 DEF OnlyOwnersUse
<1>5. CASE WrapFail \/ DestroyFailed
  BY <1>5 DEF OnlyOwnersUse, WrapFail, DestroyFailed, Refs
<1>6. ASSUME NEW r \in Ref, NEW s \in Ref, NEW k \in {"db", "holder"}, Clone(r, s, k) PROVE OnlyOwnersUse'
  <2>1. wrapper = "open"
    BY <1>6, FreeMeansIdle DEF Clone
  <2> QED
    BY <1>6, <2>1 DEF OnlyOwnersUse, Clone, TypeOK
<1>7. ASSUME NEW r \in Ref, NEW i, Use(r, i) PROVE OnlyOwnersUse'
  <2>1. wrapper = "open" /\ ref[r] # "none"
    BY <1>7, FreeMeansIdle DEF Use, Free
  <2> QED
    BY <1>7, <2>1 DEF OnlyOwnersUse, Use, TypeOK
<1>8. ASSUME NEW r \in Ref, NEW c, NEW i, StartReplace(r, c, i) PROVE OnlyOwnersUse'
  <2>1. wrapper = "open"
    BY <1>8, FreeMeansIdle DEF StartReplace
  <2> QED
    BY <1>8, <2>1 DEF OnlyOwnersUse, StartReplace
<1>9. CASE DestroyHandle \/ Recreate \/ RecreateFail
  <2>1. wrapper = "open"
    BY <1>9 DEF OnlyOwnersUse, DestroyHandle, Recreate, RecreateFail
  <2> QED
    BY <1>9, <2>1 DEF OnlyOwnersUse, DestroyHandle, Recreate, RecreateFail
<1>10. CASE Crash
  BY <1>10 DEF OnlyOwnersUse, Crash, Refs, NoOp
<1> QED
  BY <1>1, <1>2, <1>3, <1>4, <1>5, <1>6, <1>7, <1>8, <1>9, <1>10
     DEF Next, vars, NewOptions, SetCreate, Load, OpenFail

-----------------------------------------------------------------------------
(* Handles and columns.                                                    *)

\* Different indices have different names.
LEMMA NamesDiffer ==
  ASSUME NEW n \in 0..MaxColumns, NEW i \in 0..n, NEW j \in 0..n
  PROVE  /\ NameAt(i, n) \in Name
         /\ i # j => NameAt(i, n) # NameAt(j, n)
         /\ i # n => i \in 0..n - 1 /\ NameAt(i, n) = i
         /\ i = n => NameAt(i, n) = Default
  BY MaxColumnsAssumption DEF NameAt, Name, Default

\* DropColumnFamily through the handle of column i: the column family of that
\* index and name loses its data, and no other handle is the same.
LEMMA Replaced ==
  ASSUME TypeOK, DiskIsSound, OnlyOwnersUse, OthersMatch, ReplacedAlone,
         NEW r \in Ref, NEW c, NEW i, StartReplace(r, c, i),
         NEW n \in 0..MaxColumns, DOMAIN handles = 0..n,
         \A j \in 0..n : handles[j] # Null => handles[j] = cfs[NameAt(j, n)]
  PROVE  /\ i \in 0..n - 1 /\ i \in 0..n /\ i \in Name
         /\ cfs[i] # Null /\ cfs'[i] = Null
         /\ \A x \in Name : x # i => cfs'[x] = cfs[x]
         /\ \A j \in 0..n : j # i => handles[j] # handles[i]
<1>1. i \in 0..n /\ handles[i] # Null /\ handles[i] # cfs[Default]
  BY DEF StartReplace
<1>2. handles[i] = cfs[NameAt(i, n)]
  BY <1>1
<1>3. i # n /\ n \in 0..n
  BY <1>1, <1>2, MaxColumnsAssumption, NamesDiffer
<1>4. i \in 0..n - 1 /\ NameAt(i, n) = i /\ i \in Name
  BY <1>1, <1>3, NamesDiffer
<1>5. cfs' = [x \in Name |-> IF cfs[x] = handles[i] THEN Null ELSE cfs[x]]
  BY DEF StartReplace
<1>6. \A x \in Name : x # i => cfs[x] # handles[i]
  BY <1>1, <1>2, <1>4 DEF DiskIsSound
<1>7. ASSUME NEW j \in 0..n, j # i PROVE handles[j] # handles[i]
  <2>1. NameAt(j, n) \in Name /\ NameAt(j, n) # i
    BY <1>1, <1>4, <1>7, NamesDiffer
  <2> QED
    BY <1>1, <1>6, <2>1
<1> QED
  BY <1>1, <1>2, <1>4, <1>5, <1>6, <1>7

LEMMA MatchStep ==
  /\ TypeOK /\ DescsInOrder /\ DiskIsSound /\ OnlyOwnersUse /\ OthersMatch /\ ReplacedAlone
  /\ [Next]_vars
  => OthersMatch'
<1> SUFFICES ASSUME TypeOK, DescsInOrder, DiskIsSound, OnlyOwnersUse, OthersMatch, ReplacedAlone,
                    [Next]_vars
             PROVE  OthersMatch'
  OBVIOUS
<1>1. CASE UNCHANGED <<wrapper, handles, live, op, cfs>>
  BY <1>1 DEF OthersMatch
<1>2. CASE wrapper' # "open"
  BY <1>2 DEF OthersMatch
<1>3. ASSUME NEW r \in Ref, Open(r) PROVE OthersMatch'
  <2>1. op.step = "idle" /\ op' = op
    BY <1>3 DEF Open, OnlyOwnersUse
  <2>2. CreateAll(Missing) /\ handles' = HandlesFor(cfs') /\ live' = {handles'[i] : i \in DOMAIN handles'}
    BY <1>3 DEF Open
  <2>3. PICK n \in 0..MaxColumns :
          /\ handles' \in [0..n -> 1..MaxCf]
          /\ \A i \in 0..n : handles'[i] = cfs'[NameAt(i, n)]
    BY <2>2, OpenedHandles
  <2> QED
    BY <2>1, <2>2, <2>3 DEF OthersMatch
<1>4. ASSUME NEW r \in Ref, NEW c, NEW i, StartReplace(r, c, i) PROVE OthersMatch'
  <2>1. wrapper = "open" /\ op.step = "idle"
    BY <1>4, FreeMeansIdle DEF StartReplace
  <2>2. PICK n \in 0..MaxColumns :
          /\ DOMAIN handles = 0..n
          /\ \A j \in 0..n : handles[j] # Null => handles[j] \in live /\ handles[j] = cfs[NameAt(j, n)]
    BY <2>1 DEF OthersMatch
  <2>3. /\ i \in 0..n - 1 /\ i \in 0..n
        /\ \A x \in Name : x # i => cfs'[x] = cfs[x]
    BY <1>4, <2>2, Replaced
  <2>4. handles' = handles /\ live' = live /\ op'.col = i
    BY <1>4 DEF StartReplace
  <2>5. ASSUME NEW j \in 0..n, j # i, handles[j] # Null
        PROVE  handles[j] \in live /\ handles[j] = cfs'[NameAt(j, n)]
    <3>1. i # n
      BY <2>3, MaxColumnsAssumption
    <3>2. NameAt(j, n) \in Name /\ NameAt(j, n) # i
      BY <2>3, <2>5, <3>1, NamesDiffer
    <3> QED
      BY <2>2, <2>3, <2>5, <3>2
  <2>6. op'.step = "destroy"
    BY <1>4 DEF StartReplace
  <2> QED
    BY <2>2, <2>3, <2>4, <2>5, <2>6 DEF OthersMatch
<1>5. CASE DestroyHandle \/ Recreate \/ RecreateFail
  <2>1. wrapper = "open" /\ wrapper' = wrapper /\ op.step # "idle"
    BY <1>5 DEF DestroyHandle, Recreate, RecreateFail, OnlyOwnersUse
  <2>2. PICK n \in 0..MaxColumns :
          /\ DOMAIN handles = 0..n
          /\ op.col \in 0..n - 1
          /\ \A i \in 0..n : handles[i] # Null /\ i # op.col =>
               handles[i] \in live /\ handles[i] = cfs[NameAt(i, n)]
    BY <2>1 DEF OthersMatch
  <2>3. op.col \in 0..n /\ op.col # n
    BY <2>2, MaxColumnsAssumption
  <2>4. NameAt(op.col, n) = op.col /\ op.col \in Name
    BY <2>3, NamesDiffer
  <2>5. CASE DestroyHandle
    <3>1. \A i \in 0..n : i # op.col => handles[i] # handles[op.col]
      BY <2>2, <2>5 DEF DestroyHandle, ReplacedAlone
    <3>2. /\ live' = live \ {handles[op.col]} /\ cfs' = cfs
          /\ DOMAIN handles' = 0..n
          /\ \A i \in 0..n : i # op.col => handles'[i] = handles[i]
      BY <2>2, <2>5 DEF DestroyHandle, diskVars
    <3>3. \/ handles'[op.col] = Null /\ op'.step = "idle"
          \/ op'.step = "create" /\ op'.col = op.col
      BY <2>2, <2>3, <2>5 DEF DestroyHandle, NoOp, TypeOK, Op
    <3> QED
      BY <2>2, <3>1, <3>2, <3>3 DEF OthersMatch
  <2>6. CASE Recreate
    <3>1. /\ cfs' = [cfs EXCEPT ![op.col] = created + 1]
          /\ handles' = [handles EXCEPT ![op.col] = created + 1]
          /\ live' = live \cup {created + 1} /\ op'.step = "idle"
      BY <2>6 DEF Recreate, NoOp
    <3>2. cfs \in [Name -> 0..MaxCf]
      BY DEF TypeOK
    <3>3. handles'[op.col] \in live' /\ handles'[op.col] = cfs'[NameAt(op.col, n)]
      BY <2>2, <2>3, <2>4, <3>1, <3>2
    <3>4. ASSUME NEW i \in 0..n, i # op.col, handles'[i] # Null
          PROVE  handles'[i] \in live' /\ handles'[i] = cfs'[NameAt(i, n)]
      <4>1. NameAt(i, n) \in Name /\ NameAt(i, n) # op.col
        BY <2>3, <2>4, <3>4, NamesDiffer
      <4> QED
        BY <2>2, <3>1, <3>2, <3>4, <4>1
    <3>5. DOMAIN handles' = 0..n
      BY <2>2, <3>1
    <3> QED
      BY <3>1, <3>3, <3>4, <3>5 DEF OthersMatch
  <2>7. CASE RecreateFail
    <3>1. /\ handles' = [handles EXCEPT ![op.col] = Null] /\ op'.step = "idle"
          /\ live' = live /\ cfs' = cfs
      BY <2>7 DEF RecreateFail, NoOp, diskVars
    <3>2. DOMAIN handles' = 0..n /\ \A i \in 0..n : handles'[i] = IF i = op.col THEN Null ELSE handles[i]
      BY <2>2, <3>1
    <3> QED
      BY <2>2, <3>1, <3>2 DEF OthersMatch
  <2> QED
    BY <1>5, <2>5, <2>6, <2>7
<1> QED
  <2>1. \A r \in Ref : DropRef(r) => wrapper' # "open" \/ UNCHANGED <<wrapper, handles, live, op, cfs>>
    BY DEF DropRef, diskVars
  <2> QED
    BY <1>1, <1>2, <1>3, <1>4, <1>5, <2>1 DEF Next, vars, diskVars, NewOptions, SetCreate, Load, EndUse,
       OpenFail, WrapFail, DestroyFailed, Clone, Use, Crash

-----------------------------------------------------------------------------
(* Replacing a column alone, and what is deleted.                          *)

\* While a column is replaced only that call, or a crash, takes a step.
LEMMA OnlyReplacing ==
  ASSUME OnlyOwnersUse, ReplacedAlone, op.step # "idle", Next
  PROVE  DestroyHandle \/ Recreate \/ RecreateFail \/ Crash
<1>1. wrapper = "open"
  BY DEF OnlyOwnersUse
<1>2. \A r \in Ref : ~Free(r) /\ using[r] = Null
  BY FreeMeansIdle, UsingMeansIdle
<1> QED
  BY <1>1, <1>2 DEF Next, NewOptions, SetCreate, Load, Open, EndUse, DropRef, OpenFail, WrapFail,
     DestroyFailed, Clone, Use, StartReplace

LEMMA ReplacedStep ==
  /\ TypeOK /\ DiskIsSound /\ OnlyOwnersUse /\ OthersMatch /\ ReplacedAlone /\ [Next]_vars
  => ReplacedAlone'
<1> SUFFICES ASSUME TypeOK, DiskIsSound, OnlyOwnersUse, OthersMatch, ReplacedAlone, [Next]_vars
             PROVE  ReplacedAlone'
  OBVIOUS
<1>1. CASE UNCHANGED vars
  BY <1>1 DEF ReplacedAlone, Refs, vars, diskVars, refVars
<1>2. CASE op.step # "idle" /\ Next
  <2>1. CASE DestroyHandle
    <3>1. CASE op' = NoOp
      BY <3>1 DEF ReplacedAlone, NoOp
    <3>2. CASE op' = [op EXCEPT !.step = "create"] /\ handles' = handles
      <4>1. op'.step = "create" /\ op'.col = op.col /\ op'.by = op.by
        BY <3>2 DEF TypeOK, Op
      <4>2. UNCHANGED <<ref, using, cfs>> /\ live' = live \ {handles[op.col]}
        BY <2>1 DEF DestroyHandle, refVars, diskVars
      <4> QED
        BY <1>2, <3>2, <4>1, <4>2 DEF ReplacedAlone, Refs
    <3> QED
      BY <2>1, <3>1, <3>2 DEF DestroyHandle
  <2>2. CASE Recreate \/ RecreateFail \/ Crash
    BY <2>2 DEF Recreate, RecreateFail, Crash, ReplacedAlone, NoOp
  <2> QED
    BY <1>2, <2>1, <2>2, OnlyReplacing
<1>3. CASE op.step = "idle" /\ op' = op
  BY <1>3 DEF ReplacedAlone
<1>4. ASSUME NEW r \in Ref, NEW c, NEW i, StartReplace(r, c, i) PROVE ReplacedAlone'
  <2>1. wrapper = "open" /\ op.step = "idle"
    BY <1>4, FreeMeansIdle DEF StartReplace
  <2>2. PICK n \in 0..MaxColumns :
          /\ DOMAIN handles = 0..n
          /\ \A j \in 0..n : handles[j] # Null => handles[j] = cfs[NameAt(j, n)]
    BY <2>1 DEF OthersMatch
  <2>3. cfs'[i] = Null /\ \A j \in 0..n : j # i => handles[j] # handles[i]
    BY <1>4, <2>2, Replaced
  <2>4. op'.step = "destroy" /\ op'.col = i /\ op'.by = r
    BY <1>4 DEF StartReplace
  <2>5. UNCHANGED <<ref, using, handles>> /\ Refs = {r} /\ using[r] = Null
    BY <1>4 DEF StartReplace, Exclusive, Free, refVars
  <2>6. Refs' = {r}
    BY <2>5 DEF Refs
  <2> QED
    BY <2>2, <2>3, <2>4, <2>5, <2>6 DEF ReplacedAlone
<1>5. CASE Crash
  BY <1>5 DEF Crash, ReplacedAlone, NoOp
<1> QED
  <2>1. ASSUME op.step = "idle", Next PROVE ReplacedAlone'
    BY <1>3, <1>4, <1>5, <2>1 DEF Next, NewOptions, SetCreate, Load, Open, EndUse, DropRef, OpenFail, WrapFail,
       DestroyFailed, Clone, Use, DestroyHandle, Recreate, RecreateFail
  <2> QED
    BY <1>1, <1>2, <2>1

LEMMA LeakStep ==
  TypeOK /\ OnlyOwnersUse /\ OthersMatch /\ ReplacedAlone /\ NoHandleLeak /\ [Next]_vars => NoHandleLeak'
<1> SUFFICES ASSUME TypeOK, OnlyOwnersUse, OthersMatch, ReplacedAlone, NoHandleLeak, [Next]_vars
             PROVE  NoHandleLeak'
  OBVIOUS
<1>1. CASE UNCHANGED <<handles, live>>
  BY <1>1 DEF NoHandleLeak
<1>2. ASSUME NEW r \in Ref, Open(r) PROVE NoHandleLeak'
  BY <1>2 DEF Open, NoHandleLeak
<1>3. ASSUME NEW r \in Ref, DropRef(r) PROVE NoHandleLeak'
  BY <1>3 DEF DropRef, NoHandleLeak
<1>4. CASE WrapFail \/ DestroyFailed \/ Crash
  BY <1>4 DEF WrapFail, DestroyFailed, Crash, NoHandleLeak, OnlyOwnersUse
<1>5. CASE DestroyHandle
  BY <1>5 DEF DestroyHandle, NoHandleLeak
<1>6. CASE Recreate \/ RecreateFail
  <2>1. handles[op.col] \notin live
    BY <1>6 DEF Recreate, RecreateFail, ReplacedAlone
  <2>2. PICK n \in 0..MaxColumns : DOMAIN handles = 0..n /\ op.col \in 0..n - 1
    BY <1>6 DEF Recreate, RecreateFail, OnlyOwnersUse, OthersMatch
  <2>3. op.col \in DOMAIN handles
    BY <2>2, MaxColumnsAssumption
  <2> QED
    BY <1>6, <2>1, <2>3 DEF Recreate, RecreateFail, NoHandleLeak
<1> QED
  BY <1>1, <1>2, <1>3, <1>4, <1>5, <1>6 DEF Next, vars, NewOptions, SetCreate, Load, EndUse, OpenFail,
     Clone, Use, StartReplace

LEMMA UseStep ==
  /\ TypeOK /\ OnlyOwnersUse /\ OthersMatch /\ ReplacedAlone /\ NoUseAfterDestroy /\ [Next]_vars
  => NoUseAfterDestroy'
<1> SUFFICES ASSUME TypeOK, OnlyOwnersUse, OthersMatch, ReplacedAlone, NoUseAfterDestroy, [Next]_vars
             PROVE  NoUseAfterDestroy'
  OBVIOUS
<1> USE DEF refVars
<1>1. CASE using' = using /\ live \subseteq live'
  BY <1>1 DEF NoUseAfterDestroy
<1>2. CASE using' = using /\ \A r \in Ref : using[r] = Null
  BY <1>2 DEF NoUseAfterDestroy
<1>3. ASSUME NEW r \in Ref, Open(r) PROVE NoUseAfterDestroy'
  BY <1>2, <1>3, UsingMeansIdle DEF Open
<1>4. ASSUME NEW r \in Ref, EndUse(r) PROVE NoUseAfterDestroy'
  BY <1>4 DEF EndUse, NoUseAfterDestroy, TypeOK
<1>5. ASSUME NEW r \in Ref, DropRef(r) PROVE NoUseAfterDestroy'
  <2>1. CASE Refs = {r}
    <3>1. \A s \in Ref : using[s] = Null
      BY <1>5, <2>1 DEF DropRef, Free, Refs, OnlyOwnersUse
    <3> QED
      BY <1>2, <1>5, <3>1 DEF DropRef
  <2> QED
    BY <1>1, <1>5, <2>1 DEF DropRef
<1>6. ASSUME NEW r \in Ref, NEW i, Use(r, i) PROVE NoUseAfterDestroy'
  <2>1. wrapper = "open" /\ op.step = "idle"
    BY <1>6, FreeMeansIdle DEF Use
  <2>2. handles[i] \in live
    BY <1>6, <2>1 DEF Use, OthersMatch
  <2> QED
    BY <1>6, <2>2 DEF Use, NoUseAfterDestroy, TypeOK
<1>7. CASE DestroyHandle
  BY <1>2, <1>7, UsingMeansIdle DEF DestroyHandle
<1>8. CASE Crash
  BY <1>8 DEF Crash, NoUseAfterDestroy
<1> QED
  BY <1>1, <1>3, <1>4, <1>5, <1>6, <1>7, <1>8 DEF Next, vars, NewOptions, SetCreate, Load, OpenFail,
     WrapFail, DestroyFailed, Clone, StartReplace, Recreate, RecreateFail

-----------------------------------------------------------------------------
(* Types.                                                                  *)

LEMMA HandlesType ==
  ASSUME TypeOK, NEW h \in 0..MaxCf, handles' = [handles EXCEPT ![op.col] = h]
  PROVE  \/ handles' = NoHandles
         \/ \E n \in 0..MaxColumns : handles' \in [0..n -> 0..MaxCf]
<1>1. CASE handles = NoHandles
  BY <1>1 DEF NoHandles
<1>2. ASSUME NEW n \in 0..MaxColumns, handles \in [0..n -> 0..MaxCf]
      PROVE  handles' \in [0..n -> 0..MaxCf]
  BY <1>2
<1> QED
  BY <1>1, <1>2 DEF TypeOK

LEMMA TypeStep ==
  TypeOK /\ DescsInOrder /\ DiskIsSound /\ [Next]_vars => TypeOK'
<1> SUFFICES ASSUME TypeOK, DescsInOrder, DiskIsSound, [Next]_vars PROVE TypeOK'
  OBVIOUS
<1> USE DEF optVars, refVars
<1> DEFINE OptType == columns \in 0..MaxColumns /\ createDb \in BOOLEAN /\ createMissing \in BOOLEAN
           HandleType == \/ handles = NoHandles
                         \/ \E n \in 0..MaxColumns : handles \in [0..n -> 0..MaxCf]
           OpenType == wrapper \in {"none", "open", "failed"} /\ live \subseteq 1..MaxCf
           RefType == /\ ref \in [Ref -> {"none", "db", "holder"}]
                      /\ using \in [Ref -> 0..MaxCf]
                      /\ op \in Op
<1>1. cfs' \in [Name -> 0..MaxCf] /\ created' \in 0..MaxCf
  BY DiskStep
<1>2. \E n \in 0..MaxColumns : descs' \in [0..n -> Name]
  BY DescsStep, NewDescsType DEF DescsInOrder
<1>3. OptType'
  BY DEF TypeOK, Next, vars, NewOptions, SetCreate, Load, Open, EndUse, DropRef, OpenFail, WrapFail,
     DestroyFailed, Clone, Use, StartReplace, DestroyHandle, Recreate, RecreateFail, Crash
<1>4. NoOp \in Op
  BY MaxColumnsAssumption DEF NoOp, Op
<1>5. HandleType' /\ OpenType'
  <2>1. CASE UNCHANGED <<handles, wrapper, live>>
    BY <2>1 DEF TypeOK
  <2>2. CASE handles' = NoHandles /\ wrapper' = "none" /\ live' \subseteq live
    BY <2>2 DEF TypeOK
  <2>3. CASE (\E r \in Ref : Open(r)) \/ WrapFail
    <3>1. CreateAll(Missing) /\ handles' = HandlesFor(cfs')
      BY <2>3 DEF Open, WrapFail
    <3>2. PICK n \in 0..MaxColumns : handles' \in [0..n -> 1..MaxCf]
      BY <3>1, OpenedHandles
    <3>3. handles' \in [0..n -> 0..MaxCf]
      BY <3>2, MaxCfAssumption
    <3>4. wrapper' \in {"none", "open", "failed"}
          /\ (live' = live \/ live' = {handles'[i] : i \in DOMAIN handles'})
      BY <2>3 DEF Open, WrapFail
    <3>5. {handles'[i] : i \in DOMAIN handles'} \subseteq 1..MaxCf
      BY <3>2
    <3>6. OpenType'
      BY <3>4, <3>5 DEF TypeOK
    <3> QED
      BY <3>3, <3>6
  <2>4. CASE DestroyHandle \/ RecreateFail
    <3>1. handles' = handles \/ handles' = [handles EXCEPT ![op.col] = Null]
      BY <2>4 DEF DestroyHandle, RecreateFail
    <3>2. CASE handles' = handles
      BY <2>4, <3>2 DEF DestroyHandle, RecreateFail, TypeOK
    <3>3. Null \in 0..MaxCf
      BY MaxCfAssumption DEF Null
    <3>4. CASE handles' = [handles EXCEPT ![op.col] = Null]
      <4>1. HandleType'
        BY <3>3, <3>4, HandlesType
      <4> QED
        BY <2>4, <4>1 DEF DestroyHandle, RecreateFail, TypeOK
    <3> QED
      BY <3>1, <3>2, <3>4
  <2>5. CASE Recreate
    <3>1. created + 1 \in 1..MaxCf /\ created + 1 \in 0..MaxCf
      BY <2>5, RecreateSound, MaxCfAssumption
    <3>2. HandleType'
      BY <2>5, <3>1, HandlesType DEF Recreate
    <3> QED
      BY <2>5, <3>1, <3>2 DEF Recreate, TypeOK
  <2> HIDE DEF HandleType, OpenType
  <2>6. \A r \in Ref : DropRef(r) =>
          \/ UNCHANGED <<handles, wrapper, live>>
          \/ handles' = NoHandles /\ wrapper' = "none" /\ live' \subseteq live
    BY DEF DropRef
  <2> QED
    BY <2>1, <2>2, <2>3, <2>4, <2>5, <2>6 DEF Next, vars, NewOptions, SetCreate, Load, EndUse,
       OpenFail, DestroyFailed, Clone, Use, StartReplace, Crash
<1>6. RefType'
  <2>1. CASE UNCHANGED <<ref, using, op>>
    BY <2>1 DEF TypeOK
  <2>2. ASSUME NEW r \in Ref, Open(r) \/ EndUse(r) \/ DropRef(r) PROVE RefType'
    <3>1. Null \in 0..MaxCf
      BY MaxCfAssumption DEF Null
    <3>2. CASE Open(r) \/ DropRef(r)
      <4>1. using' = using /\ op' = op
            /\ (ref' = [ref EXCEPT ![r] = "db"] \/ ref' = [ref EXCEPT ![r] = "none"])
        BY <3>2 DEF Open, DropRef
      <4> QED
        BY <4>1 DEF TypeOK
    <3>3. CASE EndUse(r)
      BY <3>1, <3>3 DEF EndUse, TypeOK
    <3> QED
      BY <2>2, <3>2, <3>3
  <2>3. ASSUME NEW r \in Ref, NEW s \in Ref, NEW k \in {"db", "holder"}, Clone(r, s, k) PROVE RefType'
    BY <2>3 DEF Clone, TypeOK
  <2>4. ASSUME NEW r \in Ref, NEW i, Use(r, i) PROVE RefType'
    <3>1. handles[i] \in 0..MaxCf
      BY <2>4 DEF Use, TypeOK, NoHandles
    <3> QED
      BY <2>4, <3>1 DEF Use, TypeOK
  <2>5. ASSUME NEW r \in Ref, NEW c \in {"clear_cf", "drop_cf"}, NEW i \in 0..MaxColumns, StartReplace(r, c, i)
        PROVE  RefType'
    BY <2>5 DEF StartReplace, TypeOK, Op
  <2>6. CASE DestroyHandle \/ Recreate \/ RecreateFail
    BY <1>4, <2>6 DEF DestroyHandle, Recreate, RecreateFail, TypeOK, Op
  <2>7. CASE Crash
    BY <1>4, <2>7, MaxCfAssumption DEF Crash, TypeOK, Null
  <2> HIDE DEF RefType
  <2> QED
    BY <2>1, <2>2, <2>3, <2>4, <2>5, <2>6, <2>7 DEF Next, vars, NewOptions, SetCreate, Load,
       OpenFail, WrapFail, DestroyFailed
<1> QED
  BY <1>1, <1>2, <1>3, <1>5, <1>6 DEF TypeOK

-----------------------------------------------------------------------------
(* The theorems.                                                           *)

LEMMA IndInit == Init => IndInv
<1> SUFFICES ASSUME Init PROVE IndInv
  OBVIOUS
<1>1. columns \in 0..MaxColumns /\ descs = NewDescs(columns)
  BY DEF Init
<1>2. TypeOK
  <2>1. \E n \in 0..MaxColumns : descs \in [0..n -> Name]
    BY <1>1, NewDescsType
  <2>2. NoOp \in Op
    BY MaxColumnsAssumption DEF NoOp, Op
  <2>3. 0 \in 0..MaxCf
    BY MaxCfAssumption
  <2>4. cfs \in [Name -> 0..MaxCf] /\ using \in [Ref -> 0..MaxCf] /\ created \in 0..MaxCf
    BY <2>3 DEF Init, Null
  <2>5. ref \in [Ref -> {"none", "db", "holder"}]
    BY DEF Init
  <2>6. createDb \in BOOLEAN /\ createMissing \in BOOLEAN
    BY DEF Init
  <2> QED
    BY <1>1, <2>1, <2>2, <2>4, <2>5, <2>6 DEF Init, TypeOK
<1>3. DescsInOrder
  BY <1>1 DEF DescsInOrder
<1>4. DiskIsSound
  BY DEF Init, DiskIsSound, Null
<1>5. OnlyOwnersUse /\ OthersMatch /\ ReplacedAlone /\ NoHandleLeak /\ NoUseAfterDestroy
  BY DEF Init, OnlyOwnersUse, OthersMatch, ReplacedAlone, NoHandleLeak, NoUseAfterDestroy, Refs, NoOp
<1> QED
  BY <1>2, <1>3, <1>4, <1>5 DEF IndInv

LEMMA IndStep == IndInv /\ [Next]_vars => IndInv'
  BY TypeStep, DescsStep, DiskStep, OwnersStep, MatchStep, ReplacedStep, LeakStep, UseStep DEF IndInv

\* The invariant of opening, using, clearing, dropping and closing.
THEOREM HandleInvariance == Spec => []IndInv
  BY IndInit, IndStep, PTL DEF Spec

\* A column number means the same column family in the descriptors, in the vector
\* of handles and on disk, through clear_cf, drop_cf, failures and crashes.
THEOREM ColumnsKeepTheirMeaning == Spec => []HandlesMatchColumns
<1>1. IndInv => HandlesMatchColumns
  <2> SUFFICES ASSUME IndInv, wrapper = "open", op.step = "idle",
                      NEW i \in DOMAIN handles, handles[i] # Null
               PROVE  handles[i] \in live /\ handles[i] = cfs[NameAt(i, LastOf(handles))]
    BY DEF HandlesMatchColumns
  <2>1. PICK n \in 0..MaxColumns :
          /\ DOMAIN handles = 0..n
          /\ handles[i] \in live /\ handles[i] = cfs[NameAt(i, n)]
    BY DEF IndInv, OthersMatch
  <2>2. LastOf(handles) = n
    BY <2>1, LastIndex, MaxColumnsAssumption
  <2> QED
    BY <2>1, <2>2
<1> QED
  BY <1>1, HandleInvariance, PTL

\* The columns asked for have a descriptor each, and a handle once it is open.
AskedAreListed ==
  /\ 0..columns \subseteq DOMAIN descs
  /\ wrapper = "open" => 0..columns \subseteq DOMAIN handles

LEMMA AskedStep == IndInv /\ AskedAreListed /\ [Next]_vars => AskedAreListed'
<1> SUFFICES ASSUME IndInv, AskedAreListed, [Next]_vars PROVE AskedAreListed'
  OBVIOUS
<1> USE DEF optVars
<1>1. CASE UNCHANGED <<columns, descs, wrapper, handles>>
  BY <1>1 DEF AskedAreListed
<1>2. ASSUME NEW n \in 0..MaxColumns, NewOptions(n) PROVE AskedAreListed'
  BY <1>2 DEF AskedAreListed, NewOptions, NewDescs
<1>3. ASSUME NEW b, NEW c, Load(b, c) PROVE AskedAreListed'
  <2>1. PICK n \in 0..MaxColumns : DOMAIN descs = 0..n
    BY DEF IndInv, TypeOK
  <2>2. Cardinality(DOMAIN descs) = n + 1
    BY <2>1, FS_Interval, MaxColumnsAssumption
  <2>3. /\ descs' = SortAndCompleteMissing(n + 1) /\ columns' = columns
        /\ wrapper' = wrapper /\ wrapper = "none"
    BY <1>3, <2>2 DEF Load
  <2>4. DOMAIN descs' = 0..(n + 1)
    BY <2>3 DEF SortAndCompleteMissing
  <2> QED
    BY <2>1, <2>3, <2>4, MaxColumnsAssumption DEF AskedAreListed
<1>4. CASE wrapper' # "open" /\ UNCHANGED <<columns, descs>>
  BY <1>4 DEF AskedAreListed
<1>5. ASSUME NEW r \in Ref, Open(r) PROVE AskedAreListed'
  BY <1>5 DEF Open, HandlesFor, AskedAreListed
<1>6. CASE DestroyHandle \/ Recreate \/ RecreateFail
  <2>1. /\ \/ handles' = handles
           \/ \E h : handles' = [handles EXCEPT ![op.col] = h]
        /\ UNCHANGED <<columns, descs, wrapper>>
    BY <1>6 DEF DestroyHandle, Recreate, RecreateFail
  <2>2. DOMAIN handles' = DOMAIN handles
    BY <2>1
  <2> QED
    BY <2>1, <2>2 DEF AskedAreListed
<1>7. ASSUME NEW r \in Ref, DropRef(r) PROVE AskedAreListed'
  BY <1>1, <1>4, <1>7 DEF DropRef
<1> QED
  BY <1>1, <1>2, <1>3, <1>4, <1>5, <1>6, <1>7 DEF Next, vars, SetCreate, EndUse, OpenFail, WrapFail,
     DestroyFailed, Clone, Use, StartReplace, Crash

\* Every column asked for has an index of its own in an open database, apart
\* from the default one, whatever options files were loaded.
THEOREM AskedColumnsAreAddressable == Spec => []ColumnsAreAddressable
<1>1. Init => AskedAreListed
  BY DEF Init, NewDescs, AskedAreListed
<1>2. IndInv /\ AskedAreListed => ColumnsAreAddressable
  <2> SUFFICES ASSUME IndInv, AskedAreListed, wrapper = "open"
               PROVE  0..(columns - 1) \subseteq DOMAIN handles \ {LastOf(handles)}
    BY DEF ColumnsAreAddressable
  <2>1. PICK n \in 0..MaxColumns : DOMAIN handles = 0..n
    BY DEF IndInv, OthersMatch
  <2>2. LastOf(handles) = n
    BY <2>1, LastIndex, MaxColumnsAssumption
  <2>3. columns \in 0..MaxColumns
    BY DEF IndInv, TypeOK
  <2>4. columns \in 0..columns
    BY <2>3, MaxColumnsAssumption
  <2>5. columns \in 0..n
    BY <2>1, <2>4 DEF AskedAreListed
  <2> QED
    BY <2>1, <2>2, <2>5, MaxColumnsAssumption
<1> QED
  BY <1>1, <1>2, AskedStep, HandleInvariance, PTL DEF Spec

\* No call works with a deleted handle: Arc::get_mut keeps clear_cf and drop_cf
\* away from every other user of the database.
THEOREM HandlesOutliveTheirUse == Spec => []NoUseAfterDestroy
<1>1. IndInv => NoUseAfterDestroy
  BY DEF IndInv
<1> QED
  BY <1>1, HandleInvariance, PTL

\* clear_cf, drop_cf and the destructor delete every handle they give up.
THEOREM HandlesAreDeleted == Spec => []NoHandleLeak
<1>1. IndInv => NoHandleLeak
  BY DEF IndInv
<1> QED
  BY <1>1, HandleInvariance, PTL

\* Data is lost only in the column clear_cf or drop_cf was called for, which is
\* found by its handle and re-created by its number.
THEOREM OtherColumnsAreKept == Spec => OnlyTheNamedColumn
<1> DEFINE Lost == \A x \in Name : cfs[x] # Null /\ cfs'[x] # cfs[x] => op'.step = "destroy" /\ op'.col = x
<1>1. IndInv /\ [Next]_vars => [Lost]_vars
  <2> SUFFICES ASSUME IndInv, Next PROVE Lost
    OBVIOUS
  <2> USE DEF IndInv
  <2>1. CASE UNCHANGED cfs
    BY <2>1
  <2>2. ASSUME NEW new \in SUBSET Missing, CreateAll(new) PROVE Lost
    <3>1. \A x \in Name \ new : cfs'[x] = cfs[x]
      BY <2>2, CreateAllSound
    <3>2. \A x \in new : cfs[x] = Null
      BY <2>2, CreateAllSound
    <3> QED
      BY <3>1, <3>2
  <2>3. ASSUME NEW r \in Ref, NEW c, NEW i, StartReplace(r, c, i) PROVE Lost
    <3>1. wrapper = "open" /\ op.step = "idle"
      BY <2>3, FreeMeansIdle DEF StartReplace
    <3>2. PICK n \in 0..MaxColumns :
            /\ DOMAIN handles = 0..n
            /\ \A j \in 0..n : handles[j] # Null => handles[j] = cfs[NameAt(j, n)]
      BY <3>1 DEF OthersMatch
    <3>3. \A x \in Name : x # i => cfs'[x] = cfs[x]
      BY <2>3, <3>2, Replaced
    <3>4. op'.step = "destroy" /\ op'.col = i
      BY <2>3 DEF StartReplace
    <3> QED
      BY <3>3, <3>4
  <2>4. CASE Recreate
    BY <2>4 DEF Recreate, TypeOK
  <2> HIDE DEF Lost
  <2> QED
    BY <2>1, <2>2, <2>3, <2>4 DEF Next, diskVars, NewOptions, SetCreate, Load, Open, EndUse, DropRef,
       OpenFail, WrapFail, DestroyFailed, Clone, Use, DestroyHandle, RecreateFail, Crash
<1> QED
  BY <1>1, HandleInvariance, PTL DEF Spec, OnlyTheNamedColumn
================================================================================
