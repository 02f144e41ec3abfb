----------------------------- MODULE LRUCacheShard -----------------------------
(***************************************************************************)
(* A shard of RocksDB's block cache, without a secondary cache: the hash   *)
(* table, the LRU list with its three priority pools, reference counts,    *)
(* and the accounting that keeps the shard within its capacity.  Every     *)
(* call does its work in one critical section of mutex_, one step here;    *)
(* the entries it has removed for good are freed later, outside the mutex. *)
(*                                                                         *)
(* The list is a sequence, oldest entry first; lru_bottom_pri_ and         *)
(* lru_low_pri_ are positions in it (0: the list head), so the bottom-pri, *)
(* low-pri and high-pri pools are its consecutive segments.  Hashing and   *)
(* the resizing of the table are left out: the table is a map by key.      *)
(***************************************************************************)
EXTENDS Integers, SequencesExt, FiniteSetsExt

CONSTANTS Handle,      \* memory for entries; None: not an entry
          Key, None,
          Inserts,     \* what callers insert: [key, charge, priority]
          Capacities,  \* low_pri_pool_ratio -> the values for SetCapacity
          HighRatios,  \* high_pri_pool_ratio, in percent
          LowRatios,   \* low_pri_pool_ratio, in percent
          MaxPins      \* bound on the references callers have to an entry

ASSUME InsertsAssumption ==
  Inserts \subseteq [key : Key, charge : Nat, priority : {"high", "low", "bottom"}]
ASSUME LimitsAssumption ==
  /\ HighRatios \subseteq 0 .. 100 /\ LowRatios \subseteq 0 .. 100
  /\ Capacities \in [LowRatios -> SUBSET Nat]

VARIABLES shard,   \* what mutex_ protects
          doomed,  \* entries some caller has removed for good and not yet freed
          pins     \* handle -> how many references the callers have

vars == <<shard, doomed, pins>>

-----------------------------------------------------------------------------
HasRefs(c, h) == c.entry[h].refs > 0
ChargeOf(c, h) == c.entry[h].charge
HighPoolCapacity(c) == (c.capacity * c.highRatio) \div 100
LowPoolCapacity(c) == (c.capacity * c.lowRatio) \div 100
\* What a step adds to the usage of a pool if the entry is of that pool
InPool(c, h, pool) == IF c.entry[h].pool = pool THEN ChargeOf(c, h) ELSE 0

\* Mutant: the head of the low-pri pool is not moved off the entry removed.
LRU_Remove_KeepsHead(c, h) ==
  LET i == SelectInSeq(c.lru, LAMBDA g : g = h)
  IN [c EXCEPT !.lru = RemoveAt(@, i),
               !.low = IF @ > i THEN @ - 1 ELSE @,
               !.bottom = IF @ >= i THEN @ - 1 ELSE @,
               !.lruUsage = @ - ChargeOf(c, h),
               !.highUsage = @ - InPool(c, h, "high"),
               !.lowUsage = @ - InPool(c, h, "low")]

LRU_Remove(c, h) ==
  LET i == SelectInSeq(c.lru, LAMBDA g : g = h)
  IN [c EXCEPT !.lru = RemoveAt(@, i),
               !.low = IF @ >= i THEN @ - 1 ELSE @,
               !.bottom = IF @ >= i THEN @ - 1 ELSE @,
               !.lruUsage = @ - ChargeOf(c, h),
               !.highUsage = @ - InPool(c, h, "high"),
               !.lowUsage = @ - InPool(c, h, "low")]

\* The oldest entries of the high-pri pool overflow into the low-pri pool, and
\* those of the low-pri pool into the bottom-pri pool.  The code asserts that
\* neither loop runs off the list.
RECURSIVE MaintainPoolSize(_)
MaintainPoolSize(c) ==
  IF c.highUsage > HighPoolCapacity(c) /\ c.low < Len(c.lru)
  THEN LET h == c.lru[c.low + 1]
       IN MaintainPoolSize([c EXCEPT !.low = @ + 1, !.entry[h].pool = "low",
                                     !.highUsage = @ - ChargeOf(c, h),
                                     !.lowUsage = @ + ChargeOf(c, h)])
  ELSE IF c.lowUsage > LowPoolCapacity(c) /\ c.bottom < Len(c.lru)
  THEN LET h == c.lru[c.bottom + 1]
       IN MaintainPoolSize([c EXCEPT !.bottom = @ + 1, !.entry[h].pool = "bottom",
                                     !.lowUsage = @ - ChargeOf(c, h)])
  ELSE c

InsertHigh(c, h) ==
  MaintainPoolSize([c EXCEPT !.lru = Append(@, h), !.entry[h].pool = "high",
                             !.highUsage = @ + ChargeOf(c, h)])
InsertLow(c, h) ==
  [MaintainPoolSize([c EXCEPT !.lru = InsertAt(@, c.low + 1, h), !.entry[h].pool = "low",
                              !.lowUsage = @ + ChargeOf(c, h)])
     EXCEPT !.low = c.low + 1]
InsertBottom(c, h) ==
  [c EXCEPT !.lru = InsertAt(@, c.bottom + 1, h), !.entry[h].pool = "bottom",
            !.bottom = @ + 1, !.low = @ + 1]

LRU_Insert(c, h) ==
  LET e == c.entry[h]
      high == c.highRatio > 0 /\ (e.priority = "high" \/ e.hit)
      low == c.lowRatio > 0 /\ (e.priority \in {"high", "low"} \/ e.hit)
      inserted == CASE high -> InsertHigh(c, h)
                    [] ~high /\ low -> InsertLow(c, h)
                    [] ~high /\ ~low -> InsertBottom(c, h)
  IN [inserted EXCEPT !.lruUsage = @ + e.charge]

\* Out of the table: only references keep the entry now.
Uncache(c, h) ==
  [c EXCEPT !.table[c.entry[h].key] = None, !.entry[h].inCache = FALSE]

\* Off the list and out of the cache and its accounting: to be freed.
Evict(c, h) ==
  LET d == Uncache(LRU_Remove(c, h), h)
  IN [d EXCEPT !.usage = @ - ChargeOf(c, h)]

RECURSIVE EvictFromLRU(_, _)
EvictFromLRU(c, charge) ==
  IF c.usage + charge > c.capacity /\ c.lru # <<>>
  THEN EvictFromLRU(Evict(c, Head(c.lru)), charge)
  ELSE c

\* The entries that left the cache between c and d with nobody using them
Evicted(c, d) == {h \in ToSet(c.lru) : ~d.entry[h].inCache}

-----------------------------------------------------------------------------
Init ==
  /\ \E high \in HighRatios, low \in LowRatios, strict \in BOOLEAN :
     \E capacity \in Capacities[low] :
       shard = [entry |-> [h \in Handle |-> None], table |-> [k \in Key |-> None],
                lru |-> <<>>, low |-> 0, bottom |-> 0,
                usage |-> 0, lruUsage |-> 0, highUsage |-> 0, lowUsage |-> 0,
                capacity |-> capacity, strict |-> strict,
                highRatio |-> high, lowRatio |-> low]
  /\ doomed = {}
  /\ pins = [h \in Handle |-> 0]

\* Mutant: the entry replaced is still charged.
Replace_Charged(c, h) ==
  LET old == c.table[c.entry[h].key]
      d == IF old = None THEN c
           ELSE IF HasRefs(c, old) THEN Uncache(c, old)
           ELSE Uncache(LRU_Remove(c, old), old)
  IN [d EXCEPT !.table[c.entry[h].key] = h, !.usage = @ + ChargeOf(c, h)]

\* Takes the place of an entry with the same key.
Replace(c, h) ==
  LET old == c.table[c.entry[h].key]
      d == IF old = None THEN c
           ELSE IF HasRefs(c, old) THEN Uncache(c, old)
           ELSE Evict(c, old)
  IN [d EXCEPT !.table[c.entry[h].key] = h, !.usage = @ + ChargeOf(c, h)]

\* Mutant: the charge of the new entry is forgotten.
Refused_FullOnly(c, charge, wanted) == c.usage > c.capacity /\ (c.strict \/ ~wanted)

\* There is no space even after eviction, and the entry is not to exceed it.
Refused(c, charge, wanted) == c.usage + charge > c.capacity /\ (c.strict \/ ~wanted)

\* Insert and InsertItem; `wanted`: the caller asks for a handle.
Insert(h, x, wanted) ==
  LET e == [key |-> x.key, charge |-> x.charge, priority |-> x.priority,
            refs |-> 0, inCache |-> TRUE, hit |-> FALSE, pool |-> "bottom"]
      c == EvictFromLRU(shard, x.charge)
      d == Replace([c EXCEPT !.entry[h] = e], h)
  IN /\ shard.entry[h] = None
     /\ IF Refused(c, x.charge, wanted)
        THEN \* refused, or as if inserted and evicted at once
             /\ shard' = IF wanted THEN c
                         ELSE [c EXCEPT !.entry[h] = [e EXCEPT !.inCache = FALSE]]
             /\ doomed' = doomed \cup Evicted(shard, c) \cup (IF wanted THEN {} ELSE {h})
             /\ UNCHANGED pins
        ELSE /\ shard' = IF wanted THEN [d EXCEPT !.entry[h].refs = 1] ELSE LRU_Insert(d, h)
             /\ doomed' = doomed \cup Evicted(shard, d)
             /\ pins' = IF wanted THEN [pins EXCEPT ![h] = 1] ELSE pins

\* Mutant: an idle entry stays on the LRU list when it is found.
Lookup_Listed(k) ==
  LET h == shard.table[k]
  IN /\ h # None
     /\ pins[h] < MaxPins
     /\ shard' = [shard EXCEPT !.entry[h].refs = @ + 1, !.entry[h].hit = TRUE]
     /\ pins' = [pins EXCEPT ![h] = @ + 1]
     /\ UNCHANGED doomed

Lookup(k) ==
  LET h == shard.table[k]
      c == IF HasRefs(shard, h) THEN shard ELSE LRU_Remove(shard, h)
  IN /\ h # None
     /\ pins[h] < MaxPins
     /\ shard' = [c EXCEPT !.entry[h].refs = @ + 1, !.entry[h].hit = TRUE]
     /\ pins' = [pins EXCEPT ![h] = @ + 1]
     /\ UNCHANGED doomed

Ref(h) ==
  /\ pins[h] \in 1 .. MaxPins - 1
  /\ shard' = [shard EXCEPT !.entry[h].refs = @ + 1]
  /\ pins' = [pins EXCEPT ![h] = @ + 1]
  /\ UNCHANGED doomed

\* Mutant: the last reference puts the entry back however full the cache is.
NoRoom_Never(c, erase_if_last_ref) == erase_if_last_ref

\* Is an entry that nobody uses any more dropped rather than kept?
NoRoom(c, erase_if_last_ref) == c.usage > c.capacity \/ erase_if_last_ref

\* The last reference gives an entry back to the list or drops it.  (The usage
\* is left alone for an entry whose lookup in a secondary cache failed; there is
\* none here.)
Release(h, erase_if_last_ref) ==
  LET c == [shard EXCEPT !.entry[h].refs = @ - 1]
      keep == c.entry[h].inCache /\ ~NoRoom(c, erase_if_last_ref)
      d == IF c.entry[h].inCache THEN Uncache(c, h) ELSE c
  IN /\ pins[h] > 0
     /\ \/ /\ HasRefs(c, h)
           /\ shard' = c
           /\ UNCHANGED doomed
        \/ /\ ~HasRefs(c, h) /\ keep
           /\ shard' = LRU_Insert(c, h)
           /\ UNCHANGED doomed
        \/ /\ ~HasRefs(c, h) /\ ~keep
           /\ shard' = [d EXCEPT !.usage = @ - ChargeOf(c, h)]
           /\ doomed' = doomed \cup {h}
     /\ pins' = [pins EXCEPT ![h] = @ - 1]

\* Mutant: an erased entry is freed even when someone uses it.
Erase_Pinned(k) ==
  LET h == shard.table[k]
  IN /\ h # None
     /\ shard' = IF HasRefs(shard, h) THEN Uncache(shard, h) ELSE Evict(shard, h)
     /\ doomed' = doomed \cup {h}
     /\ UNCHANGED pins

Erase(k) ==
  LET h == shard.table[k]
  IN /\ h # None
     /\ shard' = IF HasRefs(shard, h) THEN Uncache(shard, h) ELSE Evict(shard, h)
     /\ doomed' = IF HasRefs(shard, h) THEN doomed ELSE doomed \cup {h}
     /\ UNCHANGED pins

EraseUnRefEntries ==
  /\ shard.lru # <<>>
  /\ shard' = FoldLeft(Evict, shard, shard.lru)
  /\ doomed' = doomed \cup ToSet(shard.lru)
  /\ UNCHANGED pins

SetCapacity(capacity) ==
  LET c == EvictFromLRU([shard EXCEPT !.capacity = capacity], 0)
  IN /\ shard' = c
     /\ doomed' = doomed \cup Evicted(shard, c)
     /\ UNCHANGED pins

SetStrictCapacityLimit(strict) ==
  /\ shard' = [shard EXCEPT !.strict = strict]
  /\ UNCHANGED <<doomed, pins>>

SetHighPriorityPoolRatio(ratio) ==
  /\ shard' = MaintainPoolSize([shard EXCEPT !.highRatio = ratio])
  /\ UNCHANGED <<doomed, pins>>

SetLowPriorityPoolRatio(ratio) ==
  /\ shard' = MaintainPoolSize([shard EXCEPT !.lowRatio = ratio])
  /\ UNCHANGED <<doomed, pins>>

\* LRUHandle::Free, outside the mutex
Free(h) ==
  /\ h \in doomed
  /\ doomed' = doomed \ {h}
  /\ shard' = [shard EXCEPT !.entry[h] = None]
  /\ UNCHANGED pins

Next ==
  \/ \E h \in Handle, x \in Inserts, wanted \in BOOLEAN : Insert(h, x, wanted)
  \/ \E k \in Key : Lookup(k) \/ Erase(k)
  \/ \E h \in Handle : Ref(h) \/ Free(h)
  \/ \E h \in Handle, erase \in BOOLEAN : Release(h, erase)
  \/ EraseUnRefEntries
  \/ \E n \in Capacities[shard.lowRatio] : SetCapacity(n)
  \/ \E b \in BOOLEAN : SetStrictCapacityLimit(b)
  \/ \E r \in HighRatios : SetHighPriorityPoolRatio(r)
  \/ \E r \in LowRatios : SetLowPriorityPoolRatio(r)

Spec == Init /\ [][Next]_vars

-----------------------------------------------------------------------------
Entries == {h \in Handle : shard.entry[h] # None}
TotalCharge(S) == MapThenSumSet(LAMBDA h : shard.entry[h].charge, S)

\* usage_ and lru_usage_ are exactly what is charged: the entries in the table
\* and the ones out of it that are still referenced; the entries on the list.
\* No path of InsertItem, Release, Erase or EvictFromLRU charges twice or forgets.
UsageIsExact ==
  /\ shard.usage = TotalCharge({h \in Entries : shard.entry[h].inCache \/ HasRefs(shard, h)})
  /\ shard.lruUsage = TotalCharge(ToSet(shard.lru))

\* The cache is over its capacity only while everything in it is in use: the
\* assertion of Release, which then need not evict anything else.
OverCapacityIsPinned == shard.usage > shard.capacity => shard.lru = <<>>

\* An entry is on the LRU list exactly when it is in the table and nobody has a
\* reference to it, once, and the table leads to it under its key: what lets
\* Lookup, Erase and InsertItem conclude "on the list" from a reference count.
ListedIffIdle ==
  /\ \A h \in Entries :
       /\ (h \in ToSet(shard.lru)) = (shard.entry[h].inCache /\ ~HasRefs(shard, h))
       /\ shard.entry[h].inCache = (shard.table[shard.entry[h].key] = h)
  /\ \A k \in Key : shard.table[k] # None => shard.table[k] \in Entries
  /\ Cardinality(ToSet(shard.lru)) = Len(shard.lru)

\* What a caller has a handle to is not freed under it, and what is to be freed
\* (LRUHandle::Free, outside the mutex) can be found by nobody any more.
NoUseAfterFree ==
  /\ \A h \in Handle : pins[h] > 0 => h \in Entries \ doomed /\ shard.entry[h].refs = pins[h]
  /\ \A h \in doomed : h \in Entries /\ pins[h] = 0 /\ ~shard.entry[h].inCache

\* The pool an entry on the list thinks it is in is the segment it lies in, and
\* the pools' usages are the charges of the segments: what the assertions of
\* LRU_Remove and MaintainPoolSize rest on.
PoolsAreSegments ==
  /\ 0 <= shard.bottom /\ shard.bottom <= shard.low /\ shard.low <= Len(shard.lru)
  /\ \A i \in DOMAIN shard.lru :
       shard.entry[shard.lru[i]].pool = IF i <= shard.bottom THEN "bottom"
                                        ELSE IF i <= shard.low THEN "low" ELSE "high"
  /\ \A pool \in {"high", "low"} :
       (IF pool = "high" THEN shard.highUsage ELSE shard.lowUsage)
         = TotalCharge({h \in ToSet(shard.lru) : shard.entry[h].pool = pool})

\* assert(high_pri_pool_usage_ >= e->total_charge) in LRU_Remove, and the same of
\* the low-pri pool, for whichever entry on the list is looked up next.
PoolUsageCovers ==
  \A h \in ToSet(shard.lru) :
    /\ shard.entry[h].pool = "high" => shard.highUsage >= ChargeOf(shard, h)
    /\ shard.entry[h].pool = "low" => shard.lowUsage >= ChargeOf(shard, h)

\* With strict_capacity_limit no insertion makes the usage exceed the capacity.
StrictLimit == [][shard.strict /\ shard'.usage > shard.usage => shard'.usage <= shard.capacity]_vars
================================================================================
