--------------------------- MODULE PointLockManager ---------------------------
(***************************************************************************)
(* RocksDB's PointLockManager, and the part of a transaction that drives   *)
(* it: shared and exclusive locks in stripes, each with a mutex and a      *)
(* condition variable; waiting, timing out and stealing expired locks; the *)
(* deadlock detector's wait-for map; unlocking stripe by stripe; dropping  *)
(* a column family.                                                        *)
(*                                                                         *)
(* Each transaction is driven by a thread of its own.  A step is what a    *)
(* thread does between two points where others can act on what it uses: a  *)
(* stripe is only touched under its mutex, the wait-for map under its own. *)
(* The list of holders of a lock is a set: a transaction asks for a lock   *)
(* it holds only to upgrade it.  The limit on the number of locks is left  *)
(* out (max_num_locks is -1 unless set).                                   *)
(***************************************************************************)
EXTENDS Integers, Sequences, FiniteSets

CONSTANTS Txn,        \* transactions; an id is never reused
          NoTxn,      \* "nobody"
          Key,        \* keys of all column families
          StripeOf,   \* key -> its stripe
          CfOf,       \* stripe -> its column family
          NoStripe,   \* "no stripe"
          Expiring,   \* the transactions with an expiration time
          Detecting,  \* the transactions with deadlock_detect
          Depth,      \* deadlock_detect_depth
          Droppable,  \* the column families that may be dropped
          Requests    \* the locks asked for: <<key, exclusive, lock_timeout # 0>>

Stripe == {StripeOf[k] : k \in Key}
Cf == {CfOf[s] : s \in Stripe}

ASSUME TxnAssumption == NoTxn \notin Txn \cup Key /\ Expiring \subseteq Txn /\ Detecting \subseteq Txn
ASSUME StripeAssumption == NoStripe \notin Stripe
ASSUME DepthAssumption == Depth \in Nat
ASSUME DroppableAssumption == Droppable \subseteq Cf
ASSUME RequestsAssumption == Requests \subseteq Key \X BOOLEAN \X BOOLEAN

VARIABLES
  lock,      \* key -> LockInfo; no holders: the key is not in the stripe's map
  mutex,     \* stripe -> who keeps its mutex from one step to the next
  dropped,   \* column families removed from lock_maps_
  waitMap,   \* wait_txn_map_: whom a transaction waits for; {}: no entry
  rev,       \* rev_wait_txn_map_: how many wait for a transaction
  state,     \* txn_state_: "started", "stolen", "committing"
  expired,   \* has its expiration time passed?
  held,      \* tracked_locks_: key -> "none", "shared", "exclusive"
  undone,    \* keys whose upgrade failed validation and was turned back
  abandoned, \* keys its UnLock calls gave up on; history, no step reads it
  req,       \* the request of its TryLock
  timedOut,  \* timed_out of AcquireWithTimeout
  todo,      \* keys an UnLock has yet to unlock
  at,        \* the stripe an UnLock is at, or was last
  pc         \* where its call is

mapVars == <<waitMap, rev>>
txnVars == <<state, expired, held, undone, abandoned>>
callVars == <<req, timedOut, todo, at, pc>>
vars == <<lock, mutex, dropped, mapVars, txnVars, callVars>>

-----------------------------------------------------------------------------
PC == {"idle",      \* no call in progress
       "enter",     \* TryLock: lock map found, about to take the stripe mutex
       "blocked",   \* AcquireLocked refused; stripe mutex held
       "sleep",     \* in Wait or WaitFor
       "awake",     \* signalled or timed out, about to take the stripe mutex
       "granted",   \* the lock manager granted the lock, validation is next
       "unlock",    \* UnLock: the next stripe
       "notify",    \* UnLock: stripe unlocked, NotifyAll is next
       "done"}      \* destroyed

Mode == {"none", "shared", "exclusive"}
Unlocked == [holders |-> {}, exclusive |-> FALSE, exp |-> {}]
LockRequest == [key : Key \cup {NoTxn}, exclusive : BOOLEAN, wait : BOOLEAN, undo : BOOLEAN]
NoRequest == [key |-> NoTxn, exclusive |-> FALSE, wait |-> FALSE, undo |-> FALSE]

\* exp: the transactions over whose expiration times expiration_time is the
\* maximum; {} when it is 0.
LockInfo == [holders : SUBSET Txn, exclusive : BOOLEAN, exp : SUBSET Expiring]

TypeOK ==
  /\ lock \in [Key -> LockInfo]
  /\ mutex \in [Stripe -> Txn \cup {NoTxn}]
  /\ dropped \subseteq Cf
  /\ waitMap \in [Txn -> SUBSET Txn]
  /\ rev \in [Txn -> Int]
  /\ state \in [Txn -> {"started", "stolen", "committing"}]
  /\ expired \in [Txn -> BOOLEAN]
  /\ held \in [Txn -> [Key -> Mode]]
  /\ undone \in [Txn -> SUBSET Key]
  /\ abandoned \in [Txn -> SUBSET Key]
  /\ req \in [Txn -> LockRequest]
  /\ timedOut \in [Txn -> BOOLEAN]
  /\ todo \in [Txn -> SUBSET Key]
  /\ at \in [Txn -> Stripe \cup {NoStripe}]
  /\ pc \in [Txn -> PC]

Init ==
  /\ lock = [k \in Key |-> Unlocked]
  /\ mutex = [s \in Stripe |-> NoTxn]
  /\ dropped = {}
  /\ waitMap = [t \in Txn |-> {}]
  /\ rev = [t \in Txn |-> 0]
  /\ state = [t \in Txn |-> "started"]
  /\ expired = [t \in Txn |-> FALSE]
  /\ held = [t \in Txn |-> [k \in Key |-> "none"]]
  /\ undone = [t \in Txn |-> {}]
  /\ abandoned = [t \in Txn |-> {}]
  /\ req = [t \in Txn |-> NoRequest]
  /\ timedOut = [t \in Txn |-> FALSE]
  /\ todo = [t \in Txn |-> {}]
  /\ at = [t \in Txn |-> NoStripe]
  /\ pc = [t \in Txn |-> "idle"]

Goto(t, p) == pc' = [pc EXCEPT ![t] = p]
MyStripe(t) == StripeOf[req[t].key]

\* The call of t returns; what it remembered is gone.
Return(t) ==
  /\ Goto(t, "idle")
  /\ req' = [req EXCEPT ![t] = NoRequest]
  /\ timedOut' = [timedOut EXCEPT ![t] = FALSE]
  /\ UNCHANGED <<todo, at>>

-----------------------------------------------------------------------------
(* PessimisticTransaction::TryLock and PointLockManager::TryLock.          *)

\* The lock manager is asked when the key is not tracked, or for an upgrade;
\* GetLockMap fails for a dropped column family.  `wait` is lock_timeout # 0.
Request(t, k, exclusive, wait) ==
  /\ pc[t] = "idle" /\ state[t] # "committing"
  /\ held[t][k] = "none" \/ (held[t][k] = "shared" /\ exclusive)
  /\ CfOf[StripeOf[k]] \notin dropped
  /\ req' = [req EXCEPT ![t] = [key |-> k, exclusive |-> exclusive, wait |-> wait, undo |-> FALSE]]
  /\ Goto(t, "enter")
  /\ UNCHANGED <<lock, mutex, dropped, mapVars, txnVars, timedOut, todo, at>>

\* TryLockFor(0) does not wait for the mutex.
MutexBusy(t) ==
  /\ pc[t] = "enter" /\ ~req[t].wait /\ mutex[MyStripe(t)] # NoTxn
  /\ Return(t)
  /\ UNCHANGED <<lock, mutex, dropped, mapVars, txnVars>>

\* expiration_time of t, as a set to take the maximum of.
ExpirationOf(t) == {t} \cap Expiring

\* DecrementWaitersImpl.
DecrementWaiters(t) ==
  /\ waitMap' = [waitMap EXCEPT ![t] = {}]
  /\ rev' = [u \in Txn |-> IF u \in waitMap[t] THEN rev[u] - 1 ELSE rev[u]]

\* A thread that takes its stripe's mutex to try (again): one that waited has
\* left the wait-for map before it tries.
Attempt(t) ==
  /\ pc[t] \in {"enter", "awake"}
  /\ mutex[MyStripe(t)] = NoTxn
  /\ DecrementWaiters(t)

\* AcquireLocked finds the key free, held by t alone, or shared like the request.
NotHeld(t) == lock[req[t].key].holders = {}
\* Mutant: an upgrade does not look for other holders.
HeldAlone_AnyHolder(t) ==
  LET l == lock[req[t].key]
  IN  t \in l.holders /\ (l.exclusive \/ req[t].exclusive)
HeldAlone(t) ==
  LET l == lock[req[t].key]
  IN  l.holders = {t} /\ (l.exclusive \/ req[t].exclusive)
BothShared(t) ==
  LET l == lock[req[t].key]
  IN  l.holders # {} /\ ~l.exclusive /\ ~req[t].exclusive
Conflict(t) == ~NotHeld(t) /\ ~HeldAlone(t) /\ ~BothShared(t)

Granted(t) ==
  [holders |-> {t}, exclusive |-> req[t].exclusive, exp |-> ExpirationOf(t)]

\* The lock manager returns OK.
Acquired(t) ==
  /\ Goto(t, "granted")
  /\ timedOut' = [timedOut EXCEPT ![t] = FALSE]
  /\ UNCHANGED <<req, todo, at>>

Take(t) ==
  /\ Attempt(t)
  /\ NotHeld(t) \/ HeldAlone(t)
  /\ lock' = [lock EXCEPT ![req[t].key] = Granted(t)]
  /\ Acquired(t)
  /\ UNCHANGED <<mutex, dropped, txnVars>>

Share(t) ==
  /\ Attempt(t)
  /\ BothShared(t)
  /\ lock' = [lock EXCEPT ![req[t].key].holders = @ \cup {t},
                          ![req[t].key].exp = @ \cup ExpirationOf(t)]
  /\ Acquired(t)
  /\ UNCHANGED <<mutex, dropped, txnVars>>

\* IsLockExpired: the time has passed ...
TimePassed(l) == l.exp # {} /\ \A u \in l.exp : expired[u]

\* ... and TryStealingExpiredTransactionLocks(u): a transaction that is not in
\* expirable_transactions_map_ need not be asked.
Expirable(u) == u \in Expiring /\ pc[u] # "done"
Stealable(u) == Expirable(u) => state[u] = "started"
StealFrom(R) == state' = [u \in Txn |-> IF u \in R /\ Expirable(u) THEN "stolen" ELSE state[u]]

Steal(t) ==
  LET l == lock[req[t].key]
      others == l.holders \ {t}
  IN  /\ Attempt(t)
      /\ Conflict(t) /\ TimePassed(l)
      /\ \A u \in others : Stealable(u)
      /\ StealFrom(others)
      /\ lock' = [lock EXCEPT ![req[t].key] = Granted(t)]
      /\ Acquired(t)
      /\ UNCHANGED <<mutex, dropped, expired, held, undone, abandoned>>

\* The lock is refused.  The holders asked before the one that could not be
\* robbed have lost their locks all the same.
Refuse(t) ==
  LET l == lock[req[t].key]
      others == l.holders \ {t}
  IN  /\ Attempt(t)
      /\ Conflict(t)
      /\ \/ /\ ~TimePassed(l)
            /\ UNCHANGED state
         \/ /\ TimePassed(l)
            /\ \E u \in others : ~Stealable(u)
            /\ \E R \in SUBSET {u \in others : Stealable(u)} : StealFrom(R)
      /\ \/ /\ req[t].wait /\ ~timedOut[t]
            /\ mutex' = [mutex EXCEPT ![MyStripe(t)] = t]
            /\ Goto(t, "blocked")
            /\ UNCHANGED <<req, timedOut, todo, at>>
         \/ /\ ~req[t].wait \/ timedOut[t]
            /\ Return(t)
            /\ UNCHANGED mutex
      /\ UNCHANGED <<lock, dropped, expired, held, undone, abandoned>>

-----------------------------------------------------------------------------
(* Deadlock detection and waiting.                                         *)

AnyOrder(S) == CHOOSE q \in [1..Cardinality(S) -> S] : \A x \in S : \E i \in DOMAIN q : q[i] = x
FirstOf(q, n) == SubSeq(q, 1, IF Len(q) < n THEN Len(q) ELSE n)

\* Mutant: the search does not go beyond the holders of the lock.
FoundDeadlock_DirectOnly(id, edges) == id \in edges[id]

\* IncrementWaiters' search from id: a queue of at most Depth transactions; a
\* search that uses it up is taken for a deadlock.
FoundDeadlock(id, edges) ==
  LET search[head \in 0..Depth] ==
        [q \in Seq(Txn) |->
           IF head = Depth THEN TRUE
           ELSE IF head = Len(q) THEN FALSE
           ELSE IF q[head + 1] = id THEN TRUE
           ELSE search[head + 1][FirstOf(q \o AnyOrder(edges[q[head + 1]]), Depth)]]
  IN  search[0][FirstOf(AnyOrder(edges[id]), Depth)]

\* IncrementWaiters, then SetWaitingTxn and Wait or WaitFor, which gives up the
\* mutex.  (A wait whose end has come already is one that times out at once.)
Wait(t) ==
  LET waitIds == lock[req[t].key].holders
      map == [waitMap EXCEPT ![t] = waitIds]
      count == [u \in Txn |-> IF u \in waitIds THEN rev[u] + 1 ELSE rev[u]]
  IN  /\ pc[t] = "blocked"
      /\ mutex' = [mutex EXCEPT ![MyStripe(t)] = NoTxn]
      /\ \/ /\ t \notin Detecting
            /\ Goto(t, "sleep")
            /\ UNCHANGED <<mapVars, req, timedOut, todo, at>>
         \/ /\ t \in Detecting
            /\ count[t] = 0 \/ ~FoundDeadlock(t, map)
            /\ waitMap' = map
            /\ rev' = count
            /\ Goto(t, "sleep")
            /\ UNCHANGED <<req, timedOut, todo, at>>
         \/ /\ t \in Detecting
            /\ count[t] # 0 /\ FoundDeadlock(t, map)
            /\ Return(t)
            /\ UNCHANGED mapVars
      /\ UNCHANGED <<lock, dropped, txnVars>>

\* The end of the wait comes, by the request's timeout or at the time at which
\* the lock expires.
TimeOut(t) ==
  /\ pc[t] = "sleep"
  /\ timedOut' = [timedOut EXCEPT ![t] = TRUE]
  /\ Goto(t, "awake")
  /\ UNCHANGED <<lock, mutex, dropped, mapVars, txnVars, req, todo, at>>

SpuriousWakeUp(t) ==
  /\ pc[t] = "sleep"
  /\ Goto(t, "awake")
  /\ UNCHANGED <<lock, mutex, dropped, mapVars, txnVars, req, timedOut, todo, at>>

-----------------------------------------------------------------------------
(* After the lock: validation and tracking.                                *)

\* ValidateSnapshot succeeds, or is not asked for: TrackKey.
Track(t) ==
  /\ pc[t] = "granted" /\ ~req[t].undo
  /\ held' = [held EXCEPT ![t][req[t].key] = IF req[t].exclusive THEN "exclusive" ELSE "shared"]
  /\ Return(t)
  /\ UNCHANGED <<lock, mutex, dropped, mapVars, state, expired, undone, abandoned>>

\* Mutant: a failed validation returns without releasing the lock it took.
Invalid_NoUnLock(t) ==
  /\ pc[t] = "granted" /\ ~req[t].undo
  /\ Return(t)
  /\ UNCHANGED <<lock, mutex, dropped, mapVars, txnVars>>

\* It fails.  A new lock is unlocked; for an upgraded one TryLock is called
\* again, for a shared lock.
Invalid(t) ==
  /\ pc[t] = "granted" /\ ~req[t].undo
  /\ \/ /\ held[t][req[t].key] = "none"
        /\ todo' = [todo EXCEPT ![t] = {req[t].key}]
        /\ Goto(t, "unlock")
        /\ UNCHANGED <<req, timedOut, at>>
     \/ /\ held[t][req[t].key] = "shared"
        /\ CfOf[MyStripe(t)] \notin dropped
        /\ req' = [req EXCEPT ![t].exclusive = FALSE, ![t].undo = TRUE]
        /\ Goto(t, "enter")
        /\ UNCHANGED <<timedOut, todo, at>>
     \/ /\ held[t][req[t].key] = "shared"
        /\ CfOf[MyStripe(t)] \in dropped
        /\ Return(t)
  /\ UNCHANGED <<lock, mutex, dropped, mapVars, txnVars>>

\* The status of that TryLock has replaced the one of the failed validation:
\* the key is tracked as exclusive.
TrackUndone(t) ==
  /\ pc[t] = "granted" /\ req[t].undo
  /\ held' = [held EXCEPT ![t][req[t].key] = "exclusive"]
  /\ undone' = [undone EXCEPT ![t] = @ \cup {req[t].key}]
  /\ Return(t)
  /\ UNCHANGED <<lock, mutex, dropped, mapVars, state, expired, abandoned>>

-----------------------------------------------------------------------------
(* The end of a transaction, and UnLock.                                   *)

\* The compare-exchange of Commit; without an expiration time nobody contends.
Commit(t) ==
  /\ pc[t] = "idle" /\ state[t] = "started"
  /\ state' = [state EXCEPT ![t] = "committing"]
  /\ UNCHANGED <<lock, mutex, dropped, mapVars, expired, held, undone, abandoned, callVars>>

\* The transaction is destroyed, after its commit has been written or without
\* one: UnLock(tracker) of all it tracks.
End(t) ==
  /\ pc[t] = "idle"
  /\ todo' = [todo EXCEPT ![t] = {k \in Key : held[t][k] # "none"}]
  /\ held' = [held EXCEPT ![t] = [k \in Key |-> "none"]]
  /\ undone' = [undone EXCEPT ![t] = {}]
  /\ Goto(t, IF todo'[t] = {} THEN "done" ELSE "unlock")
  /\ UNCHANGED <<lock, mutex, dropped, mapVars, state, expired, abandoned, req, timedOut, at>>

\* UnLock returns: to the failed TryLock or to the destructor.
UnLockReturns(t) ==
  /\ todo' = [todo EXCEPT ![t] = {}]
  /\ at' = [at EXCEPT ![t] = NoStripe]
  /\ req' = [req EXCEPT ![t] = NoRequest]
  /\ timedOut' = [timedOut EXCEPT ![t] = FALSE]
  /\ Goto(t, IF req[t] = NoRequest THEN "done" ELSE "idle")

\* Mutant: UnLockKey does not look whose lock it removes.
Release_Anybody(l, t) == Unlocked

\* UnLockKey.
Release(l, t) ==
  IF l.holders = {t} THEN Unlocked ELSE [l EXCEPT !.holders = @ \ {t}]

StripesToDo(t) == {StripeOf[k] : k \in todo[t]}

\* Stripes of the column family UnLock is at come before the next one's.
InSameCf(t, s) == at[t] # NoStripe /\ CfOf[s] = CfOf[at[t]]
NextStripe(t, s) ==
  /\ s \in StripesToDo(t)
  /\ InSameCf(t, s) \/ \A r \in StripesToDo(t) : ~InSameCf(t, r)

\* One stripe: its keys are unlocked under its mutex.
UnLock(t, s) ==
  /\ pc[t] = "unlock" /\ NextStripe(t, s)
  /\ InSameCf(t, s) \/ CfOf[s] \notin dropped
  /\ mutex[s] = NoTxn
  /\ lock' = [k \in Key |-> IF k \in todo[t] /\ StripeOf[k] = s THEN Release(lock[k], t) ELSE lock[k]]
  /\ todo' = [todo EXCEPT ![t] = {k \in @ : StripeOf[k] # s}]
  /\ at' = [at EXCEPT ![t] = s]
  /\ Goto(t, "notify")
  /\ UNCHANGED <<mutex, dropped, mapVars, txnVars, req, timedOut>>

\* The next column family has been dropped: UnLock returns, with all that is
\* left to do undone.
UnLockDropped(t, s) ==
  /\ pc[t] = "unlock" /\ NextStripe(t, s)
  /\ ~InSameCf(t, s) /\ CfOf[s] \in dropped
  /\ abandoned' = [abandoned EXCEPT ![t] = @ \cup todo[t]]
  /\ UnLockReturns(t)
  /\ UNCHANGED <<lock, mutex, dropped, mapVars, state, expired, held, undone>>

\* Mutant: notify one sleeper instead of all.
Sleeping_One(s) ==
  LET all == {u \in Txn : pc[u] = "sleep" /\ MyStripe(u) = s}
  IN  {u \in all : u = CHOOSE v \in all : TRUE}

Sleeping(s) == {u \in Txn : pc[u] = "sleep" /\ MyStripe(u) = s}

\* stripe_cv->NotifyAll(), after the mutex has been released.
NotifyAll(t) ==
  /\ pc[t] = "notify"
  /\ \/ /\ todo[t] # {}
        /\ pc' = [u \in Txn |-> IF u = t THEN "unlock" ELSE IF u \in Sleeping(at[t]) THEN "awake" ELSE pc[u]]
        /\ UNCHANGED <<req, timedOut, todo, at>>
     \/ /\ todo[t] = {}
        /\ pc' = [u \in Txn |-> IF u = t THEN IF req[t] = NoRequest THEN "done" ELSE "idle"
                                ELSE IF u \in Sleeping(at[t]) THEN "awake" ELSE pc[u]]
        /\ at' = [at EXCEPT ![t] = NoStripe]
        /\ req' = [req EXCEPT ![t] = NoRequest]
        /\ timedOut' = [timedOut EXCEPT ![t] = FALSE]
        /\ UNCHANGED todo
  /\ UNCHANGED <<lock, mutex, dropped, mapVars, txnVars>>

\* RemoveColumnFamily.  Threads that have found the lock map go on using it.
RemoveColumnFamily(c) ==
  /\ c \notin dropped
  /\ dropped' = dropped \cup {c}
  /\ UNCHANGED <<lock, mutex, mapVars, txnVars, callVars>>

Expire(t) ==
  /\ t \in Expiring /\ ~expired[t]
  /\ expired' = [expired EXCEPT ![t] = TRUE]
  /\ UNCHANGED <<lock, mutex, dropped, mapVars, state, held, undone, abandoned, callVars>>

Next ==
  \/ \E t \in Txn :
       \/ \E r \in Requests : Request(t, r[1], r[2], r[3])
       \/ MutexBusy(t) \/ Take(t) \/ Share(t) \/ Steal(t) \/ Refuse(t)
       \/ Wait(t) \/ TimeOut(t) \/ SpuriousWakeUp(t)
       \/ Track(t) \/ Invalid(t) \/ TrackUndone(t)
       \/ Commit(t) \/ End(t) \/ NotifyAll(t) \/ Expire(t)
       \/ \E s \in Stripe : UnLock(t, s) \/ UnLockDropped(t, s)
  \/ \E c \in Droppable : RemoveColumnFamily(c)

Spec == Init /\ [][Next]_vars

-----------------------------------------------------------------------------
(* Properties.                                                             *)

Stolen(t) == state[t] = "stolen"

\* When one transaction tracks an exclusive lock on a key that another tracks
\* too, one of the two has been marked as robbed.  An upgrade that was turned
\* back after a failed validation is tracked as exclusive without being it.
MutualExclusion ==
  \A t, u \in Txn, k \in Key :
    t # u /\ held[t][k] = "exclusive" /\ held[u][k] # "none" /\ k \notin undone[t]
      => Stolen(t) \/ Stolen(u)

\* A transaction about to notify the sleepers of stripe s.
NotifyPending(s) == \E v \in Txn : pc[v] = "notify" /\ at[v] = s

\* Nobody sleeps for a lock it could take at once, unless a NotifyAll on its
\* stripe is still to come: UnLock notifies after it has given up the mutex.
NoLostWakeUp ==
  \A t \in Txn :
    pc[t] = "sleep" /\ (NotHeld(t) \/ HeldAlone(t)) => NotifyPending(MyStripe(t))

\* A set of detecting sleepers none of which can be woken from outside the set:
\* all holders they wait for are in it, no notification is due, and the lock has
\* not been stolen from those they found holding it (a thief notifies nobody).
Stuck(D) ==
  \A t \in D :
    /\ pc[t] = "sleep"
    /\ lock[req[t].key].holders \ {t} \subseteq D
    /\ lock[req[t].key].holders \cap waitMap[t] # {}
    /\ ~NotifyPending(MyStripe(t))

\* Transactions that all ask for deadlock detection are never all stuck waiting
\* for one another, whatever has been shared and released since the searches of
\* IncrementWaiters.
DeadlocksAreSeen == \A D \in SUBSET Detecting : D # {} => ~Stuck(D)

\* The UnLock calls of t that gave up did so at a dropped column family.
GaveUpAtDropped(t) ==
  abandoned[t] # {} => \E k \in abandoned[t] : CfOf[StripeOf[k]] \in dropped

\* A transaction between two calls, or destroyed, holds no lock it does not
\* track, except for those an UnLock of its own gave up on because it met a
\* column family dropped under it (it gives up the families after it as well).
NoLockLeak ==
  \A t \in Txn, k \in Key :
    pc[t] \in {"idle", "done"} /\ t \in lock[k].holders /\ held[t][k] = "none"
      => k \in abandoned[t] /\ GaveUpAtDropped(t)

\* TryLock returns OK only for a lock its transaction has: what is tracked as
\* exclusive is locked so, unless it has been stolen.
TrackedIsLocked ==
  \A t \in Txn, k \in Key :
    held[t][k] = "exclusive" /\ ~Stolen(t) => lock[k].exclusive /\ t \in lock[k].holders

-----------------------------------------------------------------------------
(* What is behind them: an inductive invariant, when all transactions can  *)
(* expire or none can (a lock shared by both kinds is stolen from both).   *)

Trying == {"enter", "blocked", "sleep", "awake", "granted"}

\* A call of TryLock is for a lock that is not tracked, an upgrade, or the way
\* back from one; UnLock is for locks that are no longer tracked.
SoundCall(t) ==
  /\ pc[t] \in Trying =>
       /\ req[t].key \in Key
       /\ held[t][req[t].key] # "exclusive"
       /\ held[t][req[t].key] = "shared" => req[t].exclusive \/ req[t].undo
  /\ pc[t] \in {"unlock", "notify"} =>
       \A k \in Key : k \in todo[t] \/ req[t] = NoRequest => held[t][k] = "none"
  /\ pc[t] = "idle" => req[t] = NoRequest
  /\ pc[t] = "done" => \A k \in Key : held[t][k] = "none"
  /\ pc[t] = "notify" => at[t] \in Stripe
CallsAreSound == \A t \in Txn : SoundCall(t)

\* What has been granted is in the lock table, until it is stolen.
GrantKept(t) ==
  /\ \A k \in Key :
       /\ held[t][k] # "none" => t \in lock[k].holders
       /\ held[t][k] = "exclusive" /\ k \notin undone[t] => lock[k].exclusive
  /\ pc[t] = "granted" =>
       /\ t \in lock[req[t].key].holders
       /\ req[t].exclusive => lock[req[t].key].exclusive
GrantsAreKept == \A t \in Txn : Stolen(t) \/ GrantKept(t)

\* An exclusive lock has one holder.
OneExclusiveHolder ==
  \A k \in Key : lock[k].exclusive => \A t, u \in lock[k].holders : t = u

\* A refused thread keeps its stripe's mutex until it sleeps.
RefusedKeepsMutex ==
  \A t \in Txn : pc[t] = "blocked" => mutex[MyStripe(t)] = t /\ Conflict(t)

\* Every holder knows of its lock: it is tracked, was just granted, or is about
\* to be unlocked, or an UnLock gave up on it.
HoldersKnow ==
  \A t \in Txn, k \in Key :
    t \in lock[k].holders =>
      \/ held[t][k] # "none"
      \/ pc[t] = "granted" /\ req[t].key = k
      \/ pc[t] \in {"unlock", "notify"} /\ k \in todo[t]
      \/ k \in abandoned[t]

IndInv ==
  /\ TypeOK /\ CallsAreSound /\ GrantsAreKept /\ OneExclusiveHolder
  /\ RefusedKeepsMutex /\ NoLostWakeUp /\ HoldersKnow
  /\ \A t \in Txn : GaveUpAtDropped(t)
================================================================================
