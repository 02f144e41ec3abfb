------------------------ MODULE PointLockManagerProofs ------------------------
(***************************************************************************)
(* Proofs about PointLockManager, for every set of transactions and keys,  *)
(* every layout of stripes and column families, every set of requests and  *)
(* every depth of the deadlock detector.                                   *)
(***************************************************************************)
EXTENDS PointLockManager, TLAPS

\* All transactions can expire, or none can.
Uniform == Expiring \in {{}, Txn}

-----------------------------------------------------------------------------
(* Types.                                                                  *)

LEMMA NoRequestType == NoRequest \in LockRequest
BY DEF LockRequest, NoRequest

LEMMA RequestTypes ==
  \A r \in LockRequest : [r EXCEPT !.exclusive = FALSE, !.undo = TRUE] \in LockRequest
BY Zenon DEF LockRequest, NoRequest

LEMMA InitType == Init => TypeOK
<1> SUFFICES ASSUME Init PROVE TypeOK
  OBVIOUS
<1>1. req \in [Txn -> LockRequest]
  BY NoRequestType DEF Init
<1>2. lock \in [Key -> LockInfo]
  BY DEF Init, LockInfo, Unlocked
<1> QED
  BY <1>1, <1>2 DEF Init, TypeOK, Mode, PC

LEMMA ReturnType ==
  ASSUME NEW t \in Txn, TypeOK, Return(t)
  PROVE  /\ pc' \in [Txn -> PC]
         /\ req' \in [Txn -> LockRequest]
         /\ timedOut' \in [Txn -> BOOLEAN]
         /\ todo' = todo /\ at' = at
BY NoRequestType DEF TypeOK, Return, Goto, PC

LEMMA AttemptType ==
  ASSUME NEW t \in Txn, TypeOK, Attempt(t)
  PROVE  waitMap' \in [Txn -> SUBSET Txn] /\ rev' \in [Txn -> Int]
BY DEF TypeOK, Attempt, DecrementWaiters

LEMMA AcquiredType ==
  ASSUME NEW t \in Txn, TypeOK, Acquired(t)
  PROVE  /\ pc' \in [Txn -> PC]
         /\ req' = req /\ todo' = todo /\ at' = at
         /\ timedOut' \in [Txn -> BOOLEAN]
BY DEF TypeOK, Acquired, Goto, PC

LEMMA GrantedType ==
  ASSUME NEW t \in Txn, TypeOK
  PROVE  Granted(t) \in LockInfo
BY DEF TypeOK, Granted, ExpirationOf, LockInfo, LockRequest

LEMMA ReleaseType ==
  ASSUME NEW t, NEW l \in LockInfo
  PROVE  Release(l, t) \in LockInfo
BY DEF Release, LockInfo, Unlocked

LEMMA TypeStep == TypeOK /\ CallsAreSound /\ [Next]_vars => TypeOK'
<1> SUFFICES ASSUME TypeOK, CallsAreSound, [Next]_vars PROVE TypeOK'
  OBVIOUS
<1>0. CallsAreSound
  OBVIOUS
<1> USE DEF mapVars, txnVars, callVars
<1>1. CASE UNCHANGED vars
  BY <1>1 DEF TypeOK, vars
<1>2. ASSUME NEW t \in Txn, NEW k \in Key, NEW exclusive \in BOOLEAN, NEW wait \in BOOLEAN,
             Request(t, k, exclusive, wait)
      PROVE  TypeOK'
  BY <1>2 DEF TypeOK, Request, Goto, PC, LockRequest
<1>3. ASSUME NEW t \in Txn, MutexBusy(t) PROVE TypeOK'
  BY <1>3, ReturnType, Zenon DEF TypeOK, MutexBusy
<1>4. ASSUME NEW t \in Txn, Take(t) PROVE TypeOK'
  <2>1. lock' \in [Key -> LockInfo]
    BY <1>4, GrantedType, Zenon DEF TypeOK, Take
  <2> QED
    BY <1>4, <2>1, AttemptType, AcquiredType, Zenon DEF TypeOK, Take
<1>5. ASSUME NEW t \in Txn, Share(t) PROVE TypeOK'
  <2>1. ASSUME NEW l \in LockInfo
        PROVE  [l EXCEPT !.holders = @ \cup {t}, !.exp = @ \cup ExpirationOf(t)] \in LockInfo
    BY Zenon DEF LockInfo, ExpirationOf
  <2>2. lock' \in [Key -> LockInfo]
    BY <1>5, <2>1, Zenon DEF TypeOK, Share
  <2> QED
    BY <1>5, <2>2, AttemptType, AcquiredType, Zenon DEF TypeOK, Share
<1>6. ASSUME NEW t \in Txn, Steal(t) PROVE TypeOK'
  <2>1. lock' \in [Key -> LockInfo]
    BY <1>6, GrantedType, Zenon DEF TypeOK, Steal
  <2>2. state' \in [Txn -> {"started", "stolen", "committing"}]
    BY <1>6 DEF TypeOK, Steal, StealFrom
  <2> QED
    BY <1>6, <2>1, <2>2, AttemptType, AcquiredType, Zenon DEF TypeOK, Steal
<1>7. ASSUME NEW t \in Txn, Refuse(t) PROVE TypeOK'
  <2>1. /\ lock' = lock /\ dropped' = dropped /\ expired' = expired
        /\ held' = held /\ undone' = undone /\ abandoned' = abandoned
    BY <1>7 DEF Refuse
  <2>2. waitMap' \in [Txn -> SUBSET Txn] /\ rev' \in [Txn -> Int]
    BY <1>7 DEF Refuse, Attempt, DecrementWaiters, TypeOK
  <2>3. state' \in [Txn -> {"started", "stolen", "committing"}]
    BY <1>7 DEF Refuse, StealFrom, TypeOK
  <2>4. CASE req[t].wait /\ ~timedOut[t]
    <3>1. /\ mutex' = [mutex EXCEPT ![MyStripe(t)] = t]
          /\ pc' = [pc EXCEPT ![t] = "blocked"]
          /\ UNCHANGED <<req, timedOut, todo, at>>
      BY <1>7, <2>4 DEF Refuse, Goto
    <3> QED
      BY <2>1, <2>2, <2>3, <3>1, Zenon DEF TypeOK, PC
  <2>5. CASE ~(req[t].wait /\ ~timedOut[t])
    <3>1. Return(t) /\ mutex' = mutex
      BY <1>7, <2>5 DEF Refuse
    <3> QED
      BY <2>1, <2>2, <2>3, <3>1, ReturnType, Zenon DEF TypeOK
  <2> QED
    BY <2>4, <2>5
<1>8. ASSUME NEW t \in Txn, Wait(t) PROVE TypeOK'
  <2> DEFINE waitIds == lock[req[t].key].holders
  <2>1. waitMap' \in [Txn -> SUBSET Txn] /\ rev' \in [Txn -> Int]
    <3>1. CASE UNCHANGED mapVars
      BY <3>1 DEF TypeOK
    <3>2. CASE /\ waitMap' = [waitMap EXCEPT ![t] = waitIds]
               /\ rev' = [u \in Txn |-> IF u \in waitIds THEN rev[u] + 1 ELSE rev[u]]
      <4>1. req[t].key \in Key
        BY <1>8, <1>0 DEF Wait, CallsAreSound, SoundCall, Trying
      <4>2. waitIds \subseteq Txn
        BY <4>1 DEF TypeOK, LockInfo
      <4> QED
        BY <3>2, <4>2 DEF TypeOK
    <3> QED
      BY <1>8, <3>1, <3>2 DEF Wait
  <2>2. /\ pc' \in [Txn -> PC]
        /\ req' \in [Txn -> LockRequest]
        /\ timedOut' \in [Txn -> BOOLEAN]
        /\ todo' = todo /\ at' = at
    <3>1. CASE Goto(t, "sleep") /\ UNCHANGED <<req, timedOut, todo, at>>
      BY <3>1 DEF TypeOK, Goto, PC
    <3>2. CASE Return(t)
      BY <3>2, ReturnType
    <3> QED
      BY <1>8, <3>1, <3>2 DEF Wait
  <2>3. /\ mutex' = [mutex EXCEPT ![MyStripe(t)] = NoTxn]
        /\ UNCHANGED <<lock, dropped, txnVars>>
    BY <1>8 DEF Wait
  <2> QED
    BY <2>1, <2>2, <2>3, Zenon DEF TypeOK
<1>9. ASSUME NEW t \in Txn, TimeOut(t) \/ SpuriousWakeUp(t) PROVE TypeOK'
  <2>1. /\ pc' = [pc EXCEPT ![t] = "awake"]
        /\ timedOut' = timedOut \/ timedOut' = [timedOut EXCEPT ![t] = TRUE]
        /\ UNCHANGED <<lock, mutex, dropped, mapVars, txnVars, req, todo, at>>
    BY <1>9 DEF TimeOut, SpuriousWakeUp, Goto
  <2> QED
    BY <2>1, Zenon DEF TypeOK, PC
<1>10. ASSUME NEW t \in Txn, Track(t) \/ TrackUndone(t) PROVE TypeOK'
  <2>1. held' \in [Txn -> [Key -> Mode]] /\ undone' \in [Txn -> SUBSET Key]
    <3>1. CASE Track(t)
      BY <3>1, Zenon DEF TypeOK, Track, Mode
    <3>2. CASE TrackUndone(t)
      <4>1. req[t].key \in Key
        BY <3>2, <1>0 DEF TrackUndone, CallsAreSound, SoundCall, Trying
      <4> QED
        BY <3>2, <4>1 DEF TypeOK, TrackUndone, Mode
    <3> QED
      BY <1>10, <3>1, <3>2
  <2>2. Return(t) /\ UNCHANGED <<lock, mutex, dropped, mapVars, state, expired, abandoned>>
    BY <1>10 DEF Track, TrackUndone
  <2> QED
    BY <2>1, <2>2, ReturnType, Zenon DEF TypeOK
<1>11. ASSUME NEW t \in Txn, Invalid(t) PROVE TypeOK'
  <2>1. UNCHANGED <<lock, mutex, dropped, mapVars, txnVars>> /\ pc[t] = "granted"
    BY <1>11 DEF Invalid
  <2>2. req[t].key \in Key
    BY <2>1, <1>0 DEF CallsAreSound, SoundCall, Trying
  <2>3. CASE /\ todo' = [todo EXCEPT ![t] = {req[t].key}]
             /\ Goto(t, "unlock")
             /\ UNCHANGED <<req, timedOut, at>>
    BY <2>1, <2>2, <2>3 DEF TypeOK, Goto, PC
  <2>4. CASE /\ req' = [req EXCEPT ![t].exclusive = FALSE, ![t].undo = TRUE]
             /\ Goto(t, "enter")
             /\ UNCHANGED <<timedOut, todo, at>>
    BY <2>1, <2>4, RequestTypes, Zenon DEF TypeOK, Goto, PC
  <2>5. CASE Return(t)
    BY <2>1, <2>5, ReturnType, Zenon DEF TypeOK
  <2> QED
    BY <1>11, <2>3, <2>4, <2>5, Zenon DEF Invalid
<1>12. ASSUME NEW t \in Txn, Commit(t) \/ Expire(t) PROVE TypeOK'
  BY <1>12, Zenon DEF TypeOK, Commit, Expire
<1>13. ASSUME NEW t \in Txn, End(t) PROVE TypeOK'
  BY <1>13 DEF TypeOK, End, Goto, PC, Mode
<1>14. ASSUME NEW t \in Txn, NotifyAll(t) PROVE TypeOK'
  <2>1. pc' \in [Txn -> PC]
    BY <1>14 DEF TypeOK, NotifyAll, PC
  <2>2. /\ req' \in [Txn -> LockRequest]
        /\ timedOut' \in [Txn -> BOOLEAN]
        /\ at' \in [Txn -> Stripe \cup {NoStripe}]
        /\ todo' = todo
    <3>1. CASE todo[t] # {}
      BY <1>14, <3>1 DEF TypeOK, NotifyAll
    <3>2. CASE todo[t] = {}
      <4>1. /\ at' = [at EXCEPT ![t] = NoStripe]
            /\ req' = [req EXCEPT ![t] = NoRequest]
            /\ timedOut' = [timedOut EXCEPT ![t] = FALSE]
            /\ todo' = todo
        BY <1>14, <3>2 DEF NotifyAll
      <4> QED
        BY <4>1, NoRequestType DEF TypeOK
    <3> QED
      BY <3>1, <3>2
  <2>3. UNCHANGED <<lock, mutex, dropped, mapVars, txnVars>>
    BY <1>14 DEF NotifyAll
  <2> QED
    BY <2>1, <2>2, <2>3 DEF TypeOK
<1>15. ASSUME NEW t \in Txn, NEW s \in Stripe, UnLock(t, s) PROVE TypeOK'
  <2>1. lock' \in [Key -> LockInfo]
    BY <1>15, ReleaseType DEF TypeOK, UnLock
  <2> QED
    BY <1>15, <2>1 DEF TypeOK, UnLock, Goto, PC
<1>16. ASSUME NEW t \in Txn, NEW s \in Stripe, UnLockDropped(t, s) PROVE TypeOK'
  BY <1>16, NoRequestType DEF TypeOK, UnLockDropped, UnLockReturns, Goto, PC
<1>17. ASSUME NEW c \in Cf, RemoveColumnFamily(c) PROVE TypeOK'
  BY <1>17 DEF TypeOK, RemoveColumnFamily
<1> QED
  BY <1>1, <1>2, <1>3, <1>4, <1>5, <1>6, <1>7, <1>8, <1>9, <1>10, <1>11, <1>12,
     <1>13, <1>14, <1>15, <1>16, <1>17, RequestsAssumption, DroppableAssumption DEF Next

-----------------------------------------------------------------------------
(* Calls.                                                                  *)

\* A call that a step leaves alone.
LEMMA SameCall ==
  ASSUME NEW u \in Txn, SoundCall(u), pc'[u] = pc[u], req'[u] = req[u],
         held'[u] = held[u], todo'[u] = todo[u], at'[u] = at[u]
  PROVE  SoundCall(u)'
BY DEF SoundCall, Stripe

\* Every step leaves every call for a lock it may ask for.
LEMMA CallsStep ==
  TypeOK /\ CallsAreSound /\ [Next]_vars => CallsAreSound'
<1> SUFFICES ASSUME TypeOK, CallsAreSound, [Next]_vars PROVE CallsAreSound'
  OBVIOUS
<1> USE DEF mapVars, txnVars, callVars
<1>1. CASE UNCHANGED vars
  BY <1>1 DEF CallsAreSound, SoundCall, vars, Stripe
<1>2. ASSUME NEW t \in Txn, NEW k \in Key, NEW exclusive \in BOOLEAN, NEW wait \in BOOLEAN,
             Request(t, k, exclusive, wait)
      PROVE  CallsAreSound'
  <2>1. /\ held[t][k] = "none" \/ (held[t][k] = "shared" /\ exclusive)
        /\ pc' = [pc EXCEPT ![t] = "enter"]
        /\ req' = [req EXCEPT ![t] = [key |-> k, exclusive |-> exclusive, wait |-> wait, undo |-> FALSE]]
        /\ UNCHANGED <<held, todo, at>>
    BY <1>2 DEF Request, Goto
  <2>2. ASSUME NEW u \in Txn PROVE SoundCall(u)'
    <3>1. SoundCall(u)
      BY DEF CallsAreSound
    <3> QED
      BY <2>1, <3>1 DEF TypeOK, SoundCall, Trying, Stripe
  <2> QED
    BY <2>2 DEF CallsAreSound
<1>3. ASSUME NEW t \in Txn, MutexBusy(t) PROVE CallsAreSound'
  <2>1. /\ pc' = [pc EXCEPT ![t] = "idle"] /\ req' = [req EXCEPT ![t] = NoRequest]
        /\ UNCHANGED <<held, todo, at>>
    BY <1>3 DEF MutexBusy, Return, Goto
  <2>2. ASSUME NEW u \in Txn PROVE SoundCall(u)'
    <3>1. SoundCall(u)
      BY DEF CallsAreSound
    <3> QED
      BY <2>1, <3>1 DEF TypeOK, SoundCall, Trying, Stripe
  <2> QED
    BY <2>2 DEF CallsAreSound
<1>4. ASSUME NEW t \in Txn, Take(t) \/ Share(t) \/ Steal(t) PROVE CallsAreSound'
  <2>1. pc[t] \in Trying /\ pc' = [pc EXCEPT ![t] = "granted"]
        /\ UNCHANGED <<held, req, todo, at>>
    BY <1>4 DEF Take, Share, Steal, Attempt, Acquired, Goto, Trying
  <2>2. ASSUME NEW u \in Txn PROVE SoundCall(u)'
    <3>1. SoundCall(u)
      BY DEF CallsAreSound
    <3> QED
      BY <2>1, <3>1 DEF TypeOK, SoundCall, Trying, Stripe
  <2> QED
    BY <2>2 DEF CallsAreSound
<1>5. ASSUME NEW t \in Txn, Refuse(t) PROVE CallsAreSound'
  <2>1. pc[t] \in Trying /\ held' = held /\ todo' = todo /\ at' = at
    BY <1>5 DEF Refuse, Attempt, Return, Trying
  <2>2. \/ pc' = [pc EXCEPT ![t] = "blocked"] /\ req' = req
        \/ pc' = [pc EXCEPT ![t] = "idle"] /\ req' = [req EXCEPT ![t] = NoRequest]
    BY <1>5 DEF Refuse, Return, Goto
  <2>3. ASSUME NEW u \in Txn, u # t PROVE SoundCall(u)'
    <3>1. pc'[u] = pc[u] /\ req'[u] = req[u]
      BY <2>2, <2>3 DEF TypeOK
    <3> QED
      BY <2>1, <2>3, <3>1, SameCall DEF CallsAreSound
  <2>4. SoundCall(t)'
    <3>1. \/ pc'[t] = "blocked" /\ req'[t] = req[t]
          \/ pc'[t] = "idle" /\ req'[t] = NoRequest
      BY <2>2 DEF TypeOK
    <3>2. SoundCall(t)
      BY DEF CallsAreSound
    <3> QED
      BY <2>1, <3>1, <3>2 DEF SoundCall, Trying
  <2> QED
    BY <2>3, <2>4 DEF CallsAreSound
<1>6. ASSUME NEW t \in Txn, Wait(t) PROVE CallsAreSound'
  <2>1. pc[t] \in Trying /\ held' = held /\ todo' = todo /\ at' = at
    BY <1>6 DEF Wait, Return, Trying
  <2>2. \/ pc' = [pc EXCEPT ![t] = "sleep"] /\ req' = req
        \/ pc' = [pc EXCEPT ![t] = "idle"] /\ req' = [req EXCEPT ![t] = NoRequest]
    BY <1>6 DEF Wait, Return, Goto
  <2>3. ASSUME NEW u \in Txn, u # t PROVE SoundCall(u)'
    <3>1. pc'[u] = pc[u] /\ req'[u] = req[u]
      BY <2>2, <2>3 DEF TypeOK
    <3> QED
      BY <2>1, <2>3, <3>1, SameCall DEF CallsAreSound
  <2>4. SoundCall(t)'
    <3>1. \/ pc'[t] = "sleep" /\ req'[t] = req[t]
          \/ pc'[t] = "idle" /\ req'[t] = NoRequest
      BY <2>2 DEF TypeOK
    <3>2. SoundCall(t)
      BY DEF CallsAreSound
    <3> QED
      BY <2>1, <3>1, <3>2 DEF SoundCall, Trying
  <2> QED
    BY <2>3, <2>4 DEF CallsAreSound
<1>7. ASSUME NEW t \in Txn, TimeOut(t) \/ SpuriousWakeUp(t) PROVE CallsAreSound'
  <2>1. /\ pc[t] = "sleep" /\ pc' = [pc EXCEPT ![t] = "awake"]
        /\ UNCHANGED <<held, req, todo, at>>
    BY <1>7 DEF TimeOut, SpuriousWakeUp, Goto
  <2>2. ASSUME NEW u \in Txn PROVE SoundCall(u)'
    <3>1. SoundCall(u)
      BY DEF CallsAreSound
    <3> QED
      BY <2>1, <3>1 DEF TypeOK, SoundCall, Trying, Stripe
  <2> QED
    BY <2>2 DEF CallsAreSound
<1>8. ASSUME NEW t \in Txn, Track(t) \/ TrackUndone(t) PROVE CallsAreSound'
  <2>1. pc[t] = "granted" /\ pc' = [pc EXCEPT ![t] = "idle"] /\ todo' = todo /\ at' = at
        /\ req' = [req EXCEPT ![t] = NoRequest]
    BY <1>8 DEF Track, TrackUndone, Return, Goto
  <2>2. \A u \in Txn : u # t => held'[u] = held[u]
    BY <1>8 DEF Track, TrackUndone, TypeOK
  <2>3. ASSUME NEW u \in Txn PROVE SoundCall(u)'
    <3>1. SoundCall(u)
      BY DEF CallsAreSound
    <3> QED
      BY <2>1, <2>2, <3>1 DEF TypeOK, SoundCall, Trying, Stripe
  <2> QED
    BY <2>3 DEF CallsAreSound
<1>9. ASSUME NEW t \in Txn, Invalid(t) PROVE CallsAreSound'
  <2>1. pc[t] = "granted" /\ held' = held /\ at' = at
    BY <1>9 DEF Invalid, Return
  <2>2. CASE /\ held[t][req[t].key] = "none"
             /\ todo' = [todo EXCEPT ![t] = {req[t].key}]
             /\ pc' = [pc EXCEPT ![t] = "unlock"]
             /\ req' = req
    <3>1. req[t] # NoRequest
      <4>1. req[t].key \in Key
        BY <2>1 DEF CallsAreSound, SoundCall, Trying
      <4>2. NoRequest.key = NoTxn
        BY DEF NoRequest
      <4> QED
        BY <4>1, <4>2, TxnAssumption
    <3>2. ASSUME NEW u \in Txn PROVE SoundCall(u)'
      <4>1. SoundCall(u)
        BY DEF CallsAreSound
      <4> QED
        BY <2>1, <2>2, <3>1, <4>1 DEF TypeOK, SoundCall, Trying, Stripe
    <3> QED
      BY <3>2 DEF CallsAreSound
  <2>3. CASE /\ req' = [req EXCEPT ![t].exclusive = FALSE, ![t].undo = TRUE]
             /\ pc' = [pc EXCEPT ![t] = "enter"]
             /\ todo' = todo
    <3>1. req'[t].key = req[t].key /\ req'[t].undo = TRUE
      BY <2>3 DEF TypeOK, LockRequest
    <3>2. ASSUME NEW u \in Txn PROVE SoundCall(u)'
      <4>1. SoundCall(u)
        BY DEF CallsAreSound
      <4> QED
        BY <2>1, <2>3, <3>1, <4>1 DEF TypeOK, SoundCall, Trying, Stripe
    <3> QED
      BY <3>2 DEF CallsAreSound
  <2>4. CASE /\ req' = [req EXCEPT ![t] = NoRequest]
             /\ pc' = [pc EXCEPT ![t] = "idle"]
             /\ todo' = todo
    <3>1. ASSUME NEW u \in Txn PROVE SoundCall(u)'
      <4>1. SoundCall(u)
        BY DEF CallsAreSound
      <4> QED
        BY <2>1, <2>4, <4>1 DEF TypeOK, SoundCall, Trying, Stripe
    <3> QED
      BY <3>1 DEF CallsAreSound
  <2> QED
    BY <1>9, <2>2, <2>3, <2>4, Zenon DEF Invalid, Goto, Return
<1>10. ASSUME NEW t \in Txn, Commit(t) \/ Expire(t) PROVE CallsAreSound'
  <2>1. UNCHANGED <<pc, req, held, todo, at>>
    BY <1>10 DEF Commit, Expire
  <2> QED
    BY <2>1, SameCall DEF CallsAreSound
<1>11. ASSUME NEW t \in Txn, End(t) PROVE CallsAreSound'
  <2>1. /\ pc[t] = "idle" /\ \A k \in Key : held'[t][k] = "none"
        /\ pc'[t] \in {"done", "unlock"}
        /\ UNCHANGED <<req, at>>
    <3>1. /\ held' = [held EXCEPT ![t] = [k \in Key |-> "none"]]
          /\ pc' = [pc EXCEPT ![t] = "done"] \/ pc' = [pc EXCEPT ![t] = "unlock"]
          /\ pc[t] = "idle" /\ UNCHANGED <<req, at>>
      BY <1>11 DEF End, Goto
    <3>2. held'[t] = [k \in Key |-> "none"]
      BY <3>1 DEF TypeOK
    <3> QED
      BY <3>1, <3>2 DEF TypeOK
  <2>2. \A u \in Txn \ {t} : pc'[u] = pc[u] /\ held'[u] = held[u] /\ todo'[u] = todo[u]
    BY <1>11 DEF End, Goto, TypeOK
  <2>3. ASSUME NEW u \in Txn \ {t} PROVE SoundCall(u)'
    BY <2>1, <2>2, SameCall DEF CallsAreSound
  <2>4. SoundCall(t)'
    BY <2>1 DEF SoundCall, Trying
  <2> QED
    BY <2>3, <2>4 DEF CallsAreSound
<1>12. ASSUME NEW t \in Txn, NotifyAll(t) PROVE CallsAreSound'
  <2>1. held' = held /\ todo' = todo
    BY <1>12 DEF NotifyAll
  <2>2. \A u \in Txn \ {t} :
          /\ req'[u] = req[u] /\ at'[u] = at[u]
          /\ pc'[u] = pc[u] \/ (pc[u] = "sleep" /\ pc'[u] = "awake")
    BY <1>12 DEF NotifyAll, Sleeping, TypeOK
  <2>3. pc[t] = "notify"
    BY <1>12 DEF NotifyAll
  <2>4. \/ pc'[t] = "unlock" /\ req'[t] = req[t]
        \/ pc'[t] = "idle" /\ req'[t] = NoRequest
        \/ pc'[t] = "done" /\ req[t] = NoRequest
    BY <1>12 DEF NotifyAll, TypeOK
  <2>5. ASSUME NEW u \in Txn \ {t} PROVE SoundCall(u)'
    <3>1. SoundCall(u)
      BY DEF CallsAreSound
    <3> QED
      BY <2>1, <2>2, <3>1 DEF TypeOK, SoundCall, Trying, Stripe
  <2>6. SoundCall(t)'
    <3>1. SoundCall(t)
      BY DEF CallsAreSound
    <3> QED
      BY <2>1, <2>3, <2>4, <3>1 DEF TypeOK, SoundCall, Trying, Stripe
  <2> QED
    BY <2>5, <2>6 DEF CallsAreSound
<1>13. ASSUME NEW t \in Txn, NEW s \in Stripe, UnLock(t, s) PROVE CallsAreSound'
  <2>1. /\ pc[t] = "unlock" /\ pc' = [pc EXCEPT ![t] = "notify"]
        /\ at' = [at EXCEPT ![t] = s]
        /\ UNCHANGED <<held, req>>
    BY <1>13 DEF UnLock, Goto
  <2>2. \A u \in Txn : todo'[u] \subseteq todo[u]
    BY <1>13 DEF UnLock, TypeOK
  <2>3. ASSUME NEW u \in Txn PROVE SoundCall(u)'
    <3>1. SoundCall(u)
      BY DEF CallsAreSound
    <3> QED
      BY <2>1, <2>2, <3>1 DEF TypeOK, SoundCall, Trying, Stripe
  <2> QED
    BY <2>3 DEF CallsAreSound
<1>14. ASSUME NEW t \in Txn, NEW s \in Stripe, UnLockDropped(t, s) PROVE CallsAreSound'
  <2>1. /\ pc[t] = "unlock" /\ pc' = [pc EXCEPT ![t] = IF req[t] = NoRequest THEN "done" ELSE "idle"]
        /\ req' = [req EXCEPT ![t] = NoRequest]
        /\ held' = held
    BY <1>14 DEF UnLockDropped, UnLockReturns, Goto
  <2>2. \A u \in Txn \ {t} : todo'[u] = todo[u] /\ at'[u] = at[u]
    BY <1>14 DEF UnLockDropped, UnLockReturns, TypeOK
  <2>3. ASSUME NEW u \in Txn PROVE SoundCall(u)'
    <3>1. SoundCall(u)
      BY DEF CallsAreSound
    <3> QED
      BY <2>1, <2>2, <3>1 DEF TypeOK, SoundCall, Trying, Stripe
  <2> QED
    BY <2>3 DEF CallsAreSound
<1>15. ASSUME NEW c \in Cf, RemoveColumnFamily(c) PROVE CallsAreSound'
  BY <1>15 DEF CallsAreSound, SoundCall, RemoveColumnFamily, Stripe
<1> QED
  BY <1>1, <1>2, <1>3, <1>4, <1>5, <1>6, <1>7, <1>8, <1>9, <1>10, <1>11, <1>12,
     <1>13, <1>14, <1>15, RequestsAssumption, DroppableAssumption DEF Next

-----------------------------------------------------------------------------
(* Grants.                                                                 *)

\* No step makes a robbed transaction look unharmed.
LEMMA StolenStays ==
  ASSUME TypeOK, [Next]_vars, NEW u \in Txn, Stolen(u)
  PROVE  Stolen(u)'
<1> USE DEF mapVars, txnVars, callVars
<1>1. CASE state' = state
  BY <1>1 DEF Stolen
<1>2. ASSUME NEW t \in Txn, Steal(t) \/ Refuse(t) PROVE Stolen(u)'
  BY <1>2 DEF Steal, Refuse, StealFrom, Stolen, TypeOK
<1>3. ASSUME NEW t \in Txn, Commit(t) PROVE Stolen(u)'
  BY <1>3 DEF Commit, Stolen, TypeOK
<1>4. ASSUME NEW t \in Txn,
             (\E r \in Requests : Request(t, r[1], r[2], r[3])) \/ MutexBusy(t) \/ Wait(t) \/ TimeOut(t)
             \/ SpuriousWakeUp(t) \/ Take(t) \/ Share(t)
      PROVE  state' = state
  BY <1>4 DEF Request, MutexBusy, Wait, TimeOut, SpuriousWakeUp, Take, Share
<1>5. ASSUME NEW t \in Txn, Track(t) \/ Invalid(t) \/ TrackUndone(t) \/ End(t) \/ NotifyAll(t) \/ Expire(t)
      PROVE  state' = state
  BY <1>5 DEF Track, Invalid, TrackUndone, End, NotifyAll, Expire
<1>6. ASSUME NEW t \in Txn, NEW s \in Stripe, UnLock(t, s) \/ UnLockDropped(t, s) PROVE state' = state
  BY <1>6 DEF UnLock, UnLockDropped
<1>7. ASSUME UNCHANGED vars \/ \E c \in Droppable : RemoveColumnFamily(c) PROVE state' = state
  BY <1>7 DEF vars, RemoveColumnFamily
<1> QED
  BY <1>1, <1>2, <1>3, <1>4, <1>5, <1>6, <1>7 DEF Next

\* A step that changes neither the lock table nor what u tracks.
LEMMA SameGrants ==
  ASSUME TypeOK, NEW u \in Txn, GrantKept(u), lock' = lock,
         held'[u] = held[u], undone'[u] = undone[u],
         pc'[u] = "granted" => pc[u] = "granted" /\ req'[u] = req[u]
  PROVE  GrantKept(u)'
BY DEF GrantKept

\* A lock granted to t alone, to others' harm only if they are robbed.
LEMMA GrantToOne ==
  ASSUME TypeOK, CallsAreSound, GrantsAreKept, NEW t \in Txn,
         pc[t] \in {"enter", "awake"},
         lock' = [lock EXCEPT ![req[t].key] = Granted(t)],
         pc' = [pc EXCEPT ![t] = "granted"],
         UNCHANGED <<held, undone, req>>,
         \A u \in Txn : Stolen(u) => Stolen(u)',
         \A u \in lock[req[t].key].holders \ {t} :
            Stolen(u)' \/ \A k \in Key : held[u][k] = "none" /\ pc[u] # "granted"
  PROVE  GrantsAreKept'
<1>1. req[t].key \in Key /\ held[t][req[t].key] # "exclusive"
  BY DEF CallsAreSound, SoundCall, Trying
<1>2. lock'[req[t].key] = Granted(t) /\ \A k \in Key \ {req[t].key} : lock'[k] = lock[k]
  BY <1>1 DEF TypeOK
<1>3. ASSUME NEW u \in Txn PROVE Stolen(u)' \/ GrantKept(u)'
  <2>1. CASE Stolen(u)
    BY <2>1
  <2>2. CASE ~Stolen(u) /\ u = t
    BY <1>1, <1>2, <2>2 DEF TypeOK, GrantsAreKept, GrantKept, Granted
  <2>3. CASE ~Stolen(u) /\ u # t
    <3>1. GrantKept(u) /\ pc'[u] = pc[u]
      BY <2>3 DEF GrantsAreKept, TypeOK
    <3>2. CASE u \in lock[req[t].key].holders
      <4>1. Stolen(u)' \/ \A k \in Key : held[u][k] = "none" /\ pc[u] # "granted"
        BY <2>3, <3>2
      <4> QED
        BY <1>1, <3>1, <4>1 DEF GrantKept
    <3>3. CASE u \notin lock[req[t].key].holders
      <4>1. held[u][req[t].key] = "none" /\ ~(pc[u] = "granted" /\ req[u].key = req[t].key)
        BY <1>1, <3>1, <3>3 DEF GrantKept
      <4>2. pc[u] = "granted" => req[u].key \in Key
        BY DEF CallsAreSound, SoundCall, Trying
      <4> QED
        BY <1>2, <3>1, <4>1, <4>2 DEF GrantKept
    <3> QED
      BY <3>2, <3>3
  <2> QED
    BY <2>1, <2>2, <2>3
<1> QED
  BY <1>3 DEF GrantsAreKept

LEMMA GrantsStep ==
  ASSUME Uniform, TypeOK, CallsAreSound, GrantsAreKept, OneExclusiveHolder, [Next]_vars
  PROVE  GrantsAreKept'
<1> USE DEF mapVars, txnVars, callVars
<1>0. \A u \in Txn : Stolen(u) => Stolen(u)'
  BY StolenStays
\* Steps that grant, track and release nothing.
<1>1. ASSUME lock' = lock, held' = held, undone' = undone,
             \A u \in Txn : pc'[u] = "granted" => pc[u] = "granted" /\ req'[u] = req[u]
      PROVE  GrantsAreKept'
  BY <1>0, <1>1, SameGrants DEF GrantsAreKept
<1>2. CASE UNCHANGED vars
  BY <1>1, <1>2 DEF vars
<1>3. ASSUME NEW t \in Txn, NEW k \in Key, NEW exclusive \in BOOLEAN, NEW wait \in BOOLEAN,
             Request(t, k, exclusive, wait)
      PROVE  GrantsAreKept'
  BY <1>1, <1>3 DEF Request, Goto, TypeOK
<1>4. ASSUME NEW t \in Txn, MutexBusy(t) \/ Refuse(t) \/ Wait(t) \/ Invalid(t)
      PROVE  GrantsAreKept'
  <2>1. lock' = lock /\ held' = held /\ undone' = undone
    BY <1>4 DEF MutexBusy, Refuse, Wait, Invalid
  <2>2. /\ \E p \in {"idle", "blocked", "sleep", "unlock", "enter"} : pc' = [pc EXCEPT ![t] = p]
        /\ \A u \in Txn : u # t => req'[u] = req[u]
    <3>1. CASE MutexBusy(t)
      BY <3>1 DEF MutexBusy, Return, Goto, TypeOK
    <3>2. CASE Refuse(t)
      <4>1. \/ pc' = [pc EXCEPT ![t] = "blocked"] /\ req' = req
            \/ pc' = [pc EXCEPT ![t] = "idle"] /\ req' = [req EXCEPT ![t] = NoRequest]
        BY <3>2 DEF Refuse, Return, Goto
      <4> QED
        BY <4>1 DEF TypeOK
    <3>3. CASE Wait(t)
      <4>1. \/ pc' = [pc EXCEPT ![t] = "sleep"] /\ req' = req
            \/ pc' = [pc EXCEPT ![t] = "idle"] /\ req' = [req EXCEPT ![t] = NoRequest]
        BY <3>3 DEF Wait, Return, Goto
      <4> QED
        BY <4>1 DEF TypeOK
    <3>4. CASE Invalid(t)
      <4>1. \/ pc' = [pc EXCEPT ![t] = "unlock"] /\ req' = req
            \/ /\ pc' = [pc EXCEPT ![t] = "enter"]
               /\ req' = [req EXCEPT ![t].exclusive = FALSE, ![t].undo = TRUE]
            \/ pc' = [pc EXCEPT ![t] = "idle"] /\ req' = [req EXCEPT ![t] = NoRequest]
        BY <3>4, Zenon DEF Invalid, Return, Goto
      <4> QED
        BY <4>1 DEF TypeOK
    <3> QED
      BY <1>4, <3>1, <3>2, <3>3, <3>4
  <2> QED
    BY <1>1, <2>1, <2>2 DEF TypeOK
<1>5. ASSUME NEW t \in Txn, TimeOut(t) \/ SpuriousWakeUp(t) PROVE GrantsAreKept'
  BY <1>1, <1>5 DEF TimeOut, SpuriousWakeUp, Goto, TypeOK
<1>6. ASSUME NEW t \in Txn, Commit(t) \/ Expire(t) PROVE GrantsAreKept'
  BY <1>1, <1>6, Zenon DEF Commit, Expire
<1>7. ASSUME NEW t \in Txn, NotifyAll(t) PROVE GrantsAreKept'
  <2>1. \A u \in Txn : pc'[u] = "granted" => pc[u] = "granted" /\ u # t
    BY <1>7 DEF NotifyAll, TypeOK
  <2>2. \A u \in Txn : u # t => req'[u] = req[u]
    BY <1>7 DEF NotifyAll, TypeOK
  <2> QED
    BY <1>1, <1>7, <2>1, <2>2 DEF NotifyAll
<1>8. ASSUME NEW t \in Txn, NEW s \in Stripe, UnLockDropped(t, s) PROVE GrantsAreKept'
  BY <1>1, <1>8 DEF UnLockDropped, UnLockReturns, Goto, TypeOK
<1>9. ASSUME NEW c \in Cf, RemoveColumnFamily(c) PROVE GrantsAreKept'
  BY <1>1, <1>9 DEF RemoveColumnFamily
\* Steps that grant.
<1>10. ASSUME NEW t \in Txn, Take(t) PROVE GrantsAreKept'
  <2>1. lock[req[t].key].holders \ {t} = {}
    BY <1>10 DEF Take, NotHeld, HeldAlone
  <2> QED
    BY <1>0, <1>10, <2>1, GrantToOne, Zenon DEF Take, Attempt, Acquired, Goto
<1>11. ASSUME NEW t \in Txn, Steal(t) PROVE GrantsAreKept'
  <2>1. req[t].key \in Key
    BY <1>11 DEF Steal, Attempt, CallsAreSound, SoundCall, Trying
  <2>2. lock[req[t].key] \in LockInfo
    BY <2>1 DEF TypeOK
  <2>3. Expiring = Txn
    BY <1>11, <2>2 DEF Uniform, Steal, TimePassed, LockInfo
  <2>4. ASSUME NEW u \in lock[req[t].key].holders \ {t}
        PROVE  Stolen(u)' \/ \A k \in Key : held[u][k] = "none" /\ pc[u] # "granted"
    <3>1. u \in Txn
      BY <2>2 DEF LockInfo
    <3>2. CASE pc[u] = "done"
      BY <3>1, <3>2 DEF CallsAreSound, SoundCall
    <3>3. CASE pc[u] # "done"
      BY <1>11, <2>3, <3>1, <3>3 DEF Steal, StealFrom, Expirable, Stolen
    <3> QED
      BY <3>2, <3>3
  <2> QED
    BY <1>0, <1>11, <2>4, GrantToOne, Zenon DEF Steal, Attempt, Acquired, Goto
<1>12. ASSUME NEW t \in Txn, Share(t) PROVE GrantsAreKept'
  <2>1. req[t].key \in Key /\ held[t][req[t].key] # "exclusive"
    BY <1>12 DEF Share, Attempt, CallsAreSound, SoundCall, Trying
  <2>2. /\ lock'[req[t].key].holders = lock[req[t].key].holders \cup {t}
        /\ lock'[req[t].key].exclusive = lock[req[t].key].exclusive
        /\ \A k \in Key \ {req[t].key} : lock'[k] = lock[k]
    BY <1>12, <2>1 DEF Share, TypeOK, LockInfo
  <2>3. ~req[t].exclusive /\ UNCHANGED <<held, undone, req, state>> /\ pc' = [pc EXCEPT ![t] = "granted"]
    BY <1>12 DEF Share, BothShared, Acquired, Goto
  <2>4. \A u \in Txn : pc[u] = "granted" => req[u].key \in Key
    BY DEF CallsAreSound, SoundCall, Trying
  <2>5. ASSUME NEW u \in Txn, GrantKept(u) PROVE GrantKept(u)'
    <3>1. ASSUME NEW k \in Key
          PROVE  /\ lock[k].holders \subseteq lock'[k].holders
                 /\ lock'[k].exclusive = lock[k].exclusive
      BY <2>2
    <3>2. CASE u = t
      BY <2>1, <2>2, <2>3, <2>5, <3>1, <3>2, Zenon DEF GrantKept, TypeOK
    <3>3. CASE u # t
      BY <2>3, <2>4, <2>5, <3>1, <3>3, Zenon DEF GrantKept, TypeOK
    <3> QED
      BY <3>2, <3>3
  <2> QED
    BY <1>0, <2>5 DEF GrantsAreKept
\* Steps that track.
<1>13. ASSUME NEW t \in Txn, Track(t) \/ TrackUndone(t) PROVE GrantsAreKept'
  <2>1. /\ pc[t] = "granted" /\ pc' = [pc EXCEPT ![t] = "idle"]
        /\ req' = [req EXCEPT ![t] = NoRequest] /\ lock' = lock
    BY <1>13 DEF Track, TrackUndone, Return, Goto
  <2>2. req[t].key \in Key
    BY <2>1 DEF CallsAreSound, SoundCall, Trying
  <2>3. ASSUME NEW u \in Txn, u # t, GrantKept(u) PROVE GrantKept(u)'
    <3>1. held'[u] = held[u] /\ undone'[u] = undone[u] /\ pc'[u] = pc[u] /\ req'[u] = req[u]
      BY <1>13, <2>1, <2>3 DEF Track, TrackUndone, TypeOK
    <3> QED
      BY <2>1, <2>3, <3>1, SameGrants
  <2>4. ASSUME GrantKept(t) PROVE GrantKept(t)'
    <3>1. pc'[t] # "granted"
      BY <2>1 DEF TypeOK
    <3>2. \A k \in Key : k # req[t].key => held'[t][k] = held[t][k]
      BY <1>13 DEF Track, TrackUndone, TypeOK
    <3>3. undone[t] \subseteq undone'[t]
      BY <1>13 DEF Track, TrackUndone, TypeOK
    <3>4. held'[t][req[t].key] = "exclusive" => req[t].exclusive \/ req[t].key \in undone'[t]
      BY <1>13, <2>2 DEF Track, TrackUndone, TypeOK
    <3> QED
      BY <2>1, <2>2, <2>4, <3>1, <3>2, <3>3, <3>4 DEF GrantKept
  <2> QED
    BY <1>0, <2>3, <2>4 DEF GrantsAreKept
\* Steps that release.
<1>14. ASSUME NEW t \in Txn, End(t) PROVE GrantsAreKept'
  <2>1. ASSUME NEW u \in Txn, u # t, GrantKept(u) PROVE GrantKept(u)'
    <3>1. held'[u] = held[u] /\ undone'[u] = undone[u] /\ pc'[u] = pc[u] /\ req'[u] = req[u] /\ lock' = lock
      BY <1>14, <2>1 DEF End, Goto, TypeOK
    <3> QED
      BY <2>1, <3>1, SameGrants
  <2>2. GrantKept(t)'
    BY <1>14 DEF End, Goto, TypeOK, GrantKept
  <2> QED
    BY <1>0, <2>1, <2>2 DEF GrantsAreKept
<1>15. ASSUME NEW t \in Txn, NEW s \in Stripe, UnLock(t, s) PROVE GrantsAreKept'
  <2>1. /\ lock' = [k \in Key |-> IF k \in todo[t] /\ StripeOf[k] = s THEN Release(lock[k], t) ELSE lock[k]]
        /\ UNCHANGED <<held, undone, req, state>> /\ pc[t] = "unlock" /\ pc' = [pc EXCEPT ![t] = "notify"]
    BY <1>15 DEF UnLock, Goto
  <2>2. ASSUME NEW u \in Txn, u # t, GrantKept(u) PROVE GrantKept(u)'
    <3>1. ASSUME NEW k \in Key, u \in lock[k].holders
          PROVE  /\ u \in lock'[k].holders
                 /\ lock'[k].exclusive = lock[k].exclusive
      BY <2>1, <2>2, <3>1 DEF Release, TypeOK, LockInfo
    <3>2. pc[u] = "granted" => req[u].key \in Key
      BY DEF CallsAreSound, SoundCall, Trying
    <3>3. ASSUME NEW k \in Key
          PROVE  /\ held[u][k] # "none" => u \in lock'[k].holders
                 /\ held[u][k] = "exclusive" /\ k \notin undone[u] => lock'[k].exclusive
      BY <2>2, <3>1 DEF GrantKept
    <3>4. pc[u] = "granted" => /\ u \in lock'[req[u].key].holders
                               /\ req[u].exclusive => lock'[req[u].key].exclusive
      BY <2>2, <3>1, <3>2 DEF GrantKept
    <3> QED
      BY <2>1, <2>2, <3>3, <3>4 DEF GrantKept, TypeOK
  <2>3. ASSUME GrantKept(t) PROVE GrantKept(t)'
    <3>1. ASSUME NEW k \in Key, held[t][k] # "none" PROVE lock'[k] = lock[k]
      BY <2>1, <3>1 DEF CallsAreSound, SoundCall
    <3> QED
      BY <2>1, <2>3, <3>1, Zenon DEF GrantKept, TypeOK
  <2> QED
    BY <1>0, <2>2, <2>3 DEF GrantsAreKept
<1> QED
  BY <1>2, <1>3, <1>4, <1>5, <1>6, <1>7, <1>8, <1>9, <1>10, <1>11, <1>12, <1>13, <1>14, <1>15,
     RequestsAssumption, DroppableAssumption DEF Next

-----------------------------------------------------------------------------
(* Holders.                                                                *)

\* What a step can do to the lock of a key.
LEMMA LockSteps ==
  ASSUME TypeOK, CallsAreSound, [Next]_vars, NEW k \in Key
  PROVE  \/ lock'[k] = lock[k]
         \/ \E t \in Txn : /\ Take(t) \/ Steal(t)
                         /\ req[t].key = k /\ lock'[k] = Granted(t)
         \/ \E t \in Txn : /\ Share(t) /\ req[t].key = k
                         /\ lock'[k].holders = lock[k].holders \cup {t}
                         /\ lock'[k].exclusive = FALSE
         \/ \E t \in Txn : /\ UnLock(t, StripeOf[k]) /\ k \in todo[t]
                         /\ lock'[k] = Release(lock[k], t)
<1> USE DEF mapVars, txnVars, callVars
<1>1. ASSUME NEW t \in Txn, Take(t) \/ Steal(t)
      PROVE  lock'[k] = lock[k] \/ (req[t].key = k /\ lock'[k] = Granted(t))
  BY <1>1, Zenon DEF Take, Steal, TypeOK
<1>2. ASSUME NEW t \in Txn, Share(t)
      PROVE  lock'[k] = lock[k] \/ (/\ req[t].key = k /\ lock'[k].holders = lock[k].holders \cup {t}
                                    /\ lock'[k].exclusive = FALSE)
  <2>1. /\ lock' = [lock EXCEPT ![req[t].key].holders = @ \cup {t},
                                ![req[t].key].exp = @ \cup ExpirationOf(t)]
        /\ ~lock[req[t].key].exclusive
    BY <1>2 DEF Share, BothShared
  <2>2. CASE k # req[t].key
    BY <2>1, <2>2 DEF TypeOK
  <2>3. CASE k = req[t].key
    <3>1. lock \in [Key -> LockInfo]
      BY DEF TypeOK
    <3> QED
      BY <2>1, <2>3, <3>1 DEF LockInfo
  <2> QED
    BY <2>2, <2>3
<1>3. ASSUME NEW t \in Txn, NEW s \in Stripe, UnLock(t, s)
      PROVE  lock'[k] = lock[k] \/ (StripeOf[k] = s /\ k \in todo[t] /\ lock'[k] = Release(lock[k], t))
  BY <1>3, Zenon DEF UnLock
<1>4. CASE lock' = lock
  BY <1>4
<1>5. ASSUME NEW t \in Txn,
             (\E r \in Requests : Request(t, r[1], r[2], r[3])) \/ MutexBusy(t) \/ Wait(t) \/ TimeOut(t)
             \/ SpuriousWakeUp(t) \/ Refuse(t)
      PROVE  lock' = lock
  BY <1>5, Zenon DEF Request, MutexBusy, Wait, TimeOut, SpuriousWakeUp, Refuse
<1>6. ASSUME NEW t \in Txn, Track(t) \/ Invalid(t) \/ TrackUndone(t) \/ End(t) \/ NotifyAll(t) \/ Expire(t) \/ Commit(t)
      PROVE  lock' = lock
  BY <1>6 DEF Track, Invalid, TrackUndone, End, NotifyAll, Expire, Commit
<1>7. ASSUME NEW t \in Txn, NEW s \in Stripe, UnLockDropped(t, s) PROVE lock' = lock
  BY <1>7 DEF UnLockDropped
<1>8. ASSUME UNCHANGED vars \/ \E c \in Droppable : RemoveColumnFamily(c) PROVE lock' = lock
  BY <1>8 DEF vars, RemoveColumnFamily
<1> QED
  BY <1>1, <1>2, <1>3, <1>4, <1>5, <1>6, <1>7, <1>8, Zenon DEF Next

LEMMA OneHolderStep ==
  ASSUME TypeOK, CallsAreSound, OneExclusiveHolder, [Next]_vars
  PROVE  OneExclusiveHolder'
<1> SUFFICES ASSUME NEW k \in Key, lock'[k].exclusive
             PROVE  \A t, u \in lock'[k].holders : t = u
  BY DEF OneExclusiveHolder
<1>1. CASE lock'[k] = lock[k]
  BY <1>1 DEF OneExclusiveHolder
<1>2. ASSUME NEW t \in Txn, lock'[k] = Granted(t)
      PROVE  \A v, u \in lock'[k].holders : v = u
  BY <1>2 DEF Granted
<1>3. ASSUME NEW t \in Txn, lock'[k] = Release(lock[k], t)
      PROVE  \A v, u \in lock'[k].holders : v = u
  BY <1>3 DEF Release, Unlocked, OneExclusiveHolder, TypeOK, LockInfo
<1> QED
  BY <1>1, <1>2, <1>3, LockSteps, Zenon

\* A step that gives or takes locks of a stripe needs its mutex.
LEMMA MutexNeeded ==
  ASSUME TypeOK, CallsAreSound, [Next]_vars, NEW k \in Key, mutex[StripeOf[k]] # NoTxn
  PROVE  lock'[k] = lock[k]
<1>1. ASSUME NEW t \in Txn, Take(t) \/ Steal(t) \/ Share(t), req[t].key = k
      PROVE  FALSE
  BY <1>1 DEF Take, Steal, Share, Attempt, MyStripe
<1>2. ASSUME NEW t \in Txn, UnLock(t, StripeOf[k]) PROVE FALSE
  BY <1>2 DEF UnLock
<1> QED
  BY <1>1, <1>2, LockSteps, Zenon

\* A step of the thread of t; the others only have their call changed by being
\* notified.
ThreadNext(t) ==
  \/ \E r \in Requests : Request(t, r[1], r[2], r[3])
  \/ MutexBusy(t) \/ Take(t) \/ Share(t) \/ Steal(t) \/ Refuse(t)
  \/ Wait(t) \/ TimeOut(t) \/ SpuriousWakeUp(t)
  \/ Track(t) \/ Invalid(t) \/ TrackUndone(t)
  \/ Commit(t) \/ End(t) \/ NotifyAll(t)
  \/ \E s \in Stripe : UnLock(t, s) \/ UnLockDropped(t, s)

OthersNotified(t) ==
  \A u \in Txn \ {t} :
    /\ req'[u] = req[u] /\ at'[u] = at[u]
    /\ pc'[u] = IF NotifyAll(t) /\ u \in Sleeping(at[t]) THEN "awake" ELSE pc[u]

LEMMA Others ==
  ASSUME TypeOK, NEW t \in Txn, ThreadNext(t)
  PROVE  OthersNotified(t)
<1> USE DEF mapVars, txnVars, callVars
<1>1. CASE NotifyAll(t)
  <2>1. ASSUME NEW u \in Txn \ {t} PROVE req'[u] = req[u] /\ at'[u] = at[u]
    <3>1. /\ req' = req \/ req' = [req EXCEPT ![t] = NoRequest]
          /\ at' = at \/ at' = [at EXCEPT ![t] = NoStripe]
      BY <1>1, Zenon DEF NotifyAll
    <3> QED
      BY <2>1, <3>1 DEF TypeOK
  <2>2. ASSUME NEW u \in Txn \ {t}
        PROVE  pc'[u] = IF u \in Sleeping(at[t]) THEN "awake" ELSE pc[u]
    BY <1>1, <2>2 DEF NotifyAll
  <2> QED
    BY <1>1, <2>1, <2>2 DEF OthersNotified
<1>2. CASE ~NotifyAll(t)
  <2>1. /\ \A u \in Txn \ {t} : pc'[u] = pc[u]
        /\ \A u \in Txn \ {t} : req'[u] = req[u]
        /\ \A u \in Txn \ {t} : at'[u] = at[u]
    <3>1. CASE \E r \in Requests : Request(t, r[1], r[2], r[3])
      <4>1. PICK r \in Requests :
              /\ pc' = [pc EXCEPT ![t] = "enter"]
              /\ req' = [req EXCEPT ![t] = [key |-> r[1], exclusive |-> r[2], wait |-> r[3], undo |-> FALSE]]
              /\ at' = at
        BY <3>1, Zenon DEF Request, Goto
      <4> QED
        BY <4>1 DEF TypeOK
    <3>2. CASE Take(t) \/ Share(t) \/ Steal(t)
      <4>1. pc' = [pc EXCEPT ![t] = "granted"] /\ req' = req /\ at' = at
        BY <3>2, Zenon DEF Take, Share, Steal, Acquired, Goto
      <4> QED
        BY <4>1 DEF TypeOK
    <3>3. CASE MutexBusy(t) \/ Track(t) \/ TrackUndone(t)
      <4>1. pc' = [pc EXCEPT ![t] = "idle"] /\ req' = [req EXCEPT ![t] = NoRequest] /\ at' = at
        BY <3>3, Zenon DEF MutexBusy, Track, TrackUndone, Return, Goto
      <4> QED
        BY <4>1 DEF TypeOK
    <3>4. CASE Refuse(t) \/ Wait(t)
      <4>1. /\ \E p \in PC : pc' = [pc EXCEPT ![t] = p]
            /\ req' = req \/ req' = [req EXCEPT ![t] = NoRequest]
            /\ at' = at
        BY <3>4, Zenon DEF Refuse, Wait, Return, Goto, PC
      <4> QED
        BY <4>1 DEF TypeOK
    <3>5. CASE TimeOut(t) \/ SpuriousWakeUp(t) \/ Commit(t) \/ End(t)
      <4>1. req' = req /\ at' = at /\ (pc' = pc \/ \E p \in {"awake", "done", "unlock"} : pc' = [pc EXCEPT ![t] = p])
        BY <3>5 DEF TimeOut, SpuriousWakeUp, Commit, End, Goto
      <4> QED
        BY <4>1 DEF TypeOK
    <3>6. CASE Invalid(t)
      BY <3>6 DEF Invalid, Return, Goto, TypeOK
    <3>7. CASE \E s \in Stripe : UnLock(t, s) \/ UnLockDropped(t, s)
      BY <3>7, Zenon DEF UnLock, UnLockDropped, UnLockReturns, Goto, TypeOK
    <3> QED
      BY <1>2, <3>1, <3>2, <3>3, <3>4, <3>5, <3>6, <3>7, Zenon DEF ThreadNext
  <2> QED
    BY <1>2, <2>1 DEF OthersNotified
<1> QED
  BY <1>1, <1>2

\* The steps that are not a thread's leave calls, mutexes and locks alone.
LEMMA NextCases ==
  ASSUME [Next]_vars
  PROVE  \/ UNCHANGED <<pc, req, at, mutex, lock, todo, held>>
         \/ \E t \in Txn : ThreadNext(t)
BY DEF Next, vars, ThreadNext, Expire, RemoveColumnFamily, mapVars, txnVars, callVars

LEMMA MutexStep ==
  ASSUME TypeOK, CallsAreSound, RefusedKeepsMutex, [Next]_vars
  PROVE  RefusedKeepsMutex'
<1> USE DEF mapVars, txnVars, callVars
<1>1. CASE UNCHANGED <<pc, req, at, mutex, lock, todo, held>>
  BY <1>1, Zenon DEF RefusedKeepsMutex, MyStripe, Conflict, NotHeld, HeldAlone, BothShared
<1>2. ASSUME NEW t \in Txn, ThreadNext(t) PROVE RefusedKeepsMutex'
  <2>1. OthersNotified(t)
    BY <1>2, Others
  <2>2. ASSUME NEW u \in Txn, u # t, pc'[u] = "blocked"
        PROVE  mutex'[MyStripe(u)'] = u /\ Conflict(u)'
    <3>1. pc[u] = "blocked" /\ req'[u] = req[u]
      BY <2>1, <2>2 DEF OthersNotified
    <3>2. mutex[MyStripe(u)] = u /\ Conflict(u) /\ req[u].key \in Key
      BY <3>1 DEF RefusedKeepsMutex, CallsAreSound, SoundCall, Trying
    <3>3. lock'[req[u].key] = lock[req[u].key]
      BY <3>2, MutexNeeded, TxnAssumption DEF MyStripe
    <3>4. mutex'[MyStripe(u)] = u
      <4>1. CASE mutex' = mutex
        BY <3>2, <4>1
      <4>2. CASE Refuse(t)
        <5>1. /\ mutex[MyStripe(t)] = NoTxn
              /\ mutex' = mutex \/ mutex' = [mutex EXCEPT ![MyStripe(t)] = t]
          BY <4>2 DEF Refuse, Attempt
        <5>2. MyStripe(u) # MyStripe(t) /\ MyStripe(u) \in Stripe
          BY <3>2, <5>1, TxnAssumption DEF MyStripe, Stripe
        <5>3. mutex \in [Stripe -> Txn \cup {NoTxn}]
          BY DEF TypeOK
        <5> QED
          BY <3>2, <5>1, <5>2, <5>3
      <4>3. CASE Wait(t)
        <5>1. pc[t] = "blocked" /\ mutex' = [mutex EXCEPT ![MyStripe(t)] = NoTxn]
          BY <4>3, Zenon DEF Wait
        <5>2. mutex[MyStripe(t)] = t
          BY <5>1 DEF RefusedKeepsMutex
        <5> QED
          BY <2>2, <3>2, <5>1, <5>2 DEF TypeOK
      <4> QED
        BY <1>2, <4>1, <4>2, <4>3, Zenon DEF ThreadNext, Request, MutexBusy, Take, Share, Steal, TimeOut,
           SpuriousWakeUp, Track, Invalid, TrackUndone, Commit, End, NotifyAll, UnLock, UnLockDropped
    <3> QED
      BY <3>1, <3>2, <3>3, <3>4 DEF MyStripe, Conflict, NotHeld, HeldAlone, BothShared
  <2>3. ASSUME pc'[t] = "blocked"
        PROVE  mutex'[MyStripe(t)'] = t /\ Conflict(t)'
    <3>1. Refuse(t)
      BY <1>2, <2>3, Zenon DEF ThreadNext, Request, MutexBusy, Take, Share, Steal, Wait, TimeOut, SpuriousWakeUp,
         Track, Invalid, TrackUndone, Commit, End, NotifyAll, UnLock, UnLockDropped, UnLockReturns,
         Return, Acquired, Goto, TypeOK
    <3>2. req[t].key \in Key
      BY <3>1 DEF Refuse, Attempt, CallsAreSound, SoundCall, Trying
    <3>3. /\ mutex' = [mutex EXCEPT ![MyStripe(t)] = t]
          /\ lock' = lock /\ req' = req /\ Conflict(t)
      BY <2>3, <3>1, Zenon DEF Refuse, Return, Goto, TypeOK
    <3>4. MyStripe(t) \in Stripe
      BY <3>2 DEF MyStripe, Stripe
    <3> QED
      BY <3>3, <3>4, Zenon DEF TypeOK, MyStripe, Conflict, NotHeld, HeldAlone, BothShared
  <2> QED
    BY <2>2, <2>3 DEF RefusedKeepsMutex
<1> QED
  BY <1>1, <1>2, NextCases

LEMMA WakeUpStep ==
  ASSUME TypeOK, CallsAreSound, RefusedKeepsMutex, NoLostWakeUp, [Next]_vars
  PROVE  NoLostWakeUp'
<1> USE DEF mapVars, txnVars, callVars
<1>1. CASE UNCHANGED <<pc, req, at, mutex, lock, todo, held>>
  BY <1>1 DEF NoLostWakeUp, MyStripe, NotHeld, HeldAlone, NotifyPending
<1>2. ASSUME NEW t \in Txn, ThreadNext(t),
             NEW u \in Txn, pc'[u] = "sleep", NotHeld(u)' \/ HeldAlone(u)'
      PROVE  NotifyPending(MyStripe(u))'
  <2>1. OthersNotified(t)
    BY <1>2, Others
  <2>2. CASE u = t
    <3>1. Wait(t)
      BY <1>2, <2>2, Zenon DEF ThreadNext, Request, MutexBusy, Take, Share, Steal, Refuse, TimeOut, SpuriousWakeUp,
         Track, Invalid, TrackUndone, Commit, End, NotifyAll, UnLock, UnLockDropped, UnLockReturns,
         Return, Acquired, Goto, TypeOK
    <3>2. lock' = lock /\ req' = req /\ Conflict(t)
      BY <1>2, <2>2, <3>1, Zenon DEF Wait, Return, Goto, TypeOK, RefusedKeepsMutex
    <3> QED
      BY <1>2, <2>2, <3>2 DEF Conflict, NotHeld, HeldAlone
  <2>3. CASE u # t
    <3>1. /\ pc[u] = "sleep" /\ req'[u] = req[u] /\ ~(NotifyAll(t) /\ u \in Sleeping(at[t]))
      BY <1>2, <2>1, <2>3, Zenon DEF OthersNotified
    <3>2. req[u].key \in Key
      BY <3>1 DEF CallsAreSound, SoundCall, Trying
    <3>3. CASE lock'[req[u].key] = lock[req[u].key]
      <4>1. NotifyPending(MyStripe(u))
        BY <1>2, <3>1, <3>3 DEF NoLostWakeUp, NotHeld, HeldAlone
      <4>2. PICK v \in Txn : pc[v] = "notify" /\ at[v] = MyStripe(u)
        BY <4>1 DEF NotifyPending
      <4>3. CASE v = t
        <5>1. NotifyAll(t)
          BY <1>2, <4>2, <4>3, Zenon DEF ThreadNext, Request, MutexBusy, Take, Share, Steal, Refuse, Wait, TimeOut,
             SpuriousWakeUp, Track, Invalid, TrackUndone, Commit, End, UnLock, UnLockDropped, Attempt
        <5> QED
          BY <3>1, <4>2, <4>3, <5>1 DEF Sleeping
      <4>4. CASE v # t
        BY <2>1, <3>1, <4>2, <4>4 DEF OthersNotified, NotifyPending, MyStripe, Sleeping
      <4> QED
        BY <4>3, <4>4
    <3>4. ASSUME NEW v \in Txn, Take(v) \/ Steal(v), lock'[req[u].key] = Granted(v)
          PROVE  FALSE
      <4>1. v # u
        BY <3>1, <3>4, Zenon DEF Take, Steal, Attempt
      <4>2. lock'[req'[u].key].holders = {v}
        BY <3>1, <3>4 DEF Granted
      <4>3. lock'[req'[u].key].holders \in {{}, {u}}
        BY <1>2 DEF NotHeld, HeldAlone
      <4> QED
        BY <4>1, <4>2, <4>3
    <3>5. ASSUME NEW v \in Txn, Share(v), lock'[req[u].key].holders = lock[req[u].key].holders \cup {v}
          PROVE  FALSE
      <4>1. v # u
        BY <3>1, <3>5 DEF Share, Attempt
      <4>2. v \in lock'[req'[u].key].holders
        BY <3>1, <3>5
      <4> QED
        BY <1>2, <4>1, <4>2 DEF NotHeld, HeldAlone
    <3>6. ASSUME NEW v \in Txn, UnLock(v, MyStripe(u))
          PROVE  NotifyPending(MyStripe(u))'
      BY <3>1, <3>6, Zenon DEF UnLock, Goto, NotifyPending, MyStripe, TypeOK
    <3> QED
      BY <3>2, <3>3, <3>4, <3>5, <3>6, LockSteps, Zenon DEF MyStripe
  <2> QED
    BY <2>2, <2>3
<1> QED
  BY <1>1, <1>2, NextCases DEF NoLostWakeUp

Known(t, k) ==
  \/ held[t][k] # "none"
  \/ pc[t] = "granted" /\ req[t].key = k
  \/ pc[t] \in {"unlock", "notify"} /\ k \in todo[t]
  \/ k \in abandoned[t]

\* What a thread does to its own locks.
LEMMA OwnLocksKnown ==
  ASSUME TypeOK, CallsAreSound, NEW t \in Txn, ThreadNext(t),
         NEW k \in Key, t \in lock'[k].holders,
         t \in lock[k].holders => Known(t, k)
  PROVE  Known(t, k)'
<1> USE DEF mapVars, txnVars, callVars
<1>1. CASE \E r \in Requests : Request(t, r[1], r[2], r[3])
  BY <1>1, Zenon DEF Request, Goto, Known, TypeOK
<1>2. CASE Take(t) \/ Steal(t)
  <2>1. /\ lock' = [lock EXCEPT ![req[t].key] = Granted(t)]
        /\ pc[t] \in {"enter", "awake"} /\ pc' = [pc EXCEPT ![t] = "granted"]
        /\ UNCHANGED <<req, held, todo, abandoned>>
    BY <1>2, Zenon DEF Take, Steal, Attempt, Acquired, Goto
  <2> QED
    BY <2>1 DEF Known, TypeOK
<1>3. CASE Share(t)
  <2>1. \A j \in Key : j # req[t].key => lock'[j] = lock[j]
    BY <1>3 DEF Share, TypeOK
  <2>2. /\ pc[t] \in {"enter", "awake"} /\ pc' = [pc EXCEPT ![t] = "granted"]
        /\ UNCHANGED <<req, held, todo, abandoned>>
    BY <1>3 DEF Share, Attempt, Acquired, Goto
  <2> QED
    BY <2>1, <2>2 DEF Known, TypeOK
<1>4. CASE MutexBusy(t)
  BY <1>4, Zenon DEF MutexBusy, Return, Goto, Known, TypeOK
<1>5. CASE Refuse(t) \/ Wait(t)
  <2>1. pc[t] \in {"enter", "awake", "blocked"} /\ UNCHANGED <<lock, held, abandoned>>
    BY <1>5, Zenon DEF Refuse, Wait, Attempt
  <2> QED
    BY <2>1, Zenon DEF Known
<1>6. CASE TimeOut(t) \/ SpuriousWakeUp(t) \/ Commit(t)
  BY <1>6, Zenon DEF TimeOut, SpuriousWakeUp, Commit, Goto, Known, TypeOK
<1>7. CASE Track(t) \/ TrackUndone(t)
  <2>1. req[t].key \in Key /\ pc[t] = "granted"
    BY <1>7 DEF Track, TrackUndone, CallsAreSound, SoundCall, Trying
  <2>2. held'[t][req[t].key] # "none" /\ \A j \in Key : j # req[t].key => held'[t][j] = held[t][j]
    <3>1. \E m \in {"shared", "exclusive"} : held' = [held EXCEPT ![t][req[t].key] = m]
      BY <1>7 DEF Track, TrackUndone
    <3>2. held \in [Txn -> [Key -> Mode]]
      BY Zenon DEF TypeOK
    <3> QED
      BY <2>1, <3>1, <3>2
  <2>3. UNCHANGED <<lock, abandoned>>
    BY <1>7 DEF Track, TrackUndone
  <2> QED
    BY <2>1, <2>2, <2>3, Zenon DEF Known
<1>8. CASE Invalid(t)
  <2>1. pc[t] = "granted" /\ UNCHANGED <<lock, held, abandoned>>
    BY <1>8 DEF Invalid
  <2>2. \/ todo' = [todo EXCEPT ![t] = {req[t].key}] /\ pc' = [pc EXCEPT ![t] = "unlock"]
        \/ held[t][req[t].key] = "shared"
    BY <1>8 DEF Invalid, Goto
  <2>3. CASE held[t][req[t].key] = "shared"
    BY <2>1, <2>3 DEF Known
  <2>4. CASE todo' = [todo EXCEPT ![t] = {req[t].key}] /\ pc' = [pc EXCEPT ![t] = "unlock"]
    <3>1. todo'[t] = {req[t].key} /\ pc'[t] = "unlock"
      BY <2>4 DEF TypeOK
    <3> QED
      BY <2>1, <3>1 DEF Known
  <2> QED
    BY <2>2, <2>3, <2>4, Zenon
<1>9. CASE End(t)
  BY <1>9, Zenon DEF End, Goto, Known, TypeOK
<1>10. CASE NotifyAll(t)
  <2>1. pc[t] = "notify" /\ UNCHANGED <<lock, held, abandoned, todo>>
    BY <1>10, Zenon DEF NotifyAll
  <2>2. todo[t] # {} => pc'[t] = "unlock"
    BY <1>10, Zenon DEF NotifyAll, TypeOK
  <2> QED
    BY <2>1, <2>2, Zenon DEF Known
<1>11. ASSUME NEW s \in Stripe, UnLock(t, s) PROVE Known(t, k)'
  <2>1. /\ pc[t] = "unlock" /\ pc' = [pc EXCEPT ![t] = "notify"] /\ UNCHANGED <<held, abandoned>>
        /\ todo' = [todo EXCEPT ![t] = {j \in @ : StripeOf[j] # s}]
        /\ lock'[k] = IF k \in todo[t] /\ StripeOf[k] = s THEN Release(lock[k], t) ELSE lock[k]
    BY <1>11, Zenon DEF UnLock, Goto
  <2>2. t \notin Release(lock[k], t).holders
    BY DEF Release, Unlocked, TypeOK, LockInfo
  <2> QED
    BY <2>1, <2>2, Zenon DEF Known, TypeOK
<1>12. ASSUME NEW s \in Stripe, UnLockDropped(t, s) PROVE Known(t, k)'
  <2>1. /\ pc[t] = "unlock" /\ UNCHANGED <<lock, held>>
        /\ abandoned' = [abandoned EXCEPT ![t] = @ \cup todo[t]]
    BY <1>12 DEF UnLockDropped
  <2>2. abandoned'[t] = abandoned[t] \cup todo[t]
    BY <2>1 DEF TypeOK
  <2> QED
    BY <2>1, <2>2 DEF Known
<1> QED
  BY <1>1, <1>2, <1>3, <1>4, <1>5, <1>6, <1>7, <1>8, <1>9, <1>10, <1>11, <1>12, Zenon DEF ThreadNext

\* Other threads do not change what a holder knows.
LEMMA OthersKeepKnown ==
  ASSUME TypeOK, NEW t \in Txn, ThreadNext(t), NEW u \in Txn, u # t
  PROVE  held'[u] = held[u] /\ todo'[u] = todo[u] /\ abandoned'[u] = abandoned[u]
<1> USE DEF mapVars, txnVars, callVars
<1>1. CASE UNCHANGED <<held, todo, abandoned>>
  BY <1>1
<1>2. CASE Track(t) \/ TrackUndone(t) \/ End(t)
  BY <1>2 DEF Track, TrackUndone, End, Return, TypeOK
<1>3. CASE Invalid(t) \/ \E s \in Stripe : UnLock(t, s) \/ UnLockDropped(t, s)
  BY <1>3 DEF Invalid, UnLock, UnLockDropped, UnLockReturns, Return, TypeOK
<1> QED
  BY <1>1, <1>2, <1>3, Zenon DEF ThreadNext, Request, MutexBusy, Take, Share, Steal, Refuse, Wait, TimeOut,
     SpuriousWakeUp, Commit, NotifyAll, Return, Acquired

LEMMA HoldersStep ==
  ASSUME TypeOK, CallsAreSound, HoldersKnow, [Next]_vars
  PROVE  HoldersKnow'
<1>1. CASE ~\E t \in Txn : ThreadNext(t)
  <2>1. UNCHANGED <<pc, req, at, mutex, lock, todo, held>>
    BY <1>1, NextCases
  <2>2. abandoned' = abandoned
    BY <1>1 DEF Next, vars, ThreadNext, RemoveColumnFamily, Expire, txnVars
  <2> QED
    BY <2>1, <2>2 DEF HoldersKnow
<1>2. ASSUME NEW t \in Txn, ThreadNext(t), NEW u \in Txn, NEW k \in Key, u \in lock'[k].holders
      PROVE  Known(u, k)'
  <2>1. u \in lock[k].holders => Known(u, k)
    BY DEF HoldersKnow, Known
  <2>2. CASE u = t
    BY <1>2, <2>1, <2>2, OwnLocksKnown
  <2>3. CASE u # t
    <3>1. u \in lock[k].holders
      <4>1. ASSUME NEW v \in Txn, Take(v) \/ Steal(v) \/ Share(v), v # t PROVE FALSE
        <5>1. pc'[v] = "granted" /\ pc[v] \in {"enter", "awake"}
          BY <4>1 DEF Take, Steal, Share, Acquired, Attempt, Goto, TypeOK
        <5>2. OthersNotified(t)
          BY <1>2, Others
        <5> QED
          BY <4>1, <5>1, <5>2, Zenon DEF OthersNotified, Sleeping
      <4>2. ASSUME NEW v \in Txn, lock'[k] = Release(lock[k], v) PROVE u \in lock[k].holders
        BY <1>2, <4>2 DEF Release, Unlocked, TypeOK, LockInfo
      <4>3. ASSUME NEW v \in Txn, Take(v) \/ Steal(v), lock'[k] = Granted(v) PROVE FALSE
        <5>1. v = t
          BY <4>1, <4>3
        <5> QED
          BY <1>2, <2>3, <4>3, <5>1 DEF Granted
      <4>4. ASSUME NEW v \in Txn, Share(v), lock'[k].holders = lock[k].holders \cup {v}
            PROVE  u \in lock[k].holders
        <5>1. v = t
          BY <4>1, <4>4
        <5> QED
          BY <1>2, <2>3, <4>4, <5>1
      <4>5. CASE lock'[k] = lock[k]
        BY <1>2, <4>5
      <4> QED
        BY <4>2, <4>3, <4>4, <4>5, LockSteps, Zenon
    <3>2. held'[u] = held[u] /\ todo'[u] = todo[u] /\ abandoned'[u] = abandoned[u]
      BY <1>2, <2>3, OthersKeepKnown
    <3>3. req'[u] = req[u] /\ (pc'[u] = pc[u] \/ pc[u] = "sleep")
      <4>1. OthersNotified(t)
        BY <1>2, Others
      <4> QED
        BY <2>3, <4>1 DEF OthersNotified, Sleeping
    <3>4. Known(u, k)
      BY <2>1, <3>1
    <3> QED
      BY <3>2, <3>3, <3>4 DEF Known
  <2> QED
    BY <2>2, <2>3
<1> QED
  BY <1>1, <1>2, Zenon DEF HoldersKnow, Known

\* A column family stays dropped, and UnLock gives up on locks only when the
\* next one of them is in a dropped column family.
LEMMA GaveUpStep ==
  ASSUME TypeOK, \A t \in Txn : GaveUpAtDropped(t), [Next]_vars
  PROVE  \A t \in Txn : GaveUpAtDropped(t)'
<1> USE DEF mapVars, txnVars, callVars
<1>1. CASE abandoned' = abandoned /\ dropped \subseteq dropped'
  BY <1>1 DEF GaveUpAtDropped
<1>2. ASSUME NEW t \in Txn, NEW s \in Stripe, UnLockDropped(t, s)
      PROVE  \A u \in Txn : GaveUpAtDropped(u)'
  <2>1. /\ \E k \in todo[t] : CfOf[StripeOf[k]] \in dropped
        /\ abandoned' = [abandoned EXCEPT ![t] = @ \cup todo[t]]
        /\ dropped' = dropped
    BY <1>2 DEF UnLockDropped, NextStripe, StripesToDo
  <2>2. abandoned'[t] = abandoned[t] \cup todo[t] /\ \A u \in Txn : u # t => abandoned'[u] = abandoned[u]
    BY <2>1 DEF TypeOK
  <2> QED
    BY <2>1, <2>2 DEF GaveUpAtDropped
<1>3. ASSUME NEW t \in Txn,
             (\E r \in Requests : Request(t, r[1], r[2], r[3])) \/ MutexBusy(t) \/ Take(t) \/ Share(t)
             \/ Steal(t) \/ Refuse(t) \/ Wait(t) \/ TimeOut(t) \/ SpuriousWakeUp(t)
      PROVE  abandoned' = abandoned /\ dropped' = dropped
  BY <1>3 DEF Request, MutexBusy, Take, Share, Steal, Refuse, Wait, TimeOut, SpuriousWakeUp
<1>4. ASSUME NEW t \in Txn, Track(t) \/ Invalid(t) \/ TrackUndone(t) \/ Commit(t) \/ End(t) \/ NotifyAll(t) \/ Expire(t)
      PROVE  abandoned' = abandoned /\ dropped' = dropped
  BY <1>4 DEF Track, Invalid, TrackUndone, Commit, End, NotifyAll, Expire
<1>5. ASSUME NEW t \in Txn, NEW s \in Stripe, UnLock(t, s)
      PROVE  abandoned' = abandoned /\ dropped' = dropped
  BY <1>5 DEF UnLock
<1>6. ASSUME UNCHANGED vars \/ \E c \in Droppable : RemoveColumnFamily(c)
      PROVE  abandoned' = abandoned /\ dropped \subseteq dropped'
  BY <1>6 DEF vars, RemoveColumnFamily
<1> QED
  BY <1>1, <1>2, <1>3, <1>4, <1>5, <1>6 DEF Next

-----------------------------------------------------------------------------
(* The theorems.                                                           *)

LEMMA InitInv == Init => IndInv
<1> SUFFICES ASSUME Init PROVE IndInv
  OBVIOUS
<1>1. TypeOK
  BY InitType
<1> QED
  BY <1>1 DEF Init, IndInv, CallsAreSound, SoundCall, GrantsAreKept, GrantKept, OneExclusiveHolder,
     RefusedKeepsMutex, NoLostWakeUp, HoldersKnow, GaveUpAtDropped, Trying, Unlocked

\* The inductive invariant of the lock manager holds in every reachable state,
\* when all transactions can expire or none can.
THEOREM LockInvariance ==
  ASSUME Uniform PROVE Spec => []IndInv
<1>1. IndInv /\ [Next]_vars => IndInv'
  BY TypeStep, CallsStep, GrantsStep, OneHolderStep, MutexStep, WakeUpStep, HoldersStep, GaveUpStep DEF IndInv
<1> QED
  BY <1>1, InitInv, PTL DEF Spec

\* Two transactions that both count on a key, one of them exclusively, exist
\* only once one of them has been marked as robbed, whatever was shared,
\* upgraded, downgraded, stolen, timed out or unlocked.
THEOREM LocksExclude ==
  ASSUME Uniform PROVE Spec => []MutualExclusion
<1>1. IndInv => MutualExclusion
  <2> SUFFICES ASSUME IndInv, NEW t \in Txn, NEW u \in Txn, NEW k \in Key, t # u,
                      held[t][k] = "exclusive", held[u][k] # "none", k \notin undone[t],
                      ~Stolen(t), ~Stolen(u)
               PROVE  FALSE
    BY DEF MutualExclusion
  <2>1. GrantKept(t) /\ GrantKept(u)
    BY DEF IndInv, GrantsAreKept
  <2>2. t \in lock[k].holders /\ u \in lock[k].holders /\ lock[k].exclusive
    BY <2>1 DEF GrantKept
  <2> QED
    BY <2>2 DEF IndInv, OneExclusiveHolder
<1> QED
  BY <1>1, LockInvariance, PTL

\* No sleeper misses its wake-up, although UnLock notifies without the mutex.
THEOREM WakeUpsAreNotLost ==
  ASSUME Uniform PROVE Spec => []NoLostWakeUp
<1>1. IndInv => NoLostWakeUp
  BY DEF IndInv
<1> QED
  BY <1>1, LockInvariance, PTL

\* A transaction between two calls, or destroyed, holds only locks it tracks and
\* those its UnLock gave up on at a dropped column family: no path through
\* TryLock, a failed validation, a time-out or UnLock forgets a lock.
THEOREM NoLockIsLeaked ==
  ASSUME Uniform PROVE Spec => []NoLockLeak
<1>1. IndInv => NoLockLeak
  BY DEF IndInv, NoLockLeak, HoldersKnow, CallsAreSound, SoundCall
<1> QED
  BY <1>1, LockInvariance, PTL
================================================================================
