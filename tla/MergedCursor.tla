----------------------------- MODULE MergedCursor -----------------------------
(***************************************************************************)
(* What an iterator of a transaction promises: a cursor over one ordered   *)
(* map, the committed data with the transaction's own writes applied to    *)
(* it.  It stands on a key of the map, or nowhere.  A read error may stop  *)
(* it, and then its status says so: an end of the data is never a lie.     *)
(***************************************************************************)
EXTENDS Integers, Sequences

CONSTANTS Key, None

VARIABLES contents,   \* key -> its merged value; Gone: not in the map
          faulty,     \* is there something the store cannot read?
          direction,  \* "Forward", "Backward", or None: no cursor open
          cur,        \* the key the cursor stands on, or None
          ok,         \* its status
          fresh,      \* the next call of next() gives the key it stands on
          call,       \* the last call: <<name>> or <<name, key>>
          item        \* what it returned: <<key, value>> or None

vars == <<contents, faulty, direction, cur, ok, fresh, call, item>>

Gone == <<>>
Present == {k \in Key : contents[k] # Gone}
First(S) == IF S = {} THEN None ELSE CHOOSE k \in S : \A j \in S : k <= j
Final(S) == IF S = {} THEN None ELSE CHOOSE k \in S : \A j \in S : k >= j

Closed == cur = None /\ ok = TRUE /\ fresh = FALSE /\ direction = None /\ item = None

Init ==
  /\ contents \in [Key -> {Gone, <<0>>}]
  /\ faulty \in BOOLEAN
  /\ call = <<"none">>
  /\ Closed

\* The cursor arrives at k, or fails.
Land(k) ==
  \/ cur' = k /\ ok' = TRUE
  \/ faulty /\ cur' = None /\ ok' = FALSE

\* One key on; from nowhere there is nowhere to go.
Step(forward) ==
  IF cur = None THEN cur' = None /\ ok' = FALSE
  ELSE Land(IF forward THEN First({k \in Present : k > cur})
                       ELSE Final({k \in Present : k < cur}))

\* The transaction writes or rolls back while it has no cursor.
Change ==
  /\ direction = None
  /\ contents' \in [Key -> Seq(Int)]
  /\ UNCHANGED <<faulty, direction, cur, ok, fresh, call, item>>

Open(dir) ==
  /\ direction = None
  /\ direction' = dir /\ fresh' = TRUE /\ call' = <<"iter">> /\ item' = None
  /\ Land(IF dir = "Forward" THEN First(Present) ELSE Final(Present))
  /\ UNCHANGED <<contents, faulty>>

Seek(c) ==
  /\ direction # None
  /\ fresh' = TRUE /\ call' = c /\ item' = None
  /\ \/ c[1] = "seek" /\ Land(First({k \in Present : k >= c[2]}))
     \/ c[1] = "seek_for_prev" /\ Land(Final({k \in Present : k <= c[2]}))
  /\ UNCHANGED <<contents, faulty, direction>>

next ==
  /\ direction # None
  /\ fresh' = FALSE /\ call' = <<"next">>
  /\ IF fresh THEN UNCHANGED <<cur, ok>> ELSE Step(direction = "Forward")
  /\ item' = IF cur' = None THEN None ELSE <<cur', contents[cur']>>
  /\ UNCHANGED <<contents, faulty, direction>>

\* Moves of the cursor under next().
Move(c) ==
  /\ direction # None
  /\ call' = c /\ item' = None
  /\ \/ c[1] = "Next" /\ Step(TRUE)
     \/ c[1] = "Prev" /\ Step(FALSE)
     \/ c[1] = "SeekToFirst" /\ Land(First(Present))
     \/ c[1] = "SeekToLast" /\ Land(Final(Present))
  /\ UNCHANGED <<contents, faulty, direction, fresh>>

Close ==
  /\ direction # None
  /\ Closed' /\ call' = <<"none">>
  /\ UNCHANGED <<contents, faulty>>

Next ==
  \/ Change \/ next \/ Close
  \/ \E dir \in {"Forward", "Backward"} : Open(dir)
  \/ \E name \in {"seek", "seek_for_prev"}, k \in Key : Seek(<<name, k>>)
  \/ \E name \in {"Next", "Prev", "SeekToFirst", "SeekToLast"} : Move(<<name>>)

Spec == Init /\ [][Next]_vars
===============================================================================
