---------------------------- MODULE KeyDirectory ----------------------------
(***************************************************************************)
(* What vqe::HashIndex promises its two callers, HashAggregate and         *)
(* HashJoin: it behaves as a map from keys to row identifiers.  `find'     *)
(* returns the row of the key or no_row, `find_or_insert' binds a key that *)
(* has no row yet to a fresh one, and a binding never changes or goes.     *)
(* HashIndex.tla, the open-addressed table, is shown to implement it.      *)
(***************************************************************************)
CONSTANTS Keys,     \* the keys a row can have
          Rows,     \* the row identifiers callers hand out
          NoRow     \* no_row of hash.hpp, not one of them

VARIABLES directory,   \* the set of bound pairs <<key, row>>
          reply        \* the answer of the latest call that returned

Answer(op, k, r, new) == [op |-> op, key |-> k, row |-> r, inserted |-> new]

IsBound(k) == \E p \in directory : p[1] = k

NoReply == [op |-> "none"]

Init == /\ directory = {}
        /\ reply = NoReply

\* A call begins.
Invoke == /\ reply' = NoReply
          /\ UNCHANGED directory

\* The key is bound: both calls return its row.
Hit(op, k) == /\ \E p \in directory : /\ p[1] = k
                                      /\ reply' = Answer(op, k, p[2], FALSE)
              /\ UNCHANGED directory

\* find of a key that is not bound.
Miss(k) == /\ ~ IsBound(k)
           /\ reply' = Answer("find", k, NoRow, FALSE)
           /\ UNCHANGED directory

\* find_or_insert of a key that is not bound gives it a row no key has.
Bind(k) == /\ ~ IsBound(k)
           /\ \E r \in Rows :
                /\ reply' = Answer("insert", k, r, TRUE)
                /\ \A p \in directory : p[2] # r
                /\ directory' = directory \cup {<<k, r>>}

Answered == \E k \in Keys : \/ \E op \in {"find", "insert"} : Hit(op, k)
                            \/ Miss(k)
                            \/ Bind(k)

Next == Invoke \/ (reply = NoReply /\ Answered)

Spec == Init /\ [][Next]_<<directory, reply>>
=============================================================================
