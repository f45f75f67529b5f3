-------------------------------- MODULE Sort --------------------------------
(***************************************************************************)
(* vqe::Sort (src/blocking.cpp): drains its child into a row store, orders *)
(* the stored rows by a stable sort, and gives them out a batch at a time. *)
(* A row is the tuple of its sort key cells: an integer, NaN or Null.      *)
(***************************************************************************)
EXTENDS Integers, Sequences, FiniteSets, SequencesExt

CONSTANTS Inputs,     \* the child's results: sequences of rows
          SortKeys,   \* the key lists: sequences of [ascending, nullsFirst]
          Null, NaN,
          Capacity    \* rows in an output batch

Cell == {Null, NaN} \cup Int

ASSUME SortAssumption == /\ Null # NaN /\ {Null, NaN} \cap Int = {}
                         /\ Inputs \subseteq Seq(Seq(Cell))
                         /\ SortKeys \subseteq Seq([ascending : BOOLEAN, nullsFirst : BOOLEAN])
                         /\ Capacity \in Nat \ {0}

VARIABLES input, keys,     \* the child's rows; keys_
          pulled,          \* rows the child has been asked for
          store, order,    \* store_ and order_, as positions in `input'
          sorted, cursor,  \* sorted_, cursor_
          pc, out, delivered, verdict

frozen == <<input, keys>>
vars == <<input, keys, pulled, store, order, sorted, cursor, pc, out, delivered, verdict>>

Init == /\ input \in Inputs
        /\ keys \in SortKeys
        /\ \A r \in Range(input) : Len(r) = Len(keys)
        /\ pulled = 0
        /\ store = << >>
        /\ order = << >>
        /\ sorted = FALSE
        /\ cursor = 1
        /\ pc = "idle"
        /\ out = << >>
        /\ delivered = << >>
        /\ verdict = "more"

-----------------------------------------------------------------------------
\* compare_cell: NULL after everything, NaN after every number.
CompareNumber(x, y) == IF x < y THEN -1 ELSE IF x > y THEN 1 ELSE 0
NaNEqual(x, y) == 0           \* mutant: NaN ties with every number
NaNLast(x, y) == IF x # NaN THEN -1 ELSE IF y # NaN THEN 1 ELSE 0
CompareCell(x, y) ==
  CASE x = Null \/ y = Null -> IF x # Null THEN -1 ELSE IF y # Null THEN 1 ELSE 0
    [] x = NaN \/ y = NaN -> NaNLast(x, y)
    [] OTHER -> CompareNumber(x, y)

\* The lambda of stable_sort: the first key on which the rows differ decides;
\* the place of NULL does not depend on the direction.
NullAheadBoth(k) == keys[k].nullsFirst = keys[k].ascending   \* mutant: turned round by DESC
NullAhead(k) == keys[k].nullsFirst
Decides(k, x, y) ==
  IF (x = Null) # (y = Null) THEN (x = Null) = NullAhead(k)
  ELSE IF keys[k].ascending THEN CompareCell(x, y) < 0 ELSE CompareCell(x, y) > 0
Ahead(a, b) ==
  \E k \in DOMAIN keys : /\ \A j \in 1 .. k - 1 : CompareCell(input[a][j], input[b][j]) = 0
                         /\ Decides(k, input[a][k], input[b][k])

\* std::stable_sort over the ids: rows that tie stay in the order of the store, and
\* the place of a row in the order is one behind those that go before it.
Unstable(i, j) == Ahead(store[i], store[j]) \/ (~ Ahead(store[j], store[i]) /\ i > j)  \* mutant
Earlier(i, j) == Ahead(store[i], store[j]) \/ (~ Ahead(store[j], store[i]) /\ i < j)
Place == [i \in DOMAIN store |-> 1 + Cardinality({j \in DOMAIN store : Earlier(j, i)})]
StableOrder == LET place == Place
               IN  [n \in DOMAIN store |-> store[CHOOSE i \in DOMAIN store : place[i] = n]]

-----------------------------------------------------------------------------
Call == /\ pc = "idle"
        /\ out' = << >>
        /\ pc' = IF sorted THEN "emit" ELSE "drain"
        /\ UNCHANGED <<frozen, pulled, store, order, sorted, cursor, delivered, verdict>>

Drain == /\ pc = "drain"
         /\ pulled < Len(input)
         /\ pulled' = pulled + 1
         /\ store' = Append(store, pulled')
         /\ UNCHANGED <<frozen, order, sorted, cursor, pc, out, delivered, verdict>>

\* The child throws, maybe losing rows; sorted_ is still false and the store
\* keeps what it has, so that another call goes on draining.
ChildThrow == /\ pc = "drain"
              /\ pulled' \in pulled .. Len(input)
              /\ pc' = "idle"
              /\ verdict' = "threw"
              /\ UNCHANGED <<frozen, store, order, sorted, cursor, out, delivered>>

SortRows == /\ pc = "drain"
            /\ pulled = Len(input)
            /\ order' = StableOrder
            /\ sorted' = TRUE
            /\ pc' = "emit"
            /\ UNCHANGED <<frozen, pulled, store, cursor, out, delivered, verdict>>

HasRoomLate == Len(out) <= Capacity     \* mutant: one row too many
HasRoom == Len(out) < Capacity
EmitRow == /\ pc = "emit"
           /\ cursor <= Len(order)
           /\ HasRoom
           /\ out' = Append(out, order[cursor])
           /\ cursor' = cursor + 1
           /\ UNCHANGED <<frozen, pulled, store, order, sorted, pc, delivered, verdict>>

\* next() returns n != 0.
Told == IF out = << >> /\ verdict = "more" THEN "end" ELSE verdict
Return == /\ pc = "emit"
          /\ Len(out) = Capacity \/ cursor > Len(order)
          /\ pc' = "idle"
          /\ delivered' = delivered \o out
          /\ verdict' = Told
          /\ UNCHANGED <<frozen, pulled, store, order, sorted, cursor, out>>

Work == Drain \/ SortRows \/ EmitRow \/ Return
Next == Call \/ Work \/ ChildThrow

\* The caller pulls until false, and a call runs to its return.
Spec == Init /\ [][Next]_vars /\ WF_vars(Call \/ Work)

-----------------------------------------------------------------------------
TypeOK == /\ input \in Inputs /\ keys \in SortKeys
          /\ \A r \in DOMAIN input : Len(input[r]) = Len(keys)
          /\ pulled \in 0 .. Len(input)
          /\ store \in Seq(1 .. pulled)
          /\ \A i, j \in DOMAIN store : i < j => store[i] < store[j]
          /\ sorted \in BOOLEAN
          /\ Len(order) = IF sorted THEN Len(store) ELSE 0
          /\ cursor \in 1 .. Len(order) + 1
          /\ pc \in {"idle", "drain", "emit"}
          /\ {order, out, delivered} \subseteq Seq(DOMAIN input)
          /\ Len(out) <= Capacity
          /\ verdict \in {"more", "end", "threw"}

\* std::stable_sort is defined only for a strict weak order: the comparator is
\* one on every store, with NULL and NaN under every direction and null place.
ComparatorIsStrictWeak ==
  LET R == Range(store)
      Tie(a, b) == ~ Ahead(a, b) /\ ~ Ahead(b, a)
  IN  /\ \A a \in R : ~ Ahead(a, a)
      /\ \A a, b, c \in R : Ahead(a, b) /\ Ahead(b, c) => Ahead(a, c)
      /\ \A a, b, c \in R : Tie(a, b) /\ Tie(b, c) => Tie(a, c)

\* The reference order: numbers in the key's direction with NaN the largest of
\* them, NULL before or after all of it as asked, and the source's order at last.
NullSide(k, x) == IF x # Null THEN 0 ELSE IF keys[k].nullsFirst THEN -1 ELSE 1
Smaller(x, y) == x # NaN /\ (y = NaN \/ x < y)
RankLess(k, x, y) == \/ NullSide(k, x) < NullSide(k, y)
                     \/ /\ Null \notin {x, y}
                        /\ IF keys[k].ascending THEN Smaller(x, y) ELSE Smaller(y, x)
RankBefore(a, b) ==
  \E k \in DOMAIN keys : /\ \A j \in 1 .. k - 1 : input[a][j] = input[b][j]
                         /\ RankLess(k, input[a][k], input[b][k])
InOrder(a, b) == RankBefore(a, b) \/ (~ RankBefore(b, a) /\ a < b)

\* No row comes twice or out of order, even to a caller that pulls again after
\* an exception and gets the rows that were left.
RowsInOrderAndOnce ==
  \A x, y \in DOMAIN delivered : x < y => InOrder(delivered[x], delivered[y])

Answer ==
  LET place == [a \in DOMAIN input |-> 1 + Cardinality({b \in DOMAIN input : InOrder(b, a)})]
  IN  [n \in DOMAIN input |-> CHOOSE a \in DOMAIN input : place[a] = n]

\* The sort keeps the promise of every operator: all rows, once each, in the
\* reference order, and then the end, unless the child threw.
Contract == INSTANCE PullContract WITH answer <- Answer
KeepsContract == Contract!Spec

-----------------------------------------------------------------------------
\* What makes the invariants above inductive: where next() is between its calls.

\* The rows of the store are sorted once, when the last has been pulled, and
\* nothing is given out before.
SortedOnce == IF sorted THEN pc # "drain" /\ pulled = Len(input) /\ order = StableOrder
              ELSE pc # "emit" /\ cursor = 1 /\ out = << >>

\* What has been given and the batch being filled are the order up to the cursor.
GivenSoFar == delivered \o (IF pc = "emit" THEN out ELSE << >>) = SubSeq(order, 1, cursor - 1)

\* The end is told when the order is used up, and rows are lost only to exceptions.
Reported == /\ verdict = "end" => sorted /\ cursor = Len(order) + 1 /\ out = << >>
            /\ verdict # "threw" => store = [i \in 1 .. pulled |-> i]

\* Wherever a call is left or resumed, with or without exceptions: the order is
\* that of the store, and what has been given is its beginning.
IInv == TypeOK /\ SortedOnce /\ GivenSoFar /\ Reported
=============================================================================
