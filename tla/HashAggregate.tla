---------------------------- MODULE HashAggregate ----------------------------
(***************************************************************************)
(* vqe::HashAggregate (src/blocking.cpp): the first next() drains the      *)
(* child into one group per key, each with an accumulator per aggregate,   *)
(* and the groups then come out a batch at a time.  A row is a key and the *)
(* value of the aggregated column.  Integers go up to MaxInt; doubles are  *)
(* NaN and numbers small enough to be added without rounding.  The index   *)
(* is the map KeyDirectory says it is, and all keys (NULL and NaN among    *)
(* them) are equal to themselves.                                          *)
(***************************************************************************)
EXTENDS Integers, Sequences, SequencesExt, FiniteSetsExt

CONSTANTS Keys,        \* what the key columns of a row can hold
          Inputs,      \* the columns: [type, kinds, rows], an INT64 or DOUBLE column,
                       \* the aggregates over it and the child's [key, value] rows
          GlobalKey,   \* the one key of an aggregation without key columns
          MaxInt,      \* the largest accumulator: 2^63 - 1 in the code
          Null, NaN,   \* a NULL value; the NaN of a DOUBLE column
          Capacity     \* rows in an output batch

MinInt == - MaxInt - 1
InRange(x) == x \in MinInt .. MaxInt

InputsOver(type, values) == [type : {type},
                             kinds : Seq({"rows", "count", "sum", "min", "max"}),
                             rows : Seq([key : Keys, value : values \cup {Null}])]

Input == InputsOver("int", MinInt .. MaxInt) \cup InputsOver("double", Int \cup {NaN})

ASSUME HashAggregateAssumption ==
  /\ MaxInt \in Nat
  /\ Capacity \in Nat \ {0}
  /\ NaN \notin Int
  /\ Null \notin Int \cup {NaN}
  /\ Inputs \subseteq Input

VARIABLES input, grouped,    \* an element of Inputs; whether there are key columns
          consumed, taken,   \* consumed_; rows aggregated so far
          groups, states,    \* keys_ and states_
          cursor, pc, out,   \* cursor_; where next() is; the batch it fills
          delivered, verdict

frozen == <<input, grouped>>
vars == <<input, grouped, consumed, taken, groups, states, cursor, pc, out, delivered, verdict>>

Rows == input.rows
Kinds == input.kinds
IsInt == input.type = "int"

\* __builtin_add_overflow stores the sum modulo the integers of its width.
WrapForgotten(x) == x                         \* mutant: unbounded addition
Wrap(x) == ((x - MinInt) % (2 * (MaxInt + 1))) + MinInt

Fresh == [number |-> 0, seen |-> FALSE, overflow |-> FALSE]
FreshRow == [a \in DOMAIN Kinds |-> Fresh]

Init == /\ input \in Inputs
        /\ grouped \in BOOLEAN
        /\ consumed = FALSE
        /\ taken = 0
        /\ groups = << >>
        /\ states = << >>
        /\ cursor = 1
        /\ pc = "idle"
        /\ out = << >>
        /\ delivered = << >>
        /\ verdict = "more"

-----------------------------------------------------------------------------
\* IEEE < is false when an operand is NaN; MIN and MAX put NaN last.
Less(x, y) == x # NaN /\ y # NaN /\ x < y
SmallerIEEE(x, y) == Less(x, y)               \* mutant: a NaN seen first stays the minimum
Smaller(x, y) == IF y = NaN THEN x # NaN ELSE Less(x, y)
Larger(x, y) == IF x = NaN THEN y # NaN ELSE Less(y, x)

SumLeaves(kind, s, v) == kind = "sum" /\ IsInt /\ ~ InRange(s.number + v)
OverflowsNow(kind, s, v) == SumLeaves(kind, s, v)   \* mutant: the flag is not sticky
Overflows(kind, s, v) == s.overflow \/ SumLeaves(kind, s, v)

AddDouble(x, y) == IF x = NaN \/ y = NaN THEN NaN ELSE x + y
Add(x, y) == IF IsInt THEN Wrap(x + y) ELSE AddDouble(x, y)

\* consume(): one accumulator takes one value (COUNT(*) has no input column).
Accumulate(kind, s, v) ==
  IF v = Null /\ kind # "rows" THEN s
  ELSE [number |-> CASE kind \in {"rows", "count"} -> Wrap(s.number + 1)
                     [] kind = "sum" -> Add(s.number, v)
                     [] kind = "min" -> IF ~ s.seen \/ Smaller(v, s.number) THEN v ELSE s.number
                     [] kind = "max" -> IF ~ s.seen \/ Larger(v, s.number) THEN v ELSE s.number,
        seen |-> TRUE,
        overflow |-> Overflows(kind, s, v)]

CountFullEarly(n) == n = MaxInt - 1           \* mutant: off by one
CountFull(n) == n = MaxInt

\* The aggregates whose COUNT has no room for this row; the first one throws
\* "COUNT overflow" with the wrapped count stored and the later ones untouched.
Overflowing(row, v) ==
  {a \in DOMAIN Kinds : /\ \/ Kinds[a] = "rows"
                           \/ Kinds[a] = "count" /\ v # Null
                        /\ CountFull(row[a].number)}
AccumulateRow(row, v) ==
  [a \in DOMAIN Kinds |->
     IF \E f \in Overflowing(row, v) : f < a THEN row[a] ELSE Accumulate(Kinds[a], row[a], v)]

-----------------------------------------------------------------------------
\* next(): prepare(out); the first call sets consumed_ and makes the one group
\* of a global aggregation, which exists even when no row does.
Call == /\ pc = "idle"
        /\ out' = << >>
        /\ consumed' = TRUE
        /\ pc' = IF consumed THEN "emit" ELSE "consume"
        /\ IF ~ consumed /\ ~ grouped
           THEN groups' = <<GlobalKey>> /\ states' = <<FreshRow>>
           ELSE UNCHANGED <<groups, states>>
        /\ UNCHANGED <<frozen, taken, cursor, delivered, verdict>>

KeyOf(r) == IF grouped THEN r.key ELSE GlobalKey

\* The row of the group in keys_, a new one when the key has none.
GroupOf(k) == IF k \in Range(groups) THEN CHOOSE g \in DOMAIN groups : groups[g] = k
              ELSE Len(groups) + 1
GroupsWith(k) == IF k \in Range(groups) THEN groups ELSE Append(groups, k)
StatesWith(k) == IF k \in Range(groups) THEN states ELSE Append(states, FreshRow)

\* consume(): the next row of the child goes to its group.
ConsumeRow ==
  /\ pc = "consume"
  /\ taken < Len(Rows)
  /\ LET r == Rows[taken + 1]
         k == KeyOf(r)
         g == GroupOf(k)
         row == StatesWith(k)[g]
     IN  /\ groups' = GroupsWith(k)
         /\ states' = [StatesWith(k) EXCEPT ![g] = AccumulateRow(row, r.value)]
         /\ IF Overflowing(row, r.value) = {}
            THEN UNCHANGED <<pc, verdict>>
            ELSE pc' = "idle" /\ verdict' = "threw"
  /\ taken' = taken + 1
  /\ UNCHANGED <<frozen, consumed, cursor, out, delivered>>

ConsumeDone == /\ pc = "consume"
               /\ taken = Len(Rows)
               /\ pc' = "emit"
               /\ UNCHANGED <<frozen, consumed, taken, groups, states, cursor, out, delivered, verdict>>

\* A new key does not fit into keys_ (its string arena is full): append_key
\* throws out of find_or_insert before the bucket, keys_'s size or states_ are
\* written.
KeyThrow == /\ pc = "consume"
            /\ taken < Len(Rows)
            /\ grouped
            /\ KeyOf(Rows[taken + 1]) \notin Range(groups)
            /\ taken' = taken + 1
            /\ pc' = "idle"
            /\ verdict' = "threw"
            /\ UNCHANGED <<frozen, consumed, groups, states, cursor, out, delivered>>

\* The child throws between two batches; consumed_ is already true.
ChildThrow == /\ pc = "consume"
              /\ pc' = "idle"
              /\ verdict' = "threw"
              /\ UNCHANGED <<frozen, consumed, taken, groups, states, cursor, out, delivered>>

\* A SUM, MIN or MAX over no value, or an overflowed SUM, is NULL.
Shown(kind, s) == IF kind \notin {"rows", "count"} /\ (~ s.seen \/ s.overflow)
                  THEN Null ELSE s.number

GroupRow(g) == [key |-> groups[g],
                values |-> [a \in DOMAIN Kinds |-> Shown(Kinds[a], states[g][a])]]

EmitGroup ==
  /\ pc = "emit"
  /\ cursor <= Len(groups)
  /\ Len(out) < Capacity
  /\ out' = Append(out, GroupRow(cursor))
  /\ cursor' = cursor + 1
  /\ UNCHANGED <<frozen, consumed, taken, groups, states, pc, delivered, verdict>>

Stops == Len(out) = Capacity \/ cursor > Len(groups)

\* next() returns n != 0.
Told == IF out = << >> /\ verdict = "more" THEN "end" ELSE verdict

Return == /\ pc = "emit"
          /\ Stops
          /\ pc' = "idle"
          /\ delivered' = delivered \o out
          /\ verdict' = Told
          /\ UNCHANGED <<frozen, consumed, taken, groups, states, cursor, out>>

Work == ConsumeRow \/ ConsumeDone \/ EmitGroup \/ Return
Next == Call \/ Work \/ KeyThrow \/ ChildThrow

\* The caller pulls until false, and a call runs to its return.
Spec == Init /\ [][Next]_vars /\ WF_vars(Call \/ Work)

-----------------------------------------------------------------------------
State == [number : Int \cup {NaN}, seen : BOOLEAN, overflow : BOOLEAN]
ResultRow == [key : Keys \cup {GlobalKey}, values : [DOMAIN Kinds -> Int \cup {NaN, Null}]]
Counts(kind) == kind \in {"rows", "count"}

TypeOK == /\ input \in Input /\ grouped \in BOOLEAN /\ consumed \in BOOLEAN
          /\ taken \in 0 .. Len(Rows)
          /\ groups \in Seq(Keys \cup {GlobalKey})
          /\ states \in Seq([DOMAIN Kinds -> State])
          /\ Len(states) = Len(groups)
          /\ \A g \in DOMAIN states : \A a \in DOMAIN Kinds :
               IsInt \/ Counts(Kinds[a]) => InRange(states[g][a].number)
          /\ cursor \in 1 .. Len(groups) + 1
          /\ pc \in {"idle", "consume", "emit"}
          /\ out \in Seq(ResultRow) /\ Len(out) <= Capacity
          /\ delivered \in Seq(ResultRow)
          /\ verdict \in {"more", "end", "threw"}

\* The reference: what SQL says of the values of one group, in mathematical
\* integers.  The group's rows among the first n, those with a value, the values.
Members(k, n) == {i \in 1 .. n : KeyOf(Rows[i]) = k}
Valued(k, n) == {i \in Members(k, n) : Rows[i].value # Null}
Values(k, n) == {Rows[i].value : i \in Valued(k, n)}

\* The sum of the values that are numbers, after every row.
Addend(k, i) == IF KeyOf(Rows[i]) = k /\ Rows[i].value \notin {Null, NaN}
                THEN Rows[i].value ELSE 0
Total(k) == LET total[n \in 0 .. Len(Rows)] == IF n = 0 THEN 0 ELSE total[n - 1] + Addend(k, n)
            IN  total

SumOf(k, n) == IF IsInt
               THEN IF \A m \in 0 .. n : InRange(Total(k)[m]) THEN Total(k)[n] ELSE Null
               ELSE IF NaN \in Values(k, n) THEN NaN ELSE Total(k)[n]
Least(S) == IF S = {NaN} THEN NaN ELSE Min(S \ {NaN})
Greatest(S) == IF NaN \in S THEN NaN ELSE Max(S)

Reference(kind, k, n) ==
  CASE kind = "rows" -> Cardinality(Members(k, n))
    [] kind = "count" -> Cardinality(Valued(k, n))
    [] ~ Counts(kind) /\ Valued(k, n) = {} -> Null
    [] kind = "sum" /\ Valued(k, n) # {} -> SumOf(k, n)
    [] kind = "min" /\ Valued(k, n) # {} -> Least(Values(k, n))
    [] kind = "max" /\ Valued(k, n) # {} -> Greatest(Values(k, n))

KeysUpTo(n) == IF grouped THEN {Rows[i].key : i \in 1 .. n} ELSE {GlobalKey}

\* After every prefix of the input the groups are the keys of that prefix, once
\* each, and every accumulator shows the reference value of its group: NULLs do
\* not count, NaN is last, a SUM that ever left the integers stays NULL.
StatesExact ==
  pc = "consume" =>
    /\ Range(groups) = KeysUpTo(taken)
    /\ \A g, h \in DOMAIN groups : groups[g] = groups[h] => g = h
    /\ \A g \in DOMAIN groups : \A a \in DOMAIN Kinds :
         Shown(Kinds[a], states[g][a]) = Reference(Kinds[a], groups[g], taken)

\* COUNT throws when, and only when, a count would pass the largest integer.
CountThrowsAtTheLimit ==
  [][pc = "consume" /\ ConsumeRow =>
       (verdict' = "threw" <=>
          \E a \in DOMAIN Kinds : /\ Counts(Kinds[a])
                                  /\ Reference(Kinds[a], KeyOf(Rows[taken']), taken') > MaxInt)]_vars

\* The rows that begin a group, and the result: the groups in the order of
\* their first rows.
FirstRows(n) == {i \in 1 .. n : \A j \in 1 .. i - 1 : Rows[j].key # Rows[i].key}
GroupKeys == IF grouped
             THEN [g \in 1 .. Cardinality(FirstRows(Len(Rows))) |->
                     Rows[CHOOSE i \in FirstRows(Len(Rows)) : Cardinality(FirstRows(i)) = g].key]
             ELSE <<GlobalKey>>
Answer == [g \in DOMAIN GroupKeys |->
             [key |-> GroupKeys[g],
              values |-> [a \in DOMAIN Kinds |-> Reference(Kinds[a], GroupKeys[g], Len(Rows))]]]

\* The aggregation keeps the promise of every operator: each group once, with
\* its reference values, and then the end, unless something threw.
Contract == INSTANCE PullContract WITH answer <- Answer
KeepsContract == Contract!Spec

-----------------------------------------------------------------------------
\* What makes the invariants above inductive.

\* An accumulator has taken the values of its group: the smallest is one that no
\* other is smaller than.
Took(kind, s, k, n) ==
  /\ Counts(kind) => s.number = Reference(kind, k, n)
  /\ ~ Counts(kind) => (s.seen <=> Valued(k, n) # {})
  /\ s.overflow <=> /\ kind = "sum" /\ IsInt
                    /\ \E m \in 0 .. n : ~ InRange(Total(k)[m])
  /\ kind = "sum" /\ ~ s.overflow =>
       s.number = IF NaN \in Values(k, n) THEN NaN ELSE Total(k)[n]
  /\ kind = "min" /\ s.seen => /\ s.number \in Values(k, n)
                               /\ \A v \in Values(k, n) : ~ Smaller(v, s.number)
  /\ kind = "max" /\ s.seen => /\ s.number \in Values(k, n)
                               /\ \A v \in Values(k, n) : ~ Larger(v, s.number)

\* The groups stand in the order of their first rows.
GroupsInOrder(n) ==
  /\ ~ grouped => groups = <<GlobalKey>>
  /\ grouped => /\ Len(groups) = Cardinality(FirstRows(n))
                /\ \A i \in FirstRows(n) : groups[Cardinality(FirstRows(i))] = Rows[i].key
                /\ \A g \in DOMAIN groups : \E i \in FirstRows(n) : Cardinality(FirstRows(i)) = g

\* Until something throws they describe the rows taken so far.
Described ==
  consumed /\ verdict # "threw" =>
    /\ GroupsInOrder(taken)
    /\ \A g \in DOMAIN groups : \A a \in DOMAIN Kinds :
         Took(Kinds[a], states[g][a], groups[g], taken)

\* The input is drained by the first call, before anything is given, and only an
\* exception keeps rows of it from being taken.
DrainedOnce ==
  /\ ~ consumed => pc = "idle" /\ groups = << >> /\ verdict = "more"
  /\ consumed /\ verdict # "threw" => pc = "consume" \/ taken = Len(Rows)
  /\ ~ consumed \/ pc = "consume" => cursor = 1 /\ taken <= Len(Rows) /\ delivered = << >>
  /\ ~ consumed => taken = 0
  /\ pc = "consume" => consumed /\ verdict = "more" /\ out = << >>
  /\ pc = "emit" => consumed

\* What has been given are the rows of the first groups.
GivenSoFar == (IF pc = "emit" THEN delivered \o out ELSE delivered)
                = [g \in 1 .. cursor - 1 |-> GroupRow(g)]

\* The end is told when every group has been given.
EndTold == verdict = "end" => /\ consumed /\ cursor = Len(groups) + 1
                              /\ pc = "emit" => out = << >>

IInv == TypeOK /\ Described /\ DrainedOnce /\ GivenSoFar /\ EndTold
=============================================================================
