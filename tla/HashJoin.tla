------------------------------ MODULE HashJoin ------------------------------
(***************************************************************************)
(* vqe::HashJoin (src/blocking.cpp): an inner equi-join that drains one    *)
(* input into a row store whose rows with equal keys are chained, then     *)
(* pulls the other in batches, locates the chain of each row of a batch,   *)
(* and emits pairs until the output batch is full, resuming in the middle  *)
(* of a batch and of a chain.  A row is its key; rows are positions in     *)
(* their input.  The index is the map KeyDirectory says it is.             *)
(***************************************************************************)
EXTENDS Integers, Sequences, FiniteSets

CONSTANTS Keys,          \* the values of the join key
          NullKey,       \* a key with a NULL or NaN cell, which joins nothing
          Inputs,        \* the inputs, sequences of keys
          Capacity,      \* rows in an output batch
          ChildCapacity  \* rows in a batch of the probe child

ASSUME HashJoinAssumption == /\ NullKey \notin Keys
                             /\ Inputs \subseteq Seq(Keys \cup {NullKey})
                             /\ Capacity \in Nat \ {0}
                             /\ ChildCapacity \in Nat \ {0}

VARIABLES left, right, buildRight,  \* the two inputs; which side is build_
          pulled, probed,           \* rows taken from the build and probe child
          built,                    \* built_
          store, index,             \* store_ and index_
          next_, tails,             \* next_, tails_
          heads, cursor, match,     \* heads_, probe_cursor_, match_
          pc, out,                  \* where next() is; the batch it fills
          delivered, verdict        \* what the caller has been given and told

inputs == <<left, right, buildRight>>
chains == <<store, index, next_, tails>>
probing == <<probed, heads, cursor, match>>
caller == <<delivered, verdict>>
vars == <<left, right, buildRight, pulled, probed, built, store, index, next_, tails,
          heads, cursor, match, pc, out, delivered, verdict>>

NoRow == 0     \* no_row; rows of the store are numbered from 1
Build == IF buildRight THEN right ELSE left
Probe == IF buildRight THEN left ELSE right

\* A row of the output: its left and right parts, whichever side was stored.
Pair(p, b) == IF buildRight THEN <<p, b>> ELSE <<b, p>>

Init == /\ left \in Inputs
        /\ right \in Inputs
        /\ buildRight \in BOOLEAN
        /\ pulled = 0
        /\ probed = 0
        /\ built = FALSE
        /\ store = << >>
        /\ index = [k \in Keys |-> NoRow]
        /\ next_ = << >>
        /\ tails = << >>
        /\ heads = << >>
        /\ cursor = 1
        /\ match = NoRow
        /\ pc = "idle"
        /\ out = << >>
        /\ delivered = << >>
        /\ verdict = "more"

-----------------------------------------------------------------------------
\* next(): prepare(out) empties the batch; the first call builds.
Call == /\ pc = "idle"
        /\ out' = << >>
        /\ built' = TRUE
        /\ pc' = IF built THEN "emit" ELSE "build"
        /\ UNCHANGED <<inputs, pulled, chains, probing, caller>>

\* build(): a row whose key cannot join is left out.
BuildSkip == /\ pc = "build"
             /\ pulled < Len(Build)
             /\ Build[pulled + 1] = NullKey
             /\ pulled' = pulled + 1
             /\ UNCHANGED <<inputs, built, chains, probing, pc, out, caller>>

\* A later row becomes the tail of its chain.
TailKept(head, id) == Append(tails, id)      \* mutant: tails_[head] = id forgotten
NewTails(head, id) == [Append(tails, id) EXCEPT ![head] = id]

\* build(): the first row of a key heads a chain, a later one goes to its tail.
BuildRow ==
  /\ pc = "build"
  /\ pulled < Len(Build)
  /\ Build[pulled + 1] # NullKey
  /\ pulled' = pulled + 1
  /\ LET key == Build[pulled + 1]
         id == Len(store) + 1
         head == index[key]
     IN  /\ store' = Append(store, pulled + 1)
         /\ IF head = NoRow
            THEN /\ index' = [index EXCEPT ![key] = id]
                 /\ next_' = Append(next_, NoRow)
                 /\ tails' = Append(tails, id)
            ELSE /\ index' = index
                 /\ next_' = [Append(next_, NoRow) EXCEPT ![tails[head]] = id]
                 /\ tails' = NewTails(head, id)
  /\ UNCHANGED <<inputs, built, probing, pc, out, caller>>

BuildDone == /\ pc = "build"
             /\ pulled = Len(Build)
             /\ pc' = "emit"
             /\ UNCHANGED <<inputs, pulled, built, chains, probing, out, caller>>

\* The build child throws between two batches; built_ is already true.
BuildThrow == /\ pc = "build"
              /\ pc' = "idle"
              /\ verdict' = "threw"
              /\ UNCHANGED <<inputs, pulled, built, chains, probing, out, delivered>>

-----------------------------------------------------------------------------
\* next() returns n != 0.
Told == IF out = << >> /\ verdict = "more" THEN "end" ELSE verdict

Return == /\ pc' = "idle"
          /\ delivered' = delivered \o out
          /\ verdict' = Told
          /\ UNCHANGED <<inputs, pulled, built, chains, probing, out>>

HasRoomLate == Len(out) <= Capacity          \* mutant: one row too many
HasRoom == Len(out) < Capacity

\* Nothing was stored: false at once, without a look at the probe side.
NothingStored == /\ pc = "emit"
                 /\ store = << >>
                 /\ Return

\* The loop ends on a full batch.
BatchFull == /\ pc = "emit"
             /\ store # << >>
             /\ ~ HasRoom
             /\ Return

NeedsProbe == /\ pc = "emit"
              /\ store # << >>
              /\ HasRoom
              /\ cursor > Len(heads)

HeadOf(key) == IF key = NullKey THEN NoRow ELSE index[key]

\* load_probe(): a batch of n rows, their chains located before any is expanded.
LoadProbe(n) ==
  /\ NeedsProbe
  /\ n <= Len(Probe) - probed
  /\ heads' = [j \in 1 .. n |-> HeadOf(Probe[probed + j])]
  /\ match' = HeadOf(Probe[probed + 1])
  /\ cursor' = 1
  /\ probed' = probed + n
  /\ UNCHANGED <<inputs, pulled, built, chains, pc, out, caller>>

ProbeExhausted == /\ NeedsProbe
                  /\ probed = Len(Probe)
                  /\ Return

\* The probe child throws, unless it has ended: it may have lost rows, and those
\* already in `out' are lost too.
ProbeThrow == /\ NeedsProbe
              /\ verdict # "end"
              /\ probed' \in probed .. Len(Probe)
              /\ pc' = "idle"
              /\ verdict' = "threw"
              /\ UNCHANGED <<inputs, pulled, built, chains, heads, cursor, match, out, delivered>>

AtRow == /\ pc = "emit"
         /\ store # << >>
         /\ HasRoom
         /\ cursor <= Len(heads)

\* The cursor moves to the next row of the probe batch and to its chain.
NextCursor == cursor + 1
StaleMatch == IF cursor < Len(heads) THEN heads[cursor] ELSE NoRow  \* mutant: the old row's chain
NoMatch == NoRow                             \* mutant: only the first row's chain loaded
NextMatch == IF cursor < Len(heads) THEN heads[cursor + 1] ELSE NoRow

\* The chain of the probe row is used up (or there was none).
Advance == /\ AtRow
           /\ match = NoRow
           /\ cursor' = NextCursor
           /\ match' = NextMatch
           /\ UNCHANGED <<inputs, pulled, probed, built, chains, heads, pc, out, caller>>

\* The probe row the cursor stands on, as a position in its input.
ProbeRow == probed - Len(heads) + cursor

Emit == /\ AtRow
        /\ match # NoRow
        /\ out' = Append(out, Pair(ProbeRow, store[match]))
        /\ match' = next_[match]
        /\ UNCHANGED <<inputs, pulled, probed, built, chains, heads, cursor, pc, caller>>

Fault == BuildThrow \/ ProbeThrow

Work == \/ BuildSkip \/ BuildRow \/ BuildDone
        \/ NothingStored \/ BatchFull \/ ProbeExhausted \/ Advance \/ Emit
        \/ \E n \in 1 .. ChildCapacity : LoadProbe(n)

Next == Call \/ Work \/ Fault

\* collect() and every operator above pull until next() says false, and a call
\* runs to its return on the caller's thread.
Spec == Init /\ [][Next]_vars /\ WF_vars(Call \/ Work)

-----------------------------------------------------------------------------
TypeOK == /\ left \in Inputs /\ right \in Inputs /\ buildRight \in BOOLEAN
          /\ pulled \in 0 .. Len(Build)
          /\ probed \in 0 .. Len(Probe)
          /\ built \in BOOLEAN
          /\ store \in Seq(1 .. Len(Build))
          /\ index \in [Keys -> 0 .. Len(store)]
          /\ next_ \in Seq(0 .. Len(store)) /\ Len(next_) = Len(store)
          /\ tails \in Seq(1 .. Len(store)) /\ Len(tails) = Len(store)
          /\ heads \in Seq(0 .. Len(store)) /\ Len(heads) <= probed
          /\ cursor \in 1 .. Len(heads) + 1
          /\ match \in 0 .. Len(store)
          /\ pc \in {"idle", "build", "emit"}
          /\ out \in Seq(Nat \X Nat) /\ Len(out) <= Capacity
          /\ delivered \in Seq(Nat \X Nat)
          /\ verdict \in {"more", "end", "threw"}

StoredKey(i) == Build[store[i]]
SameKey(i, j) == StoredKey(i) = StoredKey(j)

\* next_ of a row is the following stored row of its key, or none.
Threaded(i) ==
  \/ /\ next_[i] = NoRow
     /\ \A j \in i + 1 .. Len(store) : ~ SameKey(i, j)
  \/ /\ next_[i] > i /\ SameKey(i, next_[i])
     /\ \A j \in i + 1 .. next_[i] - 1 : ~ SameKey(i, j)

\* The index names the first stored row of the key of row i, whose tails_ entry
\* is one of the last.
HeadedAndTailed(i) ==
  LET head == index[StoredKey(i)]
  IN  /\ head \in 1 .. i /\ SameKey(i, head)
      /\ \A j \in 1 .. head - 1 : ~ SameKey(i, j)
      /\ tails[head] >= i /\ SameKey(i, tails[head])

\* Duplicate build keys are threaded in input order: the index names the first
\* stored row of its key, next_ the following one of the same key, and tails_
\* of the first row the last, after every prefix of the build input.
ChainsInOrder == \A i \in 1 .. Len(store) : Threaded(i) /\ HeadedAndTailed(i)

\* The build and probe positions of an output row.
BuildOf(row) == IF buildRight THEN row[2] ELSE row[1]
ProbeOf(row) == IF buildRight THEN row[1] ELSE row[2]
Given == delivered \o (IF pc = "emit" THEN out ELSE << >>)

Candidates == (1 .. Len(left)) \X (1 .. Len(right))
Matching(row) == left[row[1]] = right[row[2]] /\ left[row[1]] # NullKey
Before(x, y) == \/ ProbeOf(x) < ProbeOf(y)
                \/ ProbeOf(x) = ProbeOf(y) /\ BuildOf(x) < BuildOf(y)

\* No pair is invented and none comes twice, even to a caller that pulls on
\* after an exception: a NULL or NaN key joins nothing, a chain interrupted by a
\* full batch resumes on its next row, and a lost batch is not replayed.
PairsGenuineAndOnce ==
  /\ \A x \in 1 .. Len(Given) :
       Given[x] \in Candidates /\ Matching(Given[x])
  /\ \A x, y \in 1 .. Len(Given) : x < y => Before(Given[x], Given[y])

-----------------------------------------------------------------------------
\* What makes the invariants above inductive.

\* The store holds the build rows taken so far that can join, in input order.
StoreOfPulled ==
  /\ \A i \in 1 .. Len(store) : store[i] <= pulled /\ StoredKey(i) # NullKey
  /\ \A i, j \in 1 .. Len(store) : i < j => store[i] < store[j]
  /\ \A b \in 1 .. pulled :
       Build[b] # NullKey => \E i \in 1 .. Len(store) : store[i] = b

\* The index has a row for no key but those stored.
IndexSound == \A k \in Keys : index[k] # NoRow => StoredKey(index[k]) = k

\* Nothing is probed before build() is left; it is left early only by a throw.
BuildComesFirst ==
  /\ ~ built => pc = "idle"
  /\ ~ built \/ pc = "build" => /\ heads = << >> /\ out = << >> /\ delivered = << >>
                                /\ match = NoRow /\ verdict = "more"
  /\ built /\ pc # "build" /\ verdict # "threw" => pulled = Len(Build)

\* What is left of a probe batch: the chains of the rows after the cursor, and
\* the rest of the chain of the row it stands on.
Resumable == /\ \A j \in cursor + 1 .. Len(heads) :
                  heads[j] = HeadOf(Probe[probed - Len(heads) + j])
             /\ match # NoRow => /\ cursor <= Len(heads)
                                 /\ StoredKey(match) = Probe[ProbeRow]

\* The pair comes before those the cursor and the chain have still to give.
Behind(row) == \/ ProbeOf(row) < ProbeRow
               \/ /\ ProbeOf(row) = ProbeRow /\ cursor <= Len(heads)
                  /\ match = NoRow \/ BuildOf(row) < store[match]

\* Unless something threw, the matching pairs behind the cursor have been given,
\* and it has passed every probe row when the end is told.
NothingSkipped ==
  verdict # "threw" =>
    /\ \A row \in Candidates :
         Matching(row) /\ Behind(row) => \E x \in 1 .. Len(Given) : Given[x] = row
    /\ verdict = "end" => \/ store = << >>
                          \/ probed = Len(Probe) /\ cursor > Len(heads)

\* Wherever next() is left and resumed, the chains are in order, what has been
\* given is, but for what a throw lost, exactly the matching pairs behind the
\* cursor, and each once.
IInv == /\ TypeOK
        /\ StoreOfPulled /\ ChainsInOrder /\ IndexSound
        /\ BuildComesFirst
        /\ Resumable
        /\ PairsGenuineAndOnce /\ \A x \in 1 .. Len(Given) : Behind(Given[x])
        /\ NothingSkipped

\* A join that says the end without having thrown has given every matching pair.
CompleteAtEnd ==
  verdict = "end" => \A row \in Candidates :
                       Matching(row) => \E x \in 1 .. Len(Given) : Given[x] = row

-----------------------------------------------------------------------------
\* The result of the join: the matching pairs in probe order and then in build
\* order, the place of each one behind those before it.
Pairs == {row \in Candidates : Matching(row)}
Answer == LET place == [row \in Pairs |-> 1 + Cardinality({x \in Pairs : Before(x, row)})]
          IN  [n \in 1 .. Cardinality(Pairs) |-> CHOOSE row \in Pairs : place[row] = n]

\* The join keeps the promise of every operator: all of the answer, in order,
\* in nonempty batches, then false for ever; the end comes unless a child threw.
Contract == INSTANCE PullContract WITH answer <- Answer
KeepsContract == Contract!Spec
=============================================================================
