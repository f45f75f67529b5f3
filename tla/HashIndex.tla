------------------------------ MODULE HashIndex ------------------------------
(***************************************************************************)
(* vqe::HashIndex (include/vqe/hash.hpp, src/hash.cpp): the open-addressed *)
(* table shared by HashAggregate and HashJoin, one bucket per step.  A     *)
(* bucket holds the full hash and the identifier of a row whose key lives  *)
(* in the caller's RowStore; `stored' is that store, row r being           *)
(* stored[r].  Rows are numbered from 1 and NoRow is 0.                    *)
(***************************************************************************)
EXTENDS Integers, Sequences, FiniteSets

CONSTANTS Keys,              \* the keys of incoming rows
          HashOf,            \* hash_row: any function, full collisions included
          InitialCapacity,   \* buckets before the first growth
          StoresDuplicates,  \* the caller stores every row (join), or one a key (aggregate)
          MaxRows            \* bound: rows the caller stores in one run

\* The constructor gives at least 16 buckets; two are enough for what follows.
ASSUME HashIndexAssumption == /\ HashOf \in [Keys -> Nat]
                              /\ InitialCapacity \in Nat
                              /\ InitialCapacity >= 2
                              /\ StoresDuplicates \in BOOLEAN
                              /\ MaxRows \in Nat

VARIABLES buckets, capacity, size,   \* buckets_, buckets_.size(), size_
          stored,                    \* keys of the caller's RowStore
          pc, op, key, slot,         \* the call in progress and its probe
          old, oldCapacity, pos,     \* grow(): the moved-from array, its size, cursor
          reply                      \* the answer of the latest finished call

table == <<buckets, capacity, size>>
growth == <<old, oldCapacity, pos>>
vars == <<buckets, capacity, size, stored, pc, op, key, slot, old, oldCapacity, pos, reply>>

NoRow == 0
NoReply == [op |-> "none"]
EmptyBucket == [hash |-> 0, row |-> NoRow]
Slots == 0 .. capacity - 1
OldSlots == 0 .. oldCapacity - 1
Free(i) == buckets[i].row = NoRow

\* hash & (size - 1) and (i + 1) & (size - 1): the size is a power of two.
Home(h) == h % capacity
SuccUnmasked(i) == i + 1                              \* mutant: the mask forgotten
Succ(i) == IF i + 1 = capacity THEN 0 ELSE i + 1

\* The hash comparison and the caller's equal(): RowStore::equal_key.
MatchesHash(i) == buckets[i].hash = HashOf[key]       \* mutant: hashes taken for keys
Matches(i) == /\ buckets[i].hash = HashOf[key]
              /\ stored[buckets[i].row] = key

Reply(r, new) == reply' = [op |-> op, key |-> key, row |-> r, inserted |-> new]

Init == /\ capacity = InitialCapacity
        /\ buckets = [i \in Slots |-> EmptyBucket]
        /\ size = 0
        /\ stored = << >>
        /\ pc = "idle"
        /\ op = "none"
        /\ key \in Keys
        /\ slot = 0
        /\ oldCapacity = 0
        /\ old = [i \in OldSlots |-> EmptyBucket]
        /\ pos = 0
        /\ reply = NoReply

-----------------------------------------------------------------------------
\* find(hash, equal): start probing at the home bucket.
Find(k) == /\ pc = "idle"
           /\ pc' = "probe"
           /\ op' = "find"
           /\ key' = k
           /\ slot' = Home(HashOf[k])
           /\ reply' = NoReply
           /\ UNCHANGED <<table, stored, growth>>

NeedsGrowthLate == size * 10 > capacity * 7           \* mutant: the new row not counted
NeedsGrowthFull == size = capacity                    \* mutant: grow only when full
NeedsGrowth == (size + 1) * 10 > capacity * 7

\* find_or_insert(hash, equal, create) when the table has room for one more.
InsertInPlace(k) == /\ pc = "idle"
                    /\ Len(stored) < MaxRows
                    /\ ~ NeedsGrowth
                    /\ pc' = "probe"
                    /\ op' = "insert"
                    /\ key' = k
                    /\ slot' = Home(HashOf[k])
                    /\ reply' = NoReply
                    /\ UNCHANGED <<table, stored, growth>>

\* find_or_insert that grows first: grow() moves the array aside and starts on
\* one of twice the size, whose entries come from a loop over the old one.
InsertWithGrowth(k) == /\ pc = "idle"
                       /\ Len(stored) < MaxRows
                       /\ NeedsGrowth
                       /\ pc' = "rehash"
                       /\ op' = "insert"
                       /\ key' = k
                       /\ old' = buckets
                       /\ oldCapacity' = capacity
                       /\ pos' = 0
                       /\ capacity' = 2 * capacity
                       /\ buckets' = [i \in 0 .. 2 * capacity - 1 |-> EmptyBucket]
                       /\ reply' = NoReply
                       /\ UNCHANGED <<size, stored, slot>>

-----------------------------------------------------------------------------
\* grow(): an old bucket without a row is passed over.
RehashSkip == /\ pc = "rehash"
              /\ pos < oldCapacity
              /\ old[pos].row = NoRow
              /\ pos' = pos + 1
              /\ UNCHANGED <<table, stored, pc, op, key, slot, old, oldCapacity, reply>>

\* grow(): an old entry is placed from its home in the new array.
RehashHomeStale == old[pos].hash % oldCapacity        \* mutant: the old array's mask
RehashHome == Home(old[pos].hash)

RehashPick == /\ pc = "rehash"
              /\ pos < oldCapacity
              /\ old[pos].row # NoRow
              /\ pc' = "place"
              /\ slot' = RehashHome
              /\ UNCHANGED <<table, stored, op, key, growth, reply>>

PlaceNext == /\ pc = "place"
             /\ ~ Free(slot)
             /\ slot' = Succ(slot)
             /\ UNCHANGED <<table, stored, pc, op, key, growth, reply>>

PlaceEntry == /\ pc = "place"
              /\ Free(slot)
              /\ buckets' = [buckets EXCEPT ![slot] = old[pos]]
              /\ pos' = pos + 1
              /\ pc' = "rehash"
              /\ UNCHANGED <<capacity, size, stored, op, key, slot, old, oldCapacity, reply>>

\* The loop is over: the old array dies and the insertion starts probing.
RehashDone == /\ pc = "rehash"
              /\ pos = oldCapacity
              /\ oldCapacity' = 0
              /\ old' = [i \in {} |-> EmptyBucket]
              /\ pos' = 0
              /\ pc' = "probe"
              /\ slot' = Home(HashOf[key])
              /\ UNCHANGED <<table, stored, op, key, reply>>

-----------------------------------------------------------------------------
\* The probe meets its key.  An inserting aggregate keeps the row it found; an
\* inserting join stores one more row with that key, which is not indexed.
ProbeHit == /\ pc = "probe"
            /\ ~ Free(slot)
            /\ Matches(slot)
            /\ Reply(buckets[slot].row, FALSE)
            /\ pc' = "idle"
            /\ stored' = IF op = "insert" /\ StoresDuplicates
                         THEN Append(stored, key) ELSE stored
            /\ UNCHANGED <<table, op, key, slot, growth>>

ProbeNext == /\ pc = "probe"
             /\ ~ Free(slot)
             /\ ~ Matches(slot)
             /\ slot' = Succ(slot)
             /\ UNCHANGED <<table, stored, pc, op, key, growth, reply>>

FindMiss == /\ pc = "probe"
            /\ Free(slot)
            /\ op = "find"
            /\ Reply(NoRow, FALSE)
            /\ pc' = "idle"
            /\ UNCHANGED <<table, stored, op, key, slot, growth>>

\* create() appends the key to the store and names its row; then the bucket
\* and the counter are written.
InsertMiss == /\ pc = "probe"
              /\ Free(slot)
              /\ op = "insert"
              /\ LET row == Len(stored) + 1
                 IN  /\ stored' = Append(stored, key)
                     /\ buckets' = [buckets EXCEPT ![slot] = [hash |-> HashOf[key], row |-> row]]
                     /\ Reply(row, TRUE)
              /\ size' = size + 1
              /\ pc' = "idle"
              /\ UNCHANGED <<capacity, op, key, slot, growth>>

Call == \E k \in Keys : Find(k) \/ InsertInPlace(k) \/ InsertWithGrowth(k)

Work == \/ RehashSkip \/ RehashPick \/ PlaceNext \/ PlaceEntry \/ RehashDone
        \/ ProbeHit \/ ProbeNext \/ FindMiss \/ InsertMiss

Next == Call \/ Work

\* The engine is one thread: a call that has started runs to its return.
Spec == Init /\ [][Next]_vars /\ WF_vars(Work)

-----------------------------------------------------------------------------
Bucket == [hash : Nat, row : Nat]

TypeOK == /\ capacity \in Nat /\ capacity >= InitialCapacity
          /\ buckets \in [Slots -> Bucket]
          /\ size \in Nat
          /\ stored \in Seq(Keys)
          /\ pc \in {"idle", "rehash", "place", "probe"}
          /\ op \in {"none", "find", "insert"}
          /\ key \in Keys
          /\ slot \in Nat
          /\ pc \in {"place", "probe"} => slot \in Slots
          /\ oldCapacity \in Nat
          /\ old \in [OldSlots -> Bucket]
          /\ pos \in 0 .. oldCapacity
          /\ pc = "place" => pos < oldCapacity

\* Entries grow() has not moved yet, and those of the current array.
Pending == {i \in OldSlots : i >= pos /\ old[i].row # NoRow}
Occupied == {i \in Slots : ~ Free(i)}

\* The slots a probe from `home' has passed when it stands on i.
Path(home, i) == IF home <= i THEN home .. i - 1
                 ELSE (home .. capacity - 1) \cup (0 .. i - 1)

\* An entry is the hash and the row of a stored key, and the first such row.
Sound(b) == /\ b.row \in 1 .. Len(stored)
            /\ b.hash = HashOf[stored[b.row]]
            /\ \A q \in 1 .. b.row - 1 : stored[q] # stored[b.row]
EntriesSound == /\ \A i \in Occupied : Sound(buckets[i])
                /\ \A i \in Pending : Sound(old[i])

\* Every stored key has an entry, in the array or still to be moved into it.
KeysIndexed == \A r \in 1 .. Len(stored) :
                 \/ \E i \in Occupied : stored[buckets[i].row] = stored[r]
                 \/ \E i \in Pending : stored[old[i].row] = stored[r]

\* No probe for an indexed key can stop before it: hash.hpp's loops end at the
\* first bucket without a row, so none may lie between an entry and its home,
\* in whatever order collisions, wrap-around and rehashing placed the entries.
EntriesReachable ==
  \A i \in Occupied : \A j \in Path(Home(buckets[i].hash), i) : ~ Free(j)

\* hash.hpp:18, "At <=70% occupancy linear probing always encounters an empty
\* bucket": size_ counts the entries exactly, those grow() has yet to move
\* included, the array is never more than 70 % full, and a running insertion
\* has room for its row, so that no probing loop can run forever.
OccupancyBounded ==
  /\ size = Cardinality(Occupied) + Cardinality(Pending)
  /\ size * 10 <= capacity * 7
  /\ pc # "idle" /\ op = "insert" => (size + 1) * 10 <= capacity * 7

\* A free bucket under the probe proves the key absent, in the middle of every
\* sequence of insertions and growths: neither find's no_row nor the insertion
\* of a new row is ever wrong.
MissMeansAbsent ==
  pc = "probe" /\ Free(slot) => \A r \in 1 .. Len(stored) : stored[r] # key

\* The indexed rows are the first of their keys, all of them and no other: a
\* join chain has one head, its first row, whatever was inserted in between.
FirstRowIndexed ==
  pc \in {"idle", "probe"} =>
    \A r \in 1 .. Len(stored) :
      (\A q \in 1 .. r - 1 : stored[q] # stored[r])
        <=> (\E i \in Slots : buckets[i].row = r)

\* What the running loop has established about the buckets it has passed.
Passed(h) == \A j \in Path(Home(h), slot) : ~ Free(j)
LoopFacts ==
  /\ pc \in {"idle", "probe"} => oldCapacity = 0
  /\ pc \in {"rehash", "place"} => op = "insert"
  /\ pc # "idle" => /\ op \in {"find", "insert"}
                    /\ op = "insert" => Len(stored) < MaxRows
                    /\ reply = NoReply
  /\ pc = "place" => old[pos].row # NoRow /\ Passed(old[pos].hash)
  /\ pc = "probe" => /\ Passed(HashOf[key])
                     /\ \A j \in Path(Home(HashOf[key]), slot) : ~ Matches(j)

\* The inductive invariant of HashIndexProofs: these parts keep each other.
IInv == /\ TypeOK
        /\ EntriesSound
        /\ KeysIndexed
        /\ EntriesReachable
        /\ OccupancyBounded
        /\ LoopFacts

\* Every call returns: the probes and the rehashing loops all terminate.
CallsReturn == pc # "idle" ~> pc = "idle"

Directory == {<<stored[e.row], e.row>> :
                e \in {buckets[i] : i \in Occupied} \cup {old[i] : i \in Pending}}

\* The table is a key directory: each finished call answers as KeyDirectory
\* would, and growth, collisions and unindexed duplicates are invisible in it.
Abstract == INSTANCE KeyDirectory
              WITH directory <- Directory, Rows <- 1 .. MaxRows
ImplementsDirectory == Abstract!Spec
=============================================================================
