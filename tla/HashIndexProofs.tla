--------------------------- MODULE HashIndexProofs ---------------------------
(***************************************************************************)
(* Proofs about HashIndex for every set of keys, every hash function and   *)
(* every initial capacity of at least two: the table loses no key, indexes *)
(* each once, always keeps an empty bucket, and implements KeyDirectory.   *)
(***************************************************************************)
EXTENDS HashIndex, FiniteSetTheorems, SequenceTheorems, TLAPS

\* hash & (size - 1) is a bucket of the array.
LEMMA HomeIsSlot ==
  ASSUME TypeOK, NEW h \in Nat
  PROVE  Home(h) \in Slots
  BY HashIndexAssumption DEF TypeOK, Home, Slots

\* (i + 1) & (size - 1) is one too, the first after the last.
LEMMA SuccIsSlot ==
  ASSUME TypeOK, NEW i \in Slots
  PROVE  Succ(i) \in Slots
  BY HashIndexAssumption DEF TypeOK, Succ, Slots

\* One step of a probe adds at most the bucket it leaves to those passed.
LEMMA PathStep ==
  ASSUME TypeOK, NEW home \in Slots, NEW i \in Slots, NEW j \in Path(home, Succ(i))
  PROVE  j \in Path(home, i) \cup {i}
<1>1. CASE i + 1 = capacity
  BY <1>1 DEF TypeOK, Path, Succ, Slots
<1>2. CASE i + 1 # capacity
  BY <1>2 DEF TypeOK, Path, Succ, Slots
<1>3. QED BY <1>1, <1>2

\* Of two buckets, the probe from any home passes one before the other.
LEMMA PathTotal ==
  ASSUME TypeOK, NEW home \in Slots, NEW i \in Slots, NEW s \in Slots, i # s
  PROVE  i \in Path(home, s) \/ s \in Path(home, i)
  BY DEF TypeOK, Path, Slots

\* A probe has passed nothing when it stands on its home bucket.
LEMMA PathStart ==
  ASSUME TypeOK, NEW home \in Slots
  PROVE  Path(home, home) = {}
  BY DEF TypeOK, Path, Slots

\* The buckets a probe has passed are buckets of the array.
LEMMA PathInSlots ==
  ASSUME TypeOK, NEW home \in Slots, NEW i \in Slots
  PROVE  Path(home, i) \subseteq Slots
  BY DEF TypeOK, Path, Slots

\* The two arrays hold finitely many entries.
LEMMA EntriesFinite ==
  ASSUME TypeOK
  PROVE  /\ IsFiniteSet(Slots) /\ Cardinality(Slots) = capacity
         /\ IsFiniteSet(Occupied) /\ IsFiniteSet(Pending)
<1>1. capacity \in Nat /\ oldCapacity \in Nat
  BY DEF TypeOK
<1>2. IsFiniteSet(Slots) /\ Cardinality(Slots) = capacity
  BY <1>1, FS_Interval DEF Slots
<1>3. IsFiniteSet(OldSlots)
  BY <1>1, FS_Interval DEF OldSlots
<1>4. Occupied \subseteq Slots /\ Pending \subseteq OldSlots
  BY DEF Occupied, Pending
<1>5. QED BY <1>2, <1>3, <1>4, FS_Subset

\* hash.hpp:18: whatever has been inserted, some bucket has no row.
LEMMA FreeBucketExists ==
  ASSUME IInv
  PROVE  \E i \in Slots : Free(i)
<1>1. TypeOK /\ OccupancyBounded
  BY DEF IInv
<1>2. Cardinality(Occupied) \in Nat /\ Cardinality(Pending) \in Nat
  BY <1>1, EntriesFinite, FS_CardinalityType
<1>3. Cardinality(Occupied) < capacity
  BY <1>1, <1>2, HashIndexAssumption DEF OccupancyBounded, TypeOK
<1>4. Occupied # Slots
  BY <1>1, <1>3, EntriesFinite DEF TypeOK
<1>5. QED BY <1>4 DEF Occupied

\* The probe loop's exit on a bucket without a row is right.
LEMMA MissLemma ==
  ASSUME IInv
  PROVE  MissMeansAbsent
<1> SUFFICES ASSUME pc = "probe", Free(slot),
                    NEW r \in 1 .. Len(stored), stored[r] = key
             PROVE  FALSE
  BY DEF MissMeansAbsent
<1> USE DEF IInv
<1>1. TypeOK /\ slot \in Slots /\ HashOf[key] \in Nat
  BY HashIndexAssumption DEF TypeOK
<1>2. Pending = {}
  BY <1>1 DEF LoopFacts, Pending, OldSlots, TypeOK
<1>3. PICK i \in Occupied : stored[buckets[i].row] = key
  BY <1>2 DEF KeysIndexed
<1>4. i \in Slots /\ ~ Free(i) /\ buckets[i].hash = HashOf[key]
  BY <1>3 DEF Occupied, EntriesSound, Sound
<1>5. Matches(i)
  BY <1>3, <1>4 DEF Matches
<1>6. i \notin Path(Home(HashOf[key]), slot)
  BY <1>5 DEF LoopFacts
<1>7. slot \in Path(Home(HashOf[key]), i)
  BY <1>1, <1>4, <1>6, PathTotal, HomeIsSlot
<1>8. QED BY <1>3, <1>4, <1>7 DEF EntriesReachable

\* The indexed rows are exactly the first rows of their keys.
LEMMA FirstRowLemma ==
  ASSUME IInv
  PROVE  FirstRowIndexed
<1> SUFFICES ASSUME pc \in {"idle", "probe"}, NEW r \in 1 .. Len(stored)
             PROVE  (\A q \in 1 .. r - 1 : stored[q] # stored[r])
                      <=> (\E i \in Slots : buckets[i].row = r)
  BY DEF FirstRowIndexed
<1> USE DEF IInv
<1>1. Pending = {} /\ Len(stored) \in Nat
  BY DEF LoopFacts, Pending, OldSlots, TypeOK
<1>2. ASSUME \A q \in 1 .. r - 1 : stored[q] # stored[r]
      PROVE  \E i \in Slots : buckets[i].row = r
  <2>1. PICK i \in Occupied : stored[buckets[i].row] = stored[r]
    BY <1>1 DEF KeysIndexed
  <2>2. Sound(buckets[i]) /\ i \in Slots
    BY <2>1 DEF EntriesSound, Occupied
  <2>3. buckets[i].row \in 1 .. Len(stored)
    BY <2>2 DEF Sound
  <2>4. ~ (buckets[i].row < r)
    BY <1>2, <2>1, <2>3
  <2>5. ~ (r < buckets[i].row)
    BY <2>1, <2>2, <2>3 DEF Sound
  <2>6. QED BY <2>2, <2>3, <2>4, <2>5
<1>3. ASSUME NEW i \in Slots, buckets[i].row = r
      PROVE  \A q \in 1 .. r - 1 : stored[q] # stored[r]
  <2>1. i \in Occupied
    BY <1>3 DEF Occupied, Free, NoRow
  <2>2. QED BY <1>3, <2>1 DEF EntriesSound, Sound
<1>4. QED BY <1>2, <1>3

-----------------------------------------------------------------------------
\* The constructor's table, with no entry at all, satisfies the invariant.
LEMMA InitIInv == Init => IInv
<1> SUFFICES ASSUME Init PROVE IInv
  OBVIOUS
<1> USE HashIndexAssumption
<1>1. TypeOK
  BY DEF Init, TypeOK, Slots, OldSlots, Bucket, EmptyBucket, NoRow
<1>2. Occupied = {} /\ Pending = {}
  BY DEF Init, Occupied, Pending, Free, Slots, OldSlots, EmptyBucket
<1>3. EntriesSound /\ EntriesReachable
  BY <1>2 DEF EntriesSound, EntriesReachable
<1>4. KeysIndexed
  BY DEF Init, KeysIndexed
<1>5. OccupancyBounded
  BY <1>2, FS_EmptySet DEF Init, OccupancyBounded
<1>6. LoopFacts
  BY DEF Init, LoopFacts
<1>7. QED BY <1>1, <1>3, <1>4, <1>5, <1>6 DEF IInv

\* Starting a call, stepping a probe and finishing one leave the entries alone.
LEMMA EntriesKept ==
  ASSUME IInv, UNCHANGED <<table, stored, growth>>
  PROVE  /\ EntriesSound' /\ KeysIndexed' /\ EntriesReachable'
         /\ (size = Cardinality(Occupied) + Cardinality(Pending))'
<1>1. Occupied' = Occupied /\ Pending' = Pending
  BY DEF table, growth, Occupied, Pending, Free, Slots, OldSlots
<1>2. EntriesSound'
  BY <1>1 DEF IInv, EntriesSound, Sound, table, growth
<1>3. KeysIndexed'
  BY <1>1 DEF IInv, KeysIndexed, table, growth
<1>4. EntriesReachable'
  BY <1>1 DEF IInv, EntriesReachable, Path, Home, Free, table
<1>5. QED
  BY <1>1, <1>2, <1>3, <1>4 DEF IInv, OccupancyBounded, table, growth

\* find, and find_or_insert without growth, start a probe that has passed nothing.
LEMMA CallKeepsIInv ==
  ASSUME IInv, NEW k \in Keys, Find(k) \/ InsertInPlace(k)
  PROVE  IInv'
<1> USE HashIndexAssumption
<1>1. UNCHANGED <<table, stored, growth>> /\ pc = "idle" /\ pc' = "probe" /\ key' = k
      /\ slot' = Home(HashOf[k])
  BY DEF Find, InsertInPlace
<1>2. TypeOK /\ slot' \in Slots /\ HashOf[k] \in Nat
  BY <1>1, HomeIsSlot DEF IInv
<1>3. TypeOK'
  BY <1>1, <1>2 DEF TypeOK, Find, InsertInPlace, table, growth, Slots, OldSlots
<1>4. OccupancyBounded'
  BY <1>1, EntriesKept
     DEF IInv, TypeOK, OccupancyBounded, Find, InsertInPlace, NeedsGrowth, table
<1>5. LoopFacts'
  <2>1. (Home(HashOf[key]) = slot /\ Path(Home(HashOf[key]), slot) = {})'
    BY <1>1, <1>2, PathStart DEF Home, Path, table
  <2>2. QED BY <1>1, <2>1 DEF IInv, LoopFacts, Passed, growth, Find, InsertInPlace
<1>6. QED BY <1>1, <1>3, <1>4, <1>5, EntriesKept DEF IInv

\* grow() moves the array aside: every entry of it is pending, none is lost.
LEMMA GrowthKeepsIInv ==
  ASSUME IInv, NEW k \in Keys, InsertWithGrowth(k)
  PROVE  IInv'
<1> USE HashIndexAssumption DEF InsertWithGrowth
<1>1. TypeOK'
  BY DEF IInv, TypeOK, Slots, OldSlots, Bucket, EmptyBucket, NoRow
<1>2. Occupied' = {} /\ Pending' = Occupied /\ Pending = {}
  BY DEF IInv, TypeOK, LoopFacts, Occupied, Pending, Free, Slots, OldSlots, EmptyBucket
<1>3. EntriesSound' /\ EntriesReachable'
  BY <1>2 DEF IInv, EntriesSound, EntriesReachable, Sound
<1>4. KeysIndexed'
  BY <1>2 DEF IInv, KeysIndexed
<1>5. OccupancyBounded'
  <2>1. Cardinality(Occupied') = 0 /\ Cardinality(Pending) = 0
    BY <1>2, FS_EmptySet
  <2>2. Cardinality(Occupied) \in Nat
    BY EntriesFinite, FS_CardinalityType DEF IInv
  <2>3. (size = Cardinality(Occupied) + Cardinality(Pending))'
    BY <1>2, <2>1, <2>2 DEF IInv, OccupancyBounded
  <2>4. QED BY <2>3 DEF IInv, OccupancyBounded, TypeOK
<1>6. LoopFacts'
  BY DEF LoopFacts
<1>7. QED BY <1>1, <1>3, <1>4, <1>5, <1>6 DEF IInv

-----------------------------------------------------------------------------
\* A bucket without a row leaves nothing pending behind.
LEMMA RehashSkipKeepsIInv == ASSUME IInv, RehashSkip PROVE IInv'
<1> USE HashIndexAssumption DEF RehashSkip
<1>1. TypeOK'
  BY DEF IInv, TypeOK, table, Slots, OldSlots
<1>2. Occupied' = Occupied /\ Pending' = Pending
  BY DEF IInv, TypeOK, Occupied, Pending, Free, table, Slots, OldSlots
<1>3. EntriesSound' /\ KeysIndexed' /\ EntriesReachable'
  BY <1>2 DEF IInv, EntriesSound, Sound, KeysIndexed, EntriesReachable, Path, Home, Free, table
<1>4. OccupancyBounded' /\ LoopFacts'
  BY <1>2 DEF IInv, OccupancyBounded, LoopFacts, table
<1>5. QED BY <1>1, <1>3, <1>4 DEF IInv

\* The home of a pending entry is a bucket of the array twice the size.
LEMMA RehashPickKeepsIInv == ASSUME IInv, RehashPick PROVE IInv'
<1> USE HashIndexAssumption DEF RehashPick, RehashHome
<1>1. TypeOK /\ old[pos].hash \in Nat
  BY DEF IInv, TypeOK, OldSlots, Bucket
<1>2. slot' \in Slots /\ slot' = Home(old[pos].hash)
  BY <1>1, HomeIsSlot
<1>3. TypeOK'
  BY <1>1, <1>2 DEF TypeOK, table, growth, Slots, OldSlots
<1>4. OccupancyBounded'
  BY EntriesKept DEF IInv, OccupancyBounded, LoopFacts, table
<1>5. LoopFacts'
  <2>1. Passed(old[pos].hash)'
    BY <1>1, <1>2, PathStart DEF Passed, Home, Path, table, growth
  <2>2. QED BY <2>1 DEF IInv, LoopFacts, growth
<1>6. QED BY <1>3, <1>4, <1>5, EntriesKept DEF IInv

\* The placing loop steps over a bucket that has a row.
LEMMA PlaceNextKeepsIInv == ASSUME IInv, PlaceNext PROVE IInv'
<1> USE HashIndexAssumption DEF PlaceNext
<1>1. TypeOK /\ slot \in Slots /\ old[pos].hash \in Nat
  BY DEF IInv, TypeOK, OldSlots, Bucket
<1>2. TypeOK'
  BY <1>1, SuccIsSlot DEF TypeOK, table, growth, Slots, OldSlots
<1>3. OccupancyBounded'
  BY EntriesKept DEF IInv, OccupancyBounded, table
<1>4. LoopFacts'
  <2>1. \A j \in Path(Home(old[pos].hash), Succ(slot)) : ~ Free(j)
    BY <1>1, HomeIsSlot, PathStep DEF IInv, LoopFacts, Passed
  <2>2. Passed(old[pos].hash)'
    BY <2>1 DEF Passed, Home, Path, Free, table, growth
  <2>3. QED BY <2>2 DEF IInv, LoopFacts, growth
<1>5. QED BY <1>2, <1>3, <1>4, EntriesKept DEF IInv

\* Writing a bucket that was free at the end of an occupied path from its home
\* keeps every entry reachable.
LEMMA WriteKeepsReachable ==
  ASSUME TypeOK, EntriesReachable, slot \in Slots, Free(slot),
         NEW b \in Bucket, b.row # NoRow, Passed(b.hash),
         buckets' = [buckets EXCEPT ![slot] = b], UNCHANGED capacity
  PROVE  EntriesReachable' /\ Occupied' = Occupied \cup {slot} /\ slot \notin Occupied
<1>1. /\ \A i \in Slots : buckets'[i] = IF i = slot THEN b ELSE buckets[i]
      /\ Slots' = Slots
  BY DEF TypeOK, Slots
<1>2. Occupied' = Occupied \cup {slot} /\ slot \notin Occupied
  BY <1>1 DEF Occupied, Free
<1>3. ASSUME NEW i \in Occupied', NEW j \in Path(Home(buckets'[i].hash), i)
      PROVE  buckets'[j].row # NoRow
  <2>1. i \in Slots /\ buckets'[i] \in Bucket /\ buckets'[i].hash \in Nat
    BY <1>1, <1>2 DEF Occupied, TypeOK, Bucket
  <2>2. j \in Slots
    BY <2>1, HomeIsSlot, PathInSlots
  <2>3. CASE i = slot
    BY <1>1, <2>2, <2>3 DEF Passed, Free
  <2>4. CASE i # slot
    <3>1. i \in Occupied /\ buckets'[i] = buckets[i]
      BY <1>1, <1>2, <2>4 DEF Occupied
    <3>2. ~ Free(j)
      BY <3>1 DEF EntriesReachable
    <3>3. QED BY <1>1, <2>2, <3>2 DEF Free
  <2>5. QED BY <2>3, <2>4
<1>4. EntriesReachable'
  BY <1>3 DEF EntriesReachable, Path, Home, Free
<1>5. QED BY <1>2, <1>4

\* A pending entry moves to the bucket its probe stopped at.
LEMMA PlaceEntryKeepsIInv == ASSUME IInv, PlaceEntry PROVE IInv'
<1> USE HashIndexAssumption DEF PlaceEntry
<1>1. /\ TypeOK /\ slot \in Slots /\ pos \in OldSlots
      /\ old[pos] \in Bucket /\ old[pos].row # NoRow /\ Passed(old[pos].hash)
  BY DEF IInv, TypeOK, OldSlots, LoopFacts
<1>2. TypeOK'
  BY <1>1 DEF TypeOK, Slots, OldSlots
<1>3. EntriesReachable' /\ Occupied' = Occupied \cup {slot} /\ slot \notin Occupied
  BY <1>1, WriteKeepsReachable DEF IInv
<1>4. Pending' = Pending \ {pos} /\ pos \in Pending
  BY <1>1 DEF TypeOK, Pending, OldSlots
<1>5. \A i \in Slots : buckets'[i] = IF i = slot THEN old[pos] ELSE buckets[i]
  BY <1>1 DEF TypeOK
<1>6. Occupied \subseteq Slots
  BY DEF Occupied
<1>7. EntriesSound'
  BY <1>1, <1>3, <1>4, <1>5, <1>6 DEF IInv, EntriesSound, Sound
<1>8. KeysIndexed'
  <2> SUFFICES ASSUME NEW r \in 1 .. Len(stored)
               PROVE  \/ \E i \in Occupied' : stored[buckets'[i].row] = stored[r]
                      \/ \E i \in Pending' : stored[old[i].row] = stored[r]
    BY DEF KeysIndexed
  <2>1. CASE \E i \in Occupied : stored[buckets[i].row] = stored[r]
    BY <1>3, <1>5, <1>6, <2>1
  <2>2. CASE \E i \in Pending : stored[old[i].row] = stored[r]
    BY <1>1, <1>3, <1>4, <1>5, <2>2
  <2>3. QED BY <2>1, <2>2 DEF IInv, KeysIndexed
<1>9. OccupancyBounded'
  <2>1. /\ Cardinality(Occupied') = Cardinality(Occupied) + 1
        /\ Cardinality(Pending') = Cardinality(Pending) - 1
    BY <1>1, <1>3, <1>4, EntriesFinite, FS_AddElement, FS_RemoveElement
  <2>2. Cardinality(Occupied) \in Nat /\ Cardinality(Pending) \in Nat
    BY <1>1, EntriesFinite, FS_CardinalityType
  <2>3. QED BY <2>1, <2>2 DEF IInv, OccupancyBounded
<1>10. LoopFacts'
  BY DEF IInv, LoopFacts
<1>11. QED BY <1>2, <1>3, <1>7, <1>8, <1>9, <1>10 DEF IInv

\* When the old array is used up nothing is pending, and it may die.
LEMMA RehashDoneKeepsIInv == ASSUME IInv, RehashDone PROVE IInv'
<1> USE HashIndexAssumption DEF RehashDone
<1>1. TypeOK /\ HashOf[key] \in Nat /\ slot' \in Slots /\ slot' = Home(HashOf[key])
  BY HomeIsSlot DEF IInv, TypeOK
<1>2. TypeOK'
  BY <1>1 DEF TypeOK, table, Slots, OldSlots
<1>3. Occupied' = Occupied /\ Pending' = {} /\ Pending = {}
  BY DEF IInv, TypeOK, Occupied, Pending, Free, table, Slots, OldSlots
<1>4. EntriesSound' /\ KeysIndexed' /\ EntriesReachable'
  BY <1>3 DEF IInv, EntriesSound, Sound, KeysIndexed, EntriesReachable, Path, Home, Free, table
<1>5. OccupancyBounded'
  BY <1>3 DEF IInv, OccupancyBounded, table
<1>6. LoopFacts'
  <2>1. (Path(Home(HashOf[key]), slot) = {})'
    BY <1>1, PathStart DEF Home, Path, table
  <2>2. QED BY <2>1 DEF IInv, LoopFacts, Passed
<1>7. QED BY <1>2, <1>4, <1>5, <1>6 DEF IInv

-----------------------------------------------------------------------------
\* A probe steps over a bucket with another key.
LEMMA ProbeNextKeepsIInv == ASSUME IInv, ProbeNext PROVE IInv'
<1> USE HashIndexAssumption DEF ProbeNext
<1>1. TypeOK /\ slot \in Slots /\ HashOf[key] \in Nat
  BY DEF IInv, TypeOK
<1>2. TypeOK'
  BY <1>1, SuccIsSlot DEF TypeOK, table, growth, Slots, OldSlots
<1>3. OccupancyBounded'
  BY EntriesKept DEF IInv, OccupancyBounded, table
<1>4. LoopFacts'
  <2>1. \A j \in Path(Home(HashOf[key]), Succ(slot)) : ~ Free(j) /\ ~ Matches(j)
    BY <1>1, HomeIsSlot, PathStep DEF IInv, LoopFacts, Passed
  <2>2. (Passed(HashOf[key]) /\ \A j \in Path(Home(HashOf[key]), slot) : ~ Matches(j))'
    BY <2>1 DEF Passed, Home, Path, Free, Matches, table
  <2>3. QED BY <2>2 DEF IInv, LoopFacts, growth
<1>5. QED BY <1>2, <1>3, <1>4, EntriesKept DEF IInv

\* A store that gained a row with an indexed key is indexed as it was.
LEMMA ProbeHitKeepsIInv == ASSUME IInv, ProbeHit PROVE IInv'
<1> USE HashIndexAssumption DEF ProbeHit
<1>1. /\ TypeOK /\ slot \in Slots /\ slot \in Occupied
      /\ stored \in Seq(Keys) /\ Len(stored) \in Nat /\ key \in Keys
      /\ stored[buckets[slot].row] = key
  BY LenProperties DEF IInv, TypeOK, Occupied, Matches
<1>2. /\ stored' \in Seq(Keys)
      /\ Len(stored') >= Len(stored) /\ Len(stored') \in Nat
      /\ \A r \in 1 .. Len(stored) : stored'[r] = stored[r]
      /\ \A r \in 1 .. Len(stored') : r \in 1 .. Len(stored) \/ stored'[r] = key
  <2>1. CASE stored' = stored
    BY <1>1, <2>1
  <2>2. CASE stored' = Append(stored, key)
    BY <1>1, <2>2, AppendProperties
  <2>3. QED BY <2>1, <2>2
<1>3. TypeOK'
  BY <1>1, <1>2 DEF TypeOK, table, growth, Slots, OldSlots
<1>4. /\ Occupied' = Occupied /\ Pending' = Pending
      /\ buckets' = buckets /\ old' = old /\ capacity' = capacity
  BY DEF Occupied, Pending, Free, table, growth, Slots, OldSlots
<1>5. EntriesReachable' /\ OccupancyBounded' /\ LoopFacts'
  BY <1>4 DEF IInv, EntriesReachable, OccupancyBounded, LoopFacts, Path, Home, Free, table, growth
<1>6. ASSUME NEW b \in Bucket, Sound(b)
      PROVE  Sound(b)' /\ stored'[b.row] = stored[b.row]
  BY <1>1, <1>2, <1>6 DEF Sound, Bucket
<1>7. EntriesSound'
  <2>1. /\ \A i \in Occupied : buckets[i] \in Bucket
        /\ \A i \in Pending : old[i] \in Bucket
    BY <1>1 DEF TypeOK, Occupied, Pending
  <2>2. QED BY <1>4, <1>6, <2>1 DEF IInv, EntriesSound, Sound
<1>8. KeysIndexed'
  <2> SUFFICES ASSUME NEW r \in 1 .. Len(stored')
               PROVE  \/ \E i \in Occupied : stored'[buckets[i].row] = stored'[r]
                      \/ \E i \in Pending : stored'[old[i].row] = stored'[r]
    BY <1>4 DEF KeysIndexed
  <2>1. /\ \A i \in Occupied : stored'[buckets[i].row] = stored[buckets[i].row]
        /\ \A i \in Pending : stored'[old[i].row] = stored[old[i].row]
    BY <1>2 DEF IInv, EntriesSound, Sound
  <2>2. CASE r \in 1 .. Len(stored)
    <3>1. stored'[r] = stored[r]
      BY <1>2, <2>2
    <3>2. \/ \E i \in Occupied : stored[buckets[i].row] = stored[r]
          \/ \E i \in Pending : stored[old[i].row] = stored[r]
      BY <2>2 DEF IInv, KeysIndexed
    <3>3. QED BY <2>1, <3>1, <3>2
  <2>3. CASE stored'[r] = key
    BY <1>1, <2>1, <2>3
  <2>4. QED BY <1>2, <2>2, <2>3
<1>9. QED BY <1>3, <1>5, <1>7, <1>8 DEF IInv

\* A find that ends on a free bucket changes no entry.
LEMMA FindMissKeepsIInv == ASSUME IInv, FindMiss PROVE IInv'
<1> USE HashIndexAssumption DEF FindMiss
<1>1. TypeOK'
  BY DEF IInv, TypeOK, table, growth, Slots, OldSlots
<1>2. OccupancyBounded' /\ LoopFacts'
  BY EntriesKept DEF IInv, OccupancyBounded, LoopFacts, table, growth
<1>3. QED BY <1>1, <1>2, EntriesKept DEF IInv

\* A new row's entry goes to the free bucket the probe stopped at.
LEMMA InsertMissKeepsIInv == ASSUME IInv, InsertMiss PROVE IInv'
<1> USE HashIndexAssumption
<1>0. PICK row, entry : row = Len(stored) + 1 /\ entry = [hash |-> HashOf[key], row |-> row]
  OBVIOUS
<1>1. /\ TypeOK /\ slot \in Slots /\ Free(slot) /\ pc = "probe" /\ pc' = "idle" /\ op = "insert"
      /\ stored \in Seq(Keys) /\ Len(stored) \in Nat /\ key \in Keys
      /\ HashOf[key] \in Nat /\ entry \in Bucket /\ entry.row # NoRow
  BY <1>0, LenProperties DEF IInv, TypeOK, InsertMiss, Bucket, NoRow
<1>2. /\ stored' = Append(stored, key) /\ size' = size + 1
      /\ buckets' = [buckets EXCEPT ![slot] = entry]
      /\ UNCHANGED <<capacity, op, key, slot, growth>>
  BY <1>0 DEF InsertMiss
<1>3. /\ stored' \in Seq(Keys) /\ Len(stored') = row
      /\ \A r \in 1 .. Len(stored) : stored'[r] = stored[r]
      /\ stored'[row] = key
  BY <1>0, <1>1, <1>2, AppendProperties
<1>4. TypeOK'
  BY <1>1, <1>2, <1>3 DEF TypeOK, growth, Slots, OldSlots
<1>5. Pending = {} /\ Pending' = {} /\ oldCapacity' = 0
  BY <1>1, <1>2 DEF IInv, LoopFacts, Pending, OldSlots, growth
<1>6. EntriesReachable' /\ Occupied' = Occupied \cup {slot} /\ slot \notin Occupied
  BY <1>0, <1>1, <1>2, WriteKeepsReachable DEF IInv, LoopFacts
<1>7. /\ \A i \in Slots : buckets'[i] = IF i = slot THEN entry ELSE buckets[i]
      /\ Occupied \subseteq Slots
  BY <1>1, <1>2 DEF TypeOK, Occupied
<1>8. EntriesSound'
  <2>1. \A r \in 1 .. Len(stored) : stored[r] # key
    BY <1>1, MissLemma DEF MissMeansAbsent
  <2>2. Sound(entry)'
    BY <1>0, <1>1, <1>3, <2>1 DEF Sound
  <2>3. ASSUME NEW i \in Occupied
        PROVE  Sound(buckets[i])'
    <3>1. Sound(buckets[i]) /\ buckets'[i] = buckets[i] /\ buckets[i].row \in 1 .. Len(stored)
      BY <1>6, <1>7 DEF IInv, EntriesSound, Sound
    <3>2. stored'[buckets[i].row] = stored[buckets[i].row]
      BY <1>3, <3>1
    <3>3. \A q \in 1 .. buckets[i].row - 1 : stored'[q] = stored[q]
      BY <1>1, <1>3, <3>1
    <3>4. buckets[i].row \in 1 .. Len(stored')
      BY <1>0, <1>1, <1>3, <3>1
    <3>5. QED BY <3>1, <3>2, <3>3, <3>4 DEF Sound
  <2>4. \A i \in Occupied' : Sound(buckets[i])'
    <3> TAKE i \in Occupied'
    <3>1. CASE i = slot
      BY <1>1, <1>7, <2>2, <3>1 DEF Sound
    <3>2. CASE i # slot
      BY <1>6, <2>3, <3>2
    <3>3. QED BY <3>1, <3>2
  <2>5. QED BY <1>5, <2>4 DEF EntriesSound, Sound
<1>9. KeysIndexed'
  <2> SUFFICES ASSUME NEW r \in 1 .. Len(stored')
               PROVE  \E i \in Occupied' : stored'[buckets'[i].row] = stored'[r]
    BY DEF KeysIndexed
  <2>1. CASE r \in 1 .. Len(stored)
    <3>1. PICK i \in Occupied : stored[buckets[i].row] = stored[r]
      BY <1>5, <2>1 DEF IInv, KeysIndexed
    <3>2. buckets[i].row \in 1 .. Len(stored)
      BY DEF IInv, EntriesSound, Sound
    <3>3. QED BY <1>3, <1>6, <1>7, <2>1, <3>1, <3>2
  <2>2. CASE r = row
    BY <1>0, <1>1, <1>3, <1>6, <1>7, <2>2
  <2>3. QED BY <1>0, <1>1, <1>3, <2>1, <2>2
<1>10. OccupancyBounded'
  <2>1. /\ Cardinality(Occupied') = Cardinality(Occupied) + 1
        /\ Cardinality(Pending) = 0 /\ Cardinality(Pending') = 0
        /\ Cardinality(Occupied) \in Nat
    BY <1>1, <1>5, <1>6, EntriesFinite, FS_AddElement, FS_EmptySet, FS_CardinalityType
  <2>2. QED BY <1>1, <1>2, <2>1 DEF IInv, OccupancyBounded, TypeOK
<1>11. LoopFacts'
  BY <1>1, <1>5 DEF LoopFacts
<1>12. QED BY <1>4, <1>6, <1>8, <1>9, <1>10, <1>11 DEF IInv

\* Every step keeps the inductive invariant.
LEMMA NextIInv == IInv /\ [Next]_vars => IInv'
<1> SUFFICES ASSUME IInv, [Next]_vars PROVE IInv'
  OBVIOUS
<1>1. CASE Call
  BY <1>1, CallKeepsIInv, GrowthKeepsIInv DEF Call
<1>2. CASE Work
  BY <1>2, RehashSkipKeepsIInv, RehashPickKeepsIInv, PlaceNextKeepsIInv, PlaceEntryKeepsIInv,
     RehashDoneKeepsIInv, ProbeHitKeepsIInv, ProbeNextKeepsIInv, FindMissKeepsIInv,
     InsertMissKeepsIInv DEF Work
<1>3. CASE UNCHANGED vars
  <2>1. UNCHANGED <<table, stored, growth>> /\ UNCHANGED <<pc, op, key, slot, reply>>
    BY <1>3 DEF vars, table, growth
  <2>2. TypeOK'
    BY <2>1 DEF IInv, TypeOK, Slots, OldSlots, table, growth
  <2>3. LoopFacts'
    BY <2>1 DEF IInv, LoopFacts, Passed, Matches, Path, Home, Free, table, growth
  <2>4. OccupancyBounded'
    BY <2>1, EntriesKept DEF IInv, OccupancyBounded, table
  <2>5. QED BY <2>1, <2>2, <2>3, <2>4, EntriesKept DEF IInv
<1>4. QED BY <1>1, <1>2, <1>3 DEF Next

\* The inductive invariant holds of every execution.
THEOREM Invariance == Spec => []IInv
<1>1. QED BY InitIInv, NextIInv, PTL DEF Spec

\* Every variable keeps the type its C++ declaration gives it, and a probing
\* slot never leaves buckets_.
THEOREM TypeCorrect == Spec => []TypeOK
<1>1. IInv => TypeOK
  BY DEF IInv
<1>2. QED BY <1>1, Invariance, PTL

\* find and find_or_insert never stop on a free bucket before an entry: none
\* lies between an entry's home and its place, after any growth.
THEOREM NoEntryLost == Spec => []EntriesReachable
<1>1. IInv => EntriesReachable
  BY DEF IInv
<1>2. QED BY <1>1, Invariance, PTL

\* The comment of hash.hpp:18: the load never exceeds 70 % and size_ is exact.
THEOREM Occupancy == Spec => []OccupancyBounded
<1>1. IInv => OccupancyBounded
  BY DEF IInv
<1>2. QED BY <1>1, Invariance, PTL

\* A probe that ends on a free bucket is right that no stored row has its key.
THEOREM MissIsRight == Spec => []MissMeansAbsent
<1>1. QED BY MissLemma, Invariance, PTL

\* The index names exactly the first stored row of each key.
THEOREM FirstRows == Spec => []FirstRowIndexed
<1>1. QED BY FirstRowLemma, Invariance, PTL

-----------------------------------------------------------------------------
\* A pair is bound when an entry of either array says so.
LEMMA InDirectory ==
  \A p : p \in Directory <=>
           \/ \E i \in Occupied : p = <<stored[buckets[i].row], buckets[i].row>>
           \/ \E i \in Pending : p = <<stored[old[i].row], old[i].row>>
  BY DEF Directory

\* A bound pair is a stored row with its key.
LEMMA DirectoryRows ==
  ASSUME IInv, NEW p \in Directory
  PROVE  p[2] \in 1 .. Len(stored) /\ p[1] = stored[p[2]]
<1>1. CASE \E i \in Occupied : p = <<stored[buckets[i].row], buckets[i].row>>
  BY <1>1 DEF IInv, EntriesSound, Sound
<1>2. CASE \E i \in Pending : p = <<stored[old[i].row], old[i].row>>
  BY <1>2 DEF IInv, EntriesSound, Sound
<1>3. QED BY <1>1, <1>2, InDirectory

\* A step that keeps the two arrays keeps the directory.
LEMMA DirectoryKept ==
  ASSUME IInv, UNCHANGED <<table, stored, growth>>
  PROVE  Directory' = Directory
  BY DEF Directory, Occupied, Pending, Free, Slots, OldSlots, table, growth

\* Growing and moving an entry leave the directory as it is.
LEMMA GrowthKeepsDirectory ==
  ASSUME IInv, \/ \E k \in Keys : InsertWithGrowth(k)
               \/ RehashSkip \/ PlaceEntry \/ RehashDone
  PROVE  Directory' = Directory
<1> USE HashIndexAssumption
<1>1. TypeOK
  BY DEF IInv
<1>2. CASE \E k \in Keys : InsertWithGrowth(k)
  <2>1. Occupied' = {} /\ Pending' = Occupied /\ Pending = {} /\ old' = buckets /\ stored' = stored
    BY <1>1, <1>2 DEF InsertWithGrowth, IInv, TypeOK, LoopFacts, Occupied, Pending, Free, Slots,
                      OldSlots, EmptyBucket
  <2>2. QED BY <2>1 DEF Directory
<1>3. CASE RehashSkip
  <2>1. /\ Occupied' = Occupied /\ Pending' = Pending /\ old' = old /\ stored' = stored
        /\ buckets' = buckets
    BY <1>1, <1>3 DEF RehashSkip, TypeOK, Occupied, Pending, Free, table, Slots, OldSlots
  <2>2. QED BY <2>1 DEF Directory
<1>4. CASE PlaceEntry
  <2>1. /\ slot \in Slots /\ Free(slot) /\ pos \in OldSlots /\ old[pos].row # NoRow
        /\ old' = old /\ stored' = stored
        /\ \A i \in Slots : buckets'[i] = IF i = slot THEN old[pos] ELSE buckets[i]
    BY <1>1, <1>4 DEF PlaceEntry, IInv, LoopFacts, TypeOK, OldSlots
  <2>2. Occupied' = Occupied \cup {slot} /\ slot \notin Occupied /\ Occupied \subseteq Slots
    BY <1>4, <2>1 DEF PlaceEntry, Occupied, Free, Slots
  <2>3. Pending' = Pending \ {pos} /\ pos \in Pending
    BY <1>1, <1>4, <2>1 DEF PlaceEntry, TypeOK, Pending, OldSlots
  <2>4. {buckets'[i] : i \in Occupied'} = {buckets[i] : i \in Occupied} \cup {old[pos]}
    BY <2>1, <2>2
  <2>5. {buckets'[i] : i \in Occupied'} \cup {old'[i] : i \in Pending'}
          = {buckets[i] : i \in Occupied} \cup {old[i] : i \in Pending}
    BY <2>1, <2>3, <2>4
  <2>6. QED BY <2>1, <2>5 DEF Directory
<1>5. CASE RehashDone
  <2>1. /\ Occupied' = Occupied /\ Pending' = {} /\ Pending = {} /\ stored' = stored
        /\ buckets' = buckets
    BY <1>1, <1>5 DEF RehashDone, TypeOK, Occupied, Pending, Free, table, Slots, OldSlots
  <2>2. QED BY <2>1 DEF Directory
<1>6. QED BY <1>2, <1>3, <1>4, <1>5

\* A probe that meets its key answers with the row the key is bound to.
LEMMA HitImplements ==
  ASSUME IInv, ProbeHit
  PROVE  Abstract!Hit(op, key) /\ reply = NoReply
<1>1. /\ slot \in Occupied /\ stored[buckets[slot].row] = key /\ reply = NoReply
      /\ stored \in Seq(Keys) /\ key \in Keys /\ Len(stored) \in Nat
  BY LenProperties DEF ProbeHit, IInv, TypeOK, LoopFacts, Occupied, Matches
<1>2. <<key, buckets[slot].row>> \in Directory
  BY <1>1, InDirectory
<1>3. \A r \in 1 .. Len(stored) : stored'[r] = stored[r]
  BY <1>1, AppendProperties DEF ProbeHit
<1>4. /\ Occupied' = Occupied /\ Pending' = Pending
      /\ buckets' = buckets /\ old' = old
  BY DEF ProbeHit, Occupied, Pending, Free, table, growth, Slots, OldSlots
<1>5. /\ \A i \in Occupied : stored'[buckets[i].row] = stored[buckets[i].row]
      /\ \A i \in Pending : stored'[old[i].row] = stored[old[i].row]
  BY <1>3 DEF IInv, EntriesSound, Sound
<1>6. Directory' = Directory
  <2> DEFINE E == {buckets[i] : i \in Occupied} \cup {old[i] : i \in Pending}
  <2>1. E' = E
    BY <1>4
  <2>2. ASSUME NEW e \in E PROVE stored'[e.row] = stored[e.row]
    <3>1. CASE \E i \in Occupied : e = buckets[i]
      BY <1>5, <3>1
    <3>2. CASE \E i \in Pending : e = old[i]
      BY <1>5, <3>2
    <3>3. QED BY <3>1, <3>2
  <2>3. Directory = {<<stored[e.row], e.row>> : e \in E}
    BY DEF Directory
  <2>4. Directory' = {<<stored'[e.row], e.row>> : e \in E'}
    BY DEF Directory
  <2> HIDE DEF E
  <2>5. QED BY <2>1, <2>2, <2>3, <2>4
<1>7. QED BY <1>1, <1>2, <1>6 DEF ProbeHit, Abstract!Hit, Abstract!Answer, Reply

\* A probe that ends on a free bucket finds an unbound key.
LEMMA Unbound ==
  ASSUME IInv, pc = "probe", Free(slot)
  PROVE  ~ Abstract!IsBound(key)
<1> SUFFICES ASSUME NEW p \in Directory, p[1] = key PROVE FALSE
  BY DEF Abstract!IsBound
<1>1. QED BY DirectoryRows, MissLemma DEF MissMeansAbsent

\* A find that ends on a free bucket is a Miss of the directory.
LEMMA MissImplements ==
  ASSUME IInv, FindMiss
  PROVE  Abstract!Miss(key) /\ reply = NoReply
<1>1. reply = NoReply /\ Directory' = Directory
  BY DirectoryKept DEF FindMiss, IInv, LoopFacts
<1>2. QED BY <1>1, Unbound DEF FindMiss, Abstract!Miss, Abstract!Answer, Reply

\* An insertion that ends on a free bucket is a Bind of the directory.
LEMMA BindImplements ==
  ASSUME IInv, InsertMiss
  PROVE  Abstract!Bind(key) /\ reply = NoReply
<1> USE HashIndexAssumption
<1>0. PICK row, entry : row = Len(stored) + 1 /\ entry = [hash |-> HashOf[key], row |-> row]
  OBVIOUS
<1>1. /\ slot \in Slots /\ Free(slot) /\ pc = "probe" /\ op = "insert" /\ reply = NoReply
      /\ stored \in Seq(Keys) /\ Len(stored) \in Nat /\ key \in Keys /\ row \in 1 .. MaxRows
      /\ reply' = [op |-> "insert", key |-> key, row |-> row, inserted |-> TRUE]
      /\ stored' = Append(stored, key)
  BY <1>0, LenProperties DEF IInv, TypeOK, LoopFacts, InsertMiss, Reply
<1>2. /\ Len(stored') = row /\ stored'[row] = key
      /\ \A r \in 1 .. Len(stored) : stored'[r] = stored[r]
  BY <1>0, <1>1, AppendProperties
<1>3. Pending = {} /\ Pending' = {}
  BY <1>1 DEF InsertMiss, IInv, LoopFacts, Pending, OldSlots, growth
<1>4. \A i \in Slots : buckets'[i] = IF i = slot THEN entry ELSE buckets[i]
  BY <1>0, <1>1 DEF InsertMiss, IInv, TypeOK
<1>5. Occupied' = Occupied \cup {slot} /\ slot \notin Occupied /\ Occupied \subseteq Slots
  BY <1>0, <1>1, <1>4 DEF InsertMiss, Occupied, Free, Slots, NoRow
<1>6. \A i \in Occupied : buckets'[i] = buckets[i] /\ stored'[buckets[i].row] = stored[buckets[i].row]
  BY <1>2, <1>4, <1>5 DEF IInv, EntriesSound, Sound
<1>7. Directory' = Directory \cup {<<key, row>>}
  <2>1. Directory = {<<stored[buckets[i].row], buckets[i].row>> : i \in Occupied}
    BY <1>3 DEF Directory
  <2>2. Directory' = {<<stored'[buckets'[i].row], buckets'[i].row>> : i \in Occupied'}
    BY <1>3 DEF Directory
  <2>3. <<stored'[buckets'[slot].row], buckets'[slot].row>> = <<key, row>>
    BY <1>0, <1>1, <1>2, <1>4
  <2>4. QED BY <1>5, <1>6, <2>1, <2>2, <2>3
<1>8. \A p \in Directory : p[2] # row
  BY <1>0, <1>1, DirectoryRows
<1>9. QED BY <1>1, <1>7, <1>8, Unbound DEF Abstract!Bind, Abstract!Answer

\* The open-addressed table implements the key directory: find, find_or_insert
\* and grow() are, to the callers, lookups and bindings of a map.
THEOREM Refinement == Spec => ImplementsDirectory
<1>1. Init => Abstract!Init
  <2> SUFFICES ASSUME Init PROVE Abstract!Init
    OBVIOUS
  <2>1. Occupied = {} /\ Pending = {}
    BY DEF Init, Occupied, Pending, Free, Slots, OldSlots, EmptyBucket
  <2>2. QED BY <2>1 DEF Init, Directory, Abstract!Init, NoReply, Abstract!NoReply
<1>2. IInv /\ [Next]_vars => [Abstract!Next]_<<Directory, reply>>
  <2> SUFFICES ASSUME IInv, [Next]_vars
               PROVE  Abstract!Next \/ UNCHANGED <<Directory, reply>>
    OBVIOUS
  <2> USE DEF NoReply, Abstract!NoReply
  <2>1. ASSUME NEW k \in Keys, Find(k) \/ InsertInPlace(k) \/ InsertWithGrowth(k)
        PROVE  Abstract!Invoke
    BY <2>1, DirectoryKept, GrowthKeepsDirectory
       DEF Find, InsertInPlace, InsertWithGrowth, Abstract!Invoke
  <2>2. CASE RehashSkip \/ PlaceEntry \/ RehashDone
    BY <2>2, GrowthKeepsDirectory DEF RehashSkip, PlaceEntry, RehashDone
  <2>3. CASE RehashPick \/ PlaceNext \/ ProbeNext
    BY <2>3, DirectoryKept DEF RehashPick, PlaceNext, ProbeNext
  <2>4. key \in Keys /\ (pc = "probe" => op \in {"find", "insert"})
    BY DEF IInv, TypeOK, LoopFacts
  <2>5. CASE ProbeHit
    <3>1. pc = "probe"
      BY <2>5 DEF ProbeHit
    <3>2. QED BY <2>4, <2>5, <3>1, HitImplements DEF Abstract!Next, Abstract!Answered
  <2>6. CASE FindMiss \/ InsertMiss
    BY <2>4, <2>6, MissImplements, BindImplements DEF Abstract!Next, Abstract!Answered
  <2>7. CASE UNCHANGED vars
    BY <2>7, DirectoryKept DEF vars, table, growth
  <2>8. CASE Call
    BY <2>1, <2>8 DEF Call, Abstract!Next
  <2>9. QED BY <2>2, <2>3, <2>5, <2>6, <2>7, <2>8 DEF Next, Work
<1>3. QED BY <1>1, <1>2, Invariance, PTL DEF Spec, ImplementsDirectory, Abstract!Spec
=============================================================================
