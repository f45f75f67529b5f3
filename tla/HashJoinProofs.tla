--------------------------- MODULE HashJoinProofs ---------------------------
(***************************************************************************)
(* Proofs about HashJoin for every set of keys, every pair of inputs and   *)
(* every batch size: the chains stay in input order, every matching pair   *)
(* is given once and none other, and none is missing at the end unless     *)
(* something threw.                                                        *)
(***************************************************************************)
EXTENDS HashJoin, SequencesExt, SequenceTheorems, FiniteSetTheorems, WellFoundedInduction, TLAPS

\* Both inputs are finite sequences of keys, whichever was chosen as build_.
LEMMA InputsAreRows ==
  ASSUME TypeOK
  PROVE  /\ Build \in Seq(Keys \cup {NullKey}) /\ Probe \in Seq(Keys \cup {NullKey})
         /\ Len(Build) \in Nat /\ Len(Probe) \in Nat
<1>1. Build \in Seq(Keys \cup {NullKey}) /\ Probe \in Seq(Keys \cup {NullKey})
  BY HashJoinAssumption DEF TypeOK, Build, Probe
<1>2. QED BY <1>1, LenProperties

\* A stored row is a row of the build input, and its key is a key or NULL.
LEMMA StoredRows ==
  ASSUME TypeOK, NEW i \in 1 .. Len(store)
  PROVE  /\ store[i] \in 1 .. Len(Build) /\ StoredKey(i) \in Keys \cup {NullKey}
         /\ next_[i] \in 0 .. Len(store) /\ tails[i] \in 1 .. Len(store)
<1>1. store[i] \in 1 .. Len(Build)
  BY ElementOfSeq DEF TypeOK
<1>2. StoredKey(i) \in Keys \cup {NullKey}
  BY <1>1, InputsAreRows, ElementOfSeq DEF StoredKey
<1>3. next_[i] \in 0 .. Len(store) /\ tails[i] \in 1 .. Len(store)
  BY ElementOfSeq DEF TypeOK
<1>4. QED BY <1>1, <1>2, <1>3

\* The two chain arrays are sequences of row numbers.
LEMMA ChainArrays ==
  ASSUME TypeOK
  PROVE  next_ \in Seq(Nat) /\ tails \in Seq(Nat) /\ heads \in Seq(Nat)
<1>1. Len(store) \in Nat
  BY DEF TypeOK
<1>2. /\ next_ \in Seq(0 .. Len(store)) /\ tails \in Seq(1 .. Len(store))
      /\ heads \in Seq(0 .. Len(store))
  BY DEF TypeOK
<1>3. 0 .. Len(store) \subseteq Nat /\ 1 .. Len(store) \subseteq Nat
  BY <1>1
<1>4. QED BY <1>2, <1>3, SeqMonotonic

\* The counters and positions, as numbers within their bounds.
LEMMA Positions ==
  ASSUME TypeOK
  PROVE  /\ Len(Build) \in Nat /\ Len(Probe) \in Nat /\ Len(store) \in Nat /\ Len(heads) \in Nat
         /\ pulled \in Nat /\ pulled <= Len(Build) /\ probed \in Nat /\ probed <= Len(Probe)
         /\ Len(heads) <= probed /\ cursor \in Nat /\ cursor >= 1 /\ cursor <= Len(heads) + 1
         /\ match \in Nat /\ match <= Len(store)
         /\ Len(next_) = Len(store) /\ Len(tails) = Len(store)
         /\ Capacity \in Nat \ {0} /\ ChildCapacity \in Nat \ {0}
         /\ ProbeRow \in Nat /\ ProbeRow >= 1 /\ ProbeRow <= probed + 1
         /\ cursor <= Len(heads) => ProbeRow <= probed
         /\ cursor > Len(heads) => ProbeRow = probed + 1
<1>1. Len(Build) \in Nat /\ Len(Probe) \in Nat
  BY InputsAreRows
<1>2. Len(store) \in Nat /\ Len(heads) \in Nat
  BY DEF TypeOK
<1>3. /\ pulled \in Nat /\ pulled <= Len(Build) /\ probed \in Nat /\ probed <= Len(Probe)
      /\ Len(heads) <= probed /\ cursor \in Nat /\ cursor >= 1 /\ cursor <= Len(heads) + 1
      /\ match \in Nat /\ match <= Len(store)
  BY <1>1, <1>2 DEF TypeOK
<1>4. Len(next_) = Len(store) /\ Len(tails) = Len(store)
  BY DEF TypeOK
<1>5. QED BY <1>1, <1>2, <1>3, <1>4, HashJoinAssumption DEF ProbeRow

\* What the caller has or is about to get is a sequence of pairs.
LEMMA GivenIsPairs ==
  ASSUME TypeOK
  PROVE  Given \in Seq(Nat \X Nat) /\ Len(Given) \in Nat
<1>1. Given \in Seq(Nat \X Nat)
  BY ConcatProperties, EmptySeq DEF TypeOK, Given
<1>2. QED BY <1>1, LenProperties

\* The constructor's state satisfies the invariant.
LEMMA InitIInv == Init => IInv
<1> SUFFICES ASSUME Init PROVE IInv
  OBVIOUS
<1> USE HashJoinAssumption DEF Init
<1>1. Len(Build) \in Nat /\ Len(Probe) \in Nat
  BY LenProperties DEF Build, Probe
<1>2. TypeOK
  <2>1. \A S : << >> \in Seq(S) /\ Len(<< >>) = 0
    BY EmptySeq
  <2>2. index \in [Keys -> 0 .. Len(store)]
    BY <2>1 DEF NoRow
  <2>3. /\ 0 \in 0 .. Len(Build) /\ 0 \in 0 .. Len(Probe)
        /\ Len(out) <= Capacity /\ Len(heads) <= probed /\ cursor \in 1 .. Len(heads) + 1
        /\ match \in 0 .. Len(store)
    BY <1>1, <2>1 DEF NoRow
  <2>4. Len(next_) = Len(store) /\ Len(tails) = Len(store)
    OBVIOUS
  <2>5. QED BY <2>1, <2>2, <2>3, <2>4 DEF TypeOK
<1>3. Given = << >>
  BY DEF Given
<1>4. StoreOfPulled /\ ChainsInOrder /\ IndexSound /\ BuildComesFirst /\ Resumable
  BY DEF StoreOfPulled, ChainsInOrder, IndexSound, BuildComesFirst, Resumable
<1>5. PairsGenuineAndOnce /\ \A x \in 1 .. Len(Given) : Behind(Given[x])
  BY <1>3 DEF PairsGenuineAndOnce
<1>6. NothingSkipped
  <2>1. ProbeRow = 1
    BY DEF ProbeRow
  <2>2. ASSUME NEW row \in Candidates PROVE ~ Behind(row)
    <3>1. ProbeOf(row) \in Nat /\ ProbeOf(row) >= 1 /\ Len(heads) = 0
      BY <2>2 DEF Candidates, ProbeOf
    <3>2. QED BY <2>1, <3>1 DEF Behind
  <2>3. QED BY <2>2 DEF NothingSkipped
<1>7. QED BY <1>2, <1>4, <1>5, <1>6 DEF IInv

-----------------------------------------------------------------------------
\* A step that takes no build row leaves the store and its chains as they are.
LEMMA ChainsKept ==
  ASSUME IInv, UNCHANGED <<inputs, pulled, chains>>
  PROVE  StoreOfPulled' /\ ChainsInOrder' /\ IndexSound'
<1>1. /\ Build' = Build /\ pulled' = pulled
      /\ store' = store /\ index' = index /\ next_' = next_ /\ tails' = tails
  BY DEF inputs, Build, chains
<1>2. StoreOfPulled'
  BY <1>1 DEF IInv, StoreOfPulled, StoredKey
<1>3. ChainsInOrder'
  <2>1. \A i : Threaded(i)' <=> Threaded(i)
    BY <1>1 DEF Threaded, SameKey, StoredKey
  <2>2. \A i : HeadedAndTailed(i)' <=> HeadedAndTailed(i)
    BY <1>1 DEF HeadedAndTailed, SameKey, StoredKey
  <2>3. QED BY <1>1, <2>1, <2>2 DEF IInv, ChainsInOrder
<1>4. IndexSound'
  BY <1>1 DEF IInv, IndexSound, StoredKey, chains
<1>5. QED BY <1>2, <1>3, <1>4

\* A step that gives nothing and does not move on the probe side keeps what is
\* said about the pairs, if it tells the end only where nothing is left.
LEMMA PairsKept ==
  ASSUME IInv, UNCHANGED <<inputs, store, heads, cursor, match, probed>>,
         Given' = Given,
         \/ verdict' = verdict
         \/ verdict' = "threw"
         \/ /\ verdict # "threw"
            /\ store = << >> \/ (probed = Len(Probe) /\ cursor > Len(heads))
  PROVE  /\ PairsGenuineAndOnce' /\ (\A x \in 1 .. Len(Given) : Behind(Given[x]))'
         /\ NothingSkipped'
<1>1. ProbeRow' = ProbeRow /\ Probe' = Probe
  BY DEF ProbeRow, inputs, Probe
<1>2. PairsGenuineAndOnce'
  BY DEF IInv, PairsGenuineAndOnce, inputs, Candidates, Matching, Before, ProbeOf, BuildOf
<1>3. (\A x \in 1 .. Len(Given) : Behind(Given[x]))'
  BY <1>1 DEF IInv, Behind, ProbeOf, BuildOf, inputs
<1>4. NothingSkipped'
  BY <1>1 DEF IInv, NothingSkipped, Candidates, Matching, Behind, ProbeOf, BuildOf, inputs
<1>5. QED BY <1>2, <1>3, <1>4

\* The rest of the probe batch stays right when nothing of it moves.
LEMMA ResumableKept ==
  ASSUME IInv, UNCHANGED <<inputs, store, index, probing>>
  PROVE  Resumable'
  BY DEF IInv, Resumable, HeadOf, ProbeRow, Probe, Build, StoredKey, inputs, probing

-----------------------------------------------------------------------------
\* build() prolongs the store: rows already there keep their places and keys.
LEMMA StoreGrows ==
  ASSUME IInv, BuildRow
  PROVE  /\ Len(store') = Len(store) + 1 /\ Build' = Build
         /\ store' \in Seq(1 .. Len(Build)) /\ pulled + 1 \in 1 .. Len(Build)
         /\ \A i \in 1 .. Len(store) : store'[i] = store[i]
         /\ store'[Len(store) + 1] = pulled + 1
         /\ Build[pulled + 1] \in Keys
<1>1. TypeOK /\ pulled + 1 \in 1 .. Len(Build) /\ Len(store) \in Nat
  <2>1. TypeOK /\ pulled < Len(Build)
    BY DEF IInv, BuildRow
  <2>2. QED BY <2>1, Positions
<1>2. Build' = Build
  BY DEF BuildRow, inputs, Build
<1>3. store' = Append(store, pulled + 1)
  BY DEF BuildRow
<1>4. /\ Len(store') = Len(store) + 1 /\ store' \in Seq(1 .. Len(Build))
      /\ \A i \in 1 .. Len(store) : store'[i] = store[i]
      /\ store'[Len(store) + 1] = pulled + 1
  BY <1>1, <1>3, AppendProperties DEF TypeOK
<1>5. Build[pulled + 1] \in Keys
  <2>1. Build[pulled + 1] \in Keys \cup {NullKey}
    BY <1>1, InputsAreRows, ElementOfSeq
  <2>2. QED BY <2>1 DEF BuildRow
<1>6. QED BY <1>1, <1>2, <1>4, <1>5

\* The row taken is the last of the store.
LEMMA BuildRowStores ==
  ASSUME IInv, BuildRow
  PROVE  StoreOfPulled'
<1> USE StoreGrows
<1>1. TypeOK /\ pulled \in Nat /\ Len(store) \in Nat /\ pulled' = pulled + 1 /\ StoreOfPulled
  <2>1. TypeOK /\ pulled' = pulled + 1 /\ StoreOfPulled
    BY DEF IInv, BuildRow
  <2>2. QED BY <2>1, Positions
<1>2. /\ \A i \in 1 .. Len(store) : /\ store[i] \in Nat /\ store[i] <= pulled
                                    /\ Build[store[i]] # NullKey
      /\ \A i, j \in 1 .. Len(store) : i < j => store[i] < store[j]
  <2>1. ASSUME NEW i \in 1 .. Len(store) PROVE store[i] \in Nat
    <3>1. store[i] \in 1 .. Len(Build)
      BY <1>1, StoredRows
    <3>2. QED BY <3>1
  <2>2. QED BY <1>1, <2>1 DEF StoreOfPulled, StoredKey
<1>3. ASSUME NEW b \in 1 .. pulled', Build[b] # NullKey
      PROVE  \E i \in 1 .. Len(store') : store'[i] = b
  <2>1. CASE b = pulled + 1
    BY <1>1, <2>1
  <2>2. CASE b # pulled + 1
    <3>1. PICK i \in 1 .. Len(store) : store[i] = b
      BY <1>1, <1>3, <2>2 DEF StoreOfPulled
    <3>2. QED BY <1>1, <3>1
  <2>3. QED BY <2>1, <2>2
<1>4. ASSUME NEW i \in 1 .. Len(store')
      PROVE  store'[i] <= pulled' /\ StoredKey(i)' # NullKey
  <2>1. CASE i = Len(store) + 1
    BY <1>1, <2>1, HashJoinAssumption DEF StoredKey
  <2>2. CASE i # Len(store) + 1
    BY <1>1, <1>2, <2>2 DEF StoredKey
  <2>3. QED BY <2>1, <2>2
<1>5. ASSUME NEW i \in 1 .. Len(store'), NEW j \in 1 .. Len(store'), i < j
      PROVE  store'[i] < store'[j]
  <2>1. CASE j = Len(store) + 1
    BY <1>1, <1>2, <1>5, <2>1
  <2>2. CASE j # Len(store) + 1
    <3>1. Len(store') = Len(store) + 1
      BY StoreGrows
    <3>2. i \in 1 .. Len(store) /\ j \in 1 .. Len(store)
      BY ONLY <1>1, <1>5, <2>2, <3>1
    <3>3. QED BY <1>2, <1>5, <3>2
  <2>3. QED BY <2>1, <2>2
<1>6. QED BY <1>3, <1>4, <1>5 DEF StoreOfPulled

\* A row threaded and headed by rows of its key, all of them in the store.
LEMMA ChainAt ==
  ASSUME IInv, NEW i \in 1 .. Len(store)
  PROVE  /\ StoredKey(i) \in Keys /\ HeadedAndTailed(i) /\ Threaded(i)
         /\ next_[i] \in 0 .. Len(store)
         /\ index[StoredKey(i)] \in 1 .. i
         /\ tails[index[StoredKey(i)]] \in 1 .. Len(store)
<1>1. TypeOK /\ HeadedAndTailed(i) /\ Threaded(i) /\ StoredKey(i) # NullKey /\ Len(store) \in Nat
  <2>1. TypeOK /\ ChainsInOrder /\ StoreOfPulled
    BY DEF IInv
  <2>2. QED BY <2>1, Positions DEF ChainsInOrder, StoreOfPulled
<1>2. StoredKey(i) \in Keys /\ next_[i] \in 0 .. Len(store)
  BY <1>1, StoredRows
<1>3. index[StoredKey(i)] \in 1 .. i
  BY <1>1 DEF HeadedAndTailed
<1>4. index[StoredKey(i)] \in 1 .. Len(store)
  BY <1>1, <1>3
<1>5. tails[index[StoredKey(i)]] \in 1 .. Len(store)
  BY <1>1, <1>4, StoredRows
<1>6. QED BY <1>1, <1>2, <1>3, <1>5

\* The row taken is the first of its key and heads a chain of its own.
LEMMA BuildRowHeadsChain ==
  ASSUME IInv, BuildRow, index[Build[pulled + 1]] = NoRow
  PROVE  ChainsInOrder' /\ IndexSound'
<1> DEFINE key == Build[pulled + 1]
           id == Len(store) + 1
<1>1. /\ TypeOK /\ Len(store) \in Nat /\ key \in Keys /\ Build' = Build
      /\ Len(store') = id /\ store'[id] = pulled + 1
      /\ \A i \in 1 .. Len(store) : store'[i] = store[i]
      /\ Len(next_) = Len(store) /\ Len(tails) = Len(store)
      /\ index \in [Keys -> 0 .. Len(store)]
  <2>1. TypeOK
    BY DEF IInv
  <2>2. index \in [Keys -> 0 .. Len(store)]
    BY <2>1 DEF TypeOK
  <2>3. QED BY <2>1, <2>2, Positions, StoreGrows
<1>2. /\ index' = [index EXCEPT ![key] = id]
      /\ next_' = Append(next_, NoRow) /\ tails' = Append(tails, id)
  BY DEF BuildRow
<1>3. /\ \A i \in 1 .. Len(store) : next_'[i] = next_[i] /\ tails'[i] = tails[i]
      /\ next_'[id] = 0 /\ tails'[id] = id
  <2>1. next_ \in Seq(Nat) /\ tails \in Seq(Nat)
    BY <1>1, ChainArrays
  <2>2. id \in Nat /\ NoRow \in Nat
    BY <1>1 DEF NoRow
  <2>3. QED BY <1>1, <1>2, <2>1, <2>2, AppendProperties DEF NoRow
<1>4. index'[key] = id /\ \A k \in Keys : k # key => index'[k] = index[k]
  BY <1>1, <1>2
<1>5. ASSUME NEW i \in 1 .. Len(store)
      PROVE  Build[store[i]] # key /\ Build[store[i]] \in Keys
  BY ChainAt DEF NoRow, StoredKey
<1>6. ASSUME NEW i \in 1 .. id PROVE Threaded(i)'
  <2>1. CASE i = id
    BY <1>1, <1>3, <2>1 DEF Threaded, NoRow
  <2>2. CASE i # id
    <3>1. i \in 1 .. Len(store) /\ Threaded(i) /\ next_[i] \in 0 .. Len(store)
      BY <1>1, <2>2, ChainAt
    <3>2. next_'[i] = next_[i]
      BY <1>3, <3>1
    <3>3. \A j \in i + 1 .. id : SameKey(i, j)' => j # id /\ SameKey(i, j)
      BY <1>1, <1>5, <3>1 DEF SameKey, StoredKey
    <3>4. CASE next_[i] = 0
      BY <1>1, <3>1, <3>2, <3>3, <3>4 DEF Threaded, NoRow
    <3>5. CASE next_[i] # 0
      <4>1. /\ next_[i] > i /\ Build[store[i]] = Build[store[next_[i]]]
            /\ \A j \in i + 1 .. next_[i] - 1 : ~ SameKey(i, j)
        BY <3>1, <3>5 DEF Threaded, SameKey, StoredKey, NoRow
      <4>2. next_'[i] > i /\ Build'[store'[i]] = Build'[store'[next_'[i]]]
        BY <1>1, <3>1, <3>2, <4>1
      <4>3. \A j \in i + 1 .. next_'[i] - 1 : ~ SameKey(i, j)'
        BY <1>1, <3>1, <3>2, <3>3, <4>1
      <4>4. QED BY <4>2, <4>3 DEF Threaded, SameKey, StoredKey
    <3>6. QED BY <3>4, <3>5
  <2>3. QED BY <2>1, <2>2
<1>7. ASSUME NEW i \in 1 .. id PROVE HeadedAndTailed(i)'
  <2>1. CASE i = id
    <3>1. Build'[store'[i]] = key /\ index'[Build'[store'[i]]] = i /\ tails'[i] = i /\ i \in 1 .. i
      BY <1>1, <1>3, <1>4, <2>1
    <3>2. \A j \in 1 .. i - 1 : Build'[store'[j]] # key
      BY <1>1, <1>5, <2>1
    <3>3. SameKey(i, i)' /\ \A j \in 1 .. i - 1 : ~ SameKey(i, j)'
      BY <3>1, <3>2 DEF SameKey, StoredKey
    <3>4. i \in Nat /\ tails'[i] >= i /\ index'[StoredKey(i)'] = i
      BY <1>1, <2>1, <3>1 DEF StoredKey
    <3>5. QED BY <3>1, <3>3, <3>4 DEF HeadedAndTailed, SameKey, StoredKey
  <2>2. CASE i # id
    <3>1. /\ i \in 1 .. Len(store) /\ HeadedAndTailed(i)
          /\ index[StoredKey(i)] \in 1 .. i
          /\ tails[index[StoredKey(i)]] \in 1 .. Len(store)
      BY <1>1, <2>2, ChainAt
    <3>2. index'[Build[store[i]]] = index[Build[store[i]]]
      BY <1>4, <1>5, <3>1
    <3>3. Build'[store'[i]] = Build[store[i]]
      BY <1>1, <3>1
    <3> DEFINE h == index[Build[store[i]]]
    <3>4. /\ h \in 1 .. i /\ Build[store[i]] = Build[store[h]]
          /\ \A j \in 1 .. h - 1 : Build[store[i]] # Build[store[j]]
          /\ tails[h] >= i /\ Build[store[i]] = Build[store[tails[h]]]
          /\ tails[h] \in 1 .. Len(store)
      BY <3>1 DEF HeadedAndTailed, SameKey, StoredKey
    <3> HIDE DEF h
    <3>5. h \in 1 .. Len(store) /\ \A j \in 1 .. h - 1 : j \in 1 .. Len(store)
      BY <1>1, <3>1, <3>4
    <3>6. /\ tails'[h] = tails[h] /\ store'[h] = store[h]
          /\ store'[tails[h]] = store[tails[h]]
          /\ \A j \in 1 .. h - 1 : store'[j] = store[j]
      BY <1>1, <1>3, <3>4, <3>5
    <3>7. QED
      <4>1. index'[Build'[store'[i]]] = h
        BY <3>2, <3>3 DEF h
      <4>2. \A j \in 1 .. h - 1 : Build'[store'[i]] # Build'[store'[j]]
        BY <1>1, <3>3, <3>4, <3>6
      <4>3. Build'[store'[i]] = Build'[store'[h]] /\ Build'[store'[i]] = Build'[store'[tails'[h]]]
        BY <1>1, <3>3, <3>4, <3>6
      <4>4. h \in 1 .. i /\ tails'[h] >= i
        BY <3>4, <3>6
      <4>5. QED BY <4>1, <4>2, <4>3, <4>4 DEF HeadedAndTailed, SameKey, StoredKey
  <2>3. QED BY <2>1, <2>2
<1>8. IndexSound'
  <2> SUFFICES ASSUME NEW k \in Keys, index'[k] # 0 PROVE Build'[store'[index'[k]]] = k
    BY DEF IndexSound, StoredKey, NoRow
  <2>1. CASE k = key
    BY <1>1, <1>4, <2>1
  <2>2. CASE k # key
    <3>1. index'[k] = index[k] /\ index[k] \in 1 .. Len(store)
      BY <1>1, <1>4, <2>2
    <3>2. Build[store[index[k]]] = k
      BY <3>1 DEF IInv, IndexSound, StoredKey, NoRow
    <3>3. QED BY <1>1, <3>1, <3>2
  <2>3. QED BY <2>1, <2>2
<1>9. QED BY <1>1, <1>6, <1>7, <1>8 DEF ChainsInOrder

\* The row taken repeats a key and becomes the tail of its chain.
LEMMA BuildRowJoinsChain ==
  ASSUME IInv, BuildRow, index[Build[pulled + 1]] # NoRow
  PROVE  ChainsInOrder' /\ IndexSound'
<1> DEFINE key == Build[pulled + 1]
           id == Len(store) + 1
           head == index[key]
           last == tails[head]
<1>1. /\ TypeOK /\ IndexSound /\ Len(store) \in Nat /\ key \in Keys /\ Build' = Build
      /\ Len(store') = id /\ store'[id] = pulled + 1
      /\ \A i \in 1 .. Len(store) : store'[i] = store[i]
      /\ Len(next_) = Len(store) /\ Len(tails) = Len(store)
      /\ index \in [Keys -> 0 .. Len(store)]
  <2>1. TypeOK /\ IndexSound
    BY DEF IInv
  <2>2. index \in [Keys -> 0 .. Len(store)]
    BY <2>1 DEF TypeOK
  <2>3. QED BY <2>1, <2>2, Positions, StoreGrows
<1>2. /\ head \in 1 .. Len(store) /\ last \in 1 .. Len(store)
      /\ Build[store[head]] = key
  <2>1. head \in 1 .. Len(store)
    BY <1>1 DEF NoRow
  <2>2. last \in 1 .. Len(store)
    BY <1>1, <2>1, StoredRows
  <2>3. QED BY <1>1, <2>1, <2>2 DEF IndexSound, StoredKey
<1>3. /\ index' = index
      /\ next_' = [Append(next_, NoRow) EXCEPT ![last] = id]
      /\ tails' = [Append(tails, id) EXCEPT ![head] = id]
  BY DEF BuildRow, NewTails
<1>4. /\ \A i \in 1 .. Len(store) : /\ next_'[i] = IF i = last THEN id ELSE next_[i]
                                    /\ tails'[i] = IF i = head THEN id ELSE tails[i]
      /\ next_'[id] = 0 /\ tails'[id] = id
  <2>1. next_ \in Seq(Nat) /\ tails \in Seq(Nat) /\ id \in Nat /\ NoRow \in Nat
    BY <1>1, ChainArrays DEF NoRow
  <2>2. /\ Append(next_, NoRow) \in Seq(Nat) /\ Len(Append(next_, NoRow)) = id
        /\ Append(next_, NoRow)[id] = 0
        /\ \A i \in 1 .. Len(store) : Append(next_, NoRow)[i] = next_[i]
    BY <1>1, <2>1, AppendProperties DEF NoRow
  <2>3. /\ Append(tails, id) \in Seq(Nat) /\ Len(Append(tails, id)) = id
        /\ Append(tails, id)[id] = id
        /\ \A i \in 1 .. Len(store) : Append(tails, id)[i] = tails[i]
    BY <1>1, <2>1, AppendProperties
  <2> DEFINE links == Append(next_, NoRow)
             ends == Append(tails, id)
  <2> HIDE DEF id, head, last, links, ends
  <2>4. \A i \in 1 .. id : next_'[i] = IF i = last THEN id ELSE Append(next_, NoRow)[i]
    <3>1. links \in Seq(Nat) /\ Len(links) = id /\ next_' = [links EXCEPT ![last] = id]
      BY <1>3, <2>2 DEF links
    <3>2. last \in 1 .. Len(links)
      BY <1>1, <1>2, <3>1 DEF id
    <3>3. \A i \in 1 .. id : next_'[i] = IF i = last THEN id ELSE links[i]
      BY <2>1, <3>1, <3>2, ExceptSeq
    <3>4. QED BY <3>3 DEF links
  <2>5. \A i \in 1 .. id : tails'[i] = IF i = head THEN id ELSE Append(tails, id)[i]
    <3>1. ends \in Seq(Nat) /\ Len(ends) = id /\ tails' = [ends EXCEPT ![head] = id]
      BY <1>3, <2>3 DEF ends
    <3>2. head \in 1 .. Len(ends)
      BY <1>1, <1>2, <3>1 DEF id
    <3>3. \A i \in 1 .. id : tails'[i] = IF i = head THEN id ELSE ends[i]
      BY <2>1, <3>1, <3>2, ExceptSeq
    <3>4. QED BY <3>3 DEF ends
  <2>6. id \in 1 .. id /\ id # last /\ id # head
        /\ \A i \in 1 .. Len(store) : i \in 1 .. id
    BY <1>1, <1>2 DEF id
  <2>7. QED BY <2>2, <2>3, <2>4, <2>5, <2>6
<1>5. ASSUME NEW i \in 1 .. Len(store)
      PROVE  /\ Build[store[i]] \in Keys /\ HeadedAndTailed(i) /\ Threaded(i)
             /\ Build[store[i]] = key => i <= last
             /\ index[Build[store[i]]] \in 1 .. i
             /\ tails[index[Build[store[i]]]] \in 1 .. Len(store)
             /\ next_[i] \in 0 .. Len(store)
  BY ChainAt DEF HeadedAndTailed, StoredKey
<1>6. Build[store[last]] = key
  <2>1. HeadedAndTailed(head) /\ index[Build[store[head]]] = head
    BY <1>2, <1>5
  <2>2. Build[store[head]] = Build[store[tails[head]]]
    BY <2>1 DEF HeadedAndTailed, SameKey, StoredKey
  <2>3. QED BY <1>2, <2>2
<1> HIDE DEF key, id, head, last
<1>7. ASSUME NEW i \in 1 .. id PROVE Threaded(i)'
  <2>1. CASE i = id
    BY <1>1, <1>4, <2>1 DEF Threaded, NoRow, id
  <2>2. CASE i = last
    <3>1. next_'[i] = id /\ id > i
      BY <1>1, <1>2, <1>4, <2>2 DEF id
    <3>2. Build'[store'[i]] = key /\ Build'[store'[id]] = key
      BY <1>1, <1>2, <1>6, <2>2 DEF key
    <3>3. ASSUME NEW j \in i + 1 .. id - 1 PROVE ~ SameKey(i, j)'
      <4>1. j \in 1 .. Len(store) /\ ~ (j <= last)
        BY <1>1, <1>2, <2>2 DEF id
      <4>2. QED BY <1>1, <1>5, <3>2, <4>1 DEF SameKey, StoredKey
    <3>4. QED BY <3>1, <3>2, <3>3 DEF Threaded, SameKey, StoredKey
  <2>3. CASE i # id /\ i # last
    <3>1. /\ i \in 1 .. Len(store) /\ Threaded(i)
          /\ next_[i] \in 0 .. Len(store)
      BY <1>1, <1>5, <2>3 DEF id
    <3>2. next_'[i] = next_[i] /\ store'[i] = store[i]
      BY <1>1, <1>4, <2>3, <3>1
    <3>3. \A j \in i + 1 .. Len(store) : SameKey(i, j)' => SameKey(i, j)
      BY <1>1, <3>1 DEF SameKey, StoredKey
    <3>4. CASE next_[i] = 0
      <4>1. \A j \in i + 1 .. Len(store) : ~ SameKey(i, j)
        BY <3>1, <3>4 DEF Threaded, NoRow
      <4>2. Build[store[i]] # key
        <5>1. SUFFICES ASSUME Build[store[i]] = key PROVE FALSE
          OBVIOUS
        <5>2. last \in i + 1 .. Len(store)
          BY <1>1, <1>2, <1>5, <2>3, <3>1, <5>1
        <5>3. QED BY <1>6, <4>1, <5>1, <5>2 DEF SameKey, StoredKey
      <4>3. \A j \in i + 1 .. Len(store') : ~ SameKey(i, j)'
        <5>1. SUFFICES ASSUME NEW j \in i + 1 .. Len(store') PROVE ~ SameKey(i, j)'
          OBVIOUS
        <5>2. CASE j = id
          BY <1>1, <3>2, <4>2, <5>2 DEF SameKey, StoredKey, key
        <5>3. CASE j # id
          <6>1. j \in i + 1 .. Len(store)
            BY <1>1, <3>1, <5>3 DEF id
          <6>2. QED BY <3>3, <4>1, <6>1
        <5>4. QED BY <5>2, <5>3
      <4>4. QED BY <3>2, <3>4, <4>3 DEF Threaded, NoRow
    <3>5. CASE next_[i] # 0
      <4>1. /\ next_[i] > i /\ Build[store[i]] = Build[store[next_[i]]]
            /\ \A j \in i + 1 .. next_[i] - 1 : ~ SameKey(i, j)
        BY <3>1, <3>5 DEF Threaded, SameKey, StoredKey, NoRow
      <4>2. next_'[i] > i /\ Build'[store'[i]] = Build'[store'[next_'[i]]]
        BY <1>1, <3>1, <3>2, <4>1
      <4>3. \A j \in i + 1 .. next_'[i] - 1 : ~ SameKey(i, j)'
        BY <1>1, <3>1, <3>2, <3>3, <4>1
      <4>4. QED BY <4>2, <4>3 DEF Threaded, SameKey, StoredKey
    <3>6. QED BY <3>4, <3>5
  <2>4. QED BY <2>1, <2>2, <2>3
<1>8. ASSUME NEW i \in 1 .. id PROVE HeadedAndTailed(i)'
  <2>1. CASE Build'[store'[i]] = key
    <3>1. i \in Nat /\ i <= id /\ head \in 1 .. i
      <4>1. CASE i = id
        BY <1>1, <1>2, <4>1 DEF id
      <4>2. CASE i # id
        <5>1. i \in 1 .. Len(store) /\ Build[store[i]] = key
          BY <1>1, <2>1, <4>2 DEF id
        <5>2. QED BY <1>1, <1>5, <5>1 DEF head, id
      <4>3. QED BY <4>1, <4>2
    <3>2. /\ index'[Build'[store'[i]]] = head /\ tails'[head] = id
          /\ Build'[store'[head]] = key /\ Build'[store'[id]] = key
      BY <1>1, <1>2, <1>3, <1>4, <2>1 DEF head, key
    <3>3. ASSUME NEW j \in 1 .. head - 1 PROVE ~ SameKey(i, j)'
      <4>1. j \in 1 .. Len(store) /\ ~ (head \in 1 .. j)
        BY <1>1, <1>2
      <4>2. Build'[store'[j]] # key
        BY <1>1, <1>5, <4>1 DEF head
      <4>3. QED BY <2>1, <4>2 DEF SameKey, StoredKey
    <3>4. QED
      BY <1>1, <2>1, <3>1, <3>2, <3>3 DEF HeadedAndTailed, SameKey, StoredKey, id
  <2>2. CASE Build'[store'[i]] # key
    <3>1. i \in 1 .. Len(store)
      BY <1>1, <2>2 DEF id, key
    <3> DEFINE h == index[Build[store[i]]]
    <3>2. /\ h \in 1 .. i /\ Build[store[i]] = Build[store[h]]
          /\ \A j \in 1 .. h - 1 : Build[store[i]] # Build[store[j]]
          /\ tails[h] >= i /\ Build[store[i]] = Build[store[tails[h]]]
          /\ tails[h] \in 1 .. Len(store)
      BY <1>5, <3>1 DEF HeadedAndTailed, SameKey, StoredKey
    <3>3. Build'[store'[i]] = Build[store[i]]
      BY <1>1, <3>1
    <3>4. index'[Build'[store'[i]]] = h
      BY <1>3, <3>3
    <3> HIDE DEF h
    <3>5. /\ h \in 1 .. Len(store) /\ h # head
          /\ \A j \in 1 .. h - 1 : j \in 1 .. Len(store)
      <4>1. Build[store[h]] # key
        BY <2>2, <3>2, <3>3
      <4>2. h # head
        BY <1>2, <4>1
      <4>3. h \in 1 .. Len(store) /\ \A j \in 1 .. h - 1 : j \in 1 .. Len(store)
        BY <1>1, <3>1, <3>2
      <4>4. QED BY <4>2, <4>3
    <3>6. /\ tails'[h] = tails[h] /\ store'[h] = store[h]
          /\ store'[tails[h]] = store[tails[h]]
          /\ \A j \in 1 .. h - 1 : store'[j] = store[j]
      BY <1>1, <1>4, <3>2, <3>5
    <3>7. /\ Build'[store'[i]] = Build'[store'[h]]
          /\ Build'[store'[i]] = Build'[store'[tails'[h]]]
          /\ \A j \in 1 .. h - 1 : Build'[store'[i]] # Build'[store'[j]]
      BY <1>1, <3>2, <3>3, <3>6
    <3>8. QED
      BY <3>2, <3>4, <3>6, <3>7 DEF HeadedAndTailed, SameKey, StoredKey
  <2>3. QED BY <2>1, <2>2
<1>9. IndexSound'
  <2> SUFFICES ASSUME NEW k \in Keys, index[k] # 0 PROVE Build'[store'[index[k]]] = k
    BY <1>3 DEF IndexSound, StoredKey, NoRow
  <2>1. index[k] \in 1 .. Len(store)
    BY <1>1
  <2>2. Build[store[index[k]]] = k
    BY <1>1, <2>1 DEF IndexSound, StoredKey, NoRow
  <2>3. QED BY <1>1, <2>1, <2>2
<1>10. QED BY <1>1, <1>7, <1>8, <1>9 DEF ChainsInOrder, id

\* build() takes a row that can join: the invariant holds after every prefix.
LEMMA BuildRowKeepsIInv == ASSUME IInv, BuildRow PROVE IInv'
<1>1. /\ TypeOK /\ BuildComesFirst /\ Resumable /\ pc = "build" /\ pc' = "build"
      /\ pulled' = pulled + 1
      /\ UNCHANGED <<inputs, built, probing, out, caller>>
  BY DEF IInv, BuildRow
<1>2. Build' = Build /\ Probe' = Probe
  BY <1>1 DEF inputs, Build, Probe
<1>3. StoreOfPulled'
  BY BuildRowStores
<1>4. ChainsInOrder' /\ IndexSound'
  BY BuildRowHeadsChain, BuildRowJoinsChain
<1>5. heads = << >> /\ out = << >> /\ delivered = << >> /\ match = NoRow /\ verdict = "more"
  BY <1>1 DEF BuildComesFirst
<1>6. TypeOK'
  <2>1. /\ Len(store') = Len(store) + 1 /\ store' \in Seq(1 .. Len(Build))
        /\ pulled + 1 \in 1 .. Len(Build) /\ Build[pulled + 1] \in Keys
    BY StoreGrows
  <2>2. /\ Len(store) \in Nat /\ Len(Build) \in Nat
        /\ Len(next_) = Len(store) /\ Len(tails) = Len(store)
    BY <1>1, Positions
  <2> DEFINE N == Len(store) + 1
  <2>3. next_' \in Seq(0 .. N) /\ Len(next_') = N /\ tails' \in Seq(1 .. N) /\ Len(tails') = N
    <3>1. next_ \in Seq(0 .. N) /\ tails \in Seq(1 .. N)
      <4>1. next_ \in Seq(0 .. Len(store)) /\ tails \in Seq(1 .. Len(store))
        BY <1>1 DEF TypeOK
      <4>2. 0 .. Len(store) \subseteq 0 .. N /\ 1 .. Len(store) \subseteq 1 .. N
        BY <2>2
      <4>3. QED BY <4>1, <4>2, SeqMonotonic
    <3>2. NoRow \in 0 .. N /\ N \in 0 .. N /\ N \in 1 .. N
      BY <2>2 DEF NoRow
    <3> HIDE DEF N
    <3>3. /\ Append(next_, NoRow) \in Seq(0 .. N) /\ Len(Append(next_, NoRow)) = Len(next_) + 1
          /\ Append(tails, N) \in Seq(1 .. N) /\ Len(Append(tails, N)) = Len(tails) + 1
      BY <3>1, <3>2, AppendProperties
    <3>4. CASE index[Build[pulled + 1]] = NoRow
      <4>1. next_' = Append(next_, NoRow) /\ tails' = Append(tails, N)
        BY <3>4 DEF BuildRow, N
      <4>2. QED BY <2>2, <3>3, <4>1 DEF N
    <3>5. CASE index[Build[pulled + 1]] # NoRow
      <4> DEFINE head == index[Build[pulled + 1]]
                 links == Append(next_, NoRow)
                 ends == Append(tails, N)
      <4>1. head \in 1 .. Len(store)
        <5>1. index \in [Keys -> 0 .. Len(store)]
          BY <1>1 DEF TypeOK
        <5>2. QED BY <2>1, <2>2, <3>5, <5>1 DEF NoRow
      <4>2. tails[head] \in 1 .. Len(store)
        BY <1>1, <4>1, StoredRows
      <4>3. next_' = [links EXCEPT ![tails[head]] = N] /\ tails' = [ends EXCEPT ![head] = N]
        BY <3>5 DEF BuildRow, NewTails, N
      <4>4. /\ head \in 1 .. Len(ends) /\ tails[head] \in 1 .. Len(links)
            /\ links \in Seq(0 .. N) /\ Len(links) = N /\ ends \in Seq(1 .. N) /\ Len(ends) = N
        BY SMTT(30), <2>2, <3>3, <4>1, <4>2 DEF N
      <4> HIDE DEF head, links, ends
      <4>5. QED BY <3>2, <4>3, <4>4, ExceptSeq
    <3>6. QED BY <3>4, <3>5
  <2>4. index' \in [Keys -> 0 .. N]
    <3>1. index \in [Keys -> 0 .. Len(store)]
      BY <1>1 DEF TypeOK
    <3>2. 0 .. Len(store) \subseteq 0 .. N /\ N \in 0 .. N
      BY <2>2
    <3>3. index' = index \/ index' = [index EXCEPT ![Build[pulled + 1]] = N]
      BY DEF BuildRow
    <3> HIDE DEF N
    <3>4. QED BY <2>1, <3>1, <3>2, <3>3
  <2>5. heads \in Seq(0 .. N) /\ match \in 0 .. N
    BY <1>5, <2>2, EmptySeq DEF NoRow
  <2> HIDE DEF N
  <2>6. Len(store') = N
    BY <2>1 DEF N
  <2>7. /\ left' = left /\ right' = right /\ buildRight' = buildRight /\ built' = built
        /\ probed' = probed /\ heads' = heads /\ cursor' = cursor /\ match' = match
        /\ out' = out /\ delivered' = delivered /\ verdict' = verdict
    BY <1>1 DEF inputs, probing, caller
  <2>8. pulled' \in 0 .. Len(Build)
    BY <1>1, <2>1, <2>2
  <2>9. QED BY <1>1, <1>2, <2>1, <2>3, <2>4, <2>5, <2>6, <2>7, <2>8 DEF TypeOK
<1>7. BuildComesFirst'
  BY <1>1 DEF BuildComesFirst, probing, caller
<1>8. Resumable'
  <2>1. Len(heads') = 0 /\ match' = NoRow /\ cursor' \in Nat /\ cursor' >= 1
    BY <1>1, <1>5, Positions DEF probing
  <2>2. \A j : j \notin cursor' + 1 .. Len(heads')
    BY <2>1
  <2>3. QED BY <2>1, <2>2 DEF Resumable
<1>9. Given = << >> /\ Given' = << >>
  BY <1>1, <1>5 DEF Given, caller
<1>10. PairsGenuineAndOnce' /\ (\A x \in 1 .. Len(Given) : Behind(Given[x]))'
  BY <1>9 DEF PairsGenuineAndOnce
<1>11. NothingSkipped'
  <2>1. ProbeRow' = ProbeRow /\ match' = NoRow /\ heads' = << >> /\ cursor' = cursor
        /\ verdict' = "more"
    BY <1>1, <1>5 DEF probing, caller, ProbeRow
  <2>2. cursor \in Nat /\ cursor >= 1 /\ Len(heads) = 0
    BY <1>1, <1>5, Positions
  <2>3. ASSUME NEW row \in Candidates, Behind(row)' PROVE Behind(row)
    BY <1>1, <2>1, <2>2, <2>3 DEF Behind, ProbeOf, inputs
  <2>4. NothingSkipped
    BY DEF IInv
  <2>5. Candidates' = Candidates /\ \A row : Matching(row)' <=> Matching(row)
    BY <1>1 DEF inputs, Candidates, Matching
  <2>6. ASSUME NEW row \in Candidates PROVE ~ (Matching(row) /\ Behind(row))
    BY <1>5, <1>9, <2>4 DEF NothingSkipped
  <2>7. QED BY <2>1, <2>3, <2>5, <2>6 DEF NothingSkipped
<1>12. QED BY <1>3, <1>4, <1>6, <1>7, <1>8, <1>10, <1>11 DEF IInv

\* build() skips a row whose key joins nothing.
LEMMA BuildSkipKeepsIInv == ASSUME IInv, BuildSkip PROVE IInv'
<1>1. /\ TypeOK /\ BuildComesFirst /\ StoreOfPulled /\ pc = "build" /\ pc' = "build"
      /\ pulled < Len(Build) /\ Build[pulled + 1] = NullKey /\ pulled' = pulled + 1
      /\ UNCHANGED <<inputs, built, chains, probing, out, caller>>
  BY DEF IInv, BuildSkip
<1>2. Build' = Build /\ Probe' = Probe
  BY <1>1 DEF inputs, Build, Probe
<1>3. /\ left' = left /\ right' = right /\ buildRight' = buildRight
      /\ store' = store /\ index' = index /\ next_' = next_ /\ tails' = tails
      /\ probed' = probed /\ heads' = heads /\ cursor' = cursor /\ match' = match
      /\ delivered' = delivered /\ verdict' = verdict
  BY <1>1 DEF inputs, chains, probing, caller
<1>4. pulled \in Nat /\ Len(Build) \in Nat /\ Len(store) \in Nat
  BY <1>1, Positions
<1>5. TypeOK'
  <2>1. pulled' \in 0 .. Len(Build)
    BY <1>1, <1>4
  <2>2. QED BY <1>1, <1>2, <1>3, <2>1 DEF TypeOK
<1>6. StoreOfPulled'
  <2>1. ASSUME NEW i \in 1 .. Len(store)
        PROVE  store[i] <= pulled + 1 /\ Build[store[i]] # NullKey
    <3>1. store[i] \in 1 .. Len(Build)
      BY <1>1, StoredRows
    <3>2. QED BY <1>1, <1>4, <3>1 DEF StoreOfPulled, StoredKey
  <2>2. ASSUME NEW b \in 1 .. pulled + 1, Build[b] # NullKey
        PROVE  \E i \in 1 .. Len(store) : store[i] = b
    <3>1. b \in 1 .. pulled
      BY <1>1, <1>4, <2>2
    <3>2. QED BY <1>1, <2>2, <3>1 DEF StoreOfPulled
  <2>3. \A i, j \in 1 .. Len(store) : i < j => store[i] < store[j]
    BY <1>1 DEF StoreOfPulled
  <2>4. QED BY <1>1, <1>2, <1>3, <2>1, <2>2, <2>3 DEF StoreOfPulled, StoredKey
<1>7. ChainsInOrder' /\ IndexSound'
  <2>1. \A i : Threaded(i)' <=> Threaded(i)
    BY <1>2, <1>3 DEF Threaded, SameKey, StoredKey
  <2>2. \A i : HeadedAndTailed(i)' <=> HeadedAndTailed(i)
    BY <1>2, <1>3 DEF HeadedAndTailed, SameKey, StoredKey
  <2>3. IndexSound'
    BY <1>2, <1>3 DEF IInv, IndexSound, StoredKey
  <2>4. QED BY <1>3, <2>1, <2>2, <2>3 DEF IInv, ChainsInOrder
<1>8. BuildComesFirst'
  BY <1>1, <1>3 DEF BuildComesFirst
<1>9. Resumable'
  BY <1>1, <1>3, ResumableKept DEF probing
<1>10. Given' = Given
  BY <1>1, <1>3 DEF Given
<1>11. QED
  BY <1>1, <1>3, <1>5, <1>6, <1>7, <1>8, <1>9, <1>10, PairsKept DEF IInv

-----------------------------------------------------------------------------
\* What next() does without touching the store, the probe batch or the pairs
\* keeps the invariant if it leaves pc, built_ and the batch consistent.
LEMMA QuietStep ==
  ASSUME IInv, UNCHANGED <<inputs, pulled, chains, probing>>,
         Given' = Given,
         \/ verdict' = verdict
         \/ verdict' = "threw"
         \/ /\ verdict # "threw" /\ verdict' = "end"
            /\ store = << >> \/ (probed = Len(Probe) /\ cursor > Len(heads)),
         BuildComesFirst',
         built' \in BOOLEAN, pc' \in {"idle", "build", "emit"},
         out' \in Seq(Nat \X Nat), Len(out') <= Capacity,
         delivered' \in Seq(Nat \X Nat)
  PROVE  IInv'
<1>1. /\ left' = left /\ right' = right /\ buildRight' = buildRight /\ pulled' = pulled
      /\ store' = store /\ index' = index /\ next_' = next_ /\ tails' = tails
      /\ probed' = probed /\ heads' = heads /\ cursor' = cursor /\ match' = match
  BY DEF inputs, chains, probing
<1>2. Build' = Build /\ Probe' = Probe
  BY <1>1 DEF Build, Probe
<1>3. TypeOK /\ verdict' \in {"more", "end", "threw"}
  BY DEF IInv, TypeOK
<1>4. TypeOK'
  BY <1>1, <1>2, <1>3 DEF TypeOK
<1>5. StoreOfPulled' /\ ChainsInOrder' /\ IndexSound'
  BY ChainsKept
<1>6. Resumable'
  BY <1>1, ResumableKept DEF inputs, probing
<1>7. PairsGenuineAndOnce' /\ (\A x \in 1 .. Len(Given) : Behind(Given[x]))' /\ NothingSkipped'
  BY <1>1, PairsKept DEF inputs
<1>8. QED BY <1>4, <1>5, <1>6, <1>7 DEF IInv

\* next() is called: the batch is emptied.
LEMMA CallKeepsIInv == ASSUME IInv, Call PROVE IInv'
<1>1. /\ TypeOK /\ BuildComesFirst /\ pc = "idle" /\ out' = << >> /\ built' = TRUE
      /\ pc' = IF built THEN "emit" ELSE "build"
      /\ UNCHANGED <<inputs, pulled, chains, probing, caller>>
  BY DEF IInv, Call
<1>2. delivered' = delivered /\ verdict' = verdict
  BY <1>1 DEF caller
<1>3. Given' = Given
  BY <1>1, <1>2 DEF Given
<1>4. BuildComesFirst'
  BY <1>1, <1>2 DEF BuildComesFirst, inputs, Build, probing
<1>5. out' \in Seq(Nat \X Nat) /\ Len(out') <= Capacity
  <2>1. Capacity \in Nat
    BY <1>1, Positions
  <2>2. QED BY <1>1, <2>1, EmptySeq
<1>6. delivered' \in Seq(Nat \X Nat)
  BY <1>1, <1>2 DEF TypeOK
<1>7. QED BY <1>1, <1>2, <1>3, <1>4, <1>5, <1>6, QuietStep

\* build() has drained its child.
LEMMA BuildDoneKeepsIInv == ASSUME IInv, BuildDone PROVE IInv'
<1>1. /\ TypeOK /\ BuildComesFirst /\ pc = "build" /\ pc' = "emit" /\ pulled = Len(Build)
      /\ UNCHANGED <<inputs, pulled, built, chains, probing, out, caller>>
  BY DEF IInv, BuildDone
<1>2. delivered' = delivered /\ verdict' = verdict /\ out = << >> /\ out' = out /\ built' = built
  BY <1>1 DEF caller, BuildComesFirst
<1>3. Given' = Given
  BY <1>1, <1>2 DEF Given
<1>4. BuildComesFirst'
  BY <1>1, <1>2 DEF BuildComesFirst, inputs, Build, probing
<1>5. /\ out \in Seq(Nat \X Nat) /\ Len(out) <= Capacity
      /\ delivered \in Seq(Nat \X Nat) /\ built \in BOOLEAN
  BY <1>1 DEF TypeOK
<1>6. QED BY <1>1, <1>2, <1>3, <1>4, <1>5, QuietStep

\* The build child throws: what was stored stays, and so does built_.
LEMMA BuildThrowKeepsIInv == ASSUME IInv, BuildThrow PROVE IInv'
<1>1. /\ TypeOK /\ BuildComesFirst /\ pc = "build" /\ pc' = "idle" /\ verdict' = "threw"
      /\ UNCHANGED <<inputs, pulled, built, chains, probing, out, delivered>>
  BY DEF IInv, BuildThrow
<1>2. Given' = Given
  BY <1>1 DEF Given
<1>3. /\ out \in Seq(Nat \X Nat) /\ Len(out) <= Capacity
      /\ delivered \in Seq(Nat \X Nat) /\ built \in BOOLEAN
  BY <1>1 DEF TypeOK
<1>4. BuildComesFirst'
  BY <1>1, <1>3 DEF BuildComesFirst
<1>5. QED BY <1>1, <1>2, <1>3, <1>4, QuietStep

\* next() returns: the batch becomes the caller's; the end is told only where
\* the probe input is used up or nothing was stored.
LEMMA ReturnKeepsIInv ==
  ASSUME IInv, pc = "emit", Return,
         \/ out # << >>
         \/ store = << >>
         \/ probed = Len(Probe) /\ cursor > Len(heads)
  PROVE  IInv'
<1>1. /\ TypeOK /\ BuildComesFirst /\ pc' = "idle" /\ delivered' = delivered \o out
      /\ verdict' = Told
      /\ UNCHANGED <<inputs, pulled, built, chains, probing, out>>
  BY DEF IInv, Return
<1>2. /\ out \in Seq(Nat \X Nat) /\ Len(out) <= Capacity
      /\ delivered \in Seq(Nat \X Nat) /\ built \in BOOLEAN
  BY <1>1 DEF TypeOK
<1>3. delivered' \in Seq(Nat \X Nat)
  BY <1>1, <1>2, ConcatProperties
<1>4. Given' = Given
  BY <1>1, <1>3, ConcatEmptySeq DEF Given
<1>5. built = TRUE /\ BuildComesFirst'
  <2>1. built = TRUE
    BY <1>1, <1>2 DEF BuildComesFirst
  <2>2. verdict' # "threw" => verdict # "threw"
    BY <1>1 DEF Told
  <2>3. QED BY <1>1, <2>1, <2>2 DEF BuildComesFirst, inputs, Build
<1>6. \/ verdict' = verdict
      \/ /\ verdict # "threw" /\ verdict' = "end"
         /\ store = << >> \/ (probed = Len(Probe) /\ cursor > Len(heads))
  BY <1>1 DEF Told
<1>7. QED BY <1>1, <1>2, <1>3, <1>4, <1>5, <1>6, QuietStep

\* The three places where next() returns.
LEMMA ReturnsKeepIInv ==
  ASSUME IInv, NothingStored \/ BatchFull \/ ProbeExhausted
  PROVE  IInv'
<1>1. CASE NothingStored
  BY <1>1, ReturnKeepsIInv DEF NothingStored
<1>2. CASE BatchFull
  <2>1. pc = "emit" /\ Return /\ ~ (Len(out) < Capacity) /\ TypeOK
    BY <1>2 DEF BatchFull, HasRoom, IInv
  <2>2. Capacity \in Nat \ {0}
    BY <2>1, Positions
  <2>3. out # << >>
    BY <2>1, <2>2, EmptySeq
  <2>4. QED BY <2>1, <2>3, ReturnKeepsIInv
<1>3. CASE ProbeExhausted
  BY <1>3, ReturnKeepsIInv DEF ProbeExhausted, NeedsProbe
<1>4. QED BY <1>1, <1>2, <1>3

-----------------------------------------------------------------------------
\* An output row names a probe and a build row, whichever side was stored.
LEMMA RowSides ==
  ASSUME TypeOK, NEW row \in Candidates
  PROVE  /\ ProbeOf(row) \in 1 .. Len(Probe) /\ BuildOf(row) \in 1 .. Len(Build)
         /\ row = Pair(ProbeOf(row), BuildOf(row))
         /\ Matching(row) <=> /\ Probe[ProbeOf(row)] = Build[BuildOf(row)]
                              /\ Probe[ProbeOf(row)] # NullKey
<1>1. CASE buildRight
  BY <1>1 DEF Candidates, ProbeOf, BuildOf, Pair, Matching, Probe, Build
<1>2. CASE ~ buildRight
  BY <1>2 DEF Candidates, ProbeOf, BuildOf, Pair, Matching, Probe, Build
<1>3. QED BY <1>1, <1>2

\* The pair of a probe and a build row is an output row of the two.
LEMMA PairSides ==
  ASSUME TypeOK, NEW p \in 1 .. Len(Probe), NEW b \in 1 .. Len(Build)
  PROVE  /\ Pair(p, b) \in Candidates /\ Pair(p, b) \in Nat \X Nat
         /\ ProbeOf(Pair(p, b)) = p /\ BuildOf(Pair(p, b)) = b
<1>1. p \in Nat /\ b \in Nat
  BY Positions
<1>2. CASE buildRight
  BY <1>1, <1>2 DEF Candidates, ProbeOf, BuildOf, Pair, Probe, Build
<1>3. CASE ~ buildRight
  BY <1>1, <1>3 DEF Candidates, ProbeOf, BuildOf, Pair, Probe, Build
<1>4. QED BY <1>2, <1>3

\* Later rows of the store are later rows of the input.
LEMMA StoreRises ==
  ASSUME IInv, NEW i \in 1 .. Len(store), NEW j \in 1 .. Len(store)
  PROVE  /\ store[i] \in Nat /\ store[j] \in Nat
         /\ i < j => store[i] < store[j]
         /\ i <= j => store[i] <= store[j]
         /\ store[i] = store[j] => i = j
<1>1. TypeOK /\ StoreOfPulled
  BY DEF IInv
<1>2. Len(store) \in Nat /\ Len(Build) \in Nat
  BY <1>1, Positions
<1>3. store[i] \in 1 .. Len(Build) /\ store[j] \in 1 .. Len(Build)
  BY <1>1, StoredRows
<1>4. /\ i < j => store[i] < store[j]
      /\ j < i => store[j] < store[i]
  BY <1>1 DEF StoreOfPulled
<1>5. QED BY <1>2, <1>3, <1>4

\* The chain that the index gives for a probe row has its key and starts at or
\* before every build row that matches.
LEMMA HeadIsFirst ==
  ASSUME IInv, pulled = Len(Build),
         NEW row \in Candidates, Matching(row)
  PROVE  /\ \E i \in 1 .. Len(store) :
              store[i] = BuildOf(row) /\ StoredKey(i) = Probe[ProbeOf(row)]
         /\ HeadOf(Probe[ProbeOf(row)]) # NoRow
         /\ store[HeadOf(Probe[ProbeOf(row)])] <= BuildOf(row)
<1>1. TypeOK /\ StoreOfPulled
  BY DEF IInv
<1>2. /\ ProbeOf(row) \in 1 .. Len(Probe) /\ BuildOf(row) \in 1 .. Len(Build)
      /\ Probe[ProbeOf(row)] = Build[BuildOf(row)] /\ Probe[ProbeOf(row)] # NullKey
  BY <1>1, RowSides
<1>3. PICK i \in 1 .. Len(store) : store[i] = BuildOf(row)
  BY <1>1, <1>2 DEF StoreOfPulled
<1>4. StoredKey(i) = Probe[ProbeOf(row)]
  BY <1>2, <1>3 DEF StoredKey
<1>5. HeadOf(Probe[ProbeOf(row)]) = index[StoredKey(i)] /\ index[StoredKey(i)] \in 1 .. i
  BY <1>2, <1>4, ChainAt DEF HeadOf
<1>6. index[StoredKey(i)] \in 1 .. Len(store) /\ index[StoredKey(i)] <= i
      /\ index[StoredKey(i)] # 0
  <2>1. Len(store) \in Nat
    BY <1>1, Positions
  <2>2. QED BY <1>5, <2>1
<1>7. store[index[StoredKey(i)]] <= store[i]
  BY <1>6, StoreRises
<1>8. QED BY <1>3, <1>4, <1>5, <1>6, <1>7 DEF NoRow

\* A chain that the index gives is one of rows with the key asked for.
LEMMA HeadHasKey ==
  ASSUME IInv, NEW p \in 1 .. Len(Probe)
  PROVE  /\ HeadOf(Probe[p]) \in 0 .. Len(store)
         /\ HeadOf(Probe[p]) # NoRow => StoredKey(HeadOf(Probe[p])) = Probe[p]
<1>1. TypeOK /\ IndexSound
  BY DEF IInv
<1>2. Probe[p] \in Keys \cup {NullKey}
  BY <1>1, InputsAreRows, ElementOfSeq
<1>3. index \in [Keys -> 0 .. Len(store)] /\ Len(store) \in Nat
  BY <1>1 DEF TypeOK
<1>4. QED BY <1>1, <1>2, <1>3 DEF HeadOf, IndexSound, NoRow

\* Rows given while no probe row is begun belong to earlier probe rows.
LEMMA BehindBetweenRows ==
  ASSUME TypeOK, NEW row, Behind(row), cursor > Len(heads) \/ ProbeOf(row) # ProbeRow
  PROVE  ProbeOf(row) < ProbeRow
<1>1. cursor \in Nat /\ Len(heads) \in Nat
  BY Positions
<1>2. QED BY <1>1 DEF Behind

\* The sides of a row are those of the inputs, which no step changes.
LEMMA RowsFixed ==
  ASSUME UNCHANGED inputs
  PROVE  /\ Build' = Build /\ Probe' = Probe /\ Candidates' = Candidates
         /\ \A row : /\ ProbeOf(row)' = ProbeOf(row) /\ BuildOf(row)' = BuildOf(row)
                     /\ Matching(row)' <=> Matching(row)
         /\ \A x, y : Before(x, y)' <=> Before(x, y)
<1>1. left' = left /\ right' = right /\ buildRight' = buildRight
  BY DEF inputs
<1>2. QED
  BY <1>1 DEF Build, Probe, Candidates, ProbeOf, BuildOf, Matching, Before

-----------------------------------------------------------------------------
\* The probe child throws: the batch being filled is lost, and with it perhaps
\* rows of the child; what was given before stays.
LEMMA ProbeThrowKeepsIInv == ASSUME IInv, ProbeThrow PROVE IInv'
<1>1. /\ TypeOK /\ BuildComesFirst /\ Resumable /\ PairsGenuineAndOnce
      /\ pc = "emit" /\ pc' = "idle" /\ cursor > Len(heads) /\ verdict' = "threw"
      /\ probed' \in probed .. Len(Probe)
      /\ UNCHANGED <<inputs, pulled, built, chains, heads, cursor, match, out, delivered>>
      /\ \A x \in 1 .. Len(Given) : Behind(Given[x])
  BY DEF IInv, ProbeThrow, NeedsProbe
<1>2. /\ left' = left /\ right' = right /\ buildRight' = buildRight
      /\ store' = store /\ index' = index /\ next_' = next_ /\ tails' = tails
      /\ Build' = Build /\ Probe' = Probe
  BY <1>1 DEF inputs, chains, Build, Probe
<1>3. /\ probed \in Nat /\ Len(Probe) \in Nat /\ Len(heads) \in Nat /\ Len(heads) <= probed
      /\ cursor \in Nat
      /\ ProbeRow = probed + 1
  BY <1>1, Positions
<1>4. /\ probed' \in 0 .. Len(Probe) /\ Len(heads) <= probed'
      /\ probed' \in Nat /\ ProbeRow \in Nat /\ ProbeRow' \in Int /\ ProbeRow' >= ProbeRow
  BY <1>1, <1>3 DEF ProbeRow
<1>5. TypeOK'
  BY <1>1, <1>2, <1>4 DEF TypeOK
<1>6. StoreOfPulled' /\ ChainsInOrder' /\ IndexSound'
  BY <1>1, ChainsKept
<1>7. BuildComesFirst'
  BY <1>1 DEF BuildComesFirst
<1>8. Resumable'
  <2>1. \A j : j \notin cursor + 1 .. Len(heads)
    BY <1>1, <1>3
  <2>2. match = NoRow
    BY <1>1, <1>3 DEF Resumable
  <2>3. QED BY <1>1, <2>1, <2>2 DEF Resumable
<1>9. /\ Given = delivered \o out /\ Given' = delivered
      /\ Len(Given') \in Nat /\ Len(Given) \in Nat /\ Len(Given') <= Len(Given)
      /\ \A x \in 1 .. Len(Given') : Given'[x] = Given[x]
      /\ Given \in Seq(Nat \X Nat)
  <2>1. Given = delivered \o out
    BY <1>1 DEF Given
  <2>2. delivered \in Seq(Nat \X Nat) /\ out \in Seq(Nat \X Nat)
    BY <1>1 DEF TypeOK
  <2>3. Given' = delivered
    BY <1>1, <2>2, ConcatEmptySeq DEF Given
  <2>4. Len(delivered) \in Nat /\ Len(out) \in Nat
    BY <2>2, LenProperties
  <2>5. QED BY <2>1, <2>2, <2>3, <2>4, ConcatProperties
<1>10. PairsGenuineAndOnce'
  <2>1. \A x \in 1 .. Len(Given') : x \in 1 .. Len(Given)
    BY <1>9
  <2>2. \A x \in 1 .. Len(Given') : Given'[x] \in Candidates /\ Matching(Given[x])
    BY <1>1, <1>9, <2>1 DEF PairsGenuineAndOnce
  <2>3. \A x, y \in 1 .. Len(Given') : x < y => Before(Given[x], Given[y])
    BY <1>1, <2>1 DEF PairsGenuineAndOnce
  <2>4. QED
    BY <1>1, <1>2, <1>9, <2>2, <2>3
       DEF PairsGenuineAndOnce, Candidates, Matching, Before, ProbeOf, BuildOf
<1>11. (\A x \in 1 .. Len(Given) : Behind(Given[x]))'
  <2>1. SUFFICES ASSUME NEW x \in 1 .. Len(Given') PROVE ProbeOf(Given[x])' < ProbeRow'
    BY DEF Behind
  <2>2. x \in 1 .. Len(Given) /\ Given'[x] = Given[x]
    BY <1>9
  <2>3. ProbeOf(Given[x]) < ProbeRow
    BY <1>1, <2>2, BehindBetweenRows
  <2>4. Given[x] \in Candidates
    BY <1>1, <2>2 DEF PairsGenuineAndOnce
  <2>5. ProbeOf(Given[x]) \in Nat
    BY <1>1, <1>3, <2>4, RowSides
  <2>6. QED BY <1>2, <1>4, <2>2, <2>3, <2>5 DEF ProbeOf
<1>12. NothingSkipped'
  BY <1>1 DEF NothingSkipped
<1>13. QED BY <1>5, <1>6, <1>7, <1>8, <1>10, <1>11, <1>12 DEF IInv

\* A step that gives nothing keeps the pairs given genuine and in order.
LEMMA GivenKept ==
  ASSUME IInv, UNCHANGED inputs, Given' = Given
  PROVE  PairsGenuineAndOnce'
  BY RowsFixed DEF IInv, PairsGenuineAndOnce

\* A probe batch is loaded: the cursor stands on its first row, at the start of
\* that row's chain, which comes before every row of it.
LEMMA LoadProbeKeepsIInv ==
  ASSUME IInv, NEW n \in 1 .. ChildCapacity, LoadProbe(n)
  PROVE  IInv'
<1>1. /\ TypeOK /\ BuildComesFirst /\ NothingSkipped /\ PairsGenuineAndOnce
      /\ pc = "emit" /\ pc' = "emit" /\ cursor > Len(heads) /\ store # << >>
      /\ n <= Len(Probe) - probed /\ n \in Nat /\ n >= 1
      /\ heads' = [j \in 1 .. n |-> HeadOf(Probe[probed + j])]
      /\ match' = HeadOf(Probe[probed + 1]) /\ cursor' = 1 /\ probed' = probed + n
      /\ UNCHANGED <<inputs, pulled, built, chains, out, caller>>
      /\ \A x \in 1 .. Len(Given) : Behind(Given[x])
  BY HashJoinAssumption DEF IInv, LoadProbe, NeedsProbe
<1>2. /\ left' = left /\ right' = right /\ buildRight' = buildRight
      /\ store' = store /\ index' = index /\ next_' = next_ /\ tails' = tails
      /\ Build' = Build /\ Probe' = Probe /\ delivered' = delivered /\ verdict' = verdict
  BY <1>1 DEF inputs, chains, Build, Probe, caller
<1>3. /\ probed \in Nat /\ Len(Probe) \in Nat /\ Len(heads) \in Nat
      /\ ProbeRow = probed + 1
      /\ \A j \in 1 .. n : probed + j \in 1 .. Len(Probe)
  <2>1. /\ probed \in Nat /\ Len(Probe) \in Nat /\ Len(heads) \in Nat
        /\ ProbeRow = probed + 1
    BY <1>1, Positions
  <2>2. \A j \in 1 .. n : probed + j \in 1 .. Len(Probe)
    BY <1>1, <2>1
  <2>3. QED BY <2>1, <2>2
<1>4. heads' \in Seq(0 .. Len(store)) /\ Len(heads') = n /\ match' \in 0 .. Len(store)
  <2>1. \A j \in 1 .. n : HeadOf(Probe[probed + j]) \in 0 .. Len(store)
    BY <1>3, HeadHasKey
  <2>2. heads' \in [1 .. n -> 0 .. Len(store)]
    BY <1>1, <2>1
  <2>3. QED BY <1>1, <2>1, <2>2
<1>5. TypeOK'
  <2>1. probed' \in 0 .. Len(Probe) /\ n <= probed' /\ 1 \in 1 .. n + 1
    BY <1>1, <1>3
  <2>2. QED BY <1>1, <1>2, <1>4, <2>1 DEF TypeOK
<1>6. StoreOfPulled' /\ ChainsInOrder' /\ IndexSound'
  BY <1>1, ChainsKept
<1>7. BuildComesFirst'
  BY <1>1, <1>2 DEF BuildComesFirst
<1>8. ProbeRow' = probed + 1
  BY <1>1, <1>3, <1>4 DEF ProbeRow
<1>9. Resumable'
  <2>1. \A j \in 2 .. n : heads'[j] = HeadOf(Probe[probed' - n + j])
    <3>1. \A j \in 2 .. n : probed' - n + j = probed + j /\ j \in 1 .. n
      BY <1>1, <1>3
    <3>2. QED BY <1>1, <3>1
  <2>2. match' # NoRow => Build[store[match']] = Probe[probed + 1]
    BY <1>1, <1>3, HeadHasKey DEF StoredKey
  <2>3. \A k : HeadOf(k)' = HeadOf(k)
    BY <1>2 DEF HeadOf
  <2>4. cursor' + 1 = 2 /\ cursor' <= Len(heads')
    BY <1>1, <1>4
  <2>5. \A j \in cursor' + 1 .. Len(heads') :
           heads'[j] = HeadOf(Probe[probed' - Len(heads') + j])
    BY <1>4, <2>1, <2>4
  <2>6. match' # NoRow => StoredKey(match)' = Probe'[ProbeRow']
    BY <1>2, <1>8, <2>2 DEF StoredKey
  <2>7. QED BY <1>2, <2>4, <2>5, <2>6 DEF Resumable, HeadOf
<1>10. Given' = Given
  BY <1>1, <1>2 DEF Given
<1>11. PairsGenuineAndOnce'
  BY <1>1, <1>10, GivenKept
<1>12. (\A x \in 1 .. Len(Given) : Behind(Given[x]))'
  <2>1. \A x \in 1 .. Len(Given) : ProbeOf(Given[x]) < ProbeRow
    BY <1>1, BehindBetweenRows
  <2>2. QED BY <1>1, <1>3, <1>8, <1>10, <2>1, RowsFixed DEF Behind
<1>13. NothingSkipped'
  <2>1. SUFFICES ASSUME verdict # "threw"
                 PROVE  /\ \A row \in Candidates :
                             Matching(row) /\ Behind(row)' => \E x \in 1 .. Len(Given) : Given[x] = row
                        /\ verdict # "end"
    BY <1>1, <1>2, <1>10, RowsFixed DEF NothingSkipped
  <2>2. verdict # "end"
    BY <1>1, <1>3, <2>1 DEF NothingSkipped
  <2>3. pulled = Len(Build)
    <3>1. built = TRUE
      BY <1>1 DEF BuildComesFirst, TypeOK
    <3>2. QED BY <1>1, <2>1, <3>1 DEF BuildComesFirst
  <2>4. ASSUME NEW row \in Candidates, Matching(row), Behind(row)'
        PROVE  Behind(row)
    <3>1. /\ ProbeOf(row) \in Nat /\ BuildOf(row) \in Nat
          /\ ProbeOf(row)' = ProbeOf(row) /\ BuildOf(row)' = BuildOf(row)
      <4>1. ProbeOf(row) \in 1 .. Len(Probe) /\ BuildOf(row) \in 1 .. Len(Build)
        BY <1>1, <2>4, RowSides
      <4>2. QED BY <1>1, <4>1, RowsFixed
    <3>2. CASE ProbeOf(row) = probed + 1
      <4>1. match' # NoRow /\ store[match'] <= BuildOf(row)
        BY <1>1, <2>3, <2>4, <3>2, HeadIsFirst
      <4>2. store[match'] \in Nat
        <5>1. match' \in 1 .. Len(store)
          BY <1>4, <4>1 DEF NoRow
        <5>2. QED BY <5>1, StoreRises
      <4>3. BuildOf(row) < store[match'] \/ ProbeOf(row) < probed + 1
        BY <1>2, <1>8, <2>4, <3>1, <4>1 DEF Behind
      <4>4. QED BY <1>3, <3>1, <3>2, <4>1, <4>2, <4>3
    <3>3. CASE ProbeOf(row) # probed + 1
      BY <1>3, <1>8, <2>4, <3>1, <3>3 DEF Behind
    <3>4. QED BY <3>2, <3>3
  <2>5. QED BY <1>1, <2>1, <2>2, <2>4 DEF NothingSkipped
<1>14. QED
  BY <1>5, <1>6, <1>7, <1>9, <1>11, <1>12, <1>13 DEF IInv

\* The chain of a probe row is used up: every match of that row has been given,
\* and the next row, if the batch has one, starts at the head of its chain.
LEMMA AdvanceKeepsIInv == ASSUME IInv, Advance PROVE IInv'
<1>1. /\ TypeOK /\ BuildComesFirst /\ NothingSkipped /\ PairsGenuineAndOnce /\ Resumable
      /\ pc = "emit" /\ pc' = "emit" /\ cursor <= Len(heads) /\ store # << >>
      /\ match = NoRow /\ cursor' = cursor + 1
      /\ match' = IF cursor < Len(heads) THEN heads[cursor + 1] ELSE NoRow
      /\ UNCHANGED <<inputs, pulled, probed, built, chains, heads, pc, out, caller>>
      /\ \A x \in 1 .. Len(Given) : Behind(Given[x])
  BY DEF IInv, Advance, AtRow, NextCursor, NextMatch
<1>2. /\ left' = left /\ right' = right /\ buildRight' = buildRight
      /\ store' = store /\ index' = index /\ next_' = next_ /\ tails' = tails
      /\ Build' = Build /\ Probe' = Probe /\ delivered' = delivered /\ verdict' = verdict
  BY <1>1 DEF inputs, chains, Build, Probe, caller
<1>3. /\ probed \in Nat /\ Len(Probe) \in Nat /\ Len(heads) \in Nat /\ cursor \in Nat
      /\ probed <= Len(Probe) /\ Len(heads) <= probed /\ cursor >= 1
      /\ ProbeRow \in Nat /\ ProbeRow >= 1 /\ ProbeRow <= probed /\ Len(store) \in Nat
  BY <1>1, Positions
<1>4. ProbeRow' = ProbeRow + 1
  BY <1>1, <1>3 DEF ProbeRow
<1>5. cursor < Len(heads) =>
        /\ ProbeRow + 1 \in 1 .. Len(Probe)
        /\ match' = HeadOf(Probe[ProbeRow + 1])
  <2>1. SUFFICES ASSUME cursor < Len(heads)
                 PROVE  /\ ProbeRow + 1 \in 1 .. Len(Probe)
                        /\ match' = HeadOf(Probe[ProbeRow + 1])
    OBVIOUS
  <2>2. cursor + 1 \in cursor + 1 .. Len(heads)
    BY <1>3, <2>1
  <2>3. probed - Len(heads) + (cursor + 1) = ProbeRow + 1
    BY <1>3 DEF ProbeRow
  <2>4. ProbeRow + 1 \in 1 .. Len(Probe)
    BY <1>3, <2>1 DEF ProbeRow
  <2>5. heads[cursor + 1] = HeadOf(Probe[probed - Len(heads) + (cursor + 1)])
    BY <1>1, <2>2 DEF Resumable
  <2>6. QED BY <1>1, <2>1, <2>3, <2>4, <2>5
<1>6. match' \in 0 .. Len(store)
  <2>1. CASE cursor < Len(heads)
    BY <1>5, <2>1, HeadHasKey
  <2>2. CASE ~ (cursor < Len(heads))
    BY <1>1, <1>3, <2>2 DEF NoRow
  <2>3. QED BY <2>1, <2>2
<1>7. TypeOK'
  <2>1. cursor' \in 1 .. Len(heads) + 1
    BY <1>1, <1>3
  <2>2. QED BY <1>1, <1>2, <1>6, <2>1 DEF TypeOK
<1>8. StoreOfPulled' /\ ChainsInOrder' /\ IndexSound'
  BY <1>1, ChainsKept
<1>9. BuildComesFirst'
  BY <1>1, <1>2 DEF BuildComesFirst
<1>10. Resumable'
  <2>1. \A j \in cursor' + 1 .. Len(heads) : j \in cursor + 1 .. Len(heads)
    BY <1>1, <1>3
  <2>2. \A j \in cursor' + 1 .. Len(heads) :
          heads[j] = HeadOf(Probe[probed - Len(heads) + j])
    BY <1>1, <2>1 DEF Resumable
  <2>3. match' # NoRow => cursor' <= Len(heads) /\ Build[store[match']] = Probe[ProbeRow + 1]
    <3>1. SUFFICES ASSUME match' # NoRow
                   PROVE  cursor' <= Len(heads) /\ Build[store[match']] = Probe[ProbeRow + 1]
      OBVIOUS
    <3>2. cursor < Len(heads)
      BY <1>1, <3>1
    <3>3. StoredKey(HeadOf(Probe[ProbeRow + 1])) = Probe[ProbeRow + 1]
      BY <1>5, <3>1, <3>2, HeadHasKey
    <3>4. QED BY <1>1, <1>3, <1>5, <3>2, <3>3 DEF StoredKey
  <2>4. QED BY <1>1, <1>2, <1>4, <2>2, <2>3 DEF Resumable, HeadOf, StoredKey
<1>11. Given' = Given
  BY <1>1, <1>2 DEF Given
<1>12. PairsGenuineAndOnce'
  BY <1>1, <1>11, GivenKept
<1>13. (\A x \in 1 .. Len(Given) : Behind(Given[x]))'
  <2>1. ASSUME NEW x \in 1 .. Len(Given) PROVE ProbeOf(Given[x]) < ProbeRow + 1
    <3>1. Given[x] \in Candidates /\ Behind(Given[x])
      BY <1>1 DEF PairsGenuineAndOnce
    <3>2. ProbeOf(Given[x]) \in Nat
      BY <1>1, <1>3, <3>1, RowSides
    <3>3. QED BY <1>3, <3>1, <3>2 DEF Behind
  <2>2. QED BY <1>1, <1>4, <1>11, <2>1, RowsFixed DEF Behind
<1>14. NothingSkipped'
  <2>1. SUFFICES ASSUME verdict # "threw"
                 PROVE  /\ \A row \in Candidates :
                             Matching(row) /\ Behind(row)' => \E x \in 1 .. Len(Given) : Given[x] = row
                        /\ verdict # "end"
    BY <1>1, <1>2, <1>11, RowsFixed DEF NothingSkipped
  <2>2. verdict # "end"
    BY <1>1, <1>3, <2>1 DEF NothingSkipped
  <2>3. pulled = Len(Build)
    <3>1. built = TRUE
      BY <1>1 DEF BuildComesFirst, TypeOK
    <3>2. QED BY <1>1, <2>1, <3>1 DEF BuildComesFirst
  <2>4. ASSUME NEW row \in Candidates, Matching(row), Behind(row)'
        PROVE  Behind(row)
    <3>1. /\ ProbeOf(row) \in Nat /\ BuildOf(row) \in Nat
          /\ ProbeOf(row)' = ProbeOf(row) /\ BuildOf(row)' = BuildOf(row)
      <4>1. ProbeOf(row) \in 1 .. Len(Probe) /\ BuildOf(row) \in 1 .. Len(Build)
        BY <1>1, <2>4, RowSides
      <4>2. QED BY <1>1, <4>1, RowsFixed
    <3>2. ASSUME ProbeOf(row) = ProbeRow + 1 PROVE FALSE
      <4>1. cursor < Len(heads) /\ (match' = NoRow \/ BuildOf(row) < store[match'])
        BY <1>1, <1>2, <1>3, <1>4, <2>4, <3>1, <3>2 DEF Behind
      <4>2. match' # NoRow /\ store[match'] <= BuildOf(row)
        BY <1>5, <2>3, <2>4, <3>2, <4>1, HeadIsFirst
      <4>3. store[match'] \in Nat
        <5>1. match' \in 1 .. Len(store)
          BY <1>6, <4>2 DEF NoRow
        <5>2. QED BY <5>1, StoreRises
      <4>4. QED BY <3>1, <4>1, <4>2, <4>3
    <3>3. ProbeOf(row) <= ProbeRow
      BY <1>3, <1>4, <2>4, <3>1, <3>2 DEF Behind
    <3>4. QED BY <1>1, <1>3, <3>1, <3>3 DEF Behind
  <2>5. QED BY <1>1, <2>1, <2>2, <2>4 DEF NothingSkipped
<1>15. QED
  BY <1>7, <1>8, <1>9, <1>10, <1>12, <1>13, <1>14 DEF IInv

\* A pair is given: the row of the store that the chain stands on, after every
\* earlier pair; the matches between it and the rest of the chain are none.
LEMMA EmitKeepsIInv == ASSUME IInv, Emit PROVE IInv'
<1> DEFINE new == Pair(ProbeRow, store[match])
<1>1. /\ TypeOK /\ BuildComesFirst /\ NothingSkipped /\ PairsGenuineAndOnce /\ Resumable
      /\ StoreOfPulled
      /\ pc = "emit" /\ pc' = "emit" /\ cursor <= Len(heads) /\ store # << >>
      /\ Len(out) < Capacity /\ match # NoRow
      /\ out' = Append(out, new) /\ match' = next_[match]
      /\ UNCHANGED <<inputs, pulled, probed, built, chains, heads, cursor, pc, caller>>
      /\ \A x \in 1 .. Len(Given) : Behind(Given[x])
  BY DEF IInv, Emit, AtRow, HasRoom
<1>2. /\ left' = left /\ right' = right /\ buildRight' = buildRight
      /\ store' = store /\ index' = index /\ next_' = next_ /\ tails' = tails
      /\ Build' = Build /\ Probe' = Probe /\ delivered' = delivered /\ verdict' = verdict
  BY <1>1 DEF inputs, chains, Build, Probe, caller
<1>3. /\ ProbeRow \in 1 .. Len(Probe) /\ match \in 1 .. Len(store) /\ match' \in 0 .. Len(store)
      /\ store[match] \in 1 .. Len(Build) /\ store[match] \in Nat
      /\ Build[store[match]] = Probe[ProbeRow] /\ Probe[ProbeRow] # NullKey
      /\ ProbeRow' = ProbeRow /\ Threaded(match)
  <2>1. /\ ProbeRow \in Nat /\ ProbeRow >= 1 /\ ProbeRow <= probed
        /\ probed \in Nat /\ probed <= Len(Probe) /\ Len(Probe) \in Nat
        /\ match \in Nat /\ match <= Len(store) /\ Len(store) \in Nat /\ Len(Build) \in Nat
    BY <1>1, Positions
  <2>2. ProbeRow \in 1 .. Len(Probe) /\ match \in 1 .. Len(store)
    BY <1>1, <2>1 DEF NoRow
  <2>3. /\ store[match] \in 1 .. Len(Build) /\ match' \in 0 .. Len(store)
        /\ Threaded(match)
    BY <1>1, <2>2, StoredRows, ChainAt
  <2>4. Build[store[match]] = Probe[ProbeRow] /\ Build[store[match]] # NullKey
    BY <1>1, <2>2 DEF Resumable, StoreOfPulled, StoredKey
  <2>5. ProbeRow' = ProbeRow
    BY <1>1 DEF ProbeRow
  <2>6. QED BY <2>1, <2>2, <2>3, <2>4, <2>5
<1>4. /\ new \in Candidates /\ new \in Nat \X Nat /\ Matching(new)
      /\ ProbeOf(new) = ProbeRow /\ BuildOf(new) = store[match]
  <2>1. /\ new \in Candidates /\ new \in Nat \X Nat
        /\ ProbeOf(new) = ProbeRow /\ BuildOf(new) = store[match]
    BY <1>1, <1>3, PairSides
  <2> HIDE DEF new
  <2>2. QED BY <1>1, <1>3, <2>1, RowSides
<1> HIDE DEF new
<1>5. match' # NoRow =>
        /\ match' \in 1 .. Len(store) /\ match' > match
        /\ store[match'] \in Nat /\ store[match] < store[match']
        /\ Build[store[match']] = Probe[ProbeRow]
  <2>1. SUFFICES ASSUME match' # NoRow
                 PROVE  /\ match' \in 1 .. Len(store) /\ match' > match
                        /\ store[match'] \in Nat /\ store[match] < store[match']
                        /\ Build[store[match']] = Probe[ProbeRow]
    OBVIOUS
  <2>2. match' \in 1 .. Len(store)
    BY <1>3, <2>1 DEF NoRow
  <2>3. match' > match /\ Build[store[match]] = Build[store[match']]
    BY <1>1, <1>3, <2>1 DEF Threaded, SameKey, StoredKey
  <2>4. QED BY <1>3, <2>2, <2>3, StoreRises
<1>6. TypeOK'
  <2>1. out \in Seq(Nat \X Nat)
    BY <1>1 DEF TypeOK
  <2>2. out' \in Seq(Nat \X Nat) /\ Len(out') = Len(out) + 1 /\ Len(out) \in Nat
    BY <1>1, <1>4, <2>1, AppendProperties
  <2>3. Len(out') <= Capacity
    BY <1>1, <2>2, HashJoinAssumption
  <2>4. QED BY <1>1, <1>2, <1>3, <2>2, <2>3 DEF TypeOK
<1>7. StoreOfPulled' /\ ChainsInOrder' /\ IndexSound'
  BY <1>1, ChainsKept
<1>8. built = TRUE /\ BuildComesFirst'
  <2>1. built = TRUE
    BY <1>1 DEF BuildComesFirst, TypeOK
  <2>2. QED BY <1>1, <1>2, <2>1 DEF BuildComesFirst
<1>9. Resumable'
  <2>1. \A j \in cursor + 1 .. Len(heads) :
          heads[j] = HeadOf(Probe[probed - Len(heads) + j])
    BY <1>1 DEF Resumable
  <2>2. QED BY <1>1, <1>2, <1>3, <1>5, <2>1 DEF Resumable, HeadOf, StoredKey
<1>10. /\ Len(Given) \in Nat /\ Len(Given') = Len(Given) + 1
       /\ \A x \in 1 .. Len(Given) : Given'[x] = Given[x]
       /\ Given'[Len(Given) + 1] = new
  <2>1. Given = delivered \o out /\ Given' = delivered \o Append(out, new)
    BY <1>1, <1>2 DEF Given
  <2>2. delivered \in Seq(Nat \X Nat) /\ out \in Seq(Nat \X Nat)
    BY <1>1 DEF TypeOK
  <2>3. /\ Len(Given) \in Nat /\ Len(delivered) \in Nat /\ Len(out) \in Nat
        /\ Len(Given) = Len(delivered) + Len(out)
        /\ \A x \in 1 .. Len(delivered) + Len(out) :
              Given[x] = IF x <= Len(delivered) THEN delivered[x] ELSE out[x - Len(delivered)]
    BY <2>1, <2>2, ConcatProperties, LenProperties
  <2>4. /\ Append(out, new) \in Seq(Nat \X Nat) /\ Len(Append(out, new)) = Len(out) + 1
        /\ \A x \in 1 .. Len(out) : Append(out, new)[x] = out[x]
        /\ Append(out, new)[Len(out) + 1] = new
    BY <1>4, <2>2, AppendProperties
  <2> DEFINE more == Append(out, new)
  <2> HIDE DEF more
  <2>5. /\ Len(Given') = Len(delivered) + (Len(out) + 1)
        /\ \A x \in 1 .. Len(delivered) + (Len(out) + 1) :
              Given'[x] = IF x <= Len(delivered) THEN delivered[x] ELSE more[x - Len(delivered)]
    <3>1. Given' = delivered \o more /\ more \in Seq(Nat \X Nat) /\ Len(more) = Len(out) + 1
      BY <2>1, <2>4 DEF more
    <3>2. /\ Len(delivered \o more) = Len(delivered) + Len(more)
          /\ \A x \in 1 .. Len(delivered) + Len(more) :
                (delivered \o more)[x] =
                  IF x <= Len(delivered) THEN delivered[x] ELSE more[x - Len(delivered)]
      BY <2>2, <3>1, ConcatProperties
    <3>3. QED BY <3>1, <3>2
  <2>6. ASSUME NEW x \in 1 .. Len(Given) PROVE Given'[x] = Given[x]
    <3>1. CASE x <= Len(delivered)
      BY <2>3, <2>5, <3>1
    <3>2. CASE ~ (x <= Len(delivered))
      <4>1. x - Len(delivered) \in 1 .. Len(out)
        BY <2>3, <3>2
      <4>2. more[x - Len(delivered)] = out[x - Len(delivered)]
        BY <2>4, <4>1 DEF more
      <4>3. QED BY <2>3, <2>5, <3>2, <4>2
    <3>3. QED BY <3>1, <3>2
  <2>7. Given'[Len(Given) + 1] = new
    <3>1. Given'[Len(Given) + 1] = more[Len(Given) + 1 - Len(delivered)]
      BY <2>3, <2>5
    <3>2. Len(Given) + 1 - Len(delivered) = Len(out) + 1
      BY <2>3
    <3>3. QED BY <2>4, <3>1, <3>2 DEF more
  <2>8. QED BY <2>3, <2>5, <2>6, <2>7
<1>11. ASSUME NEW x \in 1 .. Len(Given)
       PROVE  /\ Given[x] \in Candidates /\ Matching(Given[x])
              /\ Before(Given[x], new)
              /\ ProbeOf(Given[x]) \in Nat /\ BuildOf(Given[x]) \in Nat
  <2>1. Given[x] \in Candidates /\ Matching(Given[x]) /\ Behind(Given[x])
    BY <1>1 DEF PairsGenuineAndOnce
  <2>2. ProbeOf(Given[x]) \in 1 .. Len(Probe) /\ BuildOf(Given[x]) \in 1 .. Len(Build)
    BY <1>1, <2>1, RowSides
  <2>3. Before(Given[x], new)
    BY <1>1, <1>4, <2>1 DEF Behind, Before
  <2>4. QED BY <2>1, <2>2, <2>3
<1>12. PairsGenuineAndOnce'
  <2>1. ASSUME NEW x \in 1 .. Len(Given')
        PROVE  Given'[x] \in Candidates' /\ Matching(Given[x])'
    <3>1. CASE x = Len(Given) + 1
      <4>1. Given'[x] \in Candidates' /\ left'[Given'[x][1]] = right'[Given'[x][2]]
            /\ left'[Given'[x][1]] # NullKey
        BY <1>1, <1>2, <1>4, <1>10, <3>1, RowsFixed DEF Matching
      <4>2. QED BY <4>1 DEF Matching
    <3>2. CASE x # Len(Given) + 1
      <4>1. x \in 1 .. Len(Given)
        BY <1>10, <3>2
      <4>2. Given'[x] = Given[x] /\ Given[x] \in Candidates /\ Matching(Given[x])
        BY <1>10, <1>11, <4>1
      <4>3. QED BY <1>1, <1>2, <4>2, RowsFixed DEF Matching
    <3>3. QED BY <3>1, <3>2
  <2>2. ASSUME NEW x \in 1 .. Len(Given'), NEW y \in 1 .. Len(Given'), x < y
        PROVE  Before(Given[x], Given[y])'
    <3>1. x \in 1 .. Len(Given) /\ Given'[x] = Given[x]
      BY <1>10, <2>2
    <3>2. CASE y = Len(Given) + 1
      <4>1. Before(Given[x], new) /\ Given'[y] = new
        BY <1>10, <1>11, <3>1, <3>2
      <4>2. QED BY <1>2, <3>1, <4>1 DEF Before, ProbeOf, BuildOf
    <3>3. CASE y # Len(Given) + 1
      <4>1. y \in 1 .. Len(Given) /\ Given'[y] = Given[y]
        BY <1>10, <3>3
      <4>2. Before(Given[x], Given[y])
        BY <1>1, <2>2, <3>1, <4>1 DEF PairsGenuineAndOnce
      <4>3. QED BY <1>2, <3>1, <4>1, <4>2 DEF Before, ProbeOf, BuildOf
    <3>4. QED BY <3>2, <3>3
  <2>3. QED BY <2>1, <2>2 DEF PairsGenuineAndOnce
<1>13. ASSUME NEW row, ProbeOf(row) < ProbeRow \/ (ProbeOf(row) = ProbeRow /\ BuildOf(row) <= store[match]),
              BuildOf(row) \in Nat
       PROVE  Behind(row)'
  <2>1. match' = NoRow \/ BuildOf(row) < store[match']
    \/ ProbeOf(row) < ProbeRow
    BY <1>3, <1>5, <1>13
  <2>2. QED BY <1>1, <1>2, <1>3, <1>13, <2>1 DEF Behind, ProbeOf, BuildOf
<1>14. (\A x \in 1 .. Len(Given) : Behind(Given[x]))'
  <2>1. ASSUME NEW row, Before(row, new) \/ row = new, BuildOf(row) \in Nat
        PROVE  Behind(row)'
    BY <1>3, <1>4, <1>13, <2>1 DEF Before
  <2>2. ASSUME NEW x \in 1 .. Len(Given')
        PROVE  \E row : row = Given'[x] /\ Behind(row)'
    <3>1. CASE x = Len(Given) + 1
      BY <1>3, <1>4, <1>10, <2>1, <3>1
    <3>2. CASE x # Len(Given) + 1
      <4>1. x \in 1 .. Len(Given)
        BY <1>10, <3>2
      <4>2. QED BY <1>10, <1>11, <2>1, <4>1
    <3>3. QED BY <3>1, <3>2
  <2>3. QED BY <2>2 DEF Behind, ProbeOf, BuildOf
<1>15. NothingSkipped'
  <2>1. SUFFICES ASSUME verdict # "threw"
                 PROVE  /\ \A row \in Candidates :
                             Matching(row) /\ Behind(row)' => \E x \in 1 .. Len(Given') : Given'[x] = row
                        /\ verdict # "end"
    BY <1>1, <1>2, RowsFixed DEF NothingSkipped
  <2>2. verdict # "end"
    <3>1. cursor \in Nat /\ Len(heads) \in Nat
      BY <1>1, Positions
    <3>2. QED BY <1>1, <2>1, <3>1 DEF NothingSkipped
  <2>3. pulled = Len(Build)
    BY <1>1, <1>8, <2>1 DEF BuildComesFirst
  <2>4. ASSUME NEW row \in Candidates, Matching(row), Behind(row)', row # new
        PROVE  Behind(row)
    <3>1. /\ ProbeOf(row) \in Nat /\ BuildOf(row) \in Nat
          /\ row = Pair(ProbeOf(row), BuildOf(row))
          /\ ProbeOf(row)' = ProbeOf(row) /\ BuildOf(row)' = BuildOf(row)
      <4>1. /\ ProbeOf(row) \in 1 .. Len(Probe) /\ BuildOf(row) \in 1 .. Len(Build)
            /\ row = Pair(ProbeOf(row), BuildOf(row))
        BY <1>1, <2>4, RowSides
      <4>2. QED BY <1>1, <4>1, RowsFixed
    <3>2. CASE ProbeOf(row) = ProbeRow
      <4>1. match' = NoRow \/ BuildOf(row) < store[match']
        BY <1>2, <1>3, <2>4, <3>1, <3>2 DEF Behind
      <4>2. PICK i \in 1 .. Len(store) : store[i] = BuildOf(row) /\ StoredKey(i) = Probe[ProbeRow]
        BY <2>3, <2>4, <3>2, HeadIsFirst
      <4>3. i # match
        BY <2>4, <3>1, <3>2, <4>2 DEF new
      <4>4. ~ (i > match)
        <5>1. SUFFICES ASSUME i > match PROVE FALSE
          OBVIOUS
        <5>2. SameKey(match, i)
          BY <1>3, <4>2 DEF SameKey, StoredKey
        <5>3. CASE match' = NoRow
          <6>1. \A j \in match + 1 .. Len(store) : ~ SameKey(match, j)
            BY <1>1, <1>3, <5>3 DEF Threaded, NoRow
          <6>2. QED BY <1>3, <5>1, <5>2, <6>1
        <5>4. CASE match' # NoRow
          <6>1. \A j \in match + 1 .. match' - 1 : ~ SameKey(match, j)
            BY <1>1, <1>3, <5>4 DEF Threaded
          <6>2. match' <= i
            BY <1>3, <1>5, <5>1, <5>2, <5>4, <6>1
          <6>3. store[match'] <= store[i]
            BY <1>5, <5>4, <6>2, StoreRises
          <6>4. QED BY <1>5, <3>1, <4>1, <4>2, <5>4, <6>3
        <5>5. QED BY <5>3, <5>4
      <4>5. store[i] < store[match]
        BY <1>3, <4>3, <4>4, StoreRises
      <4>6. QED BY <1>1, <3>2, <4>2, <4>5 DEF Behind
    <3>3. CASE ProbeOf(row) # ProbeRow
      BY <1>3, <2>4, <3>1, <3>3 DEF Behind
    <3>4. QED BY <3>2, <3>3
  <2>5. ASSUME NEW row \in Candidates, Matching(row), Behind(row)'
        PROVE  \E x \in 1 .. Len(Given') : Given'[x] = row
    <3>1. CASE row = new
      BY <1>10, <3>1
    <3>2. CASE row # new
      <4>1. PICK x \in 1 .. Len(Given) : Given[x] = row
        BY <1>1, <2>1, <2>4, <2>5, <3>2 DEF NothingSkipped
      <4>2. x \in 1 .. Len(Given') /\ Given'[x] = row
        BY <1>10, <4>1
      <4>3. QED BY <4>2
    <3>3. QED BY <3>1, <3>2
  <2>6. QED BY <2>2, <2>5
<1>16. QED
  BY <1>6, <1>7, <1>8, <1>9, <1>12, <1>14, <1>15 DEF IInv

-----------------------------------------------------------------------------
\* Every step of next() and of build(), and every exception, keeps the invariant.
LEMMA NextIInv == IInv /\ [Next]_vars => IInv'
<1> SUFFICES ASSUME IInv, [Next]_vars PROVE IInv'
  OBVIOUS
<1>1. CASE Call
  BY <1>1, CallKeepsIInv
<1>2. CASE BuildSkip
  BY <1>2, BuildSkipKeepsIInv
<1>3. CASE BuildRow
  BY <1>3, BuildRowKeepsIInv
<1>4. CASE BuildDone
  BY <1>4, BuildDoneKeepsIInv
<1>5. CASE NothingStored \/ BatchFull \/ ProbeExhausted
  BY <1>5, ReturnsKeepIInv
<1>6. CASE Advance
  BY <1>6, AdvanceKeepsIInv
<1>7. CASE Emit
  BY <1>7, EmitKeepsIInv
<1>8. CASE \E n \in 1 .. ChildCapacity : LoadProbe(n)
  BY <1>8, LoadProbeKeepsIInv
<1>9. CASE BuildThrow
  BY <1>9, BuildThrowKeepsIInv
<1>10. CASE ProbeThrow
  BY <1>10, ProbeThrowKeepsIInv
<1>11. CASE UNCHANGED vars
  <2>1. /\ UNCHANGED <<inputs, pulled, chains, probing>>
        /\ built' = built /\ pc' = pc /\ out' = out /\ delivered' = delivered
        /\ verdict' = verdict /\ Build' = Build
    BY <1>11 DEF vars, inputs, chains, probing, Build
  <2>2. Given' = Given
    BY <2>1 DEF Given
  <2>3. /\ TypeOK /\ BuildComesFirst
        /\ built \in BOOLEAN /\ pc \in {"idle", "build", "emit"}
        /\ out \in Seq(Nat \X Nat) /\ Len(out) <= Capacity /\ delivered \in Seq(Nat \X Nat)
    BY DEF IInv, TypeOK
  <2>4. BuildComesFirst'
    BY <2>1, <2>3 DEF BuildComesFirst, probing
  <2>5. QED BY <2>1, <2>2, <2>3, <2>4, QuietStep
<1>12. QED
  BY <1>1, <1>2, <1>3, <1>4, <1>5, <1>6, <1>7, <1>8, <1>9, <1>10, <1>11
     DEF Next, Work, Fault

\* Wherever next() is left, resumed or broken off by a throw of a child, what it
\* has given is exactly what lies behind its cursor, but for what a throw lost.
THEOREM JoinInvariance == Spec => []IInv
<1>1. Init => IInv
  BY InitIInv
<1>2. IInv /\ [Next]_vars => IInv'
  BY NextIInv
<1>3. QED BY <1>1, <1>2, PTL DEF Spec

\* Every row number in a chain, in heads_ and in match_ is that of a stored row,
\* and no batch exceeds its capacity.
THEOREM JoinTypes == Spec => []TypeOK
<1>1. IInv => TypeOK
  BY DEF IInv
<1>2. QED BY <1>1, JoinInvariance, PTL

\* Duplicate build keys stay threaded in input order after every prefix of the
\* build input, also one that an exception cut short.
THEOREM JoinChains == Spec => []ChainsInOrder
<1>1. IInv => ChainsInOrder
  BY DEF IInv
<1>2. QED BY <1>1, JoinInvariance, PTL

\* No pair is invented and none comes twice, in batches of any size.
THEOREM JoinPairs == Spec => []PairsGenuineAndOnce
<1>1. IInv => PairsGenuineAndOnce
  BY DEF IInv
<1>2. QED BY <1>1, JoinInvariance, PTL

\* A join that has said the end has come past every matching pair.
LEMMA GivenAtEnd ==
  ASSUME IInv, verdict = "end", NEW row \in Candidates, Matching(row)
  PROVE  \E x \in 1 .. Len(Given) : Given[x] = row
<1>1. /\ TypeOK /\ BuildComesFirst /\ NothingSkipped /\ Resumable
  BY DEF IInv
<1>2. built /\ pc # "build" /\ pulled = Len(Build)
  BY <1>1 DEF BuildComesFirst
<1>3. \E i \in 1 .. Len(store) : store[i] = BuildOf(row)
  BY <1>2, HeadIsFirst
<1>4. store # << >>
  BY <1>3, EmptySeq
<1>5. probed = Len(Probe) /\ cursor > Len(heads)
  BY <1>1, <1>4 DEF NothingSkipped
<1>6. ProbeRow = Len(Probe) + 1 /\ Len(Probe) \in Nat
  BY <1>1, <1>5, Positions
<1>7. ProbeOf(row) \in 1 .. Len(Probe)
  BY <1>1, RowSides
<1>8. Behind(row)
  BY <1>6, <1>7 DEF Behind
<1>9. QED BY <1>1, <1>8 DEF NothingSkipped

\* When the join says the end and nothing threw, no matching pair is missing.
THEOREM JoinComplete == Spec => []CompleteAtEnd
<1>1. IInv => CompleteAtEnd
  BY GivenAtEnd DEF CompleteAtEnd
<1>2. QED BY <1>1, JoinInvariance, PTL

-----------------------------------------------------------------------------
\* Numbers.

Less == {p \in Nat \X Nat : p[1] < p[2]}

\* The naturals are well founded.
LEMMA LessWellFounded == IsWellFoundedOn(Less, Nat)
  BY NatLessThanWellFounded, Zenon DEF OpToRel, Less

\* A nonempty set of naturals has a least member.
LEMMA Least ==
  ASSUME NEW T \in SUBSET Nat, T # {}
  PROVE  \E x \in T : \A y \in T : x <= y
<1>1. PICK x \in T : \A y \in T : ~ (<<y, x>> \in Less)
  BY LessWellFounded, WFMin
<1>2. ASSUME NEW y \in T PROVE x <= y
  <2>1. ~ (y < x)
    BY <1>1 DEF Less
  <2>2. QED BY <2>1
<1>3. QED BY <1>2

-----------------------------------------------------------------------------
\* A finite set arranged by a strict total order R: every member is at one place,
\* in order.

TotalOn(R, S) ==
  \A a, b, c \in S : /\ <<a, a>> \notin R
                     /\ a # b => (<<a, b>> \in R <=> <<b, a>> \notin R)
                     /\ <<a, b>> \in R /\ <<b, c>> \in R => <<a, c>> \in R
Ahead(R, S, x) == {y \in S : <<y, x>> \in R}
Places(R, S) == [x \in S |-> 1 + Cardinality(Ahead(R, S, x))]
InPlace(R, S) == [n \in 1 .. Cardinality(S) |-> CHOOSE x \in S : Places(R, S)[x] = n]

\* Of two members the one that comes first has fewer of them before it.
LEMMA AheadGrows ==
  ASSUME NEW R, NEW S, IsFiniteSet(S), TotalOn(R, S), NEW x \in S
  PROVE  /\ Cardinality(Ahead(R, S, x)) \in Nat /\ Cardinality(S) \in Nat
         /\ Cardinality(Ahead(R, S, x)) < Cardinality(S)
         /\ \A y \in S : <<x, y>> \in R => Cardinality(Ahead(R, S, x)) < Cardinality(Ahead(R, S, y))
<1>1. ASSUME NEW y \in S
      PROVE  /\ IsFiniteSet(Ahead(R, S, y)) /\ Cardinality(Ahead(R, S, y)) \in Nat
             /\ Cardinality(S) \in Nat /\ Cardinality(Ahead(R, S, y)) < Cardinality(S)
  <2>1. Ahead(R, S, y) \in SUBSET S /\ y \notin Ahead(R, S, y)
    BY DEF Ahead, TotalOn
  <2>2. /\ IsFiniteSet(Ahead(R, S, y)) /\ Cardinality(Ahead(R, S, y)) <= Cardinality(S)
        /\ Cardinality(S) # Cardinality(Ahead(R, S, y))
    BY <2>1, FS_Subset
  <2>3. Cardinality(Ahead(R, S, y)) \in Nat /\ Cardinality(S) \in Nat
    BY <2>2, FS_CardinalityType
  <2>4. QED BY <2>2, <2>3
<1>2. ASSUME NEW y \in S, <<x, y>> \in R
      PROVE  Cardinality(Ahead(R, S, x)) < Cardinality(Ahead(R, S, y))
  <2>1. /\ Ahead(R, S, x) \in SUBSET Ahead(R, S, y)
        /\ x \in Ahead(R, S, y) /\ x \notin Ahead(R, S, x)
    BY <1>2 DEF Ahead, TotalOn
  <2>2. /\ Cardinality(Ahead(R, S, x)) <= Cardinality(Ahead(R, S, y))
        /\ Cardinality(Ahead(R, S, y)) # Cardinality(Ahead(R, S, x))
    BY <1>1, <2>1, FS_Subset
  <2>3. QED BY <1>1, <2>2
<1>3. QED BY <1>1, <1>2

\* The arrangement is a permutation of the set, in order.
LEMMA InPlaceOrder ==
  ASSUME NEW R, NEW S, IsFiniteSet(S), TotalOn(R, S)
  PROVE  /\ InPlace(R, S) \in Seq(S) /\ Len(InPlace(R, S)) = Cardinality(S) /\ Cardinality(S) \in Nat
         /\ \A k, l \in 1 .. Cardinality(S) : k < l => <<InPlace(R, S)[k], InPlace(R, S)[l]>> \in R
         /\ \A x \in S : \E k \in 1 .. Cardinality(S) : InPlace(R, S)[k] = x
<1> DEFINE n == Cardinality(S)
           place == Places(R, S)
           at == InPlace(R, S)
<1>1. n \in Nat
  BY FS_CardinalityType
<1>2. \A x \in S : place[x] \in 1 .. n
  BY AheadGrows DEF Places
<1>3. \A x, y \in S : <<x, y>> \in R => place[x] < place[y]
  BY AheadGrows DEF Places
<1>4. place \in [S -> 1 .. n]
  BY <1>2 DEF Places
<1> HIDE DEF place
<1>5. \A x, y \in S : place[x] = place[y] => x = y
  <2> SUFFICES ASSUME NEW x \in S, NEW y \in S, x # y PROVE place[x] # place[y]
    OBVIOUS
  <2>1. <<x, y>> \in R \/ <<y, x>> \in R
    BY DEF TotalOn
  <2>2. place[x] < place[y] \/ place[y] < place[x]
    BY <1>3, <2>1
  <2>3. place[x] \in Nat /\ place[y] \in Nat
    BY <1>1, <1>2
  <2>4. QED BY <2>2, <2>3
<1>6. \A k \in 1 .. n : \E x \in S : place[x] = k
  <2> DEFINE all == 1 .. n
  <2>1. IsFiniteSet(all) /\ Cardinality(all) = n
    <3>1. IsFiniteSet(1 .. n) /\ Cardinality(1 .. n) = IF 1 > n THEN 0 ELSE n - 1 + 1
      BY <1>1, FS_Interval
    <3>2. QED BY <1>1, <3>1
  <2>2. place \in Injection(S, all)
    BY <1>4, <1>5, Zenon DEF Injection, IsInjective
  <2> HIDE DEF all
  <2>3. place \in Surjection(S, all)
    BY <2>1, <2>2, FS_Injection DEF n
  <2>4. \A k \in all : \E x \in S : place[x] = k
    BY <2>3 DEF Surjection
  <2>5. QED BY <2>4 DEF all
<1>7. \A k \in 1 .. n : at[k] \in S /\ place[at[k]] = k
  <2> SUFFICES ASSUME NEW k \in 1 .. n PROVE at[k] \in S /\ place[at[k]] = k
    OBVIOUS
  <2>1. at[k] = CHOOSE x \in S : place[x] = k
    BY DEF InPlace, place
  <2> HIDE DEF at
  <2>2. QED BY <1>6, <2>1
<1>8. at = [k \in 1 .. n |-> at[k]]
  BY DEF InPlace
<1> HIDE DEF n, at
<1>9. at \in [1 .. n -> S]
  BY <1>7, <1>8
<1>10. at \in Seq(S) /\ Len(at) = n
  BY <1>1, <1>9
<1>11. ASSUME NEW k \in 1 .. n, NEW l \in 1 .. n, k < l PROVE <<at[k], at[l]>> \in R
  <2>1. at[k] \in S /\ at[l] \in S /\ place[at[k]] = k /\ place[at[l]] = l
    BY <1>7
  <2>2. at[k] # at[l]
    BY <1>11, <2>1
  <2>3. ~ (place[at[l]] < place[at[k]])
    BY <1>1, <1>11, <2>1
  <2>4. QED BY <1>3, <2>1, <2>2, <2>3 DEF TotalOn
<1>12. ASSUME NEW x \in S PROVE \E k \in 1 .. n : at[k] = x
  <2>1. place[x] \in 1 .. n
    BY <1>2
  <2>2. at[place[x]] = x
    BY <1>5, <1>7, <2>1
  <2>3. QED BY <2>1, <2>2
<1>13. QED BY <1>1, <1>10, <1>11, <1>12 DEF n, at

Increasing(R, s) == \A i, j \in 1 .. Len(s) : i < j => <<s[i], s[j]>> \in R
Members(s) == {s[i] : i \in 1 .. Len(s)}
FromTheFront(R, S, s) == \A x \in S : \A i \in 1 .. Len(s) : <<x, s[i]>> \in R => x \in Members(s)

\* A sequence in order that leaves out no member before one it has is the beginning
\* of the arrangement, and all of it when it leaves out none.
LEMMA FrontOfArrangement ==
  ASSUME NEW R, NEW S, IsFiniteSet(S), TotalOn(R, S),
         NEW s \in Seq(S), Increasing(R, s), FromTheFront(R, S, s)
  PROVE  /\ Len(s) \in Nat /\ Len(s) <= Cardinality(S)
         /\ \A i \in 1 .. Len(s) : s[i] = InPlace(R, S)[i]
         /\ S \subseteq Members(s) => Len(s) = Cardinality(S)
<1> DEFINE n == Cardinality(S)
           at == InPlace(R, S)
           all == 1 .. Len(s)
<1>1. /\ at \in Seq(S) /\ Len(at) = n /\ n \in Nat
      /\ \A k, l \in 1 .. n : k < l => <<at[k], at[l]>> \in R
      /\ \A x \in S : \E k \in 1 .. n : at[k] = x
  BY InPlaceOrder
<1> HIDE DEF at
<1>2. Len(s) \in Nat /\ s \in [all -> S] /\ \A i \in all : s[i] \in S
  <2>1. Len(s) \in Nat /\ s \in [all -> S]
    BY LenProperties
  <2>2. QED BY <2>1, ElementOfSeq
<1>3. \A i, j \in all : s[i] = s[j] => i = j
  <2> SUFFICES ASSUME NEW i \in all, NEW j \in all, i # j PROVE s[i] # s[j]
    OBVIOUS
  <2>1. <<s[i], s[j]>> \in R \/ <<s[j], s[i]>> \in R
    BY <1>2 DEF Increasing
  <2>2. s[i] \in S /\ s[j] \in S
    BY <1>2
  <2>3. QED BY <2>1, <2>2 DEF TotalOn
<1>4. IsFiniteSet(all) /\ Cardinality(all) = Len(s)
  <2>1. 1 \in Int /\ Len(s) \in Int
    BY <1>2
  <2>2. IsFiniteSet(1 .. Len(s)) /\ Cardinality(1 .. Len(s)) = IF 1 > Len(s) THEN 0 ELSE Len(s) - 1 + 1
    BY <2>1, FS_Interval
  <2>3. QED BY <1>2, <2>2
<1>5. Len(s) <= n
  <2> HIDE DEF all
  <2>1. s \in Injection(all, S)
    BY <1>2, <1>3, Zenon DEF Injection, IsInjective
  <2>2. QED BY <1>4, <2>1, FS_Injection
<1>6. ASSUME S \subseteq Members(s) PROVE Len(s) = n
  <2>1. \A x \in S : \E i \in all : s[i] = x
    BY <1>6 DEF Members
  <2> HIDE DEF all
  <2>2. s \in Surjection(all, S)
    BY <1>2, <2>1 DEF Surjection
  <2>3. n <= Len(s)
    BY <1>4, <2>2, FS_Surjection
  <2>4. QED BY <1>1, <1>2, <1>5, <2>3
<1>7. ASSUME \E i \in 1 .. Len(s) : s[i] # at[i] PROVE FALSE
  <2> DEFINE T == {i \in 1 .. Len(s) : s[i] # at[i]}
  <2>1. T \in SUBSET Nat /\ T # {}
    BY <1>7
  <2>2. PICK i \in T : \A j \in T : i <= j
    <3> HIDE DEF T
    <3>1. QED BY <2>1, Least
  <2>3. i \in 1 .. Len(s) /\ s[i] # at[i] /\ i \in 1 .. n /\ i \in Nat
    BY <1>1, <1>2, <1>5, <2>2
  <2>4. \A j \in 1 .. Len(s) : j < i => s[j] = at[j]
    <3> SUFFICES ASSUME NEW j \in 1 .. Len(s), j < i, s[j] # at[j] PROVE FALSE
      OBVIOUS
    <3>1. i <= j
      BY <2>2
    <3>2. QED BY <2>3, <3>1
  <2>5. s[i] \in S /\ at[i] \in S
    BY <1>1, <1>2, <2>3, ElementOfSeq
  <2>6. PICK k \in 1 .. n : at[k] = s[i]
    BY <1>1, <2>5
  <2>7. k \in Nat /\ k # i
    BY <1>1, <2>3, <2>6
  <2>8. CASE k < i
    <3>1. k \in 1 .. Len(s)
      BY <1>2, <2>3, <2>7, <2>8
    <3>2. s[k] = s[i]
      BY <2>4, <2>6, <2>8, <3>1
    <3>3. QED BY <1>3, <2>3, <2>7, <3>1, <3>2
  <2>9. CASE i < k
    <3>1. <<at[i], s[i]>> \in R
      BY <1>1, <2>3, <2>6, <2>9
    <3>2. at[i] \in Members(s)
      BY <2>3, <2>5, <3>1 DEF FromTheFront
    <3>3. PICK j \in 1 .. Len(s) : at[i] = s[j]
      BY <3>2 DEF Members
    <3>4. j \in Nat /\ j # i
      BY <1>2, <2>3, <3>3
    <3>5. CASE j < i
      <4>1. at[j] = at[i] /\ j \in 1 .. n
        <5>1. j \in 1 .. n
          BY <1>1, <2>3, <3>4, <3>5, <3>3
        <5>2. QED BY <2>4, <3>3, <3>5, <5>1
      <4>2. <<at[j], at[i]>> \in R
        BY <1>1, <2>3, <3>5, <4>1
      <4>3. QED BY <2>5, <4>1, <4>2 DEF TotalOn
    <3>6. CASE i < j
      <4>1. <<s[i], at[i]>> \in R
        BY <2>3, <3>3, <3>6 DEF Increasing
      <4>2. QED BY <2>3, <2>5, <3>1, <4>1 DEF TotalOn
    <3>7. QED BY <2>3, <3>4, <3>5, <3>6
  <2>10. QED BY <2>3, <2>7, <2>8, <2>9
<1>8. QED BY <1>2, <1>5, <1>6, <1>7 DEF at
-----------------------------------------------------------------------------
\* The pull contract.

\* A shorter sequence that agrees with another at each of its places begins it.
LEMMA PrefixByElement ==
  ASSUME NEW S, NEW s \in Seq(S), NEW t \in Seq(S), Len(s) <= Len(t),
         \A i \in 1 .. Len(s) : s[i] = t[i]
  PROVE  IsPrefix(s, t)
<1> DEFINE n == Len(s)
<1>1. n \in Nat /\ Len(t) \in Nat
  BY LenProperties
<1>2. \A i \in 1 .. n : s[i] \in S /\ t[i] \in S
  <2>1. \A i \in 1 .. n : i \in 1 .. Len(t)
    BY <1>1
  <2>2. QED BY <2>1, ElementOfSeq
<1> HIDE DEF n
<1>3. /\ SubSeq(s, 1, n) \in Seq(S) /\ Len(SubSeq(s, 1, n)) = IF 1 <= n THEN n - 1 + 1 ELSE 0
      /\ \A i \in 1 .. n - 1 + 1 : SubSeq(s, 1, n)[i] = s[1 + i - 1]
  BY <1>1, <1>2, SubSeqProperties
<1>4. /\ SubSeq(t, 1, n) \in Seq(S) /\ Len(SubSeq(t, 1, n)) = IF 1 <= n THEN n - 1 + 1 ELSE 0
      /\ \A i \in 1 .. n - 1 + 1 : SubSeq(t, 1, n)[i] = t[1 + i - 1]
  BY <1>1, <1>2, SubSeqProperties
<1>5. \A i \in 1 .. n : SubSeq(s, 1, n)[i] = SubSeq(t, 1, n)[i]
  <2> SUFFICES ASSUME NEW i \in 1 .. n PROVE SubSeq(s, 1, n)[i] = SubSeq(t, 1, n)[i]
    OBVIOUS
  <2>1. i \in 1 .. n - 1 + 1 /\ 1 + i - 1 = i
    BY <1>1
  <2>2. s[i] = t[i]
    BY DEF n
  <2>3. QED BY <1>3, <1>4, <2>1, <2>2
<1>6. Len(SubSeq(s, 1, n)) = n /\ Len(SubSeq(t, 1, n)) = n
  BY <1>1, <1>3, <1>4
<1>7. SubSeq(s, 1, n) = SubSeq(t, 1, n)
  BY <1>3, <1>4, <1>5, <1>6, SeqEqual
<1>8. QED BY <1>7 DEF IsPrefix, n

\* The order of the answer, as a set of pairs.
RowOrder == {p \in Candidates \X Candidates : Before(p[1], p[2])}

\* Of two rows of the answer one comes first.
LEMMA RowOrderTotal ==
  ASSUME TypeOK
  PROVE  /\ TotalOn(RowOrder, Pairs)
         /\ \A x, y \in Pairs : <<x, y>> \in RowOrder <=> Before(x, y)
         /\ Pairs \in SUBSET Candidates
<1>1. Pairs \in SUBSET Candidates
  BY DEF Pairs
<1>2. \A x, y \in Pairs : <<x, y>> \in RowOrder <=> Before(x, y)
  BY <1>1 DEF RowOrder
<1>3. \A x \in Pairs : /\ ProbeOf(x) \in Nat /\ BuildOf(x) \in Nat
                       /\ x = Pair(ProbeOf(x), BuildOf(x))
  <2> SUFFICES ASSUME NEW x \in Pairs
               PROVE  /\ ProbeOf(x) \in Nat /\ BuildOf(x) \in Nat
                      /\ x = Pair(ProbeOf(x), BuildOf(x))
    OBVIOUS
  <2>1. x \in Candidates
    BY <1>1
  <2>2. /\ ProbeOf(x) \in 1 .. Len(Probe) /\ BuildOf(x) \in 1 .. Len(Build)
        /\ x = Pair(ProbeOf(x), BuildOf(x))
    BY <2>1, RowSides
  <2>3. Len(Probe) \in Nat /\ Len(Build) \in Nat
    BY InputsAreRows
  <2>4. QED BY <2>2, <2>3
<1>4. ASSUME NEW a \in Pairs, NEW b \in Pairs, NEW c \in Pairs
      PROVE  /\ ~ Before(a, a)
             /\ a # b => (Before(a, b) <=> ~ Before(b, a))
             /\ Before(a, b) /\ Before(b, c) => Before(a, c)
  <2>1. /\ ProbeOf(a) \in Nat /\ ProbeOf(b) \in Nat /\ ProbeOf(c) \in Nat
        /\ BuildOf(a) \in Nat /\ BuildOf(b) \in Nat /\ BuildOf(c) \in Nat
    BY <1>3
  <2>2. a # b => ProbeOf(a) # ProbeOf(b) \/ BuildOf(a) # BuildOf(b)
    BY <1>3
  <2>3. QED BY <2>1, <2>2 DEF Before
<1>5. TotalOn(RowOrder, Pairs)
  BY <1>2, <1>4 DEF TotalOn
<1>6. QED BY <1>1, <1>2, <1>5

\* The matching pairs are finitely many.
LEMMA PairsFinite ==
  ASSUME TypeOK
  PROVE  IsFiniteSet(Pairs)
<1>1. Len(left) \in Nat /\ Len(right) \in Nat
  <2>1. left \in Seq(Keys \cup {NullKey}) /\ right \in Seq(Keys \cup {NullKey})
    BY HashJoinAssumption DEF TypeOK
  <2>2. QED BY <2>1, LenProperties
<1>2. IsFiniteSet(1 .. Len(left)) /\ IsFiniteSet(1 .. Len(right))
  BY <1>1, FS_Interval
<1>3. IsFiniteSet(Candidates)
  BY <1>2, FS_Product DEF Candidates
<1>4. QED BY <1>3, RowOrderTotal, FS_Subset

\* The answer is the arrangement of the pairs.
LEMMA AnswerInPlace ==
  ASSUME TypeOK
  PROVE  /\ Answer = InPlace(RowOrder, Pairs)
         /\ Answer \in Seq(Pairs) /\ Len(Answer) = Cardinality(Pairs)
         /\ Cardinality(Pairs) \in Nat
<1> DEFINE place == [row \in Pairs |-> 1 + Cardinality({x \in Pairs : Before(x, row)})]
<1>1. \A row \in Pairs : {x \in Pairs : Before(x, row)} = Ahead(RowOrder, Pairs, row)
  BY RowOrderTotal DEF Ahead
<1>2. place = Places(RowOrder, Pairs)
  BY <1>1 DEF Places
<1>3. Answer = [n \in 1 .. Cardinality(Pairs) |-> CHOOSE row \in Pairs : place[row] = n]
  BY DEF Answer
<1> HIDE DEF place
<1>4. Answer = InPlace(RowOrder, Pairs)
  BY <1>2, <1>3 DEF InPlace
<1>5. QED BY <1>4, RowOrderTotal, PairsFinite, InPlaceOrder

\* What comes before a row behind the cursor is behind it too.
LEMMA BehindClosed ==
  ASSUME TypeOK, NEW x \in Candidates, NEW y \in Candidates, Before(x, y), Behind(y)
  PROVE  Behind(x)
<1>1. /\ ProbeOf(x) \in Nat /\ ProbeOf(y) \in Nat /\ BuildOf(x) \in Nat /\ BuildOf(y) \in Nat
  <2>1. /\ ProbeOf(x) \in 1 .. Len(Probe) /\ BuildOf(x) \in 1 .. Len(Build)
        /\ ProbeOf(y) \in 1 .. Len(Probe) /\ BuildOf(y) \in 1 .. Len(Build)
    BY RowSides
  <2>2. Len(Probe) \in Nat /\ Len(Build) \in Nat
    BY InputsAreRows
  <2>3. QED BY <2>1, <2>2
<1>2. ProbeRow \in Nat
  BY Positions
<1>3. match # NoRow /\ cursor <= Len(heads) => match \in 1 .. Len(store)
  BY Positions DEF NoRow
<1>4. match # NoRow /\ cursor <= Len(heads) => store[match] \in Nat
  <2>1. match \in 1 .. Len(store) => store[match] \in 1 .. Len(Build)
    BY StoredRows
  <2>2. Len(Build) \in Nat
    BY InputsAreRows
  <2>3. QED BY <1>3, <2>1, <2>2
<1>5. QED BY <1>1, <1>2, <1>4 DEF Before, Behind

\* A sequence is one over any set that has its members.
LEMMA SeqOfMembers ==
  ASSUME NEW T, NEW s \in Seq(T), NEW S, \A i \in 1 .. Len(s) : s[i] \in S
  PROVE  s \in Seq(S)
<1>1. Len(s) \in Nat /\ s = [i \in 1 .. Len(s) |-> s[i]]
  BY LenProperties
<1>2. s \in [1 .. Len(s) -> S]
  BY <1>1
<1>3. QED BY <1>1, <1>2, SeqDef

\* Unless something threw, what has been given begins the answer.
LEMMA GivenBeginsAnswer ==
  ASSUME IInv, verdict # "threw"
  PROVE  /\ Len(Given) <= Len(Answer)
         /\ \A i \in 1 .. Len(Given) : Given[i] = Answer[i]
         /\ IsPrefix(Given, Answer)
         /\ Pairs \subseteq Members(Given) => Given = Answer
<1>1. TypeOK /\ PairsGenuineAndOnce /\ NothingSkipped /\ \A x \in 1 .. Len(Given) : Behind(Given[x])
  BY DEF IInv
<1>2. Given \in Seq(Nat \X Nat) /\ Len(Given) \in Nat
  BY <1>1, GivenIsPairs
<1>3. \A i \in 1 .. Len(Given) : Given[i] \in Pairs
  BY <1>1 DEF PairsGenuineAndOnce, Pairs
<1>4. Given \in Seq(Pairs)
  BY <1>2, <1>3, SeqOfMembers
<1>5. Increasing(RowOrder, Given)
  <2>1. \A i, j \in 1 .. Len(Given) : i < j => Before(Given[i], Given[j])
    BY <1>1 DEF PairsGenuineAndOnce
  <2>2. QED BY <1>1, <1>3, <2>1, RowOrderTotal DEF Increasing
<1>6. FromTheFront(RowOrder, Pairs, Given)
  <2> SUFFICES ASSUME NEW x \in Pairs, NEW i \in 1 .. Len(Given), <<x, Given[i]>> \in RowOrder
               PROVE  x \in Members(Given)
    BY DEF FromTheFront
  <2>1. x \in Candidates /\ Matching(x) /\ Given[i] \in Candidates /\ Before(x, Given[i])
    BY <1>1, <1>3, RowOrderTotal DEF Pairs
  <2>2. Behind(Given[i])
    BY <1>1
  <2>3. Behind(x)
    BY <1>1, <2>1, <2>2, BehindClosed
  <2>4. \E n \in 1 .. Len(Given) : Given[n] = x
    BY <1>1, <2>1, <2>3 DEF NothingSkipped
  <2>5. QED BY <2>4 DEF Members
<1>7. /\ Len(Given) <= Cardinality(Pairs)
      /\ \A i \in 1 .. Len(Given) : Given[i] = InPlace(RowOrder, Pairs)[i]
      /\ Pairs \subseteq Members(Given) => Len(Given) = Cardinality(Pairs)
  BY <1>1, <1>4, <1>5, <1>6, RowOrderTotal, PairsFinite, FrontOfArrangement
<1>8. Answer = InPlace(RowOrder, Pairs) /\ Answer \in Seq(Pairs) /\ Len(Answer) = Cardinality(Pairs)
  BY <1>1, AnswerInPlace
<1>9. Len(Given) <= Len(Answer) /\ \A i \in 1 .. Len(Given) : Given[i] = Answer[i]
  BY <1>7, <1>8
<1>10. IsPrefix(Given, Answer)
  BY <1>4, <1>8, <1>9, PrefixByElement
<1>11. Pairs \subseteq Members(Given) => Given = Answer
  BY <1>4, <1>7, <1>8, <1>9, SeqEqual
<1>12. QED BY <1>9, <1>10, <1>11
\* In particular it is a prefix of it, and all of it at the end.
LEMMA GivenIsPrefix == IInv /\ verdict # "threw" => IsPrefix(Given, Answer)
  BY GivenBeginsAnswer

LEMMA AnswerAtEnd == IInv /\ verdict = "end" => Given = Answer
  BY GivenAtEnd, GivenBeginsAnswer DEF Pairs, Members

\* Once the end is told no batch is begun that could be delivered.
NothingAfterEnd == verdict = "end" => out = << >>

LEMMA EndStaysQuiet == IInv /\ NothingAfterEnd /\ [Next]_vars => NothingAfterEnd'
<1> SUFFICES ASSUME IInv, NothingAfterEnd, [Next]_vars PROVE NothingAfterEnd'
  OBVIOUS
<1>1. CASE Call
  BY <1>1 DEF Call, NothingAfterEnd
<1>2. CASE BuildSkip \/ BuildRow \/ BuildDone \/ Advance \/ \E n \in 1 .. ChildCapacity : LoadProbe(n)
  BY <1>2 DEF BuildSkip, BuildRow, BuildDone, Advance, LoadProbe, caller, NothingAfterEnd
<1>3. CASE Emit
  <2>1. /\ cursor \in Nat /\ Len(heads) \in Nat /\ verdict \in {"more", "end", "threw"}
    BY Positions DEF IInv, TypeOK
  <2>2. /\ store # << >> /\ cursor <= Len(heads) /\ verdict' = verdict
    BY <1>3 DEF Emit, AtRow, caller
  <2>3. verdict # "end"
    BY <2>1, <2>2 DEF IInv, NothingSkipped
  <2>4. QED BY <2>2, <2>3 DEF NothingAfterEnd
<1>4. CASE NothingStored \/ BatchFull \/ ProbeExhausted
  <2>1. out' = out /\ verdict' = Told
    BY <1>4 DEF NothingStored, BatchFull, ProbeExhausted, Return
  <2>2. QED BY <2>1 DEF Told, NothingAfterEnd
<1>5. CASE Fault
  BY <1>5 DEF Fault, BuildThrow, ProbeThrow, NothingAfterEnd
<1>6. CASE UNCHANGED vars
  BY <1>6 DEF vars, NothingAfterEnd
<1>7. QED BY <1>1, <1>2, <1>3, <1>4, <1>5, <1>6 DEF Next, Work

\* The answer is that of the two inputs, which no step changes.
LEMMA AnswerKept ==
  ASSUME UNCHANGED inputs
  PROVE  Answer' = Answer
<1> DEFINE probeOf(r, row) == IF r THEN row[1] ELSE row[2]
           buildOf(r, row) == IF r THEN row[2] ELSE row[1]
           before(r, x, y) == \/ probeOf(r, x) < probeOf(r, y)
                              \/ probeOf(r, x) = probeOf(r, y) /\ buildOf(r, x) < buildOf(r, y)
           pairs(s, t) == {row \in (1 .. Len(s)) \X (1 .. Len(t)) :
                             s[row[1]] = t[row[2]] /\ s[row[1]] # NullKey}
           of(s, t, r) ==
             LET place == [row \in pairs(s, t) |->
                             1 + Cardinality({x \in pairs(s, t) : before(r, x, row)})]
             IN  [n \in 1 .. Cardinality(pairs(s, t)) |->
                    CHOOSE row \in pairs(s, t) : place[row] = n]
<1>1. left' = left /\ right' = right /\ buildRight' = buildRight
  BY DEF inputs
<1>2. Answer = of(left, right, buildRight)
  BY DEF Answer, Pairs, Candidates, Matching, Before, ProbeOf, BuildOf
<1>3. Answer' = of(left', right', buildRight')
  BY DEF Answer, Pairs, Candidates, Matching, Before, ProbeOf, BuildOf
<1> HIDE DEF of
<1>4. QED BY <1>1, <1>2, <1>3

\* Nothing has been given at first.
LEMMA InitContract ==
  ASSUME Init
  PROVE  Contract!Init
  BY DEF Init, Contract!Init

\* next() returns: a batch is the next piece of the answer, and false is told when
\* and only when the answer has been delivered; after an exception no row is taken back.
LEMMA ReturnContract ==
  ASSUME IInv, NothingAfterEnd, NothingStored \/ BatchFull \/ ProbeExhausted, IInv'
  PROVE  [Contract!Next]_<<Answer, delivered, verdict>>
<1>1. /\ UNCHANGED inputs /\ pc = "emit" /\ pc' = "idle"
      /\ delivered' = delivered \o out /\ verdict' = Told
      /\ BatchFull \/ store = << >> \/ (probed = Len(Probe) /\ cursor > Len(heads))
  BY DEF NothingStored, BatchFull, ProbeExhausted, NeedsProbe, Return
<1>2. Answer' = Answer
  BY <1>1, AnswerKept
<1>3. /\ delivered \in Seq(Nat \X Nat) /\ out \in Seq(Nat \X Nat)
      /\ Len(delivered) \in Nat /\ Len(out) \in Nat
      /\ Len(out) <= Capacity /\ Capacity \in Nat \ {0}
      /\ verdict \in {"more", "end", "threw"}
  <2>1. /\ delivered \in Seq(Nat \X Nat) /\ out \in Seq(Nat \X Nat) /\ Len(out) <= Capacity
        /\ verdict \in {"more", "end", "threw"}
    BY DEF IInv, TypeOK
  <2>2. QED BY <2>1, LenProperties, HashJoinAssumption
<1>4. /\ delivered' \in Seq(Nat \X Nat) /\ Len(delivered') = Len(delivered) + Len(out)
      /\ \A i \in 1 .. Len(delivered) : delivered'[i] = delivered[i]
  <2>1. /\ delivered' \in Seq(Nat \X Nat) /\ Len(delivered') = Len(delivered) + Len(out)
        /\ \A i \in 1 .. Len(delivered) + Len(out) :
             delivered'[i] = IF i <= Len(delivered) THEN delivered[i] ELSE out[i - Len(delivered)]
    BY <1>1, <1>3, ConcatProperties
  <2>2. \A i \in 1 .. Len(delivered) : i \in 1 .. Len(delivered) + Len(out) /\ i <= Len(delivered)
    BY <1>3
  <2>3. QED BY <2>1, <2>2
<1>5. IsPrefix(delivered, delivered')
  <2>1. Len(delivered) <= Len(delivered')
    BY <1>3, <1>4
  <2>2. QED BY <1>3, <1>4, <2>1, PrefixByElement
<1>6. Given' = delivered'
  BY <1>1, <1>4, ConcatProperties DEF Given
<1>7. CASE verdict = "threw"
  <2>1. verdict' = verdict
    BY <1>1, <1>7 DEF Told
  <2>2. QED BY <1>2, <1>5, <1>7, <2>1 DEF Contract!Next, Contract!Salvage, Contract!IsPrefix, IsPrefix
<1>8. CASE out = << >>
  <2>1. delivered' = delivered
    BY <1>1, <1>3, <1>8, ConcatProperties
  <2>2. CASE verdict = "end"
    BY <1>1, <1>2, <2>1, <2>2 DEF Told
  <2>3. CASE verdict = "more"
    <3>1. verdict' = "end"
      BY <1>1, <1>8, <2>3 DEF Told
    <3>2. (IInv /\ verdict = "end" => Given = Answer)'
      BY AnswerAtEnd, PTL
    <3>3. Given' = Answer'
      BY <3>1, <3>2
    <3>4. QED BY <1>2, <1>6, <2>1, <2>3, <3>1, <3>3 DEF Contract!Next, Contract!Finish
  <2>4. QED BY <1>3, <1>7, <2>2, <2>3
<1>9. CASE out # << >>
  <2>1. verdict # "end"
    BY <1>9 DEF NothingAfterEnd
  <2>2. CASE verdict = "more"
    <3>1. verdict' = "more"
      BY <1>1, <1>9, <2>2 DEF Told
    <3>2. Len(out) # 0
      BY <1>3, <1>9, EmptySeq
    <3>3. Len(delivered') - Len(delivered) \in 1 .. Capacity
      BY <1>3, <1>4, <3>2
    <3>4. (IInv /\ verdict # "threw" => IsPrefix(Given, Answer))'
      BY GivenIsPrefix, PTL
    <3>5. IsPrefix(delivered', Answer)
      BY <1>2, <1>6, <3>1, <3>4
    <3>6. QED BY <1>2, <1>5, <2>2, <3>1, <3>3, <3>5
              DEF Contract!Next, Contract!Deliver, Contract!IsPrefix, IsPrefix
  <2>3. QED BY <1>3, <1>7, <2>1, <2>2
<1>10. QED BY <1>8, <1>9

\* Every other step hands over nothing, and tells no more than an exception, which
\* does not come once the end is told.
LEMMA StepContract ==
  ASSUME IInv, NothingAfterEnd, [Next]_vars, IInv'
  PROVE  [Contract!Next]_<<Answer, delivered, verdict>>
<1>1. CASE NothingStored \/ BatchFull \/ ProbeExhausted
  BY <1>1, ReturnContract
<1>2. CASE \/ Call \/ BuildSkip \/ BuildRow \/ BuildDone \/ Advance \/ Emit
           \/ \E n \in 1 .. ChildCapacity : LoadProbe(n)
  <2>1. UNCHANGED inputs /\ UNCHANGED <<delivered, verdict>>
    BY <1>2 DEF Call, BuildSkip, BuildRow, BuildDone, Advance, Emit, LoadProbe, caller
  <2>2. QED BY <2>1, AnswerKept
<1>3. CASE Fault
  <2>1. UNCHANGED inputs /\ delivered' = delivered /\ verdict' = "threw"
    BY <1>3 DEF Fault, BuildThrow, ProbeThrow
  <2>2. verdict \in {"more", "threw"}
    <3>1. verdict \in {"more", "end", "threw"}
      BY DEF IInv, TypeOK
    <3>2. BuildThrow => verdict = "more"
      BY DEF BuildThrow, IInv, BuildComesFirst
    <3>3. ProbeThrow => verdict # "end"
      BY DEF ProbeThrow
    <3>4. QED BY <1>3, <3>1, <3>2, <3>3 DEF Fault
  <2>3. Answer' = Answer
    BY <2>1, AnswerKept
  <2>4. QED BY <2>1, <2>2, <2>3 DEF Contract!Next, Contract!Throw
<1>4. CASE UNCHANGED vars
  <2>1. UNCHANGED inputs /\ UNCHANGED <<delivered, verdict>>
    BY <1>4 DEF vars, inputs
  <2>2. QED BY <2>1, AnswerKept
<1>5. QED BY <1>1, <1>2, <1>3, <1>4 DEF Next, Work

\* The join gives its matching pairs in probe order and then in build order, in nonempty
\* batches of at most Capacity, tells the end when it has given the last of them, and
\* after an exception of a child takes none back.
THEOREM JoinKeepsContract == Spec => Contract!Safety
<1>1. Init => Contract!Init /\ NothingAfterEnd
  BY InitContract DEF Init, NothingAfterEnd
<1>2. IInv /\ NothingAfterEnd /\ [Next]_vars => NothingAfterEnd'
  BY EndStaysQuiet
<1>3. IInv /\ NothingAfterEnd /\ [Next]_vars /\ IInv' => [Contract!Next]_<<Answer, delivered, verdict>>
  BY StepContract
<1>4. QED BY <1>1, <1>2, <1>3, JoinInvariance, PTL DEF Spec, Contract!Safety
=============================================================================
