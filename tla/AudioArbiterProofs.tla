------------------------- MODULE AudioArbiterProofs -------------------------
(***************************************************************************)
(* Proofs about the pool and the arbiter, for any number of blocks, slots, *)
(* tracks, VMs and generations, and the refinement of ObjectLifetime; then *)
(* about the algorithms that copy and store: packed masks and maps, the    *)
(* free map, and the bytes of the pool. The last three parts have an       *)
(* inductive invariant of their question each (BitsKnown, PoolKnown,       *)
(* StreamsKnown).                                                          *)
(***************************************************************************)
EXTENDS AudioArbiter, Algorithms, FiniteSetTheorems, SequenceTheorems, TLAPS

-----------------------------------------------------------------------------
(* Generations and the history of a slot or track.                         *)

\* The next generation is a generation, and not the current one.
LEMMA NextGenerationType ==
  ASSUME NEW g \in Gens
  PROVE  NextGeneration(g) \in Gens /\ NextGeneration(g) # g
BY PoolAssumption DEF NextGeneration, Gens

\* A history contains generations, none of them the current one.
LEMMA HistoryDiffers ==
  ASSUME NEW g \in Gens, NEW past \in Seq(Gens), IsHistory(past, g),
         NEW i \in DOMAIN past
  PROVE  past[i] # g
<1> DEFINE j == Len(past) + 1 - i
<1>1. Len(past) \in Nat /\ i \in 1 .. Len(past)
  OBVIOUS
<1>2. j \in 1 .. Len(past) /\ i = Len(past) + 1 - j
  BY <1>1
<1>3. past[i] = IF g > j THEN g - j ELSE g - j + Generations - 1
  BY <1>1, <1>2 DEF IsHistory
<1>4. j <= Generations - 2
  BY <1>1, <1>2, PoolAssumption DEF IsHistory
<1> QED
  BY <1>1, <1>2, <1>3, <1>4, PoolAssumption DEF Gens

\* Ending a generation keeps the history a history of the next one.
LEMMA RememberHistory ==
  ASSUME NEW g \in Gens, NEW past \in Seq(Gens), IsHistory(past, g)
  PROVE  /\ Remember(past, g) \in Seq(Gens)
         /\ IsHistory(Remember(past, g), NextGeneration(g))
<1> DEFINE all == Append(past, g)
           n == NextGeneration(g)
           entry(i) == IF n > i THEN n - i ELSE n - i + Generations - 1
<1>0. Generations \in Nat /\ Generations > 2 /\ g \in Nat /\ n \in Nat
      /\ g >= 1 /\ g <= Generations - 1
      /\ n = IF g = Generations - 1 THEN 1 ELSE g + 1
  BY PoolAssumption DEF Gens, NextGeneration
<1>1. all \in Seq(Gens) /\ Len(all) = Len(past) + 1 /\ Len(past) \in Nat
  OBVIOUS
<1>2. Len(past) <= Generations - 2
  BY DEF IsHistory
<1>3. ASSUME NEW i \in 1 .. Len(all), i <= Generations - 2
      PROVE  all[Len(all) + 1 - i] = entry(i)
  <2>1. CASE i = 1
    <3>1. all[Len(all) + 1 - i] = g
      BY <1>1, <2>1
    <3> QED
      BY <1>0, <2>1, <3>1
  <2>2. CASE i # 1
    <3>1. i - 1 \in 1 .. Len(past) /\ i \in Nat
      BY <1>1, <2>2
    <3>2. all[Len(all) + 1 - i] = past[Len(past) + 1 - (i - 1)]
      <4>1. Len(all) + 1 - i = Len(past) + 1 - (i - 1)
            /\ Len(all) + 1 - i \in 1 .. Len(past)
        BY <1>1, <3>1
      <4> QED
        BY <1>1, <4>1
    <3>3. past[Len(past) + 1 - (i - 1)] =
            IF g > i - 1 THEN g - (i - 1) ELSE g - (i - 1) + Generations - 1
      BY <3>1 DEF IsHistory
    <3> QED
      BY <1>0, <1>2, <1>3, <3>1, <3>2, <3>3
  <2> QED
    BY <2>1, <2>2
<1>4. CASE Len(all) <= Generations - 2
  <2>1. Remember(past, g) = all
    BY <1>0, <1>1, <1>4 DEF Remember
  <2> HIDE DEF all
  <2> QED
    BY <1>0, <1>1, <1>3, <1>4, <2>1 DEF IsHistory
<1>5. CASE ~(Len(all) <= Generations - 2)
  <2>1. Remember(past, g) = Tail(all)
    BY <1>0, <1>1, <1>5 DEF Remember
  <2> HIDE DEF all
  <2>2. all # <<>>
    BY <1>1
  <2>3. /\ Tail(all) \in Seq(Gens)
        /\ Len(Tail(all)) = Len(all) - 1
        /\ \A i \in 1 .. Len(Tail(all)) : Tail(all)[i] = all[i + 1]
    BY <1>1, <2>2, HeadTailProperties
  <2>4. Len(Tail(all)) = Generations - 2
    BY <1>0, <1>1, <1>2, <1>5, <2>3
  <2>5. ASSUME NEW i \in 1 .. Len(Tail(all))
        PROVE  Tail(all)[Len(Tail(all)) + 1 - i] = entry(i)
    <3>1. /\ i \in 1 .. Len(all) /\ i <= Generations - 2
          /\ Len(Tail(all)) + 1 - i \in 1 .. Len(Tail(all))
          /\ (Len(Tail(all)) + 1 - i) + 1 = Len(all) + 1 - i
      BY <1>0, <1>1, <2>3, <2>4
    <3> QED
      BY <1>3, <2>3, <3>1
  <2> QED
    BY <1>0, <2>1, <2>3, <2>4, <2>5 DEF IsHistory
<1> QED
  BY <1>0, <1>1, <1>4, <1>5

-----------------------------------------------------------------------------
(* The pool.                                                               *)

\* What IInv says of the pool alone.
PoolInv ==
  /\ usedMap \subseteq Blocks
  /\ freeBlocks \in Nat
  /\ objects \in [Slots -> ObjectType]
  /\ generations \in [Slots -> Gens]
  /\ deadObjects \in [Slots -> Seq(Gens)]
  /\ BlockAccounting
  /\ SlotsCoherent
  /\ \A s \in Slots : IsHistory(deadObjects[s], generations[s])
  /\ \A s \in Slots : InUse(s) => objects[s].refcount > 0

\* The free counter is a number, and no block is lost.
LEMMA FreeBlocksType ==
  ASSUME usedMap \subseteq Blocks
  PROVE  /\ IsFiniteSet(usedMap)
         /\ Cardinality(Blocks) - Cardinality(usedMap) \in Nat
BY PoolAssumption, FS_Subset, FS_CardinalityType

\* audio_pool_alloc() preserves the pool's invariant.
LEMMA AllocPool ==
  ASSUME PoolInv, NEW s \in Slots, NEW vm \in VMs, NEW need \in Nat,
         need > 0, NEW chain, AllocObject(s, vm, need, chain)
  PROVE  PoolInv'
<1> DEFINE obj == [inUse |-> TRUE, refcount |-> 1, generation |-> generations[s],
                   ownerVm |-> vm, chain |-> chain]
<1> USE DEF PoolInv
<1>1. /\ ~InUse(s)
      /\ chain \subseteq Blocks /\ chain \cap usedMap = {}
      /\ Cardinality(chain) = need
      /\ usedMap' = usedMap \cup chain /\ freeBlocks' = freeBlocks - need
      /\ objects' = [objects EXCEPT ![s] = obj]
      /\ generations' = generations /\ deadObjects' = deadObjects
  BY DEF AllocObject, IsFirstFreeSlot
<1>2. obj \in ObjectType /\ objects' \in [Slots -> ObjectType]
  BY <1>1, PoolAssumption DEF ObjectType, Gens
<1>3. objects'[s] = obj /\ \A r \in Slots \ {s} : objects'[r] = objects[r]
  BY <1>1
<1>4. BlockAccounting'
  <2>1. \A r, q \in Slots : r # q => objects'[r].chain \cap objects'[q].chain = {}
    BY <1>1, <1>3 DEF BlockAccounting
  <2>2. \A b \in Blocks : b \in usedMap' <=> \E r \in Slots : b \in objects'[r].chain
    BY <1>1, <1>3 DEF BlockAccounting, SlotsCoherent
  <2>3. /\ IsFiniteSet(usedMap) /\ IsFiniteSet(chain)
        /\ Cardinality(usedMap) \in Nat /\ Cardinality(Blocks) \in Nat
    BY <1>1, PoolAssumption, FS_Subset, FS_CardinalityType
  <2>4. Cardinality(usedMap \cup chain) = Cardinality(usedMap) + need
    <3>0. usedMap \cap chain = {} /\ Cardinality(chain) = need
      BY <1>1
    <3>1. Cardinality(usedMap \cap chain) = 0
      BY <3>0, FS_EmptySet
    <3>2. Cardinality(usedMap \cup chain) =
            Cardinality(usedMap) + Cardinality(chain) - Cardinality(usedMap \cap chain)
      BY <2>3, FS_Union
    <3> QED
      BY <2>3, <3>0, <3>1, <3>2
  <2> QED
    BY <1>1, <2>1, <2>2, <2>3, <2>4 DEF BlockAccounting
<1>5. freeBlocks' \in Nat /\ usedMap' \in SUBSET Blocks
  <2>1. usedMap' \subseteq Blocks
    BY <1>1
  <2> QED
    BY <1>4, <2>1, FreeBlocksType, PoolAssumption, FS_Subset, FS_CardinalityType
    DEF BlockAccounting
<1>6. SlotsCoherent'
  BY <1>1, <1>3 DEF SlotsCoherent, InUse
<1>7. \A r \in Slots : InUse(r)' => objects'[r].refcount > 0
  <2> SUFFICES ASSUME NEW r \in Slots, objects'[r].inUse
               PROVE  objects'[r].refcount > 0
    BY DEF InUse
  <2>1. CASE r = s
    BY <1>3, <2>1
  <2>2. CASE r # s
    <3>1. objects'[r] = objects[r]
      BY <1>3, <2>2
    <3> QED
      BY <3>1 DEF InUse
  <2> QED
    BY <2>1, <2>2
<1> QED
  BY <1>1, <1>2, <1>4, <1>5, <1>6, <1>7

\* What is left of the pool after references are dropped: the surviving
\* objects keep their handles, the others are free slots again.
LEMMA DropObjects ==
  ASSUME PoolInv, NEW k \in [Slots -> Nat], DropReferences(k), NEW s \in Slots
  PROVE  /\ s \in LastDropped(k) => objects'[s] = FreeObject
         /\ s \notin LastDropped(k) =>
              /\ objects'[s].inUse = objects[s].inUse
              /\ objects'[s].generation = objects[s].generation
              /\ objects'[s].chain = objects[s].chain
              /\ objects'[s].refcount = objects[s].refcount - k[s]
BY DEF DropReferences, PoolInv, ObjectType

\* Dropping references preserves the pool's invariant: the blocks of exactly
\* the freed objects come back, and are counted once.
LEMMA DropPool ==
  ASSUME PoolInv, NEW k \in [Slots -> Nat], DropReferences(k),
         \A s \in Slots : ~InUse(s) => k[s] = 0
  PROVE  PoolInv'
<1> DEFINE freed == LastDropped(k)
           back == Reclaimed(freed)
<1>1. freed \subseteq Slots /\ \A s \in freed : InUse(s)
  BY DEF LastDropped
<1>2. /\ usedMap' = usedMap \ back
      /\ freeBlocks' = freeBlocks + Cardinality(back)
      /\ back \subseteq usedMap
      /\ \A b \in usedMap : b \in back <=> \E s \in freed : b \in objects[s].chain
  BY DEF Reclaimed, DropReferences
<1>3. \A s \in Slots :
        /\ s \in freed => objects'[s].chain = {} /\ ~objects'[s].inUse
        /\ s \notin freed => /\ objects'[s].chain = objects[s].chain
                              /\ objects'[s].inUse = objects[s].inUse
                              /\ objects'[s].generation = objects[s].generation
                              /\ objects'[s].refcount = objects[s].refcount - k[s]
  BY DropObjects DEF FreeObject
<1>4. objects' \in [Slots -> ObjectType]
  <2>1. objects' = [s \in Slots |-> IF s \in freed THEN FreeObject
                      ELSE [objects[s] EXCEPT !.refcount = @ - k[s]]]
    BY DEF DropReferences
  <2>2. FreeObject \in ObjectType
    BY PoolAssumption DEF FreeObject, ObjectType
  <2>3. ASSUME NEW s \in Slots, s \notin freed
        PROVE  [objects[s] EXCEPT !.refcount = @ - k[s]] \in ObjectType
    <3>1. objects[s].refcount - k[s] \in Nat
      BY <2>3 DEF LastDropped, PoolInv, ObjectType
    <3> QED
      BY <3>1 DEF PoolInv, ObjectType
  <2> QED
    BY <2>1, <2>2, <2>3
<1>5. BlockAccounting'
  <2>0. /\ \A r \in Slots, q \in Slots : r # q => objects[r].chain \cap objects[q].chain = {}
        /\ \A b \in Blocks : b \in usedMap <=> \E r \in Slots : b \in objects[r].chain
        /\ freeBlocks = Cardinality(Blocks) - Cardinality(usedMap)
        /\ usedMap \subseteq Blocks
    BY DEF PoolInv, BlockAccounting
  <2> HIDE DEF freed, back
  <2>1. ASSUME NEW r \in Slots, NEW q \in Slots, r # q
        PROVE  objects'[r].chain \cap objects'[q].chain = {}
    <3>1. objects[r].chain \cap objects[q].chain = {}
      BY <2>0, <2>1
    <3>2. /\ objects'[r].chain = {} \/ objects'[r].chain = objects[r].chain
          /\ objects'[q].chain = {} \/ objects'[q].chain = objects[q].chain
      BY <1>3
    <3> QED
      BY <3>1, <3>2
  <2>2. ASSUME NEW b \in Blocks
        PROVE  b \in usedMap' <=> \E r \in Slots : b \in objects'[r].chain
    <3>1. CASE \E r \in freed : b \in objects[r].chain
      <4>1. PICK r \in freed : b \in objects[r].chain
        BY <3>1
      <4>2. r \in Slots /\ b \in usedMap
        BY <1>1, <2>0, <4>1
      <4>3. b \notin usedMap'
        BY <1>2, <4>1, <4>2
      <4>4. ASSUME NEW q \in Slots PROVE b \notin objects'[q].chain
        <5>1. q # r => b \notin objects[q].chain
          BY <2>0, <4>1, <4>2
        <5> QED
          BY <1>3, <4>1, <5>1
      <4> QED
        BY <4>3, <4>4
    <3>2. CASE ~\E r \in freed : b \in objects[r].chain
      <4>1. b \in usedMap' <=> b \in usedMap
        BY <1>2, <3>2
      <4>2. ASSUME NEW r \in Slots PROVE b \in objects'[r].chain <=> b \in objects[r].chain
        BY <1>3, <3>2
      <4> QED
        BY <2>0, <4>1, <4>2
    <3> QED
      BY <3>1, <3>2
  <2>3. /\ IsFiniteSet(usedMap) /\ IsFiniteSet(back)
        /\ Cardinality(usedMap) \in Nat /\ Cardinality(Blocks) \in Nat
        /\ Cardinality(back) \in Nat
    BY <1>2, PoolAssumption, FS_Subset, FS_CardinalityType DEF PoolInv
  <2>4. Cardinality(usedMap \ back) = Cardinality(usedMap) - Cardinality(back)
    <3>1. usedMap \cap back = back
      BY <1>2
    <3> QED
      BY <2>3, <3>1, FS_Difference
  <2>5. freeBlocks' = Cardinality(Blocks) - Cardinality(usedMap')
    BY <1>2, <2>0, <2>3, <2>4
  <2> QED
    BY <2>1, <2>2, <2>5 DEF BlockAccounting
<1>6. usedMap' \subseteq Blocks /\ freeBlocks' \in Nat
  <2>1. usedMap' \subseteq Blocks /\ Cardinality(back) \in Nat
    BY <1>2, PoolAssumption, FS_Subset, FS_CardinalityType DEF PoolInv
  <2> QED
    BY <1>2, <2>1 DEF PoolInv
<1>7. \A s \in Slots :
        generations'[s] = IF s \in freed THEN NextGeneration(generations[s])
                          ELSE generations[s]
  BY DEF DropReferences
<1>8. \A s \in Slots :
        deadObjects'[s] = IF s \in freed
                          THEN Remember(deadObjects[s], generations[s])
                          ELSE deadObjects[s]
  BY <1>1 DEF DropReferences, PoolInv, SlotsCoherent
<1>9. \A s \in Slots : /\ generations'[s] \in Gens
                        /\ deadObjects'[s] \in Seq(Gens)
                        /\ IsHistory(deadObjects'[s], generations'[s])
  BY <1>7, <1>8, NextGenerationType, RememberHistory DEF PoolInv
<1>10. generations' \in [Slots -> Gens] /\ deadObjects' \in [Slots -> Seq(Gens)]
  BY <1>9 DEF DropReferences
<1>11. SlotsCoherent'
  BY <1>3, <1>7 DEF PoolInv, SlotsCoherent, InUse
<1>12. \A s \in Slots : InUse(s)' => objects'[s].refcount > 0
  <2> SUFFICES ASSUME NEW s \in Slots, InUse(s)' PROVE objects'[s].refcount > 0
    OBVIOUS
  <2>1. s \notin freed
    BY <1>3 DEF InUse
  <2>2. InUse(s) /\ objects'[s].refcount = objects[s].refcount - k[s]
    BY <1>3, <2>1 DEF InUse
  <2>3. objects[s].refcount \in Nat /\ objects[s].refcount > 0 /\ k[s] \in Nat
    BY <2>2 DEF PoolInv, ObjectType
  <2> QED
    BY <2>1, <2>2, <2>3 DEF LastDropped
<1> QED
  BY <1>4, <1>5, <1>6, <1>9, <1>10, <1>11, <1>12 DEF PoolInv

-----------------------------------------------------------------------------
(* Who refers to an object.                                                *)

\* The invariant contains its pool half.
LEMMA IInvPool ==
  ASSUME IInv PROVE PoolInv
BY DEF IInv, PoolInv, TypeOK, Histories, RefcountExact

\* Holders and voices of an object are finite sets.
LEMMA UsersFinite ==
  ASSUME NEW s, NEW T \in SUBSET Tracks
  PROVE  /\ IsFiniteSet(HoldersOf(s)) /\ Cardinality(HoldersOf(s)) \in Nat
         /\ IsFiniteSet(VoicesOf(s, T)) /\ Cardinality(VoicesOf(s, T)) \in Nat
         /\ IsFiniteSet(T) /\ Cardinality(T) \in Nat
<1>1. IsFiniteSet(Tracks)
  BY FS_Interval, TrackAssumption DEF Tracks
<1>2. IsFiniteSet(T)
  BY <1>1, FS_Subset
<1>3. HoldersOf(s) \in SUBSET VMs /\ VoicesOf(s, T) \in SUBSET T
  BY DEF HoldersOf, VoicesOf
<1> QED
  BY <1>2, <1>3, PoolAssumption, FS_Subset, FS_CardinalityType

\* The VMs and voices that still refer to s after holds and tracks changed.
HoldersLeft(s) == {vm \in HoldersOf(s) : HandleOf(s) \in holds'[vm]}
VoicesLeft(s) == {t \in VoicesOf(s, Tracks) : tracks'[t] = tracks[t]}

\* The heart of lifetime safety.  If every reference that is dropped is one
\* that a VM or a voice gave up, then an object is freed only when nobody
\* refers to it, and the counts of the others stay exact.
LEMMA DropKeepsCounts ==
  ASSUME IInv, NEW k \in [Slots -> Nat], DropReferences(k),
         \A s \in Slots : ~InUse(s) => k[s] = 0,
         holds' \in [VMs -> SUBSET Handles],
         \A vm \in VMs : holds'[vm] \subseteq holds[vm],
         tracks' \in [Tracks -> TrackType],
         \A t \in Tracks : tracks'[t] = tracks[t] \/ tracks'[t] = FreeTrack,
         \A s \in Slots : InUse(s) =>
           Cardinality(HoldersLeft(s)) + Cardinality(VoicesLeft(s)) + k[s]
             = Cardinality(HoldersOf(s)) + Cardinality(VoicesOf(s, Tracks))
  PROVE  PoolInv' /\ HeldObjectLives' /\ PlayingObjectLives' /\ RefcountExact'
<1> DEFINE freed == LastDropped(k)
<1>1. PoolInv /\ PoolInv'
  BY IInvPool, DropPool
<1>2. ASSUME NEW s \in Slots
      PROVE  /\ IsFiniteSet(HoldersLeft(s)) /\ Cardinality(HoldersLeft(s)) \in Nat
             /\ IsFiniteSet(VoicesLeft(s)) /\ Cardinality(VoicesLeft(s)) \in Nat
  <2>1. HoldersLeft(s) \in SUBSET HoldersOf(s)
        /\ VoicesLeft(s) \in SUBSET VoicesOf(s, Tracks)
    BY DEF HoldersLeft, VoicesLeft
  <2> QED
    BY <2>1, UsersFinite, FS_Subset, FS_CardinalityType
<1>3. ASSUME NEW s \in Slots, InUse(s), s \in freed
      PROVE  HoldersLeft(s) = {} /\ VoicesLeft(s) = {}
  <2>1. objects[s].refcount <= k[s] /\ objects[s].refcount \in Nat /\ k[s] \in Nat
    BY <1>1, <1>3 DEF LastDropped, PoolInv, ObjectType
  <2>2. objects[s].refcount = Cardinality(HoldersOf(s))
                              + Cardinality(VoicesOf(s, Tracks))
    BY <1>3 DEF IInv, RefcountExact
  <2>3. Cardinality(HoldersLeft(s)) + Cardinality(VoicesLeft(s)) + k[s]
          = objects[s].refcount
    BY <1>3, <2>2
  <2>4. Cardinality(HoldersLeft(s)) = 0 /\ Cardinality(VoicesLeft(s)) = 0
    BY <1>2, <2>1, <2>3
  <2> QED
    BY <1>2, <2>4, FS_EmptySet
<1>4. ASSUME NEW s \in Slots, s \notin freed
      PROVE  /\ InUse(s)' = InUse(s)
             /\ HandleOf(s)' = HandleOf(s)
             /\ objects'[s].refcount = objects[s].refcount - k[s]
  BY <1>1, <1>4, DropObjects DEF InUse, HandleOf
<1>5. HeldObjectLives'
  <2> SUFFICES ASSUME NEW vm \in VMs, NEW h \in holds'[vm]
               PROVE  Resolves(h)'
    BY DEF HeldObjectLives
  <2>1. Resolves(h) /\ h \in holds[vm]
    BY DEF IInv, HeldObjectLives
  <2> DEFINE s == h.slot
  <2>2. s \in Slots /\ InUse(s) /\ h = HandleOf(s)
    BY <2>1 DEF Resolves
  <2>3. vm \in HoldersLeft(s)
    BY <2>1, <2>2 DEF HoldersLeft, HoldersOf
  <2>4. s \notin freed
    BY <1>3, <2>2, <2>3
  <2> QED
    BY <1>4, <2>2, <2>4 DEF Resolves
<1>6. PlayingObjectLives'
  <2> SUFFICES ASSUME NEW t \in Tracks, Active(t)', (tracks[t].object # NoHandle)'
               PROVE  Resolves(tracks[t].object)'
    BY DEF PlayingObjectLives
  <2>1. tracks'[t] = tracks[t]
    BY DEF FreeTrack, Active
  <2>2. Resolves(tracks[t].object)
    BY <2>1 DEF IInv, PlayingObjectLives, Active
  <2> DEFINE s == tracks[t].object.slot
  <2>3. s \in Slots /\ InUse(s) /\ tracks[t].object = HandleOf(s)
    BY <2>2 DEF Resolves
  <2>4. t \in VoicesLeft(s)
    BY <2>1, <2>3 DEF VoicesLeft, VoicesOf, Active
  <2>5. s \notin freed
    BY <1>3, <2>3, <2>4
  <2> QED
    BY <1>4, <2>1, <2>3, <2>5 DEF Resolves
<1>7. RefcountExact'
  <2> SUFFICES ASSUME NEW s \in Slots, InUse(s)'
               PROVE  /\ objects'[s].refcount = Cardinality(HoldersOf(s)')
                                               + Cardinality(VoicesOf(s, Tracks)')
                      /\ objects'[s].refcount > 0
    BY DEF RefcountExact
  <2>1. s \notin freed
    <3>1. s \in freed => objects'[s] = FreeObject
      BY <1>1, DropObjects
    <3> QED
      BY <3>1 DEF InUse, FreeObject
  <2>2. InUse(s) /\ HandleOf(s)' = HandleOf(s)
        /\ objects'[s].refcount = objects[s].refcount - k[s]
    BY <1>4, <2>1
  <2>3. HoldersOf(s)' = HoldersLeft(s)
    BY <2>2 DEF HoldersOf, HoldersLeft
  <2>4. VoicesOf(s, Tracks)' = VoicesLeft(s)
    <3>1. \A t \in Tracks : tracks'[t].active => tracks'[t] = tracks[t]
      BY DEF FreeTrack
    <3> QED
      BY <2>2, <3>1 DEF VoicesOf, VoicesLeft, Active
  <2>5. objects[s].refcount = Cardinality(HoldersOf(s))
                              + Cardinality(VoicesOf(s, Tracks))
    BY <2>2 DEF IInv, RefcountExact
  <2>6. objects'[s].refcount = Cardinality(HoldersLeft(s))
                               + Cardinality(VoicesLeft(s))
    <3>1. Cardinality(HoldersLeft(s)) + Cardinality(VoicesLeft(s)) + k[s]
            = objects[s].refcount
      BY <2>2, <2>5
    <3>2. k[s] \in Nat /\ Cardinality(HoldersLeft(s)) \in Nat
          /\ Cardinality(VoicesLeft(s)) \in Nat
      BY <1>2
    <3> QED
      BY <2>2, <3>1, <3>2
  <2>7. objects'[s].refcount > 0
    BY <1>1 DEF PoolInv
  <2> QED
    BY <2>3, <2>4, <2>6, <2>7
<1> QED
  BY <1>1, <1>5, <1>6, <1>7

-----------------------------------------------------------------------------
(* The track table.                                                        *)

\* What IInv says of the arbiter's own variables.
ArbiterInv ==
  /\ tracks \in [Tracks -> TrackType]
  /\ trackGens \in [Tracks -> Gens]
  /\ activeCount \in Nat
  /\ sink \in [Tracks -> {"off", "on", "done"}]
  /\ deadVoices \in [Tracks -> Seq(Gens)]
  /\ TracksCoherent
  /\ \A t \in Tracks : IsHistory(deadVoices[t], trackGens[t])
  /\ TrackAccounting

\* The invariant is the pool half, the arbiter half and what ties them together.
LEMMA IInvParts ==
  IInv <=> /\ PoolInv /\ ArbiterInv /\ holds \in [VMs -> SUBSET Handles]
           /\ HeldObjectLives /\ PlayingObjectLives /\ RefcountExact
BY DEF IInv, PoolInv, ArbiterInv, TypeOK, Histories, RefcountExact

\* The same after a step.
LEMMA IInvNext ==
  ASSUME PoolInv', ArbiterInv', (holds \in [VMs -> SUBSET Handles])',
         HeldObjectLives', PlayingObjectLives', RefcountExact'
  PROVE  IInv'
BY DEF IInv, PoolInv, ArbiterInv, TypeOK, Histories, RefcountExact

\* A step that touches only the pool keeps the arbiter half.
LEMMA ArbiterUnchanged ==
  ASSUME ArbiterInv, UNCHANGED arbiterVars PROVE ArbiterInv'
BY DEF ArbiterInv, arbiterVars, TracksCoherent, TrackAccounting, Active

\* A step that touches only the arbiter keeps the pool half.
LEMMA PoolUnchanged ==
  ASSUME PoolInv, UNCHANGED poolVars PROVE PoolInv'
BY DEF PoolInv, poolVars, BlockAccounting, SlotsCoherent, InUse

\* Starting a voice claims a free track and counts it.
LEMMA StartVoiceArbiter ==
  ASSUME ArbiterInv, NEW t \in Tracks, NEW vm \in VMs, NEW kind \in Kinds,
         NEW object \in Handles \cup {NoHandle}, StartVoice(t, vm, kind, object)
  PROVE  ArbiterInv' /\ ~Active(t) /\ tracks'[t].active /\ tracks'[t].object = object
         /\ \A u \in Tracks \ {t} : tracks'[u] = tracks[u]
<1> DEFINE voice == [active |-> TRUE, object |-> object, kind |-> kind,
                     ownerVm |-> vm, generation |-> trackGens[t]]
<1> USE DEF ArbiterInv
<1>1. /\ ~Active(t)
      /\ tracks' = [tracks EXCEPT ![t] = voice]
      /\ activeCount' = activeCount + 1
      /\ sink' = [sink EXCEPT ![t] = "on"]
      /\ trackGens' = trackGens /\ deadVoices' = deadVoices
  BY DEF StartVoice, IsFirstFreeTrack
<1>2. voice \in TrackType
  BY PoolAssumption DEF TrackType, Gens
<1>3. tracks' \in [Tracks -> TrackType]
  BY <1>1, <1>2
<1>4. tracks'[t] = voice /\ \A u \in Tracks \ {t} : tracks'[u] = tracks[u]
  BY <1>1
<1>5. TracksCoherent'
  BY <1>1, <1>4 DEF TracksCoherent, Active
<1>6. TrackAccounting'
  <2> DEFINE on == {u \in Tracks : Active(u)}
  <2>1. {u \in Tracks : Active(u)'} = on \cup {t}
    BY <1>4 DEF Active
  <2>2. IsFiniteSet(on) /\ Cardinality(on) \in Nat /\ t \notin on
    BY <1>1, UsersFinite
  <2>3. Cardinality(on \cup {t}) = Cardinality(on) + 1
    BY <2>2, FS_AddElement
  <2>4. activeCount' = Cardinality({u \in Tracks : Active(u)'})
    BY <1>1, <2>1, <2>3 DEF TrackAccounting
  <2>5. \A u \in Tracks : Active(u)' <=> sink'[u] # "off"
    BY <1>1, <1>4 DEF TrackAccounting, Active
  <2> QED
    BY <2>4, <2>5 DEF TrackAccounting
<1> QED
  BY <1>1, <1>3, <1>4, <1>5, <1>6

\* Stopping any set of tracks silences them and ends their generations.
LEMMA StopTracksArbiter ==
  ASSUME ArbiterInv, NEW T \in SUBSET Tracks, StopTracks(T)
  PROVE  ArbiterInv'
<1> DEFINE stopped == {t \in T : Active(t)}
<1> USE DEF ArbiterInv
<1>1. /\ stopped \in SUBSET Tracks
      /\ sink' = [t \in Tracks |-> IF t \in stopped THEN "off" ELSE sink[t]]
      /\ trackGens' = [t \in Tracks |->
                         IF t \in stopped THEN NextGeneration(trackGens[t])
                         ELSE trackGens[t]]
      /\ deadVoices' = [t \in Tracks |->
                          IF t \in stopped
                          THEN Remember(deadVoices[t], tracks[t].generation)
                          ELSE deadVoices[t]]
      /\ tracks' = [t \in Tracks |-> IF t \in stopped THEN FreeTrack ELSE tracks[t]]
      /\ activeCount' = activeCount - Cardinality(stopped)
  BY DEF StopTracks
<1> HIDE DEF stopped
<1>2. \A t \in stopped : t \in Tracks /\ Active(t)
  BY DEF stopped
<1>3. FreeTrack \in TrackType /\ ~FreeTrack.active
  BY PoolAssumption DEF FreeTrack, TrackType, Kinds
<1>4. tracks' \in [Tracks -> TrackType]
  BY <1>1, <1>3
<1>5. sink' \in [Tracks -> {"off", "on", "done"}]
  BY <1>1
<1>6. \A t \in Tracks :
        /\ t \in stopped => /\ trackGens'[t] = NextGeneration(trackGens[t])
                            /\ deadVoices'[t] = Remember(deadVoices[t], trackGens[t])
        /\ t \notin stopped => /\ trackGens'[t] = trackGens[t]
                               /\ deadVoices'[t] = deadVoices[t]
  BY <1>1, <1>2 DEF TracksCoherent
<1>7. ASSUME NEW t \in Tracks
      PROVE  /\ trackGens'[t] \in Gens
             /\ deadVoices'[t] \in Seq(Gens)
             /\ IsHistory(deadVoices'[t], trackGens'[t])
  <2>1. /\ trackGens[t] \in Gens /\ deadVoices[t] \in Seq(Gens)
        /\ IsHistory(deadVoices[t], trackGens[t])
    OBVIOUS
  <2>2. /\ NextGeneration(trackGens[t]) \in Gens
        /\ Remember(deadVoices[t], trackGens[t]) \in Seq(Gens)
        /\ IsHistory(Remember(deadVoices[t], trackGens[t]),
                     NextGeneration(trackGens[t]))
    BY <2>1, NextGenerationType, RememberHistory
  <2> QED
    BY <1>6, <2>1, <2>2
<1>8. trackGens' \in [Tracks -> Gens] /\ deadVoices' \in [Tracks -> Seq(Gens)]
  BY <1>1, <1>7
<1>9. TracksCoherent'
  BY <1>1, <1>3, <1>6 DEF TracksCoherent, Active
<1>10. TrackAccounting' /\ activeCount' \in Nat
  <2> DEFINE on == {u \in Tracks : Active(u)}
  <2>1. {u \in Tracks : Active(u)'} = on \ stopped
    BY <1>1, <1>3 DEF Active
  <2>2. IsFiniteSet(on) /\ Cardinality(on) \in Nat /\ on \cap stopped = stopped
    BY <1>2, UsersFinite
  <2>3. Cardinality(on \ stopped) = Cardinality(on) - Cardinality(stopped)
    BY <2>2, FS_Difference
  <2>4. activeCount' = Cardinality({u \in Tracks : Active(u)'})
    BY <1>1, <2>1, <2>3 DEF TrackAccounting
  <2>5. \A u \in Tracks : Active(u)' <=> sink'[u] # "off"
    BY <1>1, <1>3 DEF TrackAccounting, Active
  <2>6. activeCount' \in Nat
    <3>1. {u \in Tracks : Active(u)'} \in SUBSET Tracks
      OBVIOUS
    <3> QED
      BY <2>4, <3>1, UsersFinite
  <2> QED
    BY <2>4, <2>5, <2>6 DEF TrackAccounting
<1> QED
  BY <1>4, <1>5, <1>7, <1>8, <1>9, <1>10

-----------------------------------------------------------------------------
(* Each action preserves IInv.                                             *)

\* Loading a sample keeps the invariant.
LEMMA AllocInv ==
  ASSUME IInv, NEW vm \in VMs, Alloc(vm)
  PROVE  IInv'
<1> USE IInvParts
<1>1. PICK s \in Slots, need \in 1 .. freeBlocks, chain \in SUBSET (Blocks \ usedMap) :
        /\ AllocObject(s, vm, need, chain)
        /\ holds' = [holds EXCEPT ![vm] = @ \cup {[slot |-> s, gen |-> generations[s]]}]
  BY DEF Alloc
<1> DEFINE new == [slot |-> s, gen |-> generations[s]]
<1>2. need \in Nat /\ need > 0
  BY DEF PoolInv
<1>3. PoolInv'
  BY <1>1, <1>2, AllocPool
<1>4. /\ ~InUse(s) /\ InUse(s)' /\ HandleOf(s)' = new /\ objects'[s].refcount = 1
      /\ \A r \in Slots \ {s} : objects'[r] = objects[r]
      /\ generations' = generations
  BY <1>1 DEF AllocObject, IsFirstFreeSlot, PoolInv, InUse, HandleOf
<1>5. UNCHANGED arbiterVars /\ ArbiterInv' /\ tracks' = tracks
  BY ArbiterUnchanged DEF Alloc, arbiterVars
<1>6. new \in Handles /\ holds' \in [VMs -> SUBSET Handles]
  BY <1>1 DEF Handles, PoolInv
<1>7. /\ \A v \in VMs : \A h \in holds[v] : h.slot # s
      /\ \A t \in Tracks : Active(t) => tracks[t].object.slot # s
  BY <1>4 DEF HeldObjectLives, PlayingObjectLives, Resolves, NoHandle, Slots
<1>8. \A h : h.slot # s => (Resolves(h)' <=> Resolves(h))
  BY <1>4 DEF Resolves, InUse, HandleOf
<1>10. HeldObjectLives'
  <2> SUFFICES ASSUME NEW v \in VMs, NEW h \in holds'[v] PROVE Resolves(h)'
    BY DEF HeldObjectLives
  <2>1. CASE h \in holds[v]
    <3>1. Resolves(h) /\ h.slot # s
      BY <1>7, <2>1 DEF HeldObjectLives
    <3> QED
      BY <1>8, <3>1
  <2>2. CASE h \notin holds[v]
    <3>1. h = new
      BY <1>1, <2>2
    <3> QED
      BY <1>4, <3>1 DEF Resolves
  <2> QED
    BY <2>1, <2>2
<1>11. PlayingObjectLives'
  BY <1>5, <1>7, <1>8 DEF PlayingObjectLives, Active
<1>12. RefcountExact'
  <2> SUFFICES ASSUME NEW r \in Slots, InUse(r)'
               PROVE  objects'[r].refcount = Cardinality(HoldersOf(r)')
                                             + Cardinality(VoicesOf(r, Tracks)')
    BY <1>3 DEF RefcountExact, PoolInv
  <2>1. CASE r = s
    <3>1. HoldersOf(s)' = {vm}
      BY <1>1, <1>4, <1>7 DEF HoldersOf
    <3>2. VoicesOf(s, Tracks)' = {}
      BY <1>4, <1>5, <1>7 DEF VoicesOf, Active
    <3> QED
      BY <1>4, <2>1, <3>1, <3>2, FS_EmptySet, FS_Singleton
  <2>2. CASE r # s
    <3>1. objects'[r] = objects[r] /\ InUse(r) /\ HandleOf(r)' = HandleOf(r)
          /\ HandleOf(r) # new
      BY <1>4, <2>2 DEF InUse, HandleOf
    <3>2. HoldersOf(r)' = HoldersOf(r)
      BY <1>1, <3>1 DEF HoldersOf
    <3>3. VoicesOf(r, Tracks)' = VoicesOf(r, Tracks)
      BY <1>5, <3>1 DEF VoicesOf, Active
    <3> QED
      BY <3>1, <3>2, <3>3 DEF RefcountExact
  <2> QED
    BY <2>1, <2>2
<1> QED
  BY <1>3, <1>5, <1>6, <1>10, <1>11, <1>12, IInvNext

\* Taking a reference changes one count and no handle.
LEMMA RefObjectPool ==
  ASSUME PoolInv, NEW h, RefObject(h)
  PROVE  /\ PoolInv' /\ h.slot \in Slots /\ InUse(h.slot) /\ h = HandleOf(h.slot)
         /\ \A s \in Slots :
              /\ InUse(s)' = InUse(s) /\ HandleOf(s)' = HandleOf(s)
              /\ objects'[s].refcount = IF s = h.slot THEN objects[s].refcount + 1
                                        ELSE objects[s].refcount
<1> DEFINE u == h.slot
<1>1. /\ u \in Slots /\ InUse(u) /\ h = HandleOf(u)
      /\ objects' = [objects EXCEPT ![u].refcount = @ + 1]
      /\ usedMap' = usedMap /\ freeBlocks' = freeBlocks
      /\ generations' = generations /\ deadObjects' = deadObjects
  BY DEF RefObject, Resolves
<1> HIDE DEF u
<1>2. \A s \in Slots :
        /\ objects'[s].inUse = objects[s].inUse
        /\ objects'[s].generation = objects[s].generation
        /\ objects'[s].chain = objects[s].chain
        /\ objects'[s].refcount = IF s = u THEN objects[s].refcount + 1
                                  ELSE objects[s].refcount
  BY <1>1 DEF PoolInv, ObjectType
<1>3. objects' \in [Slots -> ObjectType]
  <2>1. objects[u] \in ObjectType /\ objects[u].refcount + 1 \in Nat
    BY <1>1 DEF PoolInv, ObjectType
  <2>2. [objects[u] EXCEPT !.refcount = @ + 1] \in ObjectType
    BY <2>1 DEF ObjectType
  <2>3. objects' = [objects EXCEPT ![u] = [objects[u] EXCEPT !.refcount = @ + 1]]
    BY <1>1
  <2> QED
    BY <2>2, <2>3 DEF PoolInv
<1>4. BlockAccounting' /\ SlotsCoherent'
  BY <1>1, <1>2 DEF PoolInv, BlockAccounting, SlotsCoherent, InUse
<1>5. \A s \in Slots : InUse(s)' => objects'[s].refcount > 0
  <2> SUFFICES ASSUME NEW s \in Slots, objects'[s].inUse
               PROVE  objects'[s].refcount > 0
    BY DEF InUse
  <2>1. objects[s].refcount \in Nat /\ objects[s].refcount > 0
    BY <1>2 DEF PoolInv, ObjectType, InUse
  <2> QED
    BY <1>2, <2>1
<1>6. PoolInv'
  BY <1>1, <1>3, <1>4, <1>5 DEF PoolInv
<1> QED
  BY <1>1, <1>2, <1>6 DEF InUse, HandleOf, u

\* Sharing an object keeps the invariant.
LEMMA RefInv ==
  ASSUME IInv, NEW vm \in VMs, NEW h \in Handles, Ref(vm, h)
  PROVE  IInv'
<1> USE IInvParts
<1>1. /\ h \notin holds[vm] /\ RefObject(h)
      /\ holds' = [holds EXCEPT ![vm] = @ \cup {h}]
      /\ UNCHANGED arbiterVars /\ tracks' = tracks
  BY DEF Ref, arbiterVars
<1>2. /\ PoolInv' /\ h.slot \in Slots /\ InUse(h.slot) /\ h = HandleOf(h.slot)
      /\ \A s \in Slots :
           /\ InUse(s)' = InUse(s) /\ HandleOf(s)' = HandleOf(s)
           /\ objects'[s].refcount = IF s = h.slot THEN objects[s].refcount + 1
                                     ELSE objects[s].refcount
  BY <1>1, RefObjectPool
<1>3. \A x : Resolves(x)' <=> Resolves(x)
  BY <1>2 DEF Resolves
<1>4. ArbiterInv' /\ holds' \in [VMs -> SUBSET Handles]
  BY <1>1, ArbiterUnchanged
<1>5. HeldObjectLives'
  BY <1>1, <1>2, <1>3 DEF HeldObjectLives, Resolves
<1>6. PlayingObjectLives'
  BY <1>1, <1>3 DEF PlayingObjectLives, Active
<1>7. RefcountExact'
  <2> SUFFICES ASSUME NEW s \in Slots, InUse(s)'
               PROVE  objects'[s].refcount = Cardinality(HoldersOf(s)')
                                             + Cardinality(VoicesOf(s, Tracks)')
    BY <1>2 DEF RefcountExact, PoolInv
  <2>1. /\ InUse(s) /\ HandleOf(s)' = HandleOf(s)
        /\ objects[s].refcount = Cardinality(HoldersOf(s))
                                 + Cardinality(VoicesOf(s, Tracks))
    BY <1>2 DEF RefcountExact
  <2>2. VoicesOf(s, Tracks)' = VoicesOf(s, Tracks)
    BY <1>1, <1>2, <2>1 DEF VoicesOf, Active
  <2>3. CASE s = h.slot
    <3>1. HoldersOf(s)' = HoldersOf(s) \cup {vm} /\ vm \notin HoldersOf(s)
      BY <1>1, <1>2, <2>1, <2>3 DEF HoldersOf
    <3>2. Cardinality(HoldersOf(s) \cup {vm}) = Cardinality(HoldersOf(s)) + 1
      BY <3>1, UsersFinite, FS_AddElement
    <3> QED
      BY <1>2, <2>1, <2>2, <2>3, <3>1, <3>2, UsersFinite
  <2>4. CASE s # h.slot
    <3>1. HandleOf(s) # h
      BY <2>4 DEF HandleOf
    <3>2. HoldersOf(s)' = HoldersOf(s)
      BY <1>1, <1>2, <2>1, <3>1 DEF HoldersOf
    <3> QED
      BY <1>2, <2>1, <2>2, <2>4, <3>2
  <2> QED
    BY <2>3, <2>4
<1> QED
  BY <1>2, <1>4, <1>5, <1>6, <1>7, IInvNext

\* Playing an object keeps the invariant: the new voice is the new reference.
LEMMA PlayInv ==
  ASSUME IInv, NEW vm \in VMs, NEW h \in Handles, NEW kind \in Kinds,
         Play(vm, h, kind)
  PROVE  IInv'
<1> USE IInvParts
<1>1. PICK t \in Tracks : RefObject(h) /\ StartVoice(t, vm, kind, h)
  BY DEF Play
<1>2. /\ PoolInv' /\ h.slot \in Slots /\ InUse(h.slot) /\ h = HandleOf(h.slot)
      /\ \A s \in Slots :
           /\ InUse(s)' = InUse(s) /\ HandleOf(s)' = HandleOf(s)
           /\ objects'[s].refcount = IF s = h.slot THEN objects[s].refcount + 1
                                     ELSE objects[s].refcount
  BY <1>1, RefObjectPool
<1>3. /\ ArbiterInv' /\ ~Active(t) /\ tracks'[t].active /\ tracks'[t].object = h
      /\ \A u \in Tracks \ {t} : tracks'[u] = tracks[u]
  BY <1>1, StartVoiceArbiter
<1>4. holds' = holds
  BY <1>1 DEF StartVoice
<1>5. \A x : Resolves(x)' <=> Resolves(x)
  BY <1>2 DEF Resolves
<1>6. HeldObjectLives'
  BY <1>4, <1>5 DEF HeldObjectLives
<1>7. PlayingObjectLives'
  <2> SUFFICES ASSUME NEW u \in Tracks, Active(u)', (tracks[u].object # NoHandle)'
               PROVE  Resolves(tracks[u].object)'
    BY DEF PlayingObjectLives
  <2>1. CASE u = t
    <3>1. Resolves(h)
      BY <1>2 DEF Resolves
    <3> QED
      BY <1>2, <1>3, <2>1, <3>1 DEF Resolves
  <2>2. CASE u # t
    BY <1>2, <1>3, <2>2 DEF PlayingObjectLives, Active, Resolves
  <2> QED
    BY <2>1, <2>2
<1>8. RefcountExact'
  <2> SUFFICES ASSUME NEW s \in Slots, InUse(s)'
               PROVE  objects'[s].refcount = Cardinality(HoldersOf(s)')
                                             + Cardinality(VoicesOf(s, Tracks)')
    BY <1>2 DEF RefcountExact, PoolInv
  <2>1. /\ InUse(s) /\ HandleOf(s)' = HandleOf(s)
        /\ objects[s].refcount = Cardinality(HoldersOf(s))
                                 + Cardinality(VoicesOf(s, Tracks))
    BY <1>2 DEF RefcountExact
  <2>2. HoldersOf(s)' = HoldersOf(s)
    BY <1>4, <1>2, <2>1 DEF HoldersOf
  <2>3. CASE s = h.slot
    <3>1. VoicesOf(s, Tracks)' = VoicesOf(s, Tracks) \cup {t} /\ t \notin VoicesOf(s, Tracks)
      BY <1>2, <1>3, <2>1, <2>3 DEF VoicesOf, Active
    <3>2. Cardinality(VoicesOf(s, Tracks) \cup {t}) = Cardinality(VoicesOf(s, Tracks)) + 1
      BY <3>1, UsersFinite, FS_AddElement
    <3> QED
      BY <1>2, <2>1, <2>2, <2>3, <3>1, <3>2, UsersFinite
  <2>4. CASE s # h.slot
    <3>1. HandleOf(s) # h
      BY <2>4 DEF HandleOf
    <3>2. VoicesOf(s, Tracks)' = VoicesOf(s, Tracks)
      BY <1>2, <1>3, <2>1, <3>1 DEF VoicesOf, Active
    <3> QED
      BY <1>2, <2>1, <2>2, <2>4, <3>2
  <2> QED
    BY <2>3, <2>4
<1> QED
  BY <1>2, <1>3, <1>4, <1>6, <1>7, <1>8, IInvNext

\* Playing a stream keeps the invariant: no object is involved.
LEMMA PlayExternalInv ==
  ASSUME IInv, NEW vm \in VMs, PlayExternal(vm)
  PROVE  IInv'
<1> USE IInvParts
<1>1. PICK t \in Tracks : StartVoice(t, vm, "MUSIC", NoHandle)
  BY DEF PlayExternal
<1>2. UNCHANGED poolVars /\ objects' = objects /\ PoolInv'
  BY PoolUnchanged DEF PlayExternal, poolVars
<1>3. /\ ArbiterInv' /\ ~Active(t) /\ tracks'[t].active /\ tracks'[t].object = NoHandle
      /\ \A u \in Tracks \ {t} : tracks'[u] = tracks[u]
  <2>1. "MUSIC" \in Kinds /\ NoHandle \in Handles \cup {NoHandle}
    BY DEF Kinds
  <2> QED
    BY <1>1, <2>1, StartVoiceArbiter
<1>4. holds' = holds
  BY <1>1 DEF StartVoice
<1>5. HeldObjectLives'
  BY <1>2, <1>4 DEF HeldObjectLives, Resolves, InUse, HandleOf
<1>6. PlayingObjectLives'
  <2> SUFFICES ASSUME NEW u \in Tracks, Active(u)', (tracks[u].object # NoHandle)'
               PROVE  Resolves(tracks[u].object)'
    BY DEF PlayingObjectLives
  <2>1. u # t
    BY <1>3
  <2> QED
    BY <1>2, <1>3, <2>1 DEF PlayingObjectLives, Active, Resolves, InUse, HandleOf
<1>7. RefcountExact'
  <2> SUFFICES ASSUME NEW s \in Slots, InUse(s)
               PROVE  /\ HoldersOf(s)' = HoldersOf(s)
                      /\ VoicesOf(s, Tracks)' = VoicesOf(s, Tracks)
    BY <1>2 DEF RefcountExact, InUse
  <2>1. HoldersOf(s)' = HoldersOf(s)
    BY <1>2, <1>4 DEF HoldersOf, InUse, HandleOf
  <2>2. HandleOf(s) # NoHandle
    BY DEF HandleOf, NoHandle, Slots
  <2>3. VoicesOf(s, Tracks)' = VoicesOf(s, Tracks)
    BY <1>2, <1>3, <2>2 DEF VoicesOf, Active, InUse, HandleOf
  <2> QED
    BY <2>1, <2>3
<1> QED
  BY <1>2, <1>3, <1>4, <1>5, <1>6, <1>7, IInvNext

\* When one VM gives a reference of s up, or none does, and no voice stops,
\* the users left are fewer by exactly the references dropped.
LEMMA OneHolderLess ==
  ASSUME NEW s \in Slots, NEW vm \in VMs, NEW n \in Nat, tracks' = tracks,
         \/ n = 1 /\ vm \in HoldersOf(s) /\ HoldersLeft(s) = HoldersOf(s) \ {vm}
         \/ n = 0 /\ HoldersLeft(s) = HoldersOf(s)
  PROVE  Cardinality(HoldersLeft(s)) + Cardinality(VoicesLeft(s)) + n
         = Cardinality(HoldersOf(s)) + Cardinality(VoicesOf(s, Tracks))
<1>1. /\ IsFiniteSet(HoldersOf(s)) /\ Cardinality(HoldersOf(s)) \in Nat
      /\ Cardinality(VoicesOf(s, Tracks)) \in Nat
  <2>1. Tracks \in SUBSET Tracks
    OBVIOUS
  <2> QED
    BY <2>1, UsersFinite
<1>2. Cardinality(HoldersOf(s) \ {vm}) =
        IF vm \in HoldersOf(s) THEN Cardinality(HoldersOf(s)) - 1
        ELSE Cardinality(HoldersOf(s))
  BY <1>1, FS_RemoveElement
<1>3. VoicesLeft(s) = VoicesOf(s, Tracks)
  BY DEF VoicesLeft, VoicesOf
<1>4. Cardinality(HoldersLeft(s)) + n = Cardinality(HoldersOf(s))
  BY <1>1, <1>2
<1>5. Cardinality(HoldersLeft(s)) \in Nat
  BY <1>1, FS_RemoveElement, FS_CardinalityType
<1> QED
  BY <1>1, <1>3, <1>4, <1>5

\* Giving up a reference keeps the invariant.
LEMMA UnrefInv ==
  ASSUME IInv, NEW vm \in VMs, NEW h \in Handles, Unref(vm, h)
  PROVE  IInv'
<1> USE IInvParts
<1> DEFINE k == [s \in Slots |-> IF Resolves(h) /\ s = h.slot THEN 1 ELSE 0]
<1>1. /\ h \in holds[vm] /\ DropReferences(k)
      /\ holds' = [holds EXCEPT ![vm] = @ \ {h}]
      /\ UNCHANGED arbiterVars /\ tracks' = tracks
  BY DEF Unref, UnrefObject, arbiterVars
<1>2. Resolves(h) /\ h.slot \in Slots /\ InUse(h.slot) /\ h = HandleOf(h.slot)
  BY <1>1 DEF HeldObjectLives, Resolves
<1>3. k \in [Slots -> Nat] /\ \A s \in Slots : ~InUse(s) => k[s] = 0
  BY <1>2
<1>4. holds' \in [VMs -> SUBSET Handles] /\ \A v \in VMs : holds'[v] \subseteq holds[v]
  BY <1>1
<1>5. ASSUME NEW s \in Slots, InUse(s)
      PROVE  Cardinality(HoldersLeft(s)) + Cardinality(VoicesLeft(s)) + k[s]
             = Cardinality(HoldersOf(s)) + Cardinality(VoicesOf(s, Tracks))
  <2>1. CASE s = h.slot
    <3>1. HoldersLeft(s) = HoldersOf(s) \ {vm} /\ vm \in HoldersOf(s)
      BY <1>1, <1>2, <2>1 DEF HoldersLeft, HoldersOf
    <3>2. k[s] = 1
      BY <1>2, <2>1
    <3> QED
      BY <1>1, <3>1, <3>2, OneHolderLess
  <2>2. CASE s # h.slot
    <3>1. HandleOf(s) # h
      BY <2>2 DEF HandleOf
    <3>2. HoldersLeft(s) = HoldersOf(s)
      BY <1>1, <3>1 DEF HoldersLeft, HoldersOf
    <3>3. k[s] = 0
      BY <2>2
    <3> QED
      BY <1>1, <3>2, <3>3, OneHolderLess
  <2> QED
    BY <2>1, <2>2
<1> HIDE DEF k
<1>6. PoolInv' /\ HeldObjectLives' /\ PlayingObjectLives' /\ RefcountExact'
  <2>1. tracks' \in [Tracks -> TrackType] /\ \A t \in Tracks : tracks'[t] = tracks[t]
    BY <1>1 DEF ArbiterInv
  <2> QED
    BY <1>1, <1>3, <1>4, <1>5, <2>1, DropKeepsCounts
<1> QED
  BY <1>1, <1>4, <1>6, ArbiterUnchanged, IInvNext

\* A dead VM's sweep keeps the invariant if it owned what it created.
LEMMA SweepInv ==
  ASSUME IInv, NEW vm \in VMs, SweepByContract(vm)
  PROVE  IInv'
<1> USE IInvParts
<1> DEFINE k == [s \in Slots |->
                   IF InUse(s) /\ objects[s].ownerVm = vm THEN 1 ELSE 0]
<1>1. /\ OwnsWhatItCreated(vm) /\ DropReferences(k)
      /\ holds' = [holds EXCEPT ![vm] = {}]
      /\ UNCHANGED arbiterVars /\ tracks' = tracks
  BY DEF SweepByContract, PoolSweep, SweepObjects, arbiterVars
<1>2. \A s \in Slots : InUse(s) =>
        (HandleOf(s) \in holds[vm] <=> objects[s].ownerVm = vm)
  BY <1>1 DEF OwnsWhatItCreated, HandleOf
<1>3. k \in [Slots -> Nat] /\ \A s \in Slots : ~InUse(s) => k[s] = 0
  OBVIOUS
<1>4. holds' \in [VMs -> SUBSET Handles] /\ \A v \in VMs : holds'[v] \subseteq holds[v]
  BY <1>1
<1>5. ASSUME NEW s \in Slots, InUse(s)
      PROVE  Cardinality(HoldersLeft(s)) + Cardinality(VoicesLeft(s)) + k[s]
             = Cardinality(HoldersOf(s)) + Cardinality(VoicesOf(s, Tracks))
  <2>1. HoldersLeft(s) = HoldersOf(s) \ {vm}
    BY <1>1 DEF HoldersLeft, HoldersOf
  <2>2. CASE objects[s].ownerVm = vm
    <3>1. vm \in HoldersOf(s) /\ k[s] = 1
      BY <1>2, <1>5, <2>2 DEF HoldersOf
    <3> QED
      BY <1>1, <2>1, <3>1, OneHolderLess
  <2>3. CASE objects[s].ownerVm # vm
    <3>1. vm \notin HoldersOf(s) /\ k[s] = 0
      BY <1>2, <1>5, <2>3 DEF HoldersOf
    <3>2. HoldersLeft(s) = HoldersOf(s)
      BY <2>1, <3>1
    <3> QED
      BY <1>1, <3>1, <3>2, OneHolderLess
  <2> QED
    BY <2>2, <2>3
<1> HIDE DEF k
<1>6. PoolInv' /\ HeldObjectLives' /\ PlayingObjectLives' /\ RefcountExact'
  <2>1. tracks' \in [Tracks -> TrackType] /\ \A t \in Tracks : tracks'[t] = tracks[t]
    BY <1>1 DEF ArbiterInv
  <2> QED
    BY <1>1, <1>3, <1>4, <1>5, <2>1, DropKeepsCounts
<1> QED
  BY <1>1, <1>4, <1>6, ArbiterUnchanged, IInvNext

\* Stopping any set of voices keeps the invariant.
LEMMA StopTracksInv ==
  ASSUME IInv, NEW T \in SUBSET Tracks, StopTracks(T)
  PROVE  IInv'
<1> USE IInvParts
<1> DEFINE stopped == {t \in T : Active(t)}
           k == [s \in Slots |-> Cardinality(VoicesOf(s, stopped))]
<1>1. /\ DropReferences(k) /\ holds' = holds
      /\ tracks' = [t \in Tracks |-> IF t \in stopped THEN FreeTrack ELSE tracks[t]]
  BY DEF StopTracks
<1>2. stopped \in SUBSET Tracks /\ \A t \in stopped : Active(t)
  OBVIOUS
<1> HIDE DEF stopped
<1>3. k \in [Slots -> Nat] /\ \A s \in Slots : ~InUse(s) => k[s] = 0
  <2>1. \A s \in Slots : Cardinality(VoicesOf(s, stopped)) \in Nat
    BY <1>2, UsersFinite
  <2>2. ASSUME NEW s \in Slots, ~InUse(s)
        PROVE  Cardinality(VoicesOf(s, stopped)) = 0
    <3>1. VoicesOf(s, stopped) = {}
      BY <2>2 DEF VoicesOf
    <3> QED
      BY <3>1, FS_EmptySet
  <2> QED
    BY <2>1, <2>2
<1>4. /\ tracks' \in [Tracks -> TrackType]
      /\ \A t \in Tracks : tracks'[t] = tracks[t] \/ tracks'[t] = FreeTrack
  <2>1. FreeTrack \in TrackType
    BY PoolAssumption DEF FreeTrack, TrackType, Kinds
  <2> QED
    BY <1>1, <2>1 DEF ArbiterInv
<1>5. ASSUME NEW s \in Slots, InUse(s)
      PROVE  Cardinality(HoldersLeft(s)) + Cardinality(VoicesLeft(s)) + k[s]
             = Cardinality(HoldersOf(s)) + Cardinality(VoicesOf(s, Tracks))
  <2>1. HoldersLeft(s) = HoldersOf(s)
    BY <1>1 DEF HoldersLeft, HoldersOf
  <2>2. VoicesOf(s, Tracks) \cap VoicesOf(s, stopped) = VoicesOf(s, stopped)
    BY <1>2 DEF VoicesOf
  <2>3. VoicesLeft(s) = VoicesOf(s, Tracks) \ VoicesOf(s, stopped)
    <3>1. \A t \in stopped : tracks'[t] # tracks[t]
      BY <1>1, <1>2 DEF FreeTrack, Active
    <3>2. \A t \in Tracks \ stopped : tracks'[t] = tracks[t]
      BY <1>1
    <3> QED
      BY <1>2, <3>1, <3>2 DEF VoicesLeft, VoicesOf
  <2>4. Cardinality(VoicesLeft(s)) =
          Cardinality(VoicesOf(s, Tracks)) - Cardinality(VoicesOf(s, stopped))
    BY <2>2, <2>3, UsersFinite, FS_Difference
  <2>5. k[s] = Cardinality(VoicesOf(s, stopped)) /\ k[s] \in Nat
    BY <1>3
  <2> QED
    BY <2>1, <2>4, <2>5, UsersFinite
<1> HIDE DEF k
<1>6. PoolInv' /\ HeldObjectLives' /\ PlayingObjectLives' /\ RefcountExact'
  BY <1>1, <1>3, <1>4, <1>5, DropKeepsCounts
<1> QED
  BY <1>1, <1>6, StopTracksArbiter, IInvNext

\* A channel that runs dry keeps the invariant.
LEMMA DrainInv ==
  ASSUME IInv, NEW t \in Tracks, Drain(t)
  PROVE  IInv'
<1> USE IInvParts
<1>1. UNCHANGED poolVars /\ tracks' = tracks /\ objects' = objects /\ holds' = holds
  BY DEF Drain, poolVars
<1>2. ArbiterInv'
  BY DEF Drain, ArbiterInv, TracksCoherent, TrackAccounting, Active
<1>3. HeldObjectLives' /\ PlayingObjectLives'
  BY <1>1 DEF HeldObjectLives, PlayingObjectLives, Resolves, InUse, HandleOf, Active
<1>4. RefcountExact'
  BY <1>1 DEF RefcountExact, HoldersOf, VoicesOf, InUse, HandleOf, Active
<1> QED
  BY <1>1, <1>2, <1>3, <1>4, PoolUnchanged, IInvNext

-----------------------------------------------------------------------------
(* The theorems.                                                           *)

\* The invariant holds at the start: no object, no voice, every block free.
LEMMA InitInv ==
  ASSUME Init PROVE IInv
<1> USE DEF Init, PoolInit, FreeObject, FreeTrack
<1>1. PoolInv
  <2>1. 1 \in Gens /\ Cardinality(Blocks) \in Nat /\ Cardinality({}) = 0
    BY PoolAssumption, FS_CardinalityType, FS_EmptySet DEF Gens
  <2>2. FreeObject \in ObjectType
    BY PoolAssumption DEF ObjectType
  <2>3. IsHistory(<<>>, 1) /\ <<>> \in Seq(Gens)
    BY PoolAssumption DEF IsHistory
  <2>4. BlockAccounting
    BY <2>1 DEF BlockAccounting
  <2> QED
    BY <2>1, <2>2, <2>3, <2>4 DEF PoolInv, SlotsCoherent, InUse
<1>2. ArbiterInv
  <2>1. 1 \in Gens /\ Cardinality({}) = 0
    BY PoolAssumption, FS_EmptySet DEF Gens
  <2>2. FreeTrack \in TrackType
    BY PoolAssumption DEF TrackType, Kinds
  <2>3. IsHistory(<<>>, 1) /\ <<>> \in Seq(Gens)
    BY PoolAssumption DEF IsHistory
  <2>4. TrackAccounting
    <3>1. {t \in Tracks : Active(t)} = {}
      BY DEF Active
    <3> QED
      BY <2>1, <3>1 DEF TrackAccounting, Active
  <2> QED
    BY <2>1, <2>2, <2>3, <2>4 DEF ArbiterInv, TracksCoherent, Active
<1>3. /\ holds \in [VMs -> SUBSET Handles]
      /\ HeldObjectLives /\ PlayingObjectLives /\ RefcountExact
  BY DEF HeldObjectLives, PlayingObjectLives, RefcountExact, Active, InUse
<1> QED
  BY <1>1, <1>2, <1>3, IInvParts

\* Every step preserves it.
LEMMA StepInv ==
  ASSUME IInv, [Next]_vars PROVE IInv'
<1>1. ASSUME NEW vm \in VMs, Alloc(vm) PROVE IInv'
  BY <1>1, AllocInv
<1>2. ASSUME NEW vm \in VMs, NEW h \in Handles, Ref(vm, h) PROVE IInv'
  BY <1>2, RefInv
<1>3. ASSUME NEW vm \in VMs, NEW h \in Handles, Unref(vm, h) PROVE IInv'
  BY <1>3, UnrefInv
<1>4. ASSUME NEW vm \in VMs, NEW h \in Handles, NEW kind \in Kinds,
             Play(vm, h, kind)
      PROVE  IInv'
  BY <1>4, PlayInv
<1>5. ASSUME NEW vm \in VMs, PlayExternal(vm) PROVE IInv'
  BY <1>5, PlayExternalInv
<1>6. ASSUME NEW vm \in VMs, ArbiterSweep(vm) PROVE IInv'
  <2>1. {t \in Tracks : tracks[t].ownerVm = vm} \in SUBSET Tracks
    OBVIOUS
  <2> QED
    BY <1>6, <2>1, StopTracksInv DEF ArbiterSweep
<1>7. ASSUME NEW vm \in VMs, SweepByContract(vm) PROVE IInv'
  BY <1>7, SweepInv
<1>8. ASSUME NEW t \in Tracks, NEW gen \in Gens, Stop(t, gen) PROVE IInv'
  <2>1. {t} \in SUBSET Tracks
    OBVIOUS
  <2> QED
    BY <1>8, <2>1, StopTracksInv DEF Stop
<1>9. ASSUME NEW t \in Tracks, Drain(t) PROVE IInv'
  BY <1>9, DrainInv
<1>10. ASSUME Reap PROVE IInv'
  <2>1. Finished \in SUBSET Tracks
    BY DEF Finished
  <2> QED
    BY <1>10, <2>1, StopTracksInv DEF Reap
<1>11. ASSUME UNCHANGED vars PROVE IInv'
  <2>1. /\ UNCHANGED poolVars /\ UNCHANGED arbiterVars
        /\ objects' = objects /\ tracks' = tracks /\ holds' = holds
    BY <1>11 DEF vars, poolVars, arbiterVars
  <2>2. PoolInv /\ ArbiterInv /\ holds \in [VMs -> SUBSET Handles]
        /\ HeldObjectLives /\ PlayingObjectLives /\ RefcountExact
    BY IInvParts
  <2>3. HeldObjectLives' /\ PlayingObjectLives'
    BY <2>1, <2>2 DEF HeldObjectLives, PlayingObjectLives, Resolves, InUse,
                      HandleOf, Active
  <2>4. RefcountExact'
    BY <2>1, <2>2 DEF RefcountExact, HoldersOf, VoicesOf, InUse, HandleOf, Active
  <2> QED
    BY <2>1, <2>2, <2>3, <2>4, PoolUnchanged, ArbiterUnchanged, IInvNext
<1> QED
  BY <1>1, <1>2, <1>3, <1>4, <1>5, <1>6, <1>7, <1>8, <1>9, <1>10, <1>11 DEF Next

\* IInv is an invariant of the specification.
THEOREM Invariance == Spec => []IInv
<1>1. Init => IInv
  BY InitInv
<1>2. IInv /\ [Next]_vars => IInv'
  BY StepInv
<1> QED
  BY <1>1, <1>2, PTL DEF Spec

\* The variables of pool, arbiter and callers keep their types.
THEOREM TypeCorrect == Spec => []TypeOK
<1>1. IInv => TypeOK
  BY DEF IInv
<1> QED
  BY <1>1, Invariance, PTL

\* No block is lost, doubly used or miscounted, whatever the callers do
\* within their contract (audio_pool.c:51-78).
THEOREM BlocksAccounted == Spec => []BlockAccounting
<1>1. IInv => BlockAccounting
  BY DEF IInv
<1> QED
  BY <1>1, Invariance, PTL

\* The reference count of a live object is exactly the number of VMs and
\* voices that use it, so the last drop and no other frees it.
THEOREM RefcountsExact == Spec => []RefcountExact
<1>1. IInv => RefcountExact
  BY DEF IInv
<1> QED
  BY <1>1, Invariance, PTL

\* Nothing can free the object of a sounding voice: not its creator giving
\* it up, not a sweep, not the end of another voice (audio_arbiter.h:53-55).
THEOREM PlayingObjectsLive == Spec => []PlayingObjectLives
<1>1. IInv => PlayingObjectLives
  BY DEF IInv
<1> QED
  BY <1>1, Invariance, PTL

\* The arbiter's count of busy tracks and the mixer's sounding channels agree
\* with the track table.
THEOREM TracksAccounted == Spec => []TrackAccounting
<1>1. IInv => TrackAccounting
  BY DEF IInv
<1> QED
  BY <1>1, Invariance, PTL

\* Handles of freed objects and of finished voices are rejected until the
\* generation counter has gone once round.
THEOREM StaleHandlesRejected == Spec => [](StaleObjectsRejected /\ StaleVoicesRejected)
<1>1. IInv => StaleObjectsRejected /\ StaleVoicesRejected
  <2> SUFFICES ASSUME IInv PROVE StaleObjectsRejected /\ StaleVoicesRejected
    OBVIOUS
  <2>1. PoolInv /\ ArbiterInv
    BY IInvParts
  <2>2. \A s \in Slots : \A i \in DOMAIN deadObjects[s] : generations[s] # deadObjects[s][i]
    BY <2>1, HistoryDiffers DEF PoolInv
  <2>3. \A t \in Tracks : \A i \in DOMAIN deadVoices[t] : trackGens[t] # deadVoices[t][i]
    BY <2>1, HistoryDiffers DEF ArbiterInv
  <2>4. StaleObjectsRejected
    BY <2>1, <2>2 DEF StaleObjectsRejected, Resolves, HandleOf, PoolInv, SlotsCoherent
  <2>5. StaleVoicesRejected
    BY <2>1, <2>3 DEF StaleVoicesRejected, VoiceResolves, ArbiterInv, TracksCoherent
  <2> QED
    BY <2>4, <2>5
<1> QED
  BY <1>1, Invariance, PTL

\* Blocks and tracks both.
THEOREM AllAccounted == Spec => []Accounted
<1>1. BlockAccounting /\ TrackAccounting => Accounted
  BY DEF Accounted
<1> QED
  BY <1>1, BlocksAccounted, TracksAccounted, PTL

\* Neither kind of handle outlives what it named.
THEOREM NothingStaleRevives == Spec => []StaleRejected
<1>1. StaleObjectsRejected /\ StaleVoicesRejected => StaleRejected
  BY DEF StaleRejected
<1> QED
  BY <1>1, StaleHandlesRejected, PTL

-----------------------------------------------------------------------------
(* Pool and arbiter implement ObjectLifetime: the refinement that          *)
(* MCAudioLifetime checks on a small instance, for every instance.         *)

\* The users the counts count: those whose handle resolves.  The steps are
\* mapped with them first, and the refinement mapping of AudioArbiter, which
\* counts dangling references too, agrees with it by the invariant.
CountedUsersOf(s) ==
  ({"vm"} \X HoldersOf(s)) \cup ({"voice"} \X VoicesOf(s, Tracks))

Counted == INSTANCE ObjectLifetime WITH
  Names <- Slots,
  Users <- ({"vm"} \X VMs) \cup ({"voice"} \X Tracks),
  live  <- {s \in Slots : InUse(s)},
  users <- [s \in Slots |-> CountedUsersOf(s)]

\* The abstract state the refinement mapping computes.
LiveSlots == {s \in Slots : InUse(s)}
UserTable == [s \in Slots |-> CountedUsersOf(s)]
Everyone == ({"vm"} \X VMs) \cup ({"voice"} \X Tracks)

\* Users of a slot are users, VMs or voices.
LEMMA UsersType ==
  ASSUME NEW s \in Slots
  PROVE  CountedUsersOf(s) \in SUBSET Everyone
BY DEF CountedUsersOf, Everyone, HoldersOf, VoicesOf

\* Tagging VMs and voices apart adds no user and loses none.
LEMMA TaggedUnion ==
  ASSUME NEW H, NEW V
  PROVE  ({"vm"} \X H) \cup ({"voice"} \X V) = {} <=> H = {} /\ V = {}
<1>1. ASSUME NEW x \in H PROVE <<"vm", x>> \in {"vm"} \X H
  OBVIOUS
<1>2. ASSUME NEW x \in V PROVE <<"voice", x>> \in {"voice"} \X V
  OBVIOUS
<1>3. ASSUME H = {}, V = {} PROVE ({"vm"} \X H) \cup ({"voice"} \X V) = {}
  BY <1>3
<1> QED
  BY <1>1, <1>2, <1>3

\* By the exact counts, the live objects are those with a user.
LEMMA LiveHaveUsers ==
  ASSUME IInv, NEW s \in Slots
  PROVE  InUse(s) <=> CountedUsersOf(s) # {}
<1>1. ASSUME InUse(s) PROVE CountedUsersOf(s) # {}
  <2>1. Cardinality(HoldersOf(s)) + Cardinality(VoicesOf(s, Tracks)) > 0
    BY <1>1 DEF IInv, RefcountExact
  <2>2. HoldersOf(s) # {} \/ VoicesOf(s, Tracks) # {}
    BY <2>1, FS_EmptySet
  <2> QED
    BY <2>2, TaggedUnion DEF CountedUsersOf
<1>2. ASSUME ~InUse(s) PROVE CountedUsersOf(s) = {}
  BY <1>2 DEF CountedUsersOf, HoldersOf, VoicesOf
<1> QED
  BY <1>1, <1>2

\* The same after a step.
LEMMA LiveHaveUsersNext ==
  ASSUME IInv', NEW s \in Slots
  PROVE  InUse(s)' <=> CountedUsersOf(s)' # {}
<1>1. ASSUME InUse(s)' PROVE CountedUsersOf(s)' # {}
  <2>1. Cardinality(HoldersOf(s)') + Cardinality(VoicesOf(s, Tracks)') > 0
    BY <1>1 DEF IInv, RefcountExact
  <2>2. HoldersOf(s)' # {} \/ VoicesOf(s, Tracks)' # {}
    BY <2>1, FS_EmptySet
  <2> QED
    BY <2>2, TaggedUnion DEF CountedUsersOf
<1>2. ASSUME ~InUse(s)' PROVE CountedUsersOf(s)' = {}
  BY <1>2 DEF CountedUsersOf, HoldersOf, VoicesOf
<1> QED
  BY <1>1, <1>2

\* A step after which no object has a user it did not have before is an
\* abstract Leave.
LEMMA FewerUsersIsLeave ==
  ASSUME IInv, IInv', \A s \in Slots : CountedUsersOf(s)' \subseteq CountedUsersOf(s)
  PROVE  Counted!Leave
<1>1. \A s \in Slots : UserTable'[s] = CountedUsersOf(s)' /\ UserTable[s] = CountedUsersOf(s)
  BY DEF UserTable
<1>2. UserTable' \in [Slots -> SUBSET Everyone]
  <2>1. \A s \in Slots : CountedUsersOf(s)' \in SUBSET Everyone
    BY UsersType
  <2> QED
    BY <2>1 DEF UserTable
<1>3. LiveSlots' = {s \in LiveSlots : UserTable'[s] # {}}
  <2>1. \A s \in Slots : InUse(s)' => InUse(s)
    BY LiveHaveUsers, LiveHaveUsersNext
  <2> QED
    BY <1>1, <2>1, LiveHaveUsersNext DEF LiveSlots
<1> QED
  BY <1>1, <1>2, <1>3 DEF Counted!Leave, LiveSlots, UserTable, Everyone

\* Dropping references leaves no slot with a new user.
LEMMA DropFewerUsers ==
  ASSUME IInv, IInv', NEW k \in [Slots -> Nat], DropReferences(k),
         \A vm \in VMs : holds'[vm] \subseteq holds[vm],
         \A t \in Tracks : tracks'[t] = tracks[t] \/ tracks'[t] = FreeTrack
  PROVE  Counted!Leave
<1>1. ASSUME NEW s \in Slots PROVE CountedUsersOf(s)' \subseteq CountedUsersOf(s)
  <2>1. PoolInv
    BY IInvPool
  <2>2. CASE InUse(s)'
    <3>1. s \notin LastDropped(k)
      BY <2>1, <2>2, DropObjects DEF InUse, FreeObject
    <3>2. InUse(s) /\ HandleOf(s)' = HandleOf(s)
      BY <2>1, <2>2, <3>1, DropObjects DEF InUse, HandleOf
    <3>3. HoldersOf(s)' \subseteq HoldersOf(s)
      BY <3>2 DEF HoldersOf
    <3>4. VoicesOf(s, Tracks)' \subseteq VoicesOf(s, Tracks)
      <4>1. \A t \in Tracks : tracks'[t].active => tracks'[t] = tracks[t]
        BY DEF FreeTrack
      <4> QED
        BY <3>2, <4>1 DEF VoicesOf, Active
    <3> QED
      BY <3>3, <3>4 DEF CountedUsersOf
  <2>3. CASE ~InUse(s)'
    BY <2>3, LiveHaveUsersNext
  <2> QED
    BY <2>2, <2>3
<1> QED
  BY <1>1, FewerUsersIsLeave

\* Stopped voices leave their objects.
LEMMA StopTracksLeave ==
  ASSUME IInv, IInv', NEW T \in SUBSET Tracks, StopTracks(T)
  PROVE  Counted!Leave
<1> DEFINE stopped == {t \in T : Active(t)}
           k == [s \in Slots |-> Cardinality(VoicesOf(s, stopped))]
<1>1. /\ DropReferences(k) /\ holds' = holds
      /\ tracks' = [t \in Tracks |-> IF t \in stopped THEN FreeTrack ELSE tracks[t]]
  BY DEF StopTracks
<1>2. k \in [Slots -> Nat]
  <2>1. stopped \in SUBSET Tracks
    OBVIOUS
  <2> HIDE DEF stopped
  <2>2. \A s \in Slots : Cardinality(VoicesOf(s, stopped)) \in Nat
    BY <2>1, UsersFinite
  <2> QED
    BY <2>2
<1> HIDE DEF k, stopped
<1>3. \A t \in Tracks : tracks'[t] = tracks[t] \/ tracks'[t] = FreeTrack
  BY <1>1
<1> QED
  BY <1>1, <1>2, <1>3, DropFewerUsers

\* Loading a sample creates an object with one user.
LEMMA AllocCreates ==
  ASSUME IInv, IInv', NEW vm \in VMs, Alloc(vm)
  PROVE  \E s \in Slots, u \in Everyone : Counted!Create(s, u)
<1>1. PICK s \in Slots, need \in 1 .. freeBlocks, chain \in SUBSET (Blocks \ usedMap) :
        /\ AllocObject(s, vm, need, chain)
        /\ holds' = [holds EXCEPT ![vm] = @ \cup {[slot |-> s, gen |-> generations[s]]}]
  BY DEF Alloc
<1> DEFINE new == [slot |-> s, gen |-> generations[s]]
           u == <<"vm", vm>>
<1>2. /\ ~InUse(s) /\ InUse(s)' /\ HandleOf(s)' = new
      /\ \A r \in Slots \ {s} : objects'[r] = objects[r]
      /\ generations' = generations /\ tracks' = tracks
      /\ holds \in [VMs -> SUBSET Handles]
  BY <1>1 DEF AllocObject, IsFirstFreeSlot, InUse, HandleOf, Alloc, arbiterVars,
              IInv, TypeOK
<1>3. /\ \A v \in VMs : \A h \in holds[v] : h.slot # s
      /\ \A t \in Tracks : Active(t) => tracks[t].object.slot # s
  BY <1>2 DEF IInv, HeldObjectLives, PlayingObjectLives, Resolves, NoHandle, Slots
<1>4. HoldersOf(s)' = {vm}
  BY <1>1, <1>2, <1>3 DEF HoldersOf
<1>5. VoicesOf(s, Tracks)' = {}
  BY <1>2, <1>3 DEF VoicesOf, Active
<1>6. CountedUsersOf(s)' = {u}
  BY <1>4, <1>5 DEF CountedUsersOf
<1>7. ASSUME NEW r \in Slots, r # s PROVE CountedUsersOf(r)' = CountedUsersOf(r)
  <2>1. objects'[r] = objects[r] /\ HandleOf(r)' = HandleOf(r) /\ HandleOf(r) # new
    BY <1>2, <1>7 DEF HandleOf
  <2>2. HoldersOf(r)' = HoldersOf(r)
    BY <1>1, <1>2, <2>1 DEF HoldersOf, InUse
  <2>3. VoicesOf(r, Tracks)' = VoicesOf(r, Tracks)
    BY <1>2, <2>1 DEF VoicesOf, Active, InUse
  <2> QED
    BY <2>2, <2>3 DEF CountedUsersOf
<1>8. UserTable' = [UserTable EXCEPT ![s] = {u}]
  BY <1>6, <1>7 DEF UserTable
<1>9. s \notin LiveSlots /\ LiveSlots' = LiveSlots \cup {s}
  BY <1>2 DEF LiveSlots, InUse
<1>10. u \in Everyone
  BY DEF Everyone
<1>11. Counted!Create(s, u)
  BY <1>8, <1>9 DEF Counted!Create, LiveSlots, UserTable
<1> QED
  BY <1>10, <1>11

\* Sharing an object adds a user to it.
LEMMA RefJoins ==
  ASSUME IInv, NEW vm \in VMs, NEW h \in Handles, Ref(vm, h)
  PROVE  \E s \in Slots, u \in Everyone : Counted!Join(s, u)
<1> DEFINE s == h.slot
           u == <<"vm", vm>>
<1>1. /\ RefObject(h) /\ tracks' = tracks
      /\ holds' = [holds EXCEPT ![vm] = @ \cup {h}]
      /\ holds \in [VMs -> SUBSET Handles]
  BY DEF Ref, arbiterVars, IInv, TypeOK
<1>2. /\ s \in Slots /\ InUse(s) /\ h = HandleOf(s)
      /\ \A r \in Slots : InUse(r)' = InUse(r) /\ HandleOf(r)' = HandleOf(r)
  BY <1>1, IInvPool, RefObjectPool
<1>3. CountedUsersOf(s)' = CountedUsersOf(s) \cup {u}
  <2>1. HoldersOf(s)' = HoldersOf(s) \cup {vm}
    BY <1>1, <1>2 DEF HoldersOf
  <2>2. VoicesOf(s, Tracks)' = VoicesOf(s, Tracks)
    BY <1>1, <1>2 DEF VoicesOf, Active
  <2> QED
    BY <2>1, <2>2 DEF CountedUsersOf
<1>4. ASSUME NEW r \in Slots, r # s PROVE CountedUsersOf(r)' = CountedUsersOf(r)
  <2>1. HandleOf(r) # h
    BY <1>4 DEF HandleOf
  <2>2. HoldersOf(r)' = HoldersOf(r)
    BY <1>1, <1>2, <2>1 DEF HoldersOf
  <2>3. VoicesOf(r, Tracks)' = VoicesOf(r, Tracks)
    BY <1>1, <1>2 DEF VoicesOf, Active
  <2> QED
    BY <2>2, <2>3 DEF CountedUsersOf
<1> HIDE DEF s
<1>5. UserTable' = [UserTable EXCEPT ![s] = @ \cup {u}]
  BY <1>2, <1>3, <1>4 DEF UserTable
<1>6. s \in LiveSlots /\ LiveSlots' = LiveSlots
  BY <1>2 DEF LiveSlots
<1>7. Counted!Join(s, u) /\ u \in Everyone
  BY <1>5, <1>6 DEF Counted!Join, LiveSlots, UserTable, Everyone
<1> QED
  BY <1>2, <1>7

\* Playing an object adds a user to it.
LEMMA PlayJoins ==
  ASSUME IInv, NEW vm \in VMs, NEW h \in Handles, NEW kind \in Kinds,
         Play(vm, h, kind)
  PROVE  \E s \in Slots, u \in Everyone : Counted!Join(s, u)
<1>1. PICK t \in Tracks : RefObject(h) /\ StartVoice(t, vm, kind, h)
  BY DEF Play
<1> DEFINE s == h.slot
           u == <<"voice", t>>
<1>2. /\ s \in Slots /\ InUse(s) /\ h = HandleOf(s)
      /\ \A r \in Slots : InUse(r)' = InUse(r) /\ HandleOf(r)' = HandleOf(r)
  BY <1>1, IInvPool, RefObjectPool
<1>3. /\ ~Active(t) /\ tracks'[t].active /\ tracks'[t].object = h
      /\ \A v \in Tracks \ {t} : tracks'[v] = tracks[v]
      /\ holds' = holds
  BY <1>1, IInvParts, StartVoiceArbiter DEF StartVoice
<1>4. CountedUsersOf(s)' = CountedUsersOf(s) \cup {u}
  <2>1. HoldersOf(s)' = HoldersOf(s)
    BY <1>2, <1>3 DEF HoldersOf
  <2>2. VoicesOf(s, Tracks)' = VoicesOf(s, Tracks) \cup {t}
    BY <1>2, <1>3 DEF VoicesOf, Active
  <2> QED
    BY <2>1, <2>2 DEF CountedUsersOf
<1>5. ASSUME NEW r \in Slots, r # s PROVE CountedUsersOf(r)' = CountedUsersOf(r)
  <2>1. HandleOf(r) # h
    BY <1>5 DEF HandleOf
  <2>2. HoldersOf(r)' = HoldersOf(r)
    BY <1>2, <1>3 DEF HoldersOf
  <2>3. VoicesOf(r, Tracks)' = VoicesOf(r, Tracks)
    BY <1>2, <1>3, <2>1 DEF VoicesOf, Active
  <2> QED
    BY <2>2, <2>3 DEF CountedUsersOf
<1> HIDE DEF s
<1>6. UserTable' = [UserTable EXCEPT ![s] = @ \cup {u}]
  BY <1>2, <1>4, <1>5 DEF UserTable
<1>7. s \in LiveSlots /\ LiveSlots' = LiveSlots
  BY <1>2 DEF LiveSlots
<1>8. Counted!Join(s, u) /\ u \in Everyone
  BY <1>6, <1>7 DEF Counted!Join, LiveSlots, UserTable, Everyone
<1> QED
  BY <1>2, <1>8

\* Steps that change neither objects, nor who holds them, nor what sounds
\* are abstract stuttering.
LEMMA SameUsers ==
  ASSUME objects' = objects, holds' = holds,
         \A s \in Slots : VoicesOf(s, Tracks)' = VoicesOf(s, Tracks)
  PROVE  UNCHANGED Counted!lifetimeVars
<1>1. \A s \in Slots : CountedUsersOf(s)' = CountedUsersOf(s)
  BY DEF CountedUsersOf, HoldersOf, InUse, HandleOf
<1>2. UserTable' = UserTable
  BY <1>1 DEF UserTable
<1>3. LiveSlots' = LiveSlots
  BY DEF LiveSlots, InUse
<1> QED
  BY <1>2, <1>3 DEF Counted!lifetimeVars, UserTable, LiveSlots

\* Playing a stream concerns no object.
LEMMA PlayExternalStutters ==
  ASSUME IInv, NEW vm \in VMs, PlayExternal(vm)
  PROVE  UNCHANGED Counted!lifetimeVars
<1>1. PICK t \in Tracks : StartVoice(t, vm, "MUSIC", NoHandle)
  BY DEF PlayExternal
<1>2. objects' = objects /\ holds' = holds
  BY <1>1 DEF PlayExternal, poolVars, StartVoice
<1>3. /\ ~Active(t) /\ tracks'[t].object = NoHandle
      /\ \A v \in Tracks \ {t} : tracks'[v] = tracks[v]
  <2>1. "MUSIC" \in Kinds /\ NoHandle \in Handles \cup {NoHandle}
    BY DEF Kinds
  <2> QED
    BY <1>1, <2>1, IInvParts, StartVoiceArbiter
<1>4. ASSUME NEW s \in Slots PROVE VoicesOf(s, Tracks)' = VoicesOf(s, Tracks)
  <2>1. HandleOf(s) # NoHandle
    BY DEF HandleOf, NoHandle, Slots
  <2> QED
    BY <1>2, <1>3, <2>1 DEF VoicesOf, Active, InUse, HandleOf
<1> QED
  BY <1>2, <1>4, SameUsers

\* Every step maps to an abstract step or to none.
LEMMA StepRefines ==
  ASSUME IInv, IInv', [Next]_vars
  PROVE  [Counted!Next]_Counted!lifetimeVars
<1> USE DEF Counted!Next
<1>1. ASSUME NEW vm \in VMs, Alloc(vm) PROVE Counted!Next
  BY <1>1, AllocCreates DEF Everyone
<1>2. ASSUME NEW vm \in VMs, NEW h \in Handles, Ref(vm, h) PROVE Counted!Next
  BY <1>2, RefJoins DEF Everyone
<1>3. ASSUME NEW vm \in VMs, NEW h \in Handles, NEW kind \in Kinds,
             Play(vm, h, kind)
      PROVE  Counted!Next
  BY <1>3, PlayJoins DEF Everyone
<1>4. ASSUME NEW vm \in VMs, NEW h \in Handles, Unref(vm, h) PROVE Counted!Next
  <2> DEFINE k == [s \in Slots |-> IF Resolves(h) /\ s = h.slot THEN 1 ELSE 0]
  <2>1. DropReferences(k) /\ k \in [Slots -> Nat]
    BY <1>4 DEF Unref, UnrefObject
  <2>2. /\ \A v \in VMs : holds'[v] \subseteq holds[v]
        /\ tracks' = tracks
    BY <1>4 DEF Unref, arbiterVars, IInv, TypeOK
  <2> QED
    BY <2>1, <2>2, DropFewerUsers
<1>5. ASSUME NEW vm \in VMs, SweepByContract(vm) PROVE Counted!Next
  <2> DEFINE k == [s \in Slots |->
                     IF InUse(s) /\ objects[s].ownerVm = vm THEN 1 ELSE 0]
  <2>1. DropReferences(k) /\ k \in [Slots -> Nat]
    BY <1>5 DEF SweepByContract, PoolSweep, SweepObjects
  <2>2. /\ \A v \in VMs : holds'[v] \subseteq holds[v]
        /\ tracks' = tracks
    BY <1>5 DEF SweepByContract, PoolSweep, arbiterVars, IInv, TypeOK
  <2> QED
    BY <2>1, <2>2, DropFewerUsers
<1>6. ASSUME NEW vm \in VMs, ArbiterSweep(vm) PROVE Counted!Next
  <2>1. {t \in Tracks : tracks[t].ownerVm = vm} \in SUBSET Tracks
    OBVIOUS
  <2> QED
    BY <1>6, <2>1, StopTracksLeave DEF ArbiterSweep
<1>7. ASSUME NEW t \in Tracks, NEW gen \in Gens, Stop(t, gen) PROVE Counted!Next
  <2>1. {t} \in SUBSET Tracks
    OBVIOUS
  <2> QED
    BY <1>7, <2>1, StopTracksLeave DEF Stop
<1>8. ASSUME Reap PROVE Counted!Next
  <2>1. Finished \in SUBSET Tracks
    BY DEF Finished
  <2> QED
    BY <1>8, <2>1, StopTracksLeave DEF Reap
<1>9. ASSUME NEW t \in Tracks, Drain(t) PROVE UNCHANGED Counted!lifetimeVars
  <2>1. objects' = objects /\ holds' = holds /\ tracks' = tracks
    BY <1>9 DEF Drain
  <2> QED
    BY <2>1, SameUsers DEF VoicesOf, Active, InUse, HandleOf
<1>10. ASSUME UNCHANGED vars PROVE UNCHANGED Counted!lifetimeVars
  <2>1. objects' = objects /\ holds' = holds /\ tracks' = tracks
    BY <1>10 DEF vars
  <2> QED
    BY <2>1, SameUsers DEF VoicesOf, Active, InUse, HandleOf
<1> QED
  BY <1>1, <1>2, <1>3, <1>4, <1>5, <1>6, <1>7, <1>8, <1>9, <1>10,
     PlayExternalStutters DEF Next

\* At the start nothing is live and nobody uses anything.
LEMMA InitRefines ==
  ASSUME Init PROVE Counted!Init
<1>1. \A s \in Slots : ~InUse(s)
  BY DEF Init, PoolInit, FreeObject, InUse
<1>2. \A s \in Slots : CountedUsersOf(s) = {}
  BY <1>1 DEF CountedUsersOf, HoldersOf, VoicesOf
<1> QED
  BY <1>1, <1>2 DEF Counted!Init

\* No reference dangles, so both mappings give the same users.
LEMMA NobodyDangles ==
  ASSUME HeldObjectLives, PlayingObjectLives, NEW s \in Slots
  PROVE  UsersOf(s) = CountedUsersOf(s)
<1>1. ASSUME NEW vm \in VMs
      PROVE  vm \in HoldersOf(s) <=> \E h \in holds[vm] : h.slot = s
  <2>1. ASSUME NEW h \in holds[vm], h.slot = s PROVE InUse(s) /\ HandleOf(s) \in holds[vm]
    BY <2>1 DEF HeldObjectLives, Resolves
  <2>2. HandleOf(s).slot = s
    BY DEF HandleOf
  <2> QED
    BY <2>1, <2>2 DEF HoldersOf
<1>2. ASSUME NEW t \in Tracks
      PROVE  t \in VoicesOf(s, Tracks) <=> Active(t) /\ tracks[t].object.slot = s
  <2>1. ASSUME Active(t), tracks[t].object.slot = s
        PROVE  InUse(s) /\ tracks[t].object = HandleOf(s)
    BY <2>1 DEF PlayingObjectLives, Resolves, NoHandle, Slots
  <2>2. HandleOf(s).slot = s
    BY DEF HandleOf
  <2> QED
    BY <2>1, <2>2 DEF VoicesOf
<1>3. HoldersOf(s) = {vm \in VMs : \E h \in holds[vm] : h.slot = s}
  BY <1>1 DEF HoldersOf
<1>4. VoicesOf(s, Tracks) = {t \in Tracks : Active(t) /\ tracks[t].object.slot = s}
  BY <1>2 DEF VoicesOf
<1> QED
  BY <1>3, <1>4 DEF UsersOf, CountedUsersOf

\* Both mappings give one user table.
MappingsAgree ==
  [s \in Slots |-> UsersOf(s)] = [s \in Slots |-> CountedUsersOf(s)]

\* In the invariant both mappings count the same users: no user dangles.
LEMMA SameMapping ==
  ASSUME IInv PROVE MappingsAgree
BY NobodyDangles DEF IInv, MappingsAgree

\* Pool, arbiter and callers together implement the promise of audio_pool.h:
\* an object comes to life with one user, lives while it has one, and goes
\* when its last user does.
THEOREM Implementation == Spec => ImplementsLifetime
<1>1. Init => Lifetime!Init
  BY InitRefines, InitInv, SameMapping DEF Lifetime!Init, Counted!Init, MappingsAgree
<1>2. IInv => MappingsAgree
  BY SameMapping
<1>3. IInv /\ IInv' /\ MappingsAgree /\ MappingsAgree' /\ [Next]_vars
        => [Lifetime!Next]_Lifetime!lifetimeVars
  <2> SUFFICES ASSUME IInv, IInv', MappingsAgree, MappingsAgree', [Next]_vars
               PROVE  [Lifetime!Next]_Lifetime!lifetimeVars
    OBVIOUS
  <2>1. [Counted!Next]_Counted!lifetimeVars
    BY StepRefines
  <2> QED
    BY <2>1 DEF MappingsAgree,
                Lifetime!Next, Lifetime!Create, Lifetime!Join, Lifetime!Leave,
                Lifetime!lifetimeVars, Counted!Next, Counted!Create,
                Counted!Join, Counted!Leave, Counted!lifetimeVars
<1> QED
  BY <1>1, <1>2, <1>3, Invariance, PTL DEF Spec, ImplementsLifetime, Lifetime!Spec

-----------------------------------------------------------------------------
(* Induction over Nat, by pigeonhole: below a number left out, adding one   *)
(* would lose an element.                                                   *)

\* Induction, for a set in place of a predicate.
LEMMA NatSet ==
  ASSUME NEW S \in SUBSET Nat, 0 \in S, \A n \in S : n + 1 \in S
  PROVE  S = Nat
<1> SUFFICES ASSUME NEW k \in Nat, k \notin S PROVE FALSE
  OBVIOUS
<1> DEFINE T == S \cap 0..k
           U == T \ {0}
           succ == [n \in T |-> n + 1]
<1>1. IsFiniteSet(T)
  <2>1. IsFiniteSet(0..k)
    BY FS_Interval
  <2> QED
    BY <2>1, FS_Subset, T \in SUBSET (0..k)
<1>2. 0 \in T
  OBVIOUS
<1>3. succ \in [T -> U]
  OBVIOUS
<1>4. \A x \in T, y \in T : x # y => succ[x] # succ[y]
  OBVIOUS
<1> HIDE DEF T, succ
<1>5. IsFiniteSet(U) /\ Cardinality(U) = Cardinality(T) - 1
  BY <1>1, <1>2, FS_RemoveElement
<1>6. Cardinality(U) < Cardinality(T)
  BY <1>1, <1>5, FS_CardinalityType
<1> HIDE DEF U
<1>7. \E x, y \in T : x # y /\ succ[x] = succ[y]
  BY <1>1, <1>3, <1>5, <1>6, FS_PigeonHole
<1> QED
  BY <1>4, <1>7

\* A set of naturals has a least element.
LEMMA HasLeast ==
  ASSUME NEW S \in SUBSET Nat, S # {}
  PROVE  \E n \in S : \A m \in S : n <= m
<1> SUFFICES ASSUME \A n \in S : \E m \in S : m < n PROVE FALSE
  OBVIOUS
<1> DEFINE N == {n \in Nat : \A m \in 0 .. n : m \notin S}
<1>1. 0 \in N
  OBVIOUS
<1>2. ASSUME NEW n \in N PROVE n + 1 \in N
  <2>1. n + 1 \notin S
    <3> SUFFICES ASSUME n + 1 \in S PROVE FALSE
      OBVIOUS
    <3>1. PICK m \in S : m < n + 1
      OBVIOUS
    <3> QED BY <3>1
  <2> QED BY <2>1
<1>3. N = Nat
  <2>1. N \in SUBSET Nat
    OBVIOUS
  <2> HIDE DEF N
  <2> QED BY <1>1, <1>2, <2>1, NatSet
<1>4. PICK k \in S : TRUE
  OBVIOUS
<1>5. k \in N
  BY <1>3, <1>4
<1> QED
  BY <1>4, <1>5

\* Below a bound, it has a greatest element.
LEMMA HasGreatest ==
  ASSUME NEW k \in Nat, NEW S \in SUBSET (0 .. k), S # {}
  PROVE  \E n \in S : \A m \in S : n >= m
<1> DEFINE T == {n \in Nat : k - n \in S}
<1>1. T # {}
  <2>1. PICK n \in S : TRUE
    OBVIOUS
  <2>2. k - n \in Nat /\ k - (k - n) = n
    BY <2>1
  <2> QED BY <2>1, <2>2
<1>2. PICK n \in T : \A m \in T : n <= m
  <2>1. T \in SUBSET Nat
    OBVIOUS
  <2> HIDE DEF T
  <2> QED BY <1>1, <2>1, HasLeast
<1>3. ASSUME NEW m \in S PROVE k - n >= m
  <2>1. k - m \in T
    <3>1. k - m \in Nat /\ k - (k - m) = m
      OBVIOUS
    <3> QED BY <3>1
  <2> QED BY <1>2, <2>1
<1> QED
  BY <1>2, <1>3

-----------------------------------------------------------------------------
(* The algorithms: a question stays what it is, and only what it asks is    *)
(* answered.                                                                *)

\* A question of a kind is one of those that are put.
OfItsKind ==
  /\ question.ask = "mask" => question \in MaskQuestions
  /\ question.ask = "map" => question \in MapQuestions

LEMMA QuestionsAreOfAKind == ASSUME AskInit PROVE OfItsKind
<1>1. AskGeometry \/ AskSounds \/ AskFilms \/ AskStores
  BY DEF AskInit
<1>2. ASSUME AskGeometry PROVE OfItsKind
  <2>1. ASSUME question \in MaskQuestions PROVE question.ask = "mask"
    BY <2>1 DEF MaskQuestions
  <2>2. ASSUME question \in MapQuestions PROVE question.ask = "map"
    BY <2>2 DEF MapQuestions
  <2>3. ASSUME question \in PictureQuestions PROVE question.ask = "picture"
    BY <2>3 DEF PictureQuestions
  <2>4. ASSUME question \in BodyQuestions PROVE question.ask = "bodies"
    BY <2>4 DEF BodyQuestions
  <2>5. ASSUME question \in BounceQuestions PROVE question.ask = "bounce"
    BY <2>5 DEF BounceQuestions
  <2>6. ASSUME question \in LensQuestions PROVE question.ask = "lens"
    BY <2>6 DEF LensQuestions
  <2>7. ASSUME question \in TurnQuestions PROVE question.ask = "turn"
    BY <2>7 DEF TurnQuestions
  <2>8. ASSUME question \in WorldQuestions PROVE question.ask = "world"
    BY <2>8 DEF WorldQuestions
  <2> QED
    BY <1>2, <2>1, <2>2, <2>3, <2>4, <2>5, <2>6, <2>7, <2>8 DEF AskGeometry, OfItsKind
<1>3. ASSUME AskSounds PROVE question.ask \in {"mix", "taps", "sync", "wav", "sink"}
  <2>1. ASSUME question \in MixQuestions PROVE question.ask = "mix"
    BY <2>1 DEF MixQuestions
  <2>2. ASSUME question \in TapQuestions PROVE question.ask = "taps"
    BY <2>2 DEF TapQuestions
  <2>3. ASSUME question \in SyncQuestions PROVE question.ask = "sync"
    BY <2>3 DEF SyncQuestions
  <2>4. ASSUME question \in WavQuestions PROVE question.ask = "wav"
    BY <2>4 DEF WavQuestions
  <2>5. ASSUME question \in SinkQuestions PROVE question.ask = "sink"
    BY <2>5 DEF SinkQuestions
  <2> QED
    BY <1>3, <2>1, <2>2, <2>3, <2>4, <2>5 DEF AskSounds
<1>4. ASSUME AskFilms PROVE question.ask \in {"overlay", "bars", "tone"}
  BY <1>4 DEF AskFilms, OverlayQuestions, ToneQuestions
<1>5. ASSUME AskStores
      PROVE  question.ask \in {"bits", "pool", "bind", "load", "arena", "pack", "keys"}
  <2>1. ASSUME question \in LoadQuestions PROVE question.ask = "load"
    BY <2>1 DEF LoadQuestions
  <2>2. ASSUME question \in PackQuestions PROVE question.ask = "pack"
    BY <2>2 DEF PackQuestions
  <2>3. ASSUME question \in KeyQuestions PROVE question.ask = "keys"
    BY <2>3 DEF KeyQuestions
  <2> QED
    BY <1>5, <2>1, <2>2, <2>3
    DEF AskStores, BitQuestions, PoolQuestions, BindQuestions, ArenaQuestions
<1> QED
  BY <1>1, <1>2, <1>3, <1>4, <1>5 DEF OfItsKind

\* The answers that are none of this module's concern.
LEMMA AnswersAside ==
  ASSUME AskNext
  PROVE  /\ question' = question
         /\ \/ AnswerMask \/ AnswerMap \/ AnswerBits \/ AnswerPool \/ AnswerBind
            \/ question.ask \notin {"mask", "map", "bits", "pool", "bind"}
<1>1. ASSUME AnswerMask \/ AnswerMap \/ AnswerBits \/ AnswerPool \/ AnswerBind
      PROVE  question' = question
  <2>1. ASSUME AnswerMask PROVE question' = question
    BY <2>1, Zenon DEF AnswerMask, Answers
  <2>2. ASSUME AnswerMap PROVE question' = question
    BY <2>2, Zenon DEF AnswerMap, Answers
  <2>3. ASSUME AnswerBits PROVE question' = question
    BY <2>3, Zenon DEF AnswerBits
  <2>4. ASSUME AnswerPool PROVE question' = question
    BY <2>4, Zenon DEF AnswerPool
  <2>5. ASSUME AnswerBind PROVE question' = question
    BY <2>5, Zenon DEF AnswerBind
  <2> QED
    BY <1>1, <2>1, <2>2, <2>3, <2>4, <2>5
<1> DEFINE Aside == question' = question /\ question.ask \notin {"mask", "map", "bits", "pool", "bind"}
<1>2. ASSUME AnswerPicture PROVE Aside
  <2>1. question.ask = "picture" /\ question' = question
    BY <1>2, Zenon DEF AnswerPicture, Answers
  <2> QED BY <2>1
<1>3. ASSUME AnswerBodies PROVE Aside
  <2>1. question.ask = "bodies" /\ question' = question
    BY <1>3, Zenon DEF AnswerBodies, Answers
  <2> QED BY <2>1
<1>4. ASSUME AnswerBounce PROVE Aside
  <2>1. question.ask = "bounce" /\ question' = question
    BY <1>4, Zenon DEF AnswerBounce, Answers
  <2> QED BY <2>1
<1>5. ASSUME AnswerLens PROVE Aside
  <2>1. question.ask = "lens" /\ question' = question
    BY <1>5, Zenon DEF AnswerLens, Answers
  <2> QED BY <2>1
<1>6. ASSUME AnswerTurn PROVE Aside
  <2>1. question.ask = "turn" /\ question' = question
    BY <1>6, Zenon DEF AnswerTurn
  <2> QED BY <2>1
<1>7. ASSUME AnswerWorld PROVE Aside
  <2>1. question.ask = "world" /\ question' = question
    BY <1>7, Zenon DEF AnswerWorld
  <2> QED BY <2>1
<1>8. ASSUME AnswerMix \/ AnswerTaps \/ AnswerSync \/ AnswerWav \/ AnswerSink PROVE Aside
  <2>1. question.ask \in {"mix", "taps", "sync", "wav", "sink"} /\ question' = question
    <3>1. ASSUME AnswerMix PROVE question.ask = "mix" /\ question' = question
      BY <3>1, Zenon DEF AnswerMix, Answers
    <3>2. ASSUME AnswerTaps PROVE question.ask = "taps" /\ question' = question
      BY <3>2 DEF AnswerTaps, Answers
    <3>3. ASSUME AnswerSync PROVE question.ask = "sync" /\ question' = question
      BY <3>3, Zenon DEF AnswerSync
    <3>4. ASSUME AnswerWav PROVE question.ask = "wav" /\ question' = question
      BY <3>4, Zenon DEF AnswerWav, Answers
    <3>5. ASSUME AnswerSink PROVE question.ask = "sink" /\ question' = question
      BY <3>5, Zenon DEF AnswerSink, Answers
    <3> QED
      BY <1>8, <3>1, <3>2, <3>3, <3>4, <3>5
  <2> QED BY <2>1
<1>9. ASSUME AnswerShots \/ AnswerBars \/ AnswerTone PROVE Aside
  <2>1. question.ask \in {"overlay", "bars", "tone"} /\ question' = question
    <3>1. ASSUME AnswerShots PROVE question.ask = "overlay" /\ question' = question
      BY <3>1, Zenon DEF AnswerShots, OverlayFrame
    <3>2. ASSUME AnswerBars PROVE question.ask = "bars" /\ question' = question
      BY <3>2, Zenon DEF AnswerBars, OverlayFrame
    <3>3. ASSUME AnswerTone PROVE question.ask = "tone" /\ question' = question
      BY <3>3, Zenon DEF AnswerTone, Answers
    <3> QED
      BY <1>9, <3>1, <3>2, <3>3
  <2> QED BY <2>1
<1>10. ASSUME AnswerLoad \/ AnswerArena \/ AnswerPack \/ AnswerKeys PROVE Aside
  <2>1. question.ask \in {"load", "arena", "pack", "keys"} /\ question' = question
    <3>1. ASSUME AnswerLoad PROVE question.ask = "load" /\ question' = question
      BY <3>1, Zenon DEF AnswerLoad, Answers
    <3>2. ASSUME AnswerArena PROVE question.ask = "arena" /\ question' = question
      BY <3>2, Zenon DEF AnswerArena
    <3>3. ASSUME AnswerPack PROVE question.ask = "pack" /\ question' = question
      BY <3>3, Zenon DEF AnswerPack, Answers
    <3>4. ASSUME AnswerKeys PROVE question.ask = "keys" /\ question' = question
      BY <3>4, Zenon DEF AnswerKeys
    <3> QED
      BY <1>10, <3>1, <3>2, <3>3, <3>4
  <2> QED BY <2>1
<1> HIDE DEF Aside
<1>11. \/ AnswerMask \/ AnswerMap \/ AnswerBits \/ AnswerPool \/ AnswerBind
       \/ Aside
  BY <1>2, <1>3, <1>4, <1>5, <1>6, <1>7, <1>8, <1>9, <1>10 DEF AskNext
<1> QED
  BY <1>1, <1>11 DEF Aside

-----------------------------------------------------------------------------
(* Maps of metatiles: what the strips and the rectangle are made of.        *)

\* A quotient and a remainder are what they multiply and add up to.
LEMMA Divided ==
  ASSUME NEW n \in Nat \ {0}, NEW q \in Int, NEW r \in 0 .. (n - 1)
  PROVE  (n * q + r) \div n = q /\ (n * q + r) % n = r
<1> DEFINE x == n * q + r
           p == x \div n
           s == x % n
           d == p - q
<1>1. x \in Int /\ p \in Int /\ s \in 0 .. (n - 1) /\ x = n * p + s
  OBVIOUS
<1>2. n * q \in Int /\ x = n * q + r
  OBVIOUS
<1> HIDE DEF x, p, s
<1>3. d \in Int /\ n * d = n * p - n * q /\ n * p \in Int /\ n * d \in Int
  BY <1>1
<1> HIDE DEF d
<1>4. n * d = r - s
  BY <1>1, <1>2, <1>3
<1>5. n * d < n /\ n * d > -n
  BY <1>1, <1>4
<1>6. ~(d >= 1)
  <2> SUFFICES ASSUME d >= 1 PROVE n * d >= n
    BY <1>3, <1>5
  <2> QED BY <1>3
<1>7. ~(d <= -1)
  <2> SUFFICES ASSUME d <= -1 PROVE n * d <= -n
    BY <1>3, <1>5
  <2> QED BY <1>3
<1>8. d = 0 /\ n * d = 0
  BY <1>3, <1>6, <1>7
<1> QED
  BY <1>1, <1>4, <1>8 DEF d, p, s, x

\* A tile of a wrapped map of w metatiles of s tiles is that of its metatile, wrapped.
Wraps(x, w, s, n) ==
  /\ (x % n) \in 0 .. (n - 1)
  /\ (x % n) \div s = (x \div s) % w
  /\ (x % n) % s = x % s

LEMMA WrappedPlace ==
  ASSUME NEW w \in Nat \ {0}, NEW s \in Nat \ {0}, NEW x \in Int,
         NEW n \in Int, n = w * s
  PROVE  Wraps(x, w, s, n)
<1> DEFINE q == x \div s
           r == x % s
           k == q \div w
           m == q % w
           t == s * m + r
<1>1. q \in Int /\ r \in 0 .. (s - 1) /\ x = s * q + r
  OBVIOUS
<1>2. k \in Int /\ m \in 0 .. (w - 1) /\ q = w * k + m
  BY <1>1
<1>3. n \in Nat \ {0}
  OBVIOUS
<1> HIDE DEF q, r
<1> HIDE DEF k, m
<1>4. x = n * k + t
  <2>1. s * q = s * (w * k) + s * m
    BY <1>2
  <2>2. s * (w * k) = n * k
    BY <1>2
  <2>3. n * k \in Int /\ s * m \in Int
    BY <1>2, <1>3
  <2> QED
    BY <1>1, <2>1, <2>2, <2>3
<1>5. t \in 0 .. (n - 1)
  <2>1. s * m <= s * (w - 1) /\ s * m \in Nat
    BY <1>2
  <2>2. s * (w - 1) = n - s
    OBVIOUS
  <2> QED
    BY <1>1, <1>3, <2>1, <2>2
<1>6. x % n = t
  <2> HIDE DEF t
  <2> QED
    BY <1>2, <1>3, <1>4, <1>5, Divided
<1>7. t \div s = m /\ t % s = r
  BY <1>1, <1>2, Divided
<1> QED
  BY <1>3, <1>5, <1>6, <1>7 DEF q, r, k, m, Wraps

\* A tile is on the map when its metatile is.
LEMMA PlaceOnMap ==
  ASSUME NEW w \in Nat, NEW s \in Nat \ {0}, NEW x \in Int
  PROVE  x \in 0 .. (w * s - 1) <=> x \div s \in 0 .. (w - 1)
<1> DEFINE q == x \div s
           r == x % s
<1>1. q \in Int /\ r \in 0 .. (s - 1) /\ x = s * q + r /\ s * q \in Int
  OBVIOUS
<1>2. w * s \in Nat /\ w * s = s * w
  OBVIOUS
<1> HIDE DEF q, r
<1>3. ASSUME q \in 0 .. (w - 1) PROVE x \in 0 .. (w * s - 1)
  <2>1. s * q <= s * (w - 1) /\ s * q >= 0
    BY <1>3
  <2>2. s * (w - 1) = s * w - s
    OBVIOUS
  <2>3. s * w \in Nat
    OBVIOUS
  <2> QED
    BY <1>1, <1>2, <2>1, <2>2, <2>3
<1>4. ASSUME q < 0 PROVE x < 0
  <2>1. s * q <= -s
    BY <1>1, <1>4
  <2> QED BY <1>1, <2>1
<1>5. ASSUME q >= w PROVE x >= w * s
  <2>1. s * q >= s * w
    BY <1>1, <1>5
  <2> QED BY <1>1, <1>2, <2>1
<1> QED
  BY <1>1, <1>2, <1>3, <1>4, <1>5 DEF q

\* The transposed copy has the number of a metatile where its column is.
Numbered(rows, w, h, i, j) == At(Transpose(rows, w, h), i * h + j) = At(rows, j * w + i)

LEMMA TransposedNumber ==
  ASSUME NEW rows, NEW w \in Nat \ {0}, NEW h \in Nat \ {0},
         NEW i \in 0 .. (w - 1), NEW j \in 0 .. (h - 1)
  PROVE  Numbered(rows, w, h, i, j)
<1> DEFINE at == i * h + j
<1>1. at \in 0 .. (w * h - 1)
  <2>1. i * h <= (w - 1) * h /\ i * h \in Nat
    OBVIOUS
  <2>2. (w - 1) * h = w * h - h
    OBVIOUS
  <2>3. w * h \in Nat
    OBVIOUS
  <2> QED
    BY <2>1, <2>2, <2>3
<1>2. at \div h = i /\ at % h = j
  <2>1. h * i + j = at
    OBVIOUS
  <2>2. (h * i + j) \div h = i /\ (h * i + j) % h = j
    BY Divided
  <2> QED
    BY <2>1, <2>2
<1> HIDE DEF at
<1>3. at + 1 \in 1 .. w * h /\ (at + 1) - 1 = at
  <2>1. w * h \in Nat
    OBVIOUS
  <2> QED
    BY <1>1, <2>1
<1>4. Transpose(rows, w, h)[at + 1] = At(rows, (at % h) * w + (at \div h))
  BY <1>3 DEF Transpose
<1> QED
  BY <1>2, <1>4 DEF At, at, Numbered

\* Whichever array it is looked up in, and on whichever side of the map's edges, a
\* tile is the one of the map laid out tile by tile.
RightTile(size, seed, wrap, x, y, columns) ==
  /\ LayerValid(MapLayer(size, seed, wrap))
  /\ Lookup(MapLayer(size, seed, wrap), x, y, columns) = TileOfMap(size, seed, wrap, x, y)

LEMMA LookedUp ==
  ASSUME NEW size \in (Nat \ {0}) \X (Nat \ {0}), NEW seed \in Nat, NEW wrap \in BOOLEAN,
         NEW x \in Int, NEW y \in Int, NEW columns \in BOOLEAN
  PROVE  RightTile(size, seed, wrap, x, y, columns)
<1> DEFINE L == MapLayer(size, seed, wrap)
           w == size[1]
           h == size[2]
           i == IF wrap THEN (x \div MapSide) % w ELSE x \div MapSide
           j == IF wrap THEN (y \div MapSide) % h ELSE y \div MapSide
           u == IF wrap THEN x % (w * MapSide) ELSE x
           v == IF wrap THEN y % (h * MapSide) ELSE y
           mt == IF columns /\ L.cols # <<>> THEN At(L.cols, i * h + j) ELSE At(L.rows, j * w + i)
           on == i \in 0 .. (w - 1) /\ j \in 0 .. (h - 1)
<1>1. w \in Nat \ {0} /\ h \in Nat \ {0} /\ MapSide = 2
  BY DEF MapSide
<1>2. /\ L.w = w /\ L.h = h /\ L.side = MapSide /\ L.rows = MapRows(size, seed)
      /\ L.cols = Transpose(MapRows(size, seed), w, h) /\ L.defs = MapDefs
      /\ L.oob = Outside /\ L.wrap = wrap
  BY DEF MapLayer
<1>3. w * h \in Nat \ {0}
  BY <1>1
<1>4. LayerValid(L) /\ DefCount(L) = 3
  <2>1. L.rows # <<>>
    <3>1. 1 \in DOMAIN L.rows
      BY <1>2, <1>3 DEF MapRows
    <3> QED BY <3>1
  <2>2. L.defs \in Seq(Int) /\ Len(L.defs) = 12
    BY <1>1, <1>2 DEF MapDefs
  <2>3. L.defs # <<>>
    <3>1. 1 \in DOMAIN L.defs
      BY <1>1, <1>2 DEF MapDefs
    <3> QED BY <3>1
  <2>4. 12 \div (2 * 2) = 3
    OBVIOUS
  <2> HIDE DEF L
  <2> QED
    BY <1>1, <1>2, <2>1, <2>2, <2>3, <2>4 DEF LayerValid, DefCount
<1> HIDE DEF L, w, h
<1>5. /\ u \in Int /\ v \in Int /\ i \in Int /\ j \in Int
      /\ u \div MapSide = i /\ u % MapSide = x % MapSide
      /\ v \div MapSide = j /\ v % MapSide = y % MapSide
      /\ u \in 0 .. (w * MapSide - 1) <=> i \in 0 .. (w - 1)
      /\ v \in 0 .. (h * MapSide - 1) <=> j \in 0 .. (h - 1)
  <2>1. MapSide \in Nat \ {0}
    BY <1>1
  <2>2. CASE wrap
    <3> DEFINE across == w * MapSide
               down == h * MapSide
    <3>2. across \in Int /\ across = w * MapSide /\ down \in Int /\ down = h * MapSide
      BY <1>1
    <3> HIDE DEF across, down
    <3>1. Wraps(x, w, MapSide, across) /\ Wraps(y, h, MapSide, down)
      BY <1>1, <2>1, <3>2, WrappedPlace
    <3>3. i \in 0 .. (w - 1) /\ j \in 0 .. (h - 1)
      BY <1>1, <2>1, <2>2
    <3> QED
      BY <1>1, <2>1, <2>2, <3>1, <3>2, <3>3 DEF Wraps
  <2>3. CASE ~wrap
    <3>1. x \in 0 .. (w * MapSide - 1) <=> x \div MapSide \in 0 .. (w - 1)
      BY <1>1, <2>1, PlaceOnMap
    <3>2. y \in 0 .. (h * MapSide - 1) <=> y \div MapSide \in 0 .. (h - 1)
      BY <1>1, <2>1, PlaceOnMap
    <3> QED
      BY <1>1, <2>1, <2>3, <3>1, <3>2
  <2> QED
    BY <2>2, <2>3
<1>6. Lookup(L, x, y, columns) =
        IF ~on THEN Outside
        ELSE IF mt >= 3 THEN Outside
        ELSE At(MapDefs, mt * MapSide * MapSide + (y % MapSide) * MapSide + (x % MapSide))
  BY <1>2, <1>4 DEF Lookup
<1>7. TileOfMap(size, seed, wrap, x, y) =
        LET number == MapRows(size, seed)[1 + j * w + i]
        IN  IF ~on THEN Outside
            ELSE IF number > 2 THEN Outside
            ELSE MapDefs[1 + number * MapSide * MapSide + (y % MapSide) * MapSide + (x % MapSide)]
  <2>1. TileOfMap(size, seed, wrap, x, y) =
          LET number == MapRows(size, seed)[1 + (v \div MapSide) * w + (u \div MapSide)]
          IN  IF u \notin 0 .. (w * MapSide - 1) \/ v \notin 0 .. (h * MapSide - 1) THEN Outside
              ELSE IF number > 2 THEN Outside
              ELSE MapDefs[1 + number * MapSide * MapSide + (v % MapSide) * MapSide + (u % MapSide)]
    BY DEF TileOfMap, w, h
  <2> HIDE DEF u, v, i, j
  <2> QED
    BY <1>5, <2>1
<1>8. ASSUME on
      PROVE  mt = MapRows(size, seed)[1 + j * w + i] /\ mt \in 0 .. 3
  <2> HIDE DEF i, j
  <2>1. At(L.rows, j * w + i) = MapRows(size, seed)[1 + j * w + i]
    <3>1. j * w \in Int
      BY <1>1, <1>5
    <3>2. (j * w + i) + 1 = 1 + j * w + i
      BY <1>5, <3>1
    <3> QED
      BY <1>2, <3>2 DEF At
  <2>2. At(L.cols, i * h + j) = At(L.rows, j * w + i)
    <3>1. i \in 0 .. (w - 1) /\ j \in 0 .. (h - 1)
      BY <1>8
    <3>2. Numbered(MapRows(size, seed), w, h, i, j)
      BY <1>1, <3>1, TransposedNumber
    <3> QED
      BY <1>2, <3>2, Zenon DEF Numbered
  <2>3. 1 + j * w + i \in 1 .. w * h
    <3>1. j * w <= (h - 1) * w /\ j * w \in Nat
      BY <1>1, <1>8
    <3>2. (h - 1) * w = w * h - w
      BY <1>1
    <3> QED
      BY <1>1, <1>3, <1>8, <3>1, <3>2
  <2>4. MapRows(size, seed)[1 + j * w + i] \in 0 .. 3
    <3> DEFINE at == 1 + j * w + i
    <3>1. at \in 1 .. w * h
      BY <2>3
    <3> HIDE DEF at
    <3>2. MapRows(size, seed)[at] = (at * seed) % 4
      BY <3>1 DEF MapRows, w, h
    <3>3. at * seed \in Int
      BY <1>3, <3>1
    <3>4. (at * seed) % 4 \in 0 .. 3
      BY <3>3
    <3> QED
      BY <3>2, <3>4 DEF at
  <2> QED
    BY <2>1, <2>2, <2>4
<1> HIDE DEF mt, i, j
<1>9. ASSUME on
      PROVE  At(MapDefs, mt * MapSide * MapSide + (y % MapSide) * MapSide + (x % MapSide))
               = MapDefs[1 + mt * MapSide * MapSide + (y % MapSide) * MapSide + (x % MapSide)]
  <2>1. mt \in Int /\ x % 2 \in Int /\ y % 2 \in Int
    BY <1>8, <1>9
  <2>2. (mt * 2 * 2 + (y % 2) * 2 + (x % 2)) + 1 = 1 + mt * 2 * 2 + (y % 2) * 2 + (x % 2)
    BY <2>1
  <2> QED
    BY <1>1, <2>2 DEF At
<1>10. Lookup(L, x, y, columns) = TileOfMap(size, seed, wrap, x, y)
  <2>1. CASE ~on
    BY <1>6, <1>7, <2>1
  <2>2. CASE on
    <3> HIDE DEF on
    <3>1. mt >= 3 <=> mt > 2
      BY <1>8, <2>2
    <3> QED
      BY <1>6, <1>7, <1>8, <1>9, <2>2, <3>1
  <2> QED
    BY <2>1, <2>2
<1> QED
  BY <1>4, <1>10 DEF L, RightTile

-----------------------------------------------------------------------------
(* Masks: a row of words against a set of pixels.                           *)

\* The pixels of a mask that are set, without the padding of its rows, at a place.
PixelsAt(m, mx, my) ==
  {p \in Int \X Int : /\ p[1] - mx \in 0 .. (m.w - 1) /\ p[2] - my \in 0 .. (m.h - 1)
                      /\ <<p[1] - mx, p[2] - my>> \in m.bits}
TouchAt(a, ax, ay, b, bx, by) == PixelsAt(a, ax, ay) \cap PixelsAt(b, bx, by)
ScanOrders == {"topleft", "topright", "bottomleft", "bottomright"}

\* The first in a direction of a set of places.
EdgeOf(S, lowest) == CHOOSE n \in S : \A m \in S : IF lowest THEN n <= m ELSE n >= m

LEMMA EdgeIs ==
  ASSUME NEW k \in Nat, NEW S \in SUBSET (0 .. k), S # {}, NEW lowest \in BOOLEAN
  PROVE  /\ EdgeOf(S, lowest) \in S
         /\ \A m \in S : IF lowest THEN EdgeOf(S, lowest) <= m ELSE EdgeOf(S, lowest) >= m
<1>1. \E n \in S : \A m \in S : n <= m
  BY HasLeast, S \in SUBSET Nat
<1>2. \E n \in S : \A m \in S : n >= m
  BY HasGreatest
<1>3. \E n \in S : \A m \in S : IF lowest THEN n <= m ELSE n >= m
  BY <1>1, <1>2
<1> QED
  BY <1>3, Zenon DEF EdgeOf

\* The contact of two masks is the first pixel of the scan that both have set, and
\* there is none when there is none: for masks of any size that is looked at,
\* anything in their padding, any places and any order of the scan
\* (hx421_mask_overlap).
THEOREM ContactIsFirst ==
  ASSUME NEW a, NEW b, a.w \in 0 .. MaskMaxW, a.h \in Nat, b.w \in 0 .. MaskMaxW, b.h \in Nat,
         NEW ax \in Int, NEW ay \in Int, NEW bx \in Int, NEW by \in Int,
         NEW order \in ScanOrders
  PROVE  MaskOverlap(a, ax, ay, b, bx, by, order) =
           {p \in TouchAt(a, ax, ay, b, bx, by) :
              \A q \in TouchAt(a, ax, ay, b, bx, by) \ {p} : ScanBefore(p, q, order)}
<1> DEFINE T == TouchAt(a, ax, ay, b, bx, by)
           dx == bx - ax
           dy == by - ay
           first == IF dy > 0 THEN dy ELSE 0
           end == IF dy + b.h > a.h THEN a.h ELSE dy + b.h
           Both(y) == RowWord(a, y) \cap Shifted(RowWord(b, y - dy), dx)
           hits == {y \in first .. end - 1 : Both(y) # {}}
           down == order \in {"topleft", "topright"}
           left == order \in {"topleft", "bottomleft"}
           row == EdgeOf(hits, down)
           col == EdgeOf(Both(row), left)
           none == a.w > MaskMaxW \/ b.w > MaskMaxW \/ ~Aabb(a, ax, ay, b, bx, by) \/ hits = {}
           result == MaskOverlap(a, ax, ay, b, bx, by, order)
<1>1. result = IF none THEN {} ELSE {<<ax + col, ay + row>>}
  BY Zenon DEF MaskOverlap, EdgeOf
<1>2. /\ MaskMaxW \in Nat /\ WordBits \in Nat /\ MaskMaxW <= WordBits
      /\ dx \in Int /\ dy \in Int /\ first \in Nat /\ end \in Int
      /\ Word = 0 .. (WordBits - 1) /\ end <= a.h
  BY MaskAssumption DEF Word
<1>8. (dy > 0 => first = dy) /\ (~(dy > 0) => first = 0)
  OBVIOUS
<1>9. (dy + b.h > a.h => end = a.h) /\ (~(dy + b.h > a.h) => end = dy + b.h)
  OBVIOUS
<1>10. down \in BOOLEAN /\ left \in BOOLEAN
  OBVIOUS
<1> HIDE DEF first, end, down, left
<1>3. ASSUME NEW x \in Int, NEW y \in first .. end - 1
      PROVE  x \in Both(y) <=> <<ax + x, ay + y>> \in T
  <2>1. x \in RowWord(a, y) <=> x \in 0 .. (a.w - 1) /\ <<x, y>> \in a.bits
    <3>1. x \in 0 .. (a.w - 1) => x \in Word /\ x < a.w
      BY <1>2
    <3>2. x \in Word /\ x < a.w => x \in 0 .. (a.w - 1)
      BY <1>2
    <3> QED
      BY <3>1, <3>2 DEF RowWord
  <2>2. x \in Shifted(RowWord(b, y - dy), dx)
          <=> x \in Word /\ x - dx \in 0 .. (b.w - 1) /\ <<x - dx, y - dy>> \in b.bits
    <3>1. x \in Shifted(RowWord(b, y - dy), dx) <=> x \in Word /\ x - dx \in RowWord(b, y - dy)
      <4>1. \A z \in RowWord(b, y - dy) : z \in Int
        BY <1>2 DEF RowWord
      <4>2. \A z \in Int : x = z + dx <=> z = x - dx
        BY <1>2
      <4> HIDE DEF dx
      <4> QED
        BY <1>2, <4>1, <4>2 DEF Shifted
    <3>2. x - dx \in RowWord(b, y - dy) <=> x - dx \in 0 .. (b.w - 1) /\ <<x - dx, y - dy>> \in b.bits
      BY <1>2 DEF RowWord
    <3> QED
      BY <3>1, <3>2
  <2>3. /\ (ax + x) - ax = x /\ (ay + y) - ay = y
        /\ (ax + x) - bx = x - dx /\ (ay + y) - by = y - dy
        /\ ax + x \in Int /\ ay + y \in Int
    BY <1>2
  <2>4. y \in 0 .. (a.h - 1) /\ y - dy \in 0 .. (b.h - 1)
    BY <1>2, <1>8, <1>9
  <2>5. <<ax + x, ay + y>> \in T
          <=> /\ x \in 0 .. (a.w - 1) /\ <<x, y>> \in a.bits
              /\ x - dx \in 0 .. (b.w - 1) /\ <<x - dx, y - dy>> \in b.bits
    BY <2>3, <2>4 DEF TouchAt, PixelsAt
  <2>6. x \in 0 .. (a.w - 1) => x \in Word
    BY <1>2
  <2> QED
    BY <2>1, <2>2, <2>5, <2>6
<1>4. ASSUME NEW y \in first .. end - 1 PROVE Both(y) \subseteq 0 .. WordBits
  BY <1>2 DEF RowWord
<1>5. ASSUME NEW p \in T
      PROVE  /\ p \in Int \X Int /\ p[2] - ay \in first .. end - 1
             /\ p[1] - ax \in Both(p[2] - ay) /\ Aabb(a, ax, ay, b, bx, by)
  <2>1. /\ p \in Int \X Int
        /\ p[1] - ax \in 0 .. (a.w - 1) /\ p[2] - ay \in 0 .. (a.h - 1)
        /\ p[1] - bx \in 0 .. (b.w - 1) /\ p[2] - by \in 0 .. (b.h - 1)
    BY DEF TouchAt, PixelsAt
  <2>2. p[2] - ay \in first .. end - 1
    <3> DEFINE y == p[2] - ay
    <3>1. y \in 0 .. (a.h - 1) /\ y - dy \in 0 .. (b.h - 1)
      <4>1. y - dy = p[2] - by
        BY <2>1
      <4> QED
        BY <2>1, <4>1
    <3> HIDE DEF y, dy
    <3>2. y >= first
      BY <1>2, <1>8, <3>1
    <3>3. y <= end - 1
      BY <1>2, <1>9, <3>1
    <3>4. y \in first .. end - 1
      BY <1>2, <3>1, <3>2, <3>3
    <3> QED
      BY <3>4 DEF y
  <2>3. p = <<ax + (p[1] - ax), ay + (p[2] - ay)>>
    BY <2>1
  <2>4. p[1] - ax \in Both(p[2] - ay)
    <3> HIDE DEF Both, T, first, end
    <3>1. p[1] - ax \in Int
      BY <2>1
    <3> QED
      BY <1>3, <1>5, <2>2, <2>3, <3>1
  <2>5. Aabb(a, ax, ay, b, bx, by)
    BY <2>1 DEF Aabb
  <2> QED
    BY <2>1, <2>2, <2>4, <2>5
<1> HIDE DEF T, Both
<1>6. CASE none
  <2>1. T = {}
    <3> SUFFICES ASSUME NEW p \in T PROVE FALSE
      OBVIOUS
    <3>1. p[2] - ay \in hits /\ Aabb(a, ax, ay, b, bx, by)
      BY <1>5
    <3> QED
      BY <1>2, <1>6, <3>1
  <2> QED
    BY <1>1, <1>6, <2>1 DEF T
<1>7. CASE ~none
  <2>1. hits # {} /\ hits \in SUBSET (0 .. a.h)
    BY <1>2, <1>7
  <2> HIDE DEF hits
  <2>2. row \in hits /\ \A y \in hits : IF down THEN row <= y ELSE row >= y
    BY <1>10, <2>1, EdgeIs
  <2> HIDE DEF row
  <2>3. row \in first .. end - 1 /\ Both(row) # {}
    BY <2>2 DEF hits
  <2>4. Both(row) \in SUBSET (0 .. WordBits)
    BY <1>4, <2>3
  <2>5. col \in Both(row) /\ \A x \in Both(row) : IF left THEN col <= x ELSE col >= x
    BY <1>2, <1>10, <2>3, <2>4, EdgeIs
  <2> HIDE DEF col
  <2> DEFINE c == <<ax + col, ay + row>>
  <2>6. row \in Int /\ col \in Int
    BY <1>2, <2>3, <2>4, <2>5
  <2>7. c \in T
    BY <1>3, <2>3, <2>5, <2>6
  <2>8. ASSUME NEW q \in T, q # c
        PROVE  ScanBefore(c, q, order) /\ ~ScanBefore(q, c, order)
    <3>1. /\ q \in Int \X Int /\ q[2] - ay \in hits /\ q[1] - ax \in Both(q[2] - ay)
      BY <1>5 DEF hits
    <3> DEFINE y == q[2] - ay
               x == q[1] - ax
    <3>2. x \in Int /\ y \in Int /\ q[1] = ax + x /\ q[2] = ay + y /\ q = <<ax + x, ay + y>>
      BY <3>1
    <3>3. IF down THEN row <= y ELSE row >= y
      BY <2>2, <3>1
    <3>4. y = row => (IF left THEN col <= x ELSE col >= x)
      BY <2>5, <3>1
    <3>5. c[1] = ax + col /\ c[2] = ay + row
      OBVIOUS
    <3> HIDE DEF x, y, c
    <3>6. ~(x = col /\ y = row)
      BY <2>8, <3>2 DEF c
    <3>7. (q[2] < c[2] <=> y < row) /\ (c[2] < q[2] <=> row < y) /\ (q[2] = c[2] <=> y = row)
      BY <2>6, <3>2, <3>5
    <3>8. (q[1] < c[1] <=> x < col) /\ (c[1] < q[1] <=> col < x) /\ (q[1] = c[1] <=> x = col)
      BY <2>6, <3>2, <3>5
    <3> QED
      BY <2>6, <3>2, <3>3, <3>4, <3>6, <3>7, <3>8 DEF ScanBefore, down, left
  <2> HIDE DEF c
  <2>9. result = {c}
    BY <1>1, <1>7 DEF c
  <2>10. {c} = {p \in T : \A q \in T \ {p} : ScanBefore(p, q, order)}
    <3> HIDE DEF result
    <3> QED
      BY <2>7, <2>8
  <2> QED
    BY <2>9, <2>10 DEF T
<1> QED
  BY <1>6, <1>7

\* The parts an actor may have.
PartsOf(art) ==
  \A i \in DOMAIN art : /\ art[i].ox \in Int /\ art[i].oy \in Int
                        /\ art[i].tw \in Nat /\ art[i].th \in Nat /\ art[i].stride \in Nat

\* A mask that is derived has the pixels its art shows, whatever the art
\* (hx421_derive_mask): its sprites may be wider than the actor, off its box, one over
\* another, and of any stride.
THEOREM DerivedShowsArt ==
  ASSUME NEW art, PartsOf(art), NEW x \in 0 .. (MaskSide - 1), NEW y \in 0 .. (MaskSide - 1)
  PROVE  <<x, y>> \in DeriveMask(art, MaskSide, MaskSide).bits <=> Opaque(art, x, y)
<1> DEFINE Stride(p) == IF p.stride # 0 THEN p.stride ELSE p.tw
           Shown(p) == {at \in (0 .. p.tw - 1) \X (0 .. p.th - 1) \X (0 .. TileSide - 1) \X (0 .. TileSide - 1) :
                          <<at[2] * Stride(p) + at[1], at[3], at[4]>> \in p.chr}
           Placed(p) == {<<p.ox + at[1] * TileSide + at[3], p.oy + at[2] * TileSide + at[4]>> :
                           at \in Shown(p)}
           u(p) == x - p.ox
           v(p) == y - p.oy
           Shows(p) == /\ u(p) \in 0 .. (p.tw * TileSide - 1) /\ v(p) \in 0 .. (p.th * TileSide - 1)
                       /\ <<(v(p) \div TileSide) * Stride(p) + (u(p) \div TileSide),
                            u(p) % TileSide, v(p) % TileSide>> \in p.chr
<1>1. TileSide \in Nat \ {0} /\ x \in Int /\ y \in Int
  BY MaskAssumption DEF MaskSide
<1>2. <<x, y>> \in DeriveMask(art, MaskSide, MaskSide).bits
        <=> \E i \in DOMAIN art : <<x, y>> \in Placed(art[i])
  <2>1. DeriveMask(art, MaskSide, MaskSide).bits
          = (UNION {Placed(art[i]) : i \in DOMAIN art})
              \cap ((0 .. (MaskSide - 1)) \X (0 .. (MaskSide - 1)))
    BY DEF DeriveMask
  <2>2. <<x, y>> \in (0 .. (MaskSide - 1)) \X (0 .. (MaskSide - 1))
    OBVIOUS
  <2> HIDE DEF Placed
  <2>3. <<x, y>> \in UNION {Placed(art[i]) : i \in DOMAIN art}
          <=> \E i \in DOMAIN art : <<x, y>> \in Placed(art[i])
    BY Zenon
  <2> DEFINE all == (UNION {Placed(art[i]) : i \in DOMAIN art})
             box == (0 .. (MaskSide - 1)) \X (0 .. (MaskSide - 1))
             at == <<x, y>>
  <2>4. at \in box
    BY <2>2
  <2>6. DeriveMask(art, MaskSide, MaskSide).bits = all \cap box
    BY <2>1, Zenon
  <2> HIDE DEF all, box, at
  <2>5. at \in DeriveMask(art, MaskSide, MaskSide).bits <=> at \in all
    BY <2>4, <2>6
  <2> QED
    BY <2>3, <2>5 DEF at, all
<1>3. Opaque(art, x, y) <=> \E i \in DOMAIN art : Shows(art[i])
  BY DEF Opaque
<1>4. ASSUME NEW p, p.ox \in Int, p.oy \in Int, p.tw \in Nat, p.th \in Nat, p.stride \in Nat
      PROVE  <<x, y>> \in Placed(p) <=> Shows(p)
  <2> DEFINE tx == u(p) \div TileSide
             ty == v(p) \div TileSide
             px == u(p) % TileSide
             py == v(p) % TileSide
  <2>1. u(p) \in Int /\ v(p) \in Int
    BY <1>1, <1>4
  <2>2. /\ u(p) \in 0 .. (p.tw * TileSide - 1) <=> tx \in 0 .. (p.tw - 1)
        /\ v(p) \in 0 .. (p.th * TileSide - 1) <=> ty \in 0 .. (p.th - 1)
    <3> HIDE DEF u, v
    <3> QED
      BY <1>1, <1>4, <2>1, PlaceOnMap
  <2>3. /\ tx \in Int /\ ty \in Int /\ px \in 0 .. (TileSide - 1) /\ py \in 0 .. (TileSide - 1)
        /\ u(p) = TileSide * tx + px /\ v(p) = TileSide * ty + py
    <3>1. \A z \in Int : /\ z \div TileSide \in Int /\ z % TileSide \in 0 .. (TileSide - 1)
                         /\ z = TileSide * (z \div TileSide) + (z % TileSide)
      BY <1>1
    <3> HIDE DEF u, v
    <3> QED
      BY <2>1, <3>1, Zenon
  <2>4. ASSUME Shows(p) PROVE <<x, y>> \in Placed(p)
    <3> DEFINE at == <<tx, ty, px, py>>
    <3>1. at \in Shown(p)
      <4> HIDE DEF tx, ty, px, py
      <4> QED
        BY <2>2, <2>3, <2>4 DEF tx, ty, px, py
    <3>2. p.ox + tx * TileSide + px = x /\ p.oy + ty * TileSide + py = y
      <4>1. tx * TileSide = TileSide * tx /\ ty * TileSide = TileSide * ty
            /\ TileSide * tx \in Int /\ TileSide * ty \in Int
        BY <1>1, <2>3
      <4>2. x = p.ox + u(p) /\ y = p.oy + v(p)
        BY <1>1, <1>4
      <4> HIDE DEF u, v, tx, ty, px, py
      <4> QED
        BY <1>1, <1>4, <2>3, <4>1, <4>2
    <3>3. at[1] = tx /\ at[2] = ty /\ at[3] = px /\ at[4] = py
      OBVIOUS
    <3> HIDE DEF at, Shown, tx, ty, px, py
    <3> QED
      BY <3>1, <3>2, <3>3
  <2>5. ASSUME <<x, y>> \in Placed(p) PROVE Shows(p)
    <3>1. PICK at \in Shown(p) : <<x, y>> = <<p.ox + at[1] * TileSide + at[3],
                                               p.oy + at[2] * TileSide + at[4]>>
      <4> HIDE DEF Shown
      <4> QED
        BY <2>5
    <3>2. /\ at[1] \in 0 .. (p.tw - 1) /\ at[2] \in 0 .. (p.th - 1)
          /\ at[3] \in 0 .. (TileSide - 1) /\ at[4] \in 0 .. (TileSide - 1)
          /\ <<at[2] * Stride(p) + at[1], at[3], at[4]>> \in p.chr
      BY <3>1
    <3> HIDE DEF Shown
    <3>3. /\ at[1] * TileSide = TileSide * at[1] /\ TileSide * at[1] \in Int
          /\ at[2] * TileSide = TileSide * at[2] /\ TileSide * at[2] \in Int
          /\ at[1] \in Int /\ at[2] \in Int /\ at[3] \in Int /\ at[4] \in Int
      BY <1>1, <1>4, <3>2
    <3>4. u(p) = TileSide * at[1] + at[3] /\ v(p) = TileSide * at[2] + at[4]
      BY <1>1, <1>4, <3>1, <3>3
    <3>5. tx = at[1] /\ px = at[3] /\ ty = at[2] /\ py = at[4]
      <4> HIDE DEF u, v
      <4>1. /\ (TileSide * at[1] + at[3]) \div TileSide = at[1]
            /\ (TileSide * at[1] + at[3]) % TileSide = at[3]
        BY <1>1, <3>2, <3>3, Divided
      <4>2. /\ (TileSide * at[2] + at[4]) \div TileSide = at[2]
            /\ (TileSide * at[2] + at[4]) % TileSide = at[4]
        BY <1>1, <3>2, <3>3, Divided
      <4> QED
        BY <3>4, <4>1, <4>2
    <3> HIDE DEF u, v
    <3>6. <<ty * Stride(p) + tx, px, py>> \in p.chr
      <4> HIDE DEF tx, ty, px, py, Stride
      <4> QED
        BY <3>2, <3>5
    <3> QED
      BY <2>2, <3>2, <3>5, <3>6
  <2> QED
    BY <2>4, <2>5
<1> HIDE DEF Placed, Shows
<1>5. ASSUME NEW i \in DOMAIN art PROVE <<x, y>> \in Placed(art[i]) <=> Shows(art[i])
  BY <1>4 DEF PartsOf
<1> QED
  BY <1>2, <1>3, <1>5

\* The pixels of a derived mask, whatever its padding.
LEMMA PixelsOfArt ==
  ASSUME NEW art, PartsOf(art), NEW junk \in BOOLEAN, NEW mx \in Int, NEW my \in Int
  PROVE  /\ ActorMask(art, junk).w = MaskSide /\ ActorMask(art, junk).h = MaskSide
         /\ \A p \in Int \X Int :
              p \in PixelsAt(ActorMask(art, junk), mx, my)
                <=> /\ p[1] - mx \in 0 .. (MaskSide - 1) /\ p[2] - my \in 0 .. (MaskSide - 1)
                    /\ Opaque(art, p[1] - mx, p[2] - my)
<1> DEFINE d == DeriveMask(art, MaskSide, MaskSide)
           m == ActorMask(art, junk)
<1>1. /\ d = [w |-> d.w, h |-> d.h, bits |-> d.bits] /\ d.w = MaskSide /\ d.h = MaskSide
  BY DEF DeriveMask
<1>2. m = IF junk THEN [d EXCEPT !.bits = @ \cup ((d.w .. RowBits - 1) \X (0 .. d.h - 1))] ELSE d
  BY DEF ActorMask, Padded
<1> HIDE DEF d, m
<1>3. m.w = MaskSide /\ m.h = MaskSide
  BY <1>1, <1>2
<1>4. ASSUME NEW x \in 0 .. (MaskSide - 1), NEW y \in 0 .. (MaskSide - 1)
      PROVE  <<x, y>> \in m.bits <=> <<x, y>> \in d.bits
  <2>1. x \notin d.w .. RowBits - 1
    BY <1>1 DEF MaskSide
  <2>2. CASE junk
    <3>1. m.bits = d.bits \cup ((d.w .. RowBits - 1) \X (0 .. d.h - 1))
      BY <1>1, <1>2, <2>2
    <3> QED
      BY <2>1, <3>1
  <2>3. CASE ~junk
    BY <1>2, <2>3
  <2> QED
    BY <2>2, <2>3
<1>5. ASSUME NEW p \in Int \X Int
      PROVE  p \in PixelsAt(m, mx, my)
               <=> /\ p[1] - mx \in 0 .. (MaskSide - 1) /\ p[2] - my \in 0 .. (MaskSide - 1)
                   /\ Opaque(art, p[1] - mx, p[2] - my)
  <2>1. p \in PixelsAt(m, mx, my)
          <=> /\ p[1] - mx \in 0 .. (MaskSide - 1) /\ p[2] - my \in 0 .. (MaskSide - 1)
              /\ <<p[1] - mx, p[2] - my>> \in m.bits
    BY <1>3 DEF PixelsAt
  <2>2. ASSUME p[1] - mx \in 0 .. (MaskSide - 1), p[2] - my \in 0 .. (MaskSide - 1)
        PROVE  <<p[1] - mx, p[2] - my>> \in m.bits <=> Opaque(art, p[1] - mx, p[2] - my)
    BY <1>4, <2>2, DerivedShowsArt DEF d
  <2> QED
    BY <2>1, <2>2
<1> QED
  BY <1>3, <1>5 DEF m

\* The actors of the questions.
LEMMA ActorParts == ASSUME NEW art \in ActorArts PROVE PartsOf(art)
<1> DEFINE one == <<Sprite(0, 0, 1, 2, 3, Whole(6) \ {<<3, 0, 1>>})>>
           two == <<Sprite(-1, 1, 2, 1, 0, Whole(2)), Sprite(2, 0, 1, 1, 0, {<<0, 0, 1>>})>>
           three == <<Sprite(1, -1, 1, 1, 1, {<<0, 1, 1>>}),
                      Sprite(0, 2, 2, 1, 2, {<<0, 0, 0>>, <<1, 0, 1>>})>>
<1>1. art = one \/ art = two \/ art = three
  BY Zenon DEF ActorArts
<1>2. PartsOf(one)
  BY DEF PartsOf, Sprite
<1>3. PartsOf(two)
  BY DEF PartsOf, Sprite
<1>4. PartsOf(three)
  BY DEF PartsOf, Sprite
<1> QED
  BY <1>1, <1>2, <1>3, <1>4

\* What is answered to a question about two actors, or about a map.
CopiesAnswered ==
  /\ Answered("mask") =>
       answer = MaskOverlap(ActorMask(question.a, question.junk), 0, 0,
                            ActorMask(question.b, question.junk),
                            question.at[1], question.at[2], question.order)
  /\ Answered("map") =>
       LET L == MapLayer(question.size, question.seed, question.wrap)
           n == question.count
       IN  answer = [columns |-> [i \in 1 .. n |-> ColumnStrip(L, question.x + i - 1, question.y, n)],
                     rows |-> [i \in 1 .. n |-> RowStrip(L, question.y + i - 1, question.x, n)],
                     rect |-> Rect(L, question.x, question.y, n, n)]

LEMMA ContactRight ==
  ASSUME OfItsKind, CopiesAnswered PROVE HitIsFirstOpaque
<1> SUFFICES ASSUME Answered("mask") PROVE HitIsFirstOpaque
  BY DEF HitIsFirstOpaque
<1> DEFINE a == ActorMask(question.a, question.junk)
           b == ActorMask(question.b, question.junk)
           bx == question.at[1]
           by == question.at[2]
           T == TouchAt(a, 0, 0, b, bx, by)
           touching == {p \in (0 .. MaskSide - 1) \X (0 .. MaskSide - 1) :
                          /\ Opaque(question.a, p[1], p[2])
                          /\ Opaque(question.b, p[1] - question.at[1], p[2] - question.at[2])}
<1>1. question \in MaskQuestions
  BY DEF OfItsKind, Answered
<1>2. /\ question.a \in ActorArts /\ question.b \in ActorArts /\ question.junk \in BOOLEAN
      /\ question.order \in Orders /\ question.at \in MaskPlaces
  BY <1>1 DEF MaskQuestions
<1>3. question.order \in ScanOrders /\ bx \in Int /\ by \in Int
  <2>1. question.at \in Int \X Int /\ question.order \in ScanOrders
    BY <1>2, GeometryAssumption DEF ScanOrders
  <2> QED BY <2>1
<1>4. PartsOf(question.a) /\ PartsOf(question.b)
  BY <1>2, ActorParts
<1>5. /\ a.w = MaskSide /\ a.h = MaskSide /\ b.w = MaskSide /\ b.h = MaskSide
      /\ MaskSide \in 0 .. MaskMaxW /\ MaskSide \in Nat
  <2>1. MaskSide \in 0 .. MaskMaxW /\ MaskSide \in Nat
    BY GeometryAssumption, MaskAssumption DEF MaskSide
  <2> QED
    BY <1>2, <1>3, <1>4, <2>1, PixelsOfArt
<1>6. answer = {p \in T : \A q \in T \ {p} : ScanBefore(p, q, question.order)}
  <2>1. answer = MaskOverlap(a, 0, 0, b, bx, by, question.order)
    BY DEF CopiesAnswered
  <2> HIDE DEF a, b, bx, by
  <2>2. MaskOverlap(a, 0, 0, b, bx, by, question.order)
          = {p \in T : \A q \in T \ {p} : ScanBefore(p, q, question.order)}
    BY <1>3, <1>5, ContactIsFirst
  <2> QED
    BY <2>1, <2>2
<1>7. T = touching
  <2>1. ASSUME NEW p \in Int \X Int PROVE p \in T <=> p \in touching
    <3>1. p \in PixelsAt(a, 0, 0)
            <=> /\ p[1] - 0 \in 0 .. (MaskSide - 1) /\ p[2] - 0 \in 0 .. (MaskSide - 1)
                /\ Opaque(question.a, p[1] - 0, p[2] - 0)
      BY <1>2, <1>4, PixelsOfArt
    <3>2. p \in PixelsAt(b, bx, by)
            <=> /\ p[1] - bx \in 0 .. (MaskSide - 1) /\ p[2] - by \in 0 .. (MaskSide - 1)
                /\ Opaque(question.b, p[1] - bx, p[2] - by)
      BY <1>2, <1>3, <1>4, PixelsOfArt
    <3>3. Opaque(question.b, p[1] - bx, p[2] - by)
            => p[1] - bx \in 0 .. (MaskSide - 1) /\ p[2] - by \in 0 .. (MaskSide - 1)
      BY DEF Opaque
    <3>4. p[1] - 0 = p[1] /\ p[2] - 0 = p[2]
      OBVIOUS
    <3>5. p \in T <=> p \in PixelsAt(a, 0, 0) /\ p \in PixelsAt(b, bx, by)
      BY DEF TouchAt
    <3>6. p \in touching <=> /\ p[1] \in 0 .. (MaskSide - 1) /\ p[2] \in 0 .. (MaskSide - 1)
                             /\ Opaque(question.a, p[1], p[2])
                             /\ Opaque(question.b, p[1] - bx, p[2] - by)
      <4>1. p = <<p[1], p[2]>>
        OBVIOUS
      <4> QED BY <4>1
    <3> HIDE DEF T, touching, bx, by
    <3> QED
      BY <3>1, <3>2, <3>3, <3>4, <3>5, <3>6
  <2>2. T \subseteq Int \X Int
    BY DEF TouchAt, PixelsAt
  <2>3. touching \subseteq Int \X Int
    BY <1>5
  <2> HIDE DEF T, touching
  <2> QED
    BY <2>1, <2>2, <2>3
<1> HIDE DEF T
<1>8. answer = {p \in touching : \A q \in touching \ {p} : ScanBefore(p, q, question.order)}
  BY <1>6, <1>7
<1> QED
  BY <1>8, Zenon DEF HitIsFirstOpaque

LEMMA StripsRight ==
  ASSUME OfItsKind, CopiesAnswered PROVE StripsAgree
<1> SUFFICES ASSUME Answered("map"), NEW i \in 1 .. question.count, NEW j \in 1 .. question.count
             PROVE  LET tile == TileOfMap(question.size, question.seed, question.wrap,
                                          question.x + j - 1, question.y + i - 1)
                    IN  /\ answer.rows[i][j] = tile
                        /\ answer.rect[i][j] = tile
                        /\ answer.columns[j][i] = tile
  BY Zenon DEF StripsAgree
<1> DEFINE L == MapLayer(question.size, question.seed, question.wrap)
           n == question.count
           x == question.x
           y == question.y
           tile == TileOfMap(question.size, question.seed, question.wrap, x + j - 1, y + i - 1)
<1>1. question \in MapQuestions
  BY DEF OfItsKind, Answered
<1>2. /\ question.size \in (Nat \ {0}) \X (Nat \ {0}) /\ question.seed \in Nat
      /\ question.wrap \in BOOLEAN /\ x \in Int /\ y \in Int /\ n \in Nat
  BY <1>1, GeometryAssumption DEF MapQuestions
<1>3. /\ x + j - 1 \in Int /\ y + i - 1 \in Int /\ i \in 1 .. n /\ j \in 1 .. n
      /\ x + (j - 1) = x + j - 1 /\ y + (i - 1) = y + i - 1
  BY <1>2
<1>4. /\ LayerValid(L) /\ Lookup(L, x + j - 1, y + i - 1, TRUE) = tile
      /\ Lookup(L, x + j - 1, y + i - 1, FALSE) = tile
  <2> DEFINE u == x + j - 1
             v == y + i - 1
  <2>1. u \in Int /\ v \in Int
    BY <1>3
  <2> HIDE DEF u, v
  <2>2. /\ LayerValid(L) /\ Lookup(L, u, v, TRUE) = TileOfMap(question.size, question.seed, question.wrap, u, v)
        /\ Lookup(L, u, v, FALSE) = TileOfMap(question.size, question.seed, question.wrap, u, v)
    <3>1. ASSUME NEW columns \in BOOLEAN
          PROVE  RightTile(question.size, question.seed, question.wrap, u, v, columns)
      BY <1>2, <2>1, LookedUp, Zenon
    <3>2. /\ RightTile(question.size, question.seed, question.wrap, u, v, TRUE)
          /\ RightTile(question.size, question.seed, question.wrap, u, v, FALSE)
      BY <3>1, Zenon
    <3> QED
      BY <3>2, Zenon DEF RightTile
  <2> QED
    BY <2>2 DEF u, v
<1>5. /\ answer.columns = [k \in 1 .. n |-> ColumnStrip(L, x + k - 1, y, n)]
      /\ answer.rows = [k \in 1 .. n |-> RowStrip(L, y + k - 1, x, n)]
      /\ answer.rect = Rect(L, x, y, n, n)
  BY DEF CopiesAnswered
<1> HIDE DEF L, tile
<1>6. answer.rows[i] = RowStrip(L, y + i - 1, x, n) /\ answer.rect[i] = RowStrip(L, y + i - 1, x, n)
  BY <1>3, <1>4, <1>5 DEF Rect
<1>7. answer.columns[j] = ColumnStrip(L, x + j - 1, y, n)
  BY <1>3, <1>5
<1>8. RowStrip(L, y + i - 1, x, n)[j] = Lookup(L, x + (j - 1), y + i - 1, FALSE)
  BY <1>3, <1>4 DEF RowStrip, Strip
<1>9. ColumnStrip(L, x + j - 1, y, n)[i] = Lookup(L, x + j - 1, y + (i - 1), TRUE)
  BY <1>3, <1>4 DEF ColumnStrip, Strip
<1> QED
  BY <1>3, <1>4, <1>6, <1>7, <1>8, <1>9 DEF tile

\* The packed copies say what the art says, of every question: the contact of two
\* actors wherever they are and in every order of the scan, and the tiles of
\* every map, whatever its size and however far past its edges
\* (hx421_mask.c, hx421_metatile.c).
THEOREM CopiesAlwaysAgree == AskSpec => []CopiesAgree
<1> DEFINE Inv == OfItsKind /\ CopiesAnswered
<1>1. AskInit => Inv
  <2>1. ASSUME AskInit PROVE CopiesAnswered
    BY <2>1 DEF AskInit, CopiesAnswered, Answered
  <2> QED
    BY <2>1, QuestionsAreOfAKind
<1>2. Inv /\ [AskNext]_askVars => Inv'
  <2> SUFFICES ASSUME Inv, [AskNext]_askVars PROVE Inv'
    OBVIOUS
  <2>1. question' = question
    BY AnswersAside DEF askVars
  <2>2. OfItsKind'
    BY <2>1, Zenon DEF OfItsKind, MaskQuestions, MapQuestions
  <2>3. CASE AnswerMask
    <3>1. question.ask = "mask" /\ question.ask # "map"
      BY <2>3, Zenon DEF AnswerMask, Answers
    <3>2. answer' = MaskOverlap(ActorMask(question.a, question.junk), 0, 0,
                                ActorMask(question.b, question.junk),
                                question.at[1], question.at[2], question.order)
      BY <2>3, Zenon DEF AnswerMask, Answers
    <3> QED
      BY <2>1, <2>2, <3>1, <3>2 DEF CopiesAnswered, Answered
  <2>4. CASE AnswerMap
    <3>1. question.ask = "map" /\ question.ask # "mask"
      BY <2>4, Zenon DEF AnswerMap, Answers
    <3>2. LET L == MapLayer(question.size, question.seed, question.wrap)
              n == question.count
          IN  answer' = [columns |-> [i \in 1 .. n |-> ColumnStrip(L, question.x + i - 1, question.y, n)],
                         rows |-> [i \in 1 .. n |-> RowStrip(L, question.y + i - 1, question.x, n)],
                         rect |-> Rect(L, question.x, question.y, n, n)]
      BY <2>4, Zenon DEF AnswerMap, Answers
    <3> QED
      BY <2>1, <2>2, <3>1, <3>2, Zenon DEF CopiesAnswered, Answered
  <2>5. CASE question.ask \notin {"mask", "map"}
    BY <2>1, <2>2, <2>5 DEF CopiesAnswered, Answered
  <2>6. CASE UNCHANGED askVars
    BY <2>2, <2>6, Zenon DEF CopiesAnswered, Answered, askVars
  <2>7. AskNext => AnswerMask \/ AnswerMap \/ question.ask \notin {"mask", "map"}
    <3>1. ASSUME AnswerBits PROVE question.ask = "bits"
      BY <3>1, Zenon DEF AnswerBits
    <3>2. ASSUME AnswerPool PROVE question.ask = "pool"
      BY <3>2, Zenon DEF AnswerPool
    <3>3. ASSUME AnswerBind PROVE question.ask = "bind"
      BY <3>3, Zenon DEF AnswerBind
    <3> QED
      BY <3>1, <3>2, <3>3, AnswersAside
  <2> QED
    BY <2>2, <2>3, <2>4, <2>5, <2>6, <2>7
<1>3. Inv => CopiesAgree
  BY ContactRight, StripsRight DEF CopiesAgree
<1> QED
  BY <1>1, <1>2, <1>3, PTL DEF AskSpec

-----------------------------------------------------------------------------
(* Folds.  FoldLeft and MapThenSumSet take an operator, so each use of them *)
(* is turned into a table once, from these lemmas: a table there is for     *)
(* every step that is a function.                                           *)

\* The last of a set of positions.
LEMMA LastIs ==
  ASSUME NEW n \in Nat, NEW s \in SUBSET (1 .. n), s # {}
  PROVE  Max(s) \in s /\ \A i \in s : Max(s) >= i
<1>1. \E i \in s : \A j \in s : i >= j
  BY HasGreatest, s \in SUBSET (0 .. n)
<1> QED
  BY <1>1, Zenon DEF Max

\* g folds base and what f has at the positions 1 .. n into what they leave, step by
\* step.
FoldTable(g, base, step, f, n) ==
  g = [s \in SUBSET (1 .. n) |-> IF s = {} THEN base ELSE step[<<g[s \ {Max(s)}], f[Max(s)]>>]]

LEMMA FoldExists ==
  ASSUME NEW n \in Nat, NEW D, NEW E, NEW base \in D, NEW f \in [1 .. n -> E],
         NEW step \in [D \X E -> D]
  PROVE  \E g \in [SUBSET (1 .. n) -> D] : FoldTable(g, base, step, f, n)
<1> DEFINE S == 1 .. n
           Small(k) == {s \in SUBSET S : Cardinality(s) <= k}
           Folded(g, s) == IF s = {} THEN base ELSE step[<<g[s \ {Max(s)}], f[Max(s)]>>]
           Right(g, k) == \A s \in Small(k) : g[s] = Folded(g, s)
           N == {k \in Nat : \E g \in [SUBSET S -> D] : Right(g, k)}
<1>0. IsFiniteSet(S)
  BY FS_Interval
<1>1. \A s \in SUBSET S : IsFiniteSet(s) /\ Cardinality(s) \in Nat /\ Cardinality(s) <= Cardinality(S)
  BY <1>0, FS_Subset, FS_CardinalityType
<1>2. ASSUME NEW s \in SUBSET S, s # {}
      PROVE  /\ Max(s) \in S /\ s \ {Max(s)} \in SUBSET S
             /\ Cardinality(s \ {Max(s)}) = Cardinality(s) - 1
  <2>1. Max(s) \in s
    BY <1>2, LastIs
  <2>2. IsFiniteSet(s)
    BY <1>1
  <2> DEFINE m == Max(s)
  <2> HIDE DEF m
  <2>3. m \in s
    BY <2>1 DEF m
  <2>4. Cardinality(s \ {m}) = Cardinality(s) - 1
    BY <2>2, <2>3, FS_RemoveElement
  <2> QED
    BY <2>3, <2>4 DEF m
<1> HIDE DEF S
<1>3. 0 \in N
  <2> DEFINE g == [s \in SUBSET S |-> base]
  <2>1. \A s \in Small(0) : s = {}
    <3> SUFFICES ASSUME NEW s \in Small(0) PROVE s = {}
      OBVIOUS
    <3>1. Cardinality(s) = 0 /\ IsFiniteSet(s)
      BY <1>1
    <3> QED
      BY <3>1, FS_EmptySet
  <2>2. Right(g, 0) /\ g \in [SUBSET S -> D]
    BY <2>1
  <2> HIDE DEF g, Right
  <2> QED
    BY <2>2
<1>4. ASSUME NEW k \in N PROVE k + 1 \in N
  <2>1. PICK g \in [SUBSET S -> D] : Right(g, k)
    OBVIOUS
  <2> DEFINE h == [s \in SUBSET S |-> IF s \in Small(k) THEN g[s] ELSE Folded(g, s)]
  <2>2. \A s \in SUBSET S : Folded(g, s) \in D
    <3> SUFFICES ASSUME NEW s \in SUBSET S, s # {} PROVE step[<<g[s \ {Max(s)}], f[Max(s)]>>] \in D
      OBVIOUS
    <3>1. g[s \ {Max(s)}] \in D /\ f[Max(s)] \in E
      BY <1>2 DEF S
    <3> QED
      BY <3>1
  <2>3. h \in [SUBSET S -> D]
    BY <2>2
  <2>4. \A s \in SUBSET S : s \in Small(k) => h[s] = g[s]
    OBVIOUS
  <2>5. ASSUME NEW s \in Small(k + 1) PROVE h[s] = Folded(h, s)
    <3>1. CASE s = {}
      BY <2>1, <2>5, <3>1
    <3>2. CASE s # {}
      <4>0. s \in SUBSET S /\ Cardinality(s) <= k + 1 /\ k \in Nat /\ Cardinality(s) \in Nat
        BY <1>1
      <4> DEFINE r == s \ {Max(s)}
      <4>a. r \in SUBSET S /\ Cardinality(r) = Cardinality(s) - 1
        BY <1>2, <3>2, <4>0
      <4> HIDE DEF r
      <4>b. r \in Small(k)
        BY <4>0, <4>a
      <4>1. s \ {Max(s)} \in Small(k)
        BY <4>b DEF r
      <4>2. h[s \ {Max(s)}] = g[s \ {Max(s)}]
        BY <2>4, <4>1
      <4>3. h[s] = Folded(g, s)
        BY <2>1, <2>5
      <4> QED
        BY <3>2, <4>2, <4>3
    <3> QED
      BY <3>1, <3>2
  <2>6. Right(h, k + 1) /\ k + 1 \in Nat
    <3> HIDE DEF h, Folded
    <3> QED
      BY <2>5
  <2> HIDE DEF h, Right
  <2> QED
    BY <2>3, <2>6
<1>5. N = Nat
  <2>1. N \in SUBSET Nat
    OBVIOUS
  <2> HIDE DEF N
  <2> QED
    BY <1>3, <1>4, <2>1, NatSet
<1>6. Cardinality(S) \in Nat
  BY <1>0, FS_CardinalityType
<1>7. PICK g \in [SUBSET S -> D] : Right(g, Cardinality(S))
  <2>1. Cardinality(S) \in N
    BY <1>5, <1>6
  <2> HIDE DEF Right
  <2> QED
    BY <2>1
<1>8. \A s \in SUBSET S : g[s] = Folded(g, s)
  BY <1>1, <1>7
<1>9. g = [s \in SUBSET S |-> Folded(g, s)]
  BY <1>8
<1> QED
  BY <1>9 DEF FoldTable, S

\* The same, position by position.
LEMMA UpTo ==
  ASSUME NEW n \in Nat, NEW i \in 1 .. n
  PROVE  /\ (1 .. i) # {} /\ (1 .. i) \in SUBSET (1 .. n) /\ Max(1 .. i) = i
         /\ (1 .. i) \ {Max(1 .. i)} = 1 .. (i - 1)
<1> DEFINE S == 1 .. i
<1>0. i \in S /\ \A j \in S : j \in 1 .. n
  OBVIOUS
<1>1. (1 .. i) # {} /\ (1 .. i) \in SUBSET (1 .. n)
  <2> HIDE DEF S
  <2>1. S # {} /\ S \in SUBSET (1 .. n)
    BY <1>0
  <2> QED
    BY <2>1 DEF S
<1>2. Max(1 .. i) \in 1 .. i /\ Max(1 .. i) >= i
  <2> HIDE DEF S
  <2>1. Max(S) \in S /\ \A j \in S : Max(S) >= j
    <3>1. S \in SUBSET (1 .. n) /\ S # {}
      BY <1>0
    <3> QED
      BY <3>1, LastIs
  <2> QED
    BY <1>0, <2>1 DEF S
<1>3. Max(1 .. i) = i
  BY <1>2
<1> QED
  BY <1>1, <1>3

-----------------------------------------------------------------------------
(* The free map.                                                            *)

\* A step of the count of zeros.
Halved(c, half) ==
  IF c.word \cap (0 .. half - 1) = {}
  THEN [n |-> c.n + half, word |-> {b - half : b \in c.word}]
  ELSE c

\* What it counts, half by half.
Counting(h, word) ==
  /\ h[0] = [n |-> 0, word |-> word]
  /\ \A i \in 1 .. Len(SetHalves) : h[i] = Halved(h[i - 1], SetHalves[i])

LEMMA CtzCounts ==
  ASSUME NEW word \in SUBSET Ones, word # {}
  PROVE  \E h : Counting(h, word) /\ Ctz(word) = h[Len(SetHalves)].n
<1> DEFINE n == Len(SetHalves)
           D == [n : Int, word : SUBSET Int]
           E == Nat \ {0}
           base == [n |-> 0, word |-> word]
           step == [z \in D \X E |-> Halved(z[1], z[2])]
           value(g, s) == IF s = {} THEN base ELSE Halved(g[s \ {Max(s)}], SetHalves[Max(s)])
           Eq(g) == g = [s \in SUBSET (1 .. n) |-> value(g, s)]
           iter == CHOOSE g : Eq(g)
<1>1. n \in Nat /\ SetHalves \in [1 .. n -> E] /\ DOMAIN SetHalves = 1 .. n
  BY BitsetAssumption
<1>2. Ctz(word) = iter[1 .. n].n
  BY <1>1, Zenon DEF Ctz, FoldLeft, MapThenFoldSet, Halved
<1>3. base \in D
  BY DEF Ones
<1>4. step \in [D \X E -> D]
  <2> SUFFICES ASSUME NEW c \in D, NEW half \in E PROVE Halved(c, half) \in D
    OBVIOUS
  <2> QED
    BY DEF Halved
<1>5. PICK g \in [SUBSET (1 .. n) -> D] : FoldTable(g, base, step, SetHalves, n)
  <2> HIDE DEF D, E, base, step, n
  <2> QED
    BY <1>1, <1>3, <1>4, FoldExists
<1>6. Eq(g)
  <2>1. ASSUME NEW s \in SUBSET (1 .. n), s # {}
        PROVE  step[<<g[s \ {Max(s)}], SetHalves[Max(s)]>>] = Halved(g[s \ {Max(s)}], SetHalves[Max(s)])
    <3>1. Max(s) \in 1 .. n
      BY <1>1, <2>1, LastIs
    <3>2. g[s \ {Max(s)}] \in D /\ SetHalves[Max(s)] \in E
      BY <1>1, <3>1
    <3> HIDE DEF D, E
    <3> QED
      BY <3>2
  <2> QED
    BY <1>5, <2>1 DEF FoldTable
<1>7. Eq(iter)
  <2> HIDE DEF Eq
  <2> QED
    BY <1>6
<1> DEFINE h == [i \in 0 .. n |-> iter[1 .. i]]
<1> HIDE DEF iter
<1>8. h[0] = base
  <2>1. (1 .. 0) = {} /\ {} \in SUBSET (1 .. n)
    OBVIOUS
  <2> QED
    BY <1>1, <1>7, <2>1
<1>9. ASSUME NEW i \in 1 .. n PROVE h[i] = Halved(h[i - 1], SetHalves[i])
  <2>1. /\ (1 .. i) # {} /\ (1 .. i) \in SUBSET (1 .. n) /\ Max(1 .. i) = i
        /\ (1 .. i) \ {Max(1 .. i)} = 1 .. (i - 1)
    BY <1>1, UpTo
  <2>2. iter[1 .. i] = value(iter, 1 .. i)
    BY <1>7, <2>1
  <2>3. i \in 0 .. n /\ i - 1 \in 0 .. n
    BY <1>1
  <2> QED
    BY <2>1, <2>2, <2>3
<1>10. n \in 0 .. n
  BY <1>1
<1>11. Ctz(word) = h[n].n
  BY <1>2, <1>10
<1>12. Counting(h, word)
  <2> HIDE DEF h
  <2> QED
    BY <1>8, <1>9 DEF Counting
<1> HIDE DEF h
<1> QED
  BY <1>11, <1>12

\* How far off the count can be after so many halves.
Off(i) == IF i = 0 THEN 2 * SetHalves[1] ELSE SetHalves[i]

\* What has been counted is not past the least bit and near it, and the word is
\* shifted by it.
NearLeast(c, word, least, i) ==
  /\ c.n \in 0 .. least /\ c.word = {b - c.n : b \in word}
  /\ least - c.n < Off(i)

\* One half keeps it so, at half the distance.
LEMMA HalfNearer ==
  ASSUME NEW word \in SUBSET Ones, NEW least \in word, \A b \in word : least <= b,
         NEW i \in 1 .. Len(SetHalves), NEW c, NearLeast(c, word, least, i - 1)
  PROVE  NearLeast(Halved(c, SetHalves[i]), word, least, i)
<1> DEFINE half == SetHalves[i]
           k == c.n
<1>1. /\ half \in Nat \ {0} /\ Off(i) = half /\ Off(i - 1) <= 2 * half
      /\ Off(i - 1) \in Nat
  <2>1. Len(SetHalves) \in Nat /\ i - 1 \in Int
    BY BitsetAssumption
  <2>2. CASE i = 1
    BY <2>1, <2>2, BitsetAssumption DEF Off
  <2>3. CASE i # 1
    <3>1. i - 1 \in 1 .. Len(SetHalves) - 1 /\ i - 1 + 1 = i
      BY <2>1, <2>3
    <3>2. SetHalves[i - 1] <= 2 * SetHalves[i]
      BY <3>1, BitsetAssumption
    <3> QED
      BY <2>1, <2>3, <3>1, <3>2, BitsetAssumption DEF Off
  <2> QED
    BY <2>2, <2>3
<1>2. /\ k \in 0 .. least /\ c.word = {b - k : b \in word} /\ least - k < 2 * half
      /\ least \in Nat /\ \A b \in word : b \in Int
  <2>1. least \in Nat /\ \A b \in word : b \in Int
    BY DEF Ones
  <2>2. k \in 0 .. least /\ c.word = {b - k : b \in word} /\ least - k < Off(i - 1)
    BY DEF NearLeast
  <2> HIDE DEF half, k
  <2> QED
    BY <1>1, <2>1, <2>2
<1> HIDE DEF half, k
<1>3. CASE c.word \cap (0 .. half - 1) = {}
  <2>1. least - k >= half
    <3>1. least - k \in c.word
      BY <1>2
    <3>2. least - k \in Nat
      BY <1>2
    <3>3. least - k \notin 0 .. half - 1
      BY <1>3, <3>1
    <3> QED
      BY <1>1, <3>2, <3>3
  <2>2. {b - half : b \in c.word} = {b - (k + half) : b \in word}
    <3>1. \A b \in word : (b - k) - half = b - (k + half)
      BY <1>1, <1>2
    <3> QED
      BY <1>2, <3>1
  <2>3. Halved(c, half) = [n |-> k + half, word |-> {b - (k + half) : b \in word}]
    BY <1>3, <2>2 DEF Halved, k
  <2>4. k + half \in 0 .. least /\ least - (k + half) < half
    BY <1>1, <1>2, <2>1
  <2> QED
    BY <1>1, <2>3, <2>4 DEF NearLeast, half
<1>4. CASE c.word \cap (0 .. half - 1) # {}
  <2>1. PICK x \in c.word : x \in 0 .. half - 1
    BY <1>4
  <2>2. PICK b \in word : x = b - k
    BY <1>2, <2>1
  <2>3. least - k < half
    BY <1>1, <1>2, <2>1, <2>2
  <2>4. Halved(c, half) = c
    BY <1>4 DEF Halved
  <2> QED
    BY <1>1, <1>2, <2>3, <2>4 DEF NearLeast, half, k
<1> QED
  BY <1>3, <1>4

\* The count of the zeros below the lowest bit is that bit, for a word of any width.
THEOREM CtzIsLeast ==
  ASSUME NEW word \in SUBSET Ones, word # {}
  PROVE  Ctz(word) \in word /\ \A b \in word : Ctz(word) <= b
<1>1. PICK h : Counting(h, word) /\ Ctz(word) = h[Len(SetHalves)].n
  BY CtzCounts
<1>2. PICK least \in word : \A b \in word : least <= b
  <2>1. word \in SUBSET Nat
    BY DEF Ones
  <2> QED
    BY <2>1, HasLeast
<1>3. Len(SetHalves) \in Nat \ {0}
  BY BitsetAssumption
<1> DEFINE N == {i \in Nat : i <= Len(SetHalves) => NearLeast(h[i], word, least, i)}
<1>4. 0 \in N
  <2>1. word = {b - 0 : b \in word}
    <3>1. \A b \in word : b - 0 = b
      BY DEF Ones
    <3> QED
      BY <3>1
  <2>2. least \in Nat /\ least < 2 * SetHalves[1]
    BY BitsetAssumption, <1>3 DEF Ones
  <2>3. h[0] = [n |-> 0, word |-> word]
    BY <1>1 DEF Counting
  <2>4. NearLeast(h[0], word, least, 0)
    BY <2>1, <2>2, <2>3 DEF NearLeast, Off
  <2> QED
    BY <2>4
<1>5. ASSUME NEW i \in N PROVE i + 1 \in N
  <2> SUFFICES ASSUME i + 1 <= Len(SetHalves) PROVE NearLeast(h[i + 1], word, least, i + 1)
    OBVIOUS
  <2>1. i + 1 \in 1 .. Len(SetHalves) /\ (i + 1) - 1 = i
    BY <1>3
  <2> DEFINE j == i + 1
  <2> HIDE DEF j
  <2>2. j \in 1 .. Len(SetHalves) /\ j - 1 = i /\ i \in N /\ i <= Len(SetHalves)
    BY <2>1, <1>3 DEF j
  <2>3. h[j] = Halved(h[j - 1], SetHalves[j])
    BY <1>1, <2>2, Zenon DEF Counting
  <2>4. NearLeast(h[j - 1], word, least, j - 1)
    BY <2>2
  <2>5. NearLeast(Halved(h[j - 1], SetHalves[j]), word, least, j)
    BY <1>2, <2>2, <2>4, HalfNearer
  <2> QED
    BY <2>3, <2>5 DEF j
<1>6. N = Nat
  <2>1. N \in SUBSET Nat
    OBVIOUS
  <2> HIDE DEF N
  <2> QED
    BY <1>4, <1>5, <2>1, NatSet
<1>7. NearLeast(h[Len(SetHalves)], word, least, Len(SetHalves))
  BY <1>3, <1>6
<1>8. h[Len(SetHalves)].n = least
  <2>1. Off(Len(SetHalves)) = 1
    BY <1>3, BitsetAssumption DEF Off
  <2>2. least \in Nat
    BY DEF Ones
  <2> QED
    BY <1>7, <2>1, <2>2 DEF NearLeast
<1> QED
  BY <1>1, <1>2, <1>8

\* The least of a set of naturals,
LEMMA FirstIs ==
  ASSUME NEW S \in SUBSET Nat, S # {}
  PROVE  Min(S) \in S /\ \A i \in S : Min(S) <= i
<1>1. \E i \in S : \A j \in S : i <= j
  BY HasLeast
<1> QED
  BY <1>1, Zenon DEF Min

\* and what it is.
LEMMA IsFirst ==
  ASSUME NEW S \in SUBSET Nat, NEW i \in S, \A j \in S : i <= j
  PROVE  Min(S) = i
<1>1. Min(S) \in S /\ \A j \in S : Min(S) <= j
  BY FirstIs
<1>2. Min(S) \in Nat /\ i \in Nat /\ Min(S) <= i /\ i <= Min(S)
  BY <1>1
<1> DEFINE m == Min(S)
<1> HIDE DEF m
<1>3. m \in Nat /\ i \in Nat /\ m <= i /\ i <= m
  BY <1>2 DEF m
<1>4. m = i
  BY <1>3
<1> QED
  BY <1>4 DEF m

\* How many words there are, and what the last of them holds.
LEMMA WordsAre ==
  \E c \in Nat \ {0} :
    /\ Words = 0 .. c - 1 /\ LastWord = c - 1
    /\ SetWord * (c - 1) \in Nat /\ SetBits <= SetWord * (c - 1) + SetWord
    /\ SetWord * (c - 1) < SetBits
    /\ TailMask = 0 .. SetBits - SetWord * (c - 1) - 1
<1> DEFINE q == SetBits \div SetWord
           r == SetBits % SetWord
           c == (SetBits + SetWord - 1) \div SetWord
<1>1. /\ SetBits \in Nat \ {0} /\ SetWord \in Nat \ {0} /\ q \in Int /\ r \in 0 .. SetWord - 1
      /\ SetBits = SetWord * q + r
  BY BitsetAssumption
<1>2. Words = 0 .. c - 1 /\ c \in Int
  BY <1>1 DEF Words
<1>3. c >= 1 => LastWord = c - 1
  <2>1. Cardinality(0 .. c - 1) = IF 0 > c - 1 THEN 0 ELSE c - 1 - 0 + 1
    BY <1>2, FS_Interval
  <2> HIDE DEF c
  <2> QED
    BY <1>2, <2>1 DEF LastWord
<1>4. q >= 0
  <2> HIDE DEF q, r
  <2>0. SetWord * q \in Int
    BY <1>1
  <2>1. SetWord * q > -SetWord
    BY <1>1, <2>0
  <2>2. q <= -1 => SetWord * q <= -SetWord
    BY <1>1
  <2> QED
    BY <1>1, <2>1, <2>2
<1>5. CASE r = 0
  <2> HIDE DEF q, r
  <2>1. SetBits + SetWord - 1 = SetWord * q + (SetWord - 1) /\ SetWord - 1 \in 0 .. (SetWord - 1)
    BY <1>1, <1>5
  <2>2. c = q
    BY <1>1, <2>1, Divided
  <2>3. q # 0
    BY <1>1, <1>5
  <2>4. SetWord * (q - 1) = SetWord * q - SetWord /\ SetWord * q \in Int
    BY <1>1
  <2>5. TailMask = 0 .. SetWord - 1
    BY <1>5 DEF TailMask, Ones, r
  <2>6. SetWord * q = SetBits
    BY <1>1, <1>5, <2>4
  <2> HIDE DEF c
  <2>7. SetWord * (c - 1) = SetBits - SetWord /\ c \in Nat \ {0}
    BY <1>1, <1>4, <2>2, <2>3, <2>4, <2>6
  <2>8. SetBits - SetWord >= 0
    <3>1. SetWord * q >= SetWord
      BY <1>1, <1>4, <2>3
    <3> QED
      BY <2>6, <3>1, <1>1
  <2> QED
    BY <1>1, <1>2, <1>3, <2>5, <2>7, <2>8
<1>6. CASE r # 0
  <2> HIDE DEF q, r
  <2>1. SetBits + SetWord - 1 = SetWord * (q + 1) + (r - 1) /\ r - 1 \in 0 .. (SetWord - 1)
    <3>1. SetWord * (q + 1) = SetWord * q + SetWord /\ SetWord * q \in Int
      BY <1>1
    <3> QED
      BY <1>1, <1>6, <3>1
  <2>2. c = q + 1
    BY <1>1, <2>1, Divided
  <2>3. TailMask = 0 .. r - 1
    BY <1>6 DEF TailMask, Ones, r
  <2>4. SetWord * q \in Nat
    BY <1>1, <1>4
  <2> HIDE DEF c
  <2>5. c - 1 = q /\ c \in Nat \ {0}
    BY <1>1, <1>4, <2>2
  <2>6. SetBits - SetWord * q = r
    BY <1>1, <2>4
  <2>7. /\ SetWord * (c - 1) \in Nat /\ SetBits <= SetWord * (c - 1) + SetWord
        /\ SetWord * (c - 1) < SetBits
    BY <1>1, <1>6, <2>4, <2>5, <2>6
  <2>8. TailMask = 0 .. SetBits - SetWord * (c - 1) - 1
    BY <2>3, <2>5, <2>6
  <2>9. Words = 0 .. c - 1 /\ LastWord = c - 1
    BY <1>2, <1>3, <2>5
  <2> QED
    BY <2>5, <2>7, <2>8, <2>9
<1> QED
  BY <1>5, <1>6

\* The bits of a word that count are those of the set.
LEMMA ValidBits ==
  ASSUME NEW w \in Words
  PROVE  Valid(w) = {b \in Ones : w * SetWord + b < SetBits} /\ w \in Nat /\ w <= LastWord
<1>1. PICK c \in Nat \ {0} :
        /\ Words = 0 .. c - 1 /\ LastWord = c - 1
        /\ SetWord * (c - 1) \in Nat /\ SetBits <= SetWord * (c - 1) + SetWord
        /\ SetWord * (c - 1) < SetBits
        /\ TailMask = 0 .. SetBits - SetWord * (c - 1) - 1
  BY WordsAre
<1>2. SetBits \in Nat /\ SetWord \in Nat \ {0}
  BY BitsetAssumption
<1>3. w \in Nat /\ w <= c - 1 /\ w * SetWord \in Nat
  BY <1>1, <1>2
<1>4. CASE w = c - 1
  <2>1. Valid(w) = 0 .. SetBits - SetWord * (c - 1) - 1
    BY <1>1, <1>4 DEF Valid
  <2>2. w * SetWord = SetWord * (c - 1)
    BY <1>2, <1>4
  <2>3. \A b \in Int : b \in Valid(w) <=> b \in Ones /\ w * SetWord + b < SetBits
    BY <1>1, <1>2, <1>3, <2>1, <2>2 DEF Ones
  <2>4. \A b \in Valid(w) : b \in Int
    BY <2>1
  <2> QED
    BY <1>1, <1>3, <2>3, <2>4 DEF Ones
<1>5. CASE w < c - 1
  <2>1. w * SetWord + SetWord <= SetWord * (c - 1)
    <3>1. PICK d \in Nat : c - 1 = w + 1 + d
      <4>1. c - 1 - (w + 1) \in Nat /\ c - 1 = w + 1 + (c - 1 - (w + 1))
        BY <1>3, <1>5
      <4> QED
        BY <4>1
    <3>2. SetWord * (w + 1 + d) = w * SetWord + SetWord + SetWord * d /\ SetWord * d \in Nat
      BY <1>2, <1>3
    <3> QED
      BY <1>2, <1>3, <3>1, <3>2
  <2>2. \A b \in Ones : w * SetWord + b < SetBits
    BY <1>1, <1>2, <1>3, <2>1 DEF Ones
  <2>3. Valid(w) = Ones
    BY <1>1, <1>5, <1>3 DEF Valid
  <2> QED
    BY <1>1, <1>3, <2>2, <2>3
<1> QED
  BY <1>1, <1>3, <1>4, <1>5

\* Where a bit of the set is.
LEMMA BitIsAt ==
  ASSUME NEW i \in 0 .. SetBits - 1
  PROVE  /\ i \div SetWord \in Words /\ i % SetWord \in Valid(i \div SetWord)
         /\ (i \div SetWord) * SetWord + (i % SetWord) = i
<1> DEFINE w == i \div SetWord
           b == i % SetWord
<1>1. /\ SetBits \in Nat \ {0} /\ SetWord \in Nat \ {0} /\ w \in Int /\ b \in 0 .. SetWord - 1
      /\ i = SetWord * w + b /\ i \in Nat /\ i < SetBits
  BY BitsetAssumption
<1>2. PICK c \in Nat \ {0} :
        /\ Words = 0 .. c - 1 /\ LastWord = c - 1
        /\ SetWord * (c - 1) \in Nat /\ SetBits <= SetWord * (c - 1) + SetWord
        /\ SetWord * (c - 1) < SetBits
        /\ TailMask = 0 .. SetBits - SetWord * (c - 1) - 1
  BY WordsAre
<1> HIDE DEF w, b
<1>3. w >= 0
  <2>1. w <= -1 => SetWord * w <= -SetWord
    BY <1>1
  <2> QED
    BY <1>1, <2>1
<1>4. w <= c - 1
  <2> SUFFICES ASSUME w > c - 1 PROVE FALSE
    BY <1>1, <1>2
  <2>1. PICK d \in Nat : w = c + d
    <3>1. w - c \in Nat /\ w = c + (w - c)
      BY <1>1, <1>2
    <3> QED
      BY <3>1
  <2>2. SetWord * (c + d) = SetWord * (c - 1) + SetWord + SetWord * d /\ SetWord * d \in Nat
    BY <1>1
  <2> QED
    BY <1>1, <1>2, <2>1, <2>2
<1>5. w \in Words
  BY <1>1, <1>2, <1>3, <1>4
<1>6. b \in Ones /\ w * SetWord + b < SetBits
  BY <1>1 DEF Ones
<1>7. b \in Valid(w)
  BY <1>5, <1>6, ValidBits
<1>8. w * SetWord + b = i
  <2>1. w * SetWord = SetWord * w
    BY <1>1
  <2> QED
    BY <1>1, <2>1
<1> QED
  BY <1>5, <1>7, <1>8 DEF w, b

\* What bit of the set one of a word is.
LEMMA AtIsBit ==
  ASSUME NEW w \in Words, NEW b \in Valid(w)
  PROVE  /\ w * SetWord + b \in 0 .. SetBits - 1
         /\ (w * SetWord + b) \div SetWord = w /\ (w * SetWord + b) % SetWord = b
<1>1. SetBits \in Nat \ {0} /\ SetWord \in Nat \ {0}
  BY BitsetAssumption
<1>2. b \in 0 .. (SetWord - 1) /\ w * SetWord + b < SetBits /\ w \in Nat
  BY ValidBits DEF Ones
<1>3. w * SetWord = SetWord * w /\ SetWord * w \in Nat
  BY <1>1, <1>2
<1>4. (SetWord * w + b) \div SetWord = w /\ (SetWord * w + b) % SetWord = b
  BY <1>1, <1>2, Divided
<1> QED
  BY <1>1, <1>2, <1>3, <1>4

-----------------------------------------------------------------------------
(* Sums.                                                                    *)

\* The element that is summed next, and the table of the sums of f over the
\* subsets of S.
Chosen(s) == CHOOSE x \in s : TRUE
SumTable(g, f, S) ==
  g = [s \in SUBSET S |-> IF s = {} THEN 0 ELSE f[Chosen(s)] + g[s \ {Chosen(s)}]]

\* Such a table exists, whatever is summed.
LEMMA SumExists ==
  ASSUME NEW S, IsFiniteSet(S), NEW f
  PROVE  \E g : SumTable(g, f, S)
<1> DEFINE Small(n) == {s \in SUBSET S : Cardinality(s) <= n}
           Right(g, n) == \A s \in Small(n) : g[s] = IF s = {} THEN 0 ELSE f[Chosen(s)] + g[s \ {Chosen(s)}]
           N == {n \in Nat : \E g : Right(g, n)}
<1>1. \A s \in SUBSET S : IsFiniteSet(s) /\ Cardinality(s) \in Nat
  BY FS_Subset, FS_CardinalityType
<1>2. \A s \in SUBSET S : s # {} => 
          /\ s \ {Chosen(s)} \in SUBSET S
          /\ Cardinality(s \ {Chosen(s)}) = Cardinality(s) - 1
  <2> SUFFICES ASSUME NEW s \in SUBSET S, s # {}
               PROVE Cardinality(s \ {Chosen(s)}) = Cardinality(s) - 1
    OBVIOUS
  <2>1. Chosen(s) \in s
    BY DEF Chosen
  <2> QED
    BY <1>1, <2>1, FS_RemoveElement
<1>3. 0 \in N
  <2> DEFINE g == [s \in SUBSET S |-> 0]
  <2>1. \A s \in Small(0) : s = {}
    <3> SUFFICES ASSUME NEW s \in Small(0) PROVE s = {}
      OBVIOUS
    <3>1. Cardinality(s) = 0
      BY <1>1
    <3> QED BY <1>1, <3>1, FS_EmptySet
  <2>2. Right(g, 0)
    BY <2>1
  <2> QED BY <2>2
<1>4. ASSUME NEW n \in N PROVE n + 1 \in N
  <2>0. PICK g : Right(g, n)
    OBVIOUS
  <2> DEFINE h == [s \in SUBSET S |-> IF s = {} THEN 0 ELSE IF s \in Small(n) THEN g[s] ELSE f[Chosen(s)] + g[s \ {Chosen(s)}]]
  <2>1. ASSUME NEW s \in Small(n + 1), s # {}
        PROVE  s \ {Chosen(s)} \in Small(n)
    BY <1>1, <1>2, <2>1
  <2>2. ASSUME NEW s \in Small(n) PROVE h[s] = g[s]
    BY <2>0, <2>2
  <2>3. ASSUME NEW s \in Small(n + 1)
        PROVE  h[s] = IF s = {} THEN 0 ELSE f[Chosen(s)] + h[s \ {Chosen(s)}]
    <3>1. CASE s = {}
      BY <3>1
    <3>2. CASE s # {}
      <4>1. h[s \ {Chosen(s)}] = g[s \ {Chosen(s)}]
        BY <2>1, <2>2, <3>2
      <4>2. h[s] = f[Chosen(s)] + g[s \ {Chosen(s)}]
        BY <2>0, <3>2
      <4> QED BY <3>2, <4>1, <4>2
    <3> QED BY <3>1, <3>2
  <2>4. Right(h, n + 1)
    BY <2>3
  <2>5. n + 1 \in Nat
    OBVIOUS
  <2> HIDE DEF Right, h
  <2> QED BY <2>4, <2>5
<1>5. N = Nat
  <2> HIDE DEF N
  <2>1. N \in SUBSET Nat
    BY DEF N
  <2> QED BY <1>3, <1>4, <2>1, NatSet
<1>6. Cardinality(S) \in N
  BY <1>5, FS_CardinalityType
<1>7. PICK g : Right(g, Cardinality(S))
  BY <1>6
<1>8. \A s \in SUBSET S : s \in Small(Cardinality(S))
  BY FS_Subset
<1> DEFINE h == [s \in SUBSET S |-> g[s]]
<1>9. ASSUME NEW s \in SUBSET S PROVE h[s] = IF s = {} THEN 0 ELSE f[Chosen(s)] + h[s \ {Chosen(s)}]
  BY <1>7, <1>8
<1>10. SumTable(h, f, S)
  BY <1>9 DEF SumTable
<1> QED BY <1>10


\* What is made of parts that are apart has as many elements as they have together.
AllOf(parts, s) == UNION {parts[x] : x \in s}

LEMMA PartsCounted ==
  ASSUME NEW S, IsFiniteSet(S), NEW parts, \A x \in S : IsFiniteSet(parts[x]),
         \A x \in S, y \in S : x # y => parts[x] \cap parts[y] = {},
         NEW g, SumTable(g, [x \in S |-> Cardinality(parts[x])], S)
  PROVE  IsFiniteSet(AllOf(parts, S)) /\ g[S] = Cardinality(AllOf(parts, S))
<1> DEFINE Right(s) == IsFiniteSet(AllOf(parts, s)) /\ g[s] = Cardinality(AllOf(parts, s))
           Good(n) == \A s \in SUBSET S : Cardinality(s) = n => Right(s)
           N == {n \in Nat : Good(n)}
           f == [x \in S |-> Cardinality(parts[x])]
<1>1. ASSUME NEW s \in SUBSET S
      PROVE  g[s] = IF s = {} THEN 0 ELSE f[Chosen(s)] + g[s \ {Chosen(s)}]
  BY DEF SumTable
<1>2. \A s \in SUBSET S : IsFiniteSet(s) /\ Cardinality(s) \in Nat
  BY FS_Subset, FS_CardinalityType
<1>3. 0 \in N
  <2> SUFFICES ASSUME NEW s \in SUBSET S, Cardinality(s) = 0 PROVE Right(s)
    OBVIOUS
  <2>1. s = {}
    BY <1>2, FS_EmptySet
  <2>2. g[s] = 0
    BY <1>1, <2>1
  <2>3. AllOf(parts, s) = {}
    BY <2>1 DEF AllOf
  <2> QED
    BY <2>2, <2>3, FS_EmptySet
<1>4. ASSUME NEW n \in N PROVE n + 1 \in N
  <2> SUFFICES ASSUME NEW s \in SUBSET S, Cardinality(s) = n + 1 PROVE Right(s)
    OBVIOUS
  <2> DEFINE x == Chosen(s)
             t == s \ {x}
  <2>1. s # {}
    BY <1>2, FS_EmptySet
  <2>2. x \in s
    BY <2>1 DEF Chosen
  <2>3. t \in SUBSET S /\ Cardinality(t) = n
    <3>1. IsFiniteSet(s)
      BY <1>2
    <3> HIDE DEF x
    <3>2. Cardinality(t) = Cardinality(s) - 1
      BY <2>2, <3>1, FS_RemoveElement
    <3> QED BY <3>2, <1>2
  <2>4. g[s] = f[x] + g[t]
    BY <1>1, <2>1
  <2> HIDE DEF x
  <2>5. Right(t)
    <3> HIDE DEF Right, t
    <3> QED BY <2>3
  <2>6. f[x] = Cardinality(parts[x]) /\ IsFiniteSet(parts[x])
    BY <2>2
  <2> DEFINE A == AllOf(parts, t)
             B == parts[x]
  <2>7. AllOf(parts, s) = A \cup B
    BY <2>2, Zenon DEF AllOf
  <2>8. A \cap B = {}
    <3> SUFFICES ASSUME NEW z \in A, z \in B PROVE FALSE
      OBVIOUS
    <3>1. PICK y \in t : z \in parts[y]
      BY DEF AllOf
    <3>2. y \in S /\ x \in S /\ y # x
      BY <2>2, <3>1
    <3> QED
      BY <3>1, <3>2
  <2>9. IsFiniteSet(A) /\ IsFiniteSet(B) /\ g[t] = Cardinality(A)
    BY <2>5, <2>6
  <2>10. Cardinality(A) \in Nat /\ Cardinality(B) \in Nat
    BY <2>9, FS_CardinalityType
  <2> HIDE DEF A, B, f, t
  <2>11. /\ IsFiniteSet(A \cup B)
         /\ Cardinality(A \cup B) = Cardinality(A) + Cardinality(B) - Cardinality(A \cap B)
    BY <2>9, FS_Union
  <2>12. Cardinality(A \cap B) = 0
    BY <2>8, FS_EmptySet
  <2>13. f[x] = Cardinality(B)
    BY <2>6 DEF B
  <2> QED
    BY <2>4, <2>7, <2>9, <2>10, <2>11, <2>12, <2>13
<1>5. N = Nat
  <2> HIDE DEF N
  <2>1. N \in SUBSET Nat
    BY DEF N
  <2> QED BY <1>3, <1>4, <2>1, NatSet
<1>6. Cardinality(S) \in N
  BY <1>5, FS_CardinalityType
<1> QED
  BY <1>6

\* Sets that a function maps one to one have as many elements.
LEMMA SameSize ==
  ASSUME NEW S, NEW T, IsFiniteSet(S), NEW f \in [S -> T],
         \A x \in S, y \in S : f[x] = f[y] => x = y,
         \A t \in T : \E x \in S : f[x] = t
  PROVE  IsFiniteSet(T) /\ Cardinality(T) = Cardinality(S)
<1>1. f \in Bijection(S, T)
  <2>1. f \in Injection(S, T)
    BY DEF Injection, IsInjective
  <2>2. f \in Surjection(S, T)
    BY DEF Surjection
  <2> QED
    BY <2>1, <2>2 DEF Bijection
<1>2. ExistsBijection(S, T)
  BY <1>1 DEF ExistsBijection
<1> QED
  BY <1>2, FS_Bijection

-----------------------------------------------------------------------------
(* The free map is right about a set of bits.                               *)

\* The bits of a set that are in a word.
InWord(w, in) == {b \in Valid(w) : w * SetWord + b \in in}

\* The words hold the set, the hint is one of them, and before it nothing is clear.
MapHolds(bs, in) ==
  /\ in \in SUBSET (0 .. SetBits - 1)
  /\ bs \in [words : [Words -> SUBSET Ones], hint : Words]
  /\ \A w \in Words : bs.words[w] = InWord(w, in)
  /\ \A w \in Words : w < bs.hint => InWord(w, in) = Valid(w)

\* One bit more or less is one more or less in its word.
LEMMA InWordSet ==
  ASSUME NEW in \in SUBSET (0 .. SetBits - 1), NEW i \in 0 .. SetBits - 1, NEW w \in Words
  PROVE  /\ InWord(w, in \cup {i}) = IF w = i \div SetWord THEN InWord(w, in) \cup {i % SetWord}
                                     ELSE InWord(w, in)
         /\ InWord(w, in \ {i}) = IF w = i \div SetWord THEN InWord(w, in) \ {i % SetWord}
                                  ELSE InWord(w, in)
<1> DEFINE v == i \div SetWord
           c == i % SetWord
<1>1. v \in Words /\ c \in Valid(v) /\ v * SetWord + c = i
  BY BitIsAt
<1>2. ASSUME NEW b \in Valid(w) PROVE w * SetWord + b = i <=> w = v /\ b = c
  <2>1. (w * SetWord + b) \div SetWord = w /\ (w * SetWord + b) % SetWord = b
    BY AtIsBit
  <2> QED
    BY <1>1, <2>1
<1> HIDE DEF v, c
<1>3. InWord(w, in \cup {i}) = IF w = v THEN InWord(w, in) \cup {c} ELSE InWord(w, in)
  <2>1. \A b \in Valid(w) : w * SetWord + b \in in \cup {i} <=> w * SetWord + b \in in \/ (w = v /\ b = c)
    BY <1>2
  <2> QED
    BY <1>1, <2>1 DEF InWord
<1>4. InWord(w, in \ {i}) = IF w = v THEN InWord(w, in) \ {c} ELSE InWord(w, in)
  <2>1. \A b \in Valid(w) : w * SetWord + b \in in \ {i} <=> w * SetWord + b \in in /\ ~(w = v /\ b = c)
    BY <1>2
  <2> QED
    BY <1>1, <2>1 DEF InWord
<1> QED
  BY <1>3, <1>4 DEF v, c

\* Setting a bit adds it to what the map holds,
LEMMA BitSetHolds ==
  ASSUME NEW bs, NEW in, MapHolds(bs, in), NEW i \in 0 .. SetBits - 1
  PROVE  MapHolds(BitSet(bs, i), in \cup {i})
<1> DEFINE v == i \div SetWord
           c == i % SetWord
           as == [bs EXCEPT !.words[v] = @ \cup {c}]
<1>1. v \in Words /\ c \in Valid(v)
  BY BitIsAt
<1>2. /\ in \in SUBSET (0 .. SetBits - 1) /\ bs \in [words : [Words -> SUBSET Ones], hint : Words]
      /\ \A w \in Words : bs.words[w] = InWord(w, in)
      /\ \A w \in Words : w < bs.hint => InWord(w, in) = Valid(w)
  BY DEF MapHolds
<1>3. BitSet(bs, i) = as
  <2>1. ~(i >= SetBits)
    BY BitsetAssumption
  <2> QED
    BY <2>1, Zenon DEF BitSet
<1>4. c \in Ones
  BY <1>1, ValidBits
<1>5. \A w \in Words : InWord(w, in \cup {i}) = IF w = v THEN InWord(w, in) \cup {c} ELSE InWord(w, in)
  BY <1>2, InWordSet
<1> HIDE DEF v, c
<1>6. /\ as \in [words : [Words -> SUBSET Ones], hint : Words] /\ as.hint = bs.hint
      /\ \A w \in Words : as.words[w] = IF w = v THEN bs.words[w] \cup {c} ELSE bs.words[w]
  BY <1>1, <1>2, <1>4
<1> HIDE DEF as
<1>7. \A w \in Words : as.words[w] = InWord(w, in \cup {i})
  BY <1>2, <1>5, <1>6
<1>8. \A w \in Words : w < as.hint => InWord(w, in \cup {i}) = Valid(w)
  BY <1>1, <1>2, <1>5, <1>6
<1>9. in \cup {i} \in SUBSET (0 .. SetBits - 1)
  BY <1>2
<1>10. MapHolds(as, in \cup {i})
  BY <1>6, <1>7, <1>8, <1>9 DEF MapHolds
<1> QED
  BY <1>3, <1>10

\* and clearing one takes it out.
LEMMA BitClearHolds ==
  ASSUME NEW bs, NEW in, MapHolds(bs, in), NEW i \in 0 .. SetBits - 1
  PROVE  MapHolds(BitClear(bs, i), in \ {i})
<1> DEFINE v == i \div SetWord
           c == i % SetWord
           as == [words |-> [bs.words EXCEPT ![v] = @ \ {c}],
                  hint |-> IF v < bs.hint THEN v ELSE bs.hint]
<1>1. v \in Words /\ c \in Valid(v)
  BY BitIsAt
<1>2. /\ in \in SUBSET (0 .. SetBits - 1) /\ bs \in [words : [Words -> SUBSET Ones], hint : Words]
      /\ \A w \in Words : bs.words[w] = InWord(w, in)
      /\ \A w \in Words : w < bs.hint => InWord(w, in) = Valid(w)
  BY DEF MapHolds
<1>3. BitClear(bs, i) = as
  <2>1. ~(i >= SetBits)
    BY BitsetAssumption
  <2> QED
    BY <2>1, Zenon DEF BitClear
<1>5. \A w \in Words : InWord(w, in \ {i}) = IF w = v THEN InWord(w, in) \ {c} ELSE InWord(w, in)
  BY <1>2, InWordSet
<1> HIDE DEF v, c
<1>a. \A w \in Words : w \in Nat
  BY ValidBits
<1>6. /\ as \in [words : [Words -> SUBSET Ones], hint : Words]
      /\ as.hint <= bs.hint /\ as.hint <= v
      /\ \A w \in Words : as.words[w] = IF w = v THEN bs.words[w] \ {c} ELSE bs.words[w]
  BY <1>1, <1>2, <1>a
<1> HIDE DEF as
<1>7. \A w \in Words : as.words[w] = InWord(w, in \ {i})
  BY <1>2, <1>5, <1>6
<1>8. \A w \in Words : w < as.hint => InWord(w, in \ {i}) = Valid(w)
  <2> SUFFICES ASSUME NEW w \in Words, w < as.hint PROVE InWord(w, in \ {i}) = Valid(w)
    OBVIOUS
  <2>0. bs.hint \in Nat /\ as.hint \in Nat /\ v \in Nat /\ w \in Nat
    <3>1. bs.hint \in Words /\ as.hint \in Words
      BY <1>2, <1>6
    <3> QED
      BY <1>1, <1>a, <3>1
  <2>1. w # v /\ w < bs.hint
    <3>1. as.hint <= bs.hint /\ as.hint <= v /\ w < as.hint
      BY <1>6
    <3> DEFINE h == as.hint
               k == bs.hint
    <3> HIDE DEF h, k
    <3>2. h <= k /\ h <= v /\ w < h /\ k \in Nat /\ h \in Nat
      BY <2>0, <3>1 DEF h, k
    <3>3. w # v /\ w < k
      BY <2>0, <3>2
    <3> QED
      BY <3>3 DEF k
  <2> QED
    BY <1>2, <1>5, <2>1
<1>9. in \ {i} \in SUBSET (0 .. SetBits - 1)
  BY <1>2
<1>10. MapHolds(as, in \ {i})
  BY <1>6, <1>7, <1>8, <1>9 DEF MapHolds
<1> QED
  BY <1>3, <1>10

\* A map of none, and of all.
LEMMA NoneAndAllHold == MapHolds(BitInit, {}) /\ MapHolds(ClearAll(BitInit), {})
                        /\ MapHolds(SetAll(BitInit), 0 .. SetBits - 1)
<1>1. \A w \in Words : w \in Nat /\ Valid(w) \in SUBSET Ones
  BY ValidBits
<1>2. 0 \in Words
  BY WordsAre
<1>3. \A w \in Words : InWord(w, {}) = {}
  BY DEF InWord
<1>4. \A w \in Words : InWord(w, 0 .. SetBits - 1) = Valid(w)
  BY AtIsBit DEF InWord
<1>5. MapHolds(BitInit, {})
  BY <1>1, <1>2, <1>3 DEF MapHolds, BitInit
<1>6. MapHolds(SetAll(BitInit), 0 .. SetBits - 1)
  BY <1>1, <1>2, <1>4 DEF MapHolds, SetAll
<1> QED
  BY <1>5, <1>6 DEF BitInit, ClearAll

\* A scan gives the first word that holds something.
ScanIs(words, f, r) ==
  IF \A w \in words : f[w] = {} THEN r = NoBit
  ELSE r \in words /\ f[r] # {} /\ \A w \in words : w < r => f[w] = {}

LEMMA ScanFinds ==
  ASSUME NEW words \in SUBSET Words, NEW f
  PROVE  LET hits == {w \in words : f[w] # {}}
         IN  ScanIs(words, f, IF hits = {} THEN NoBit ELSE Min(hits))
<1> DEFINE hits == {w \in words : f[w] # {}}
<1>1. CASE hits = {}
  BY <1>1 DEF ScanIs
<1>2. CASE hits # {}
  <2>1. \A w \in Words : w \in Nat
    BY ValidBits
  <2>2. hits \in SUBSET Nat
    BY <2>1
  <2>3. Min(hits) \in hits /\ \A w \in hits : Min(hits) <= w
    BY <1>2, <2>2, FirstIs
  <2> DEFINE m == Min(hits)
  <2> HIDE DEF m
  <2>4. m \in hits /\ \A w \in hits : m <= w
    BY <2>3 DEF m
  <2>5. \A w \in words : w < m => f[w] = {}
    BY <2>1, <2>4
  <2>6. ScanIs(words, f, m)
    BY <2>4, <2>5 DEF ScanIs
  <2> QED
    BY <1>2, <2>6 DEF m
<1> QED
  BY <1>1, <1>2

\* The lowest bit of the lowest word is the lowest bit.
LEMMA LowestBit ==
  ASSUME NEW set \in SUBSET (0 .. SetBits - 1), NEW w \in Words, InWord(w, set) # {},
         \A v \in Words : v < w => InWord(v, set) = {}
  PROVE  set # {} /\ w * SetWord + Ctz(InWord(w, set)) = Min(set)
<1> DEFINE b == Ctz(InWord(w, set))
           i == w * SetWord + b
<1>1. InWord(w, set) \in SUBSET Ones /\ w \in Nat
  BY ValidBits DEF InWord
<1>2. b \in InWord(w, set) /\ \A c \in InWord(w, set) : b <= c
  BY <1>1, CtzIsLeast
<1> HIDE DEF b
<1>3. i \in set
  BY <1>2 DEF InWord
<1>4. ASSUME NEW j \in set PROVE i <= j
  <2> DEFINE v == j \div SetWord
             c == j % SetWord
  <2>1. v \in Words /\ c \in Valid(v) /\ v * SetWord + c = j
    BY BitIsAt
  <2> HIDE DEF v, c
  <2>2. c \in InWord(v, set)
    BY <2>1 DEF InWord
  <2>3. v \in Nat /\ b \in Ones /\ c \in Ones /\ SetWord \in Nat \ {0}
    BY <1>1, <1>2, <2>1, ValidBits, BitsetAssumption
  <2>4. v >= w
    BY <1>1, <2>1, <2>2, <2>3
  <2>5. CASE v = w
    <3>1. b <= c
      BY <1>2, <2>2, <2>5
    <3>2. w * SetWord \in Int
      BY <1>1, <2>3
    <3> QED
      BY <2>1, <2>3, <2>5, <3>1, <3>2 DEF Ones
  <2>6. CASE v > w
    <3>1. v * SetWord >= w * SetWord + SetWord /\ w * SetWord \in Nat
      <4>1. PICK d \in Nat : v = w + 1 + d
        <5>1. v - (w + 1) \in Nat /\ v = w + 1 + (v - (w + 1))
          BY <1>1, <2>3, <2>6
        <5> QED
          BY <5>1
      <4>2. (w + 1 + d) * SetWord = w * SetWord + SetWord + d * SetWord /\ d * SetWord \in Nat
            /\ w * SetWord \in Nat
        BY <1>1, <2>3
      <4> QED
        BY <2>3, <4>1, <4>2
    <3>2. v * SetWord \in Int
      BY <2>3
    <3> QED
      BY <2>1, <2>3, <3>1, <3>2 DEF Ones
  <2> QED
    BY <1>1, <2>3, <2>4, <2>5, <2>6
<1>5. set \in SUBSET Nat
  OBVIOUS
<1>6. Min(set) = i
  <2> HIDE DEF i
  <2> QED
    BY <1>3, <1>4, <1>5, IsFirst
<1> QED
  BY <1>3, <1>6 DEF b

\* A set with no bit in any word has none.
LEMMA NoBitInWords ==
  ASSUME NEW set \in SUBSET (0 .. SetBits - 1), \A w \in Words : InWord(w, set) = {}
  PROVE  set = {}
<1> SUFFICES ASSUME NEW j \in set PROVE FALSE
  OBVIOUS
<1>1. /\ j \div SetWord \in Words /\ j % SetWord \in Valid(j \div SetWord)
      /\ (j \div SetWord) * SetWord + (j % SetWord) = j
  BY BitIsAt
<1> DEFINE v == j \div SetWord
           c == j % SetWord
<1> HIDE DEF v, c
<1>2. v \in Words /\ c \in Valid(v) /\ v * SetWord + c = j
  BY <1>1 DEF v, c
<1> QED
  BY <1>2 DEF InWord

\* The free map finds the lowest clear bit, from any hint, and still holds what it
\* held.
FindsClear(bs, in) ==
  LET free == (0 .. SetBits - 1) \ in
      found == FirstClear(bs)
  IN  /\ found.bit = (IF free = {} THEN NoBit ELSE Min(free))
      /\ MapHolds(found.bs, in)

LEMMA ClearFound ==
  ASSUME NEW bs, NEW in, MapHolds(bs, in)
  PROVE  FindsClear(bs, in)
<1> DEFINE free == (0 .. SetBits - 1) \ in
           f == [v \in Words |-> Valid(v) \ bs.words[v]]
           hits1 == {v \in bs.hint .. LastWord : f[v] # {}}
           hits2 == {v \in 0 .. bs.hint - 1 : f[v] # {}}
           r1 == IF hits1 = {} THEN NoBit ELSE Min(hits1)
           r2 == IF hits2 = {} THEN NoBit ELSE Min(hits2)
           w == IF r1 # NoBit THEN r1 ELSE r2
<1>1. /\ in \in SUBSET (0 .. SetBits - 1) /\ bs \in [words : [Words -> SUBSET Ones], hint : Words]
      /\ \A v \in Words : bs.words[v] = InWord(v, in)
      /\ \A v \in Words : v < bs.hint => InWord(v, in) = Valid(v)
  BY DEF MapHolds
<1>2. \A v \in Words : f[v] = InWord(v, free)
  <2>1. \A v \in Words : Valid(v) \ InWord(v, in) = InWord(v, free)
    BY AtIsBit DEF InWord
  <2> QED
    BY <1>1, <2>1
<1>3. /\ Words = 0 .. LastWord /\ LastWord \in Nat
      /\ bs.hint .. LastWord \in SUBSET Words /\ 0 .. bs.hint - 1 \in SUBSET Words
      /\ bs.hint \in Nat
      /\ \A v \in Words : v \in Nat
      /\ \A v \in 0 .. bs.hint - 1 : v \in Words /\ v < bs.hint
      /\ \A v \in Words : v \in bs.hint .. LastWord <=> ~(v < bs.hint)
  <2>1. Words = 0 .. LastWord /\ LastWord \in Nat
    BY WordsAre
  <2>2. bs.hint \in 0 .. LastWord
    BY <1>1, <2>1
  <2> QED
    BY <2>1, <2>2
<1>4. ScanIs(bs.hint .. LastWord, f, r1) /\ ScanIs(0 .. bs.hint - 1, f, r2)
  <2>1. ScanIs(bs.hint .. LastWord, f, r1)
    <3> HIDE DEF f
    <3> QED
      BY <1>3, ScanFinds
  <2>2. ScanIs(0 .. bs.hint - 1, f, r2)
    <3> HIDE DEF f
    <3> QED
      BY <1>3, ScanFinds
  <2> QED
    BY <2>1, <2>2
<1>5. FirstClear(bs) = IF w = NoBit THEN [bs |-> bs, bit |-> NoBit]
                       ELSE [bs |-> [bs EXCEPT !.hint = w],
                             bit |-> w * SetWord + Ctz(Valid(w) \ bs.words[w])]
  <2>1. hits1 = {v \in bs.hint .. LastWord : Valid(v) \ bs.words[v] # {}}
    BY <1>3
  <2>2. hits2 = {v \in 0 .. bs.hint - 1 : Valid(v) \ bs.words[v] # {}}
    BY <1>3
  <2> HIDE DEF hits1, hits2
  <2> QED
    BY <2>1, <2>2, Zenon DEF FirstClear, Scanned
<1> HIDE DEF hits1, hits2
<1>6. ASSUME NEW v \in Words, v < bs.hint PROVE InWord(v, free) = {}
  <2>1. Valid(v) = bs.words[v]
    BY <1>1, <1>6
  <2> QED
    BY <1>2, <2>1
<1>7. r2 = NoBit
  <2>1. ASSUME NEW v \in 0 .. bs.hint - 1 PROVE f[v] = {}
    <3>1. v \in Words /\ v < bs.hint
      BY <1>3
    <3> HIDE DEF f
    <3> QED
      BY <1>2, <1>6, <3>1
  <2> HIDE DEF r1, r2, f
  <2> QED
    BY <1>4, <2>1 DEF ScanIs
<1>8. w = r1
  BY <1>7
<1> HIDE DEF w
<1>9. CASE r1 = NoBit
  <2>1. \A v \in bs.hint .. LastWord : f[v] = {}
    <3> HIDE DEF r1, r2, f
    <3>1. NoBit \notin bs.hint .. LastWord
      BY <1>3 DEF NoBit
    <3> QED
      BY <1>4, <1>9, <3>1 DEF ScanIs
  <2>2. ASSUME NEW v \in Words PROVE InWord(v, free) = {}
    <3> HIDE DEF f
    <3>1. CASE v < bs.hint
      BY <1>6, <3>1
    <3>2. CASE ~(v < bs.hint)
      <4>1. v \in bs.hint .. LastWord
        BY <1>3, <3>2
      <4> QED
        BY <1>2, <2>1, <4>1
    <3> QED
      BY <3>1, <3>2
  <2>3. free = {}
    <3> HIDE DEF f
    <3> QED
      BY <2>2, NoBitInWords
  <2>4. FirstClear(bs) = [bs |-> bs, bit |-> NoBit]
    BY <1>5, <1>8, <1>9
  <2> QED
    BY <2>3, <2>4 DEF FindsClear
<1>10. CASE r1 # NoBit
  <2>1. r1 \in bs.hint .. LastWord /\ f[r1] # {} /\ \A v \in bs.hint .. LastWord : v < r1 => f[v] = {}
    <3> HIDE DEF r1, r2, f
    <3> QED
      BY <1>4, <1>10 DEF ScanIs
  <2> HIDE DEF r1
  <2>2. r1 \in Words
    BY <1>3, <2>1
  <2>3. InWord(r1, free) # {} /\ \A v \in Words : v < r1 => InWord(v, free) = {}
    <3>1. ASSUME NEW v \in Words, v < r1 PROVE InWord(v, free) = {}
      <4>1. CASE v < bs.hint
        BY <1>6, <4>1
      <4>2. CASE ~(v < bs.hint)
        <5>1. v \in bs.hint .. LastWord
          BY <1>3, <4>2
        <5>2. f[v] = {}
          BY <2>1, <3>1, <5>1
        <5> QED
          BY <1>2, <5>2
      <4> QED
        BY <4>1, <4>2
    <3> QED
      BY <1>2, <2>1, <2>2, <3>1
  <2>4. free # {} /\ r1 * SetWord + Ctz(InWord(r1, free)) = Min(free)
    <3> HIDE DEF free
    <3>1. free \in SUBSET (0 .. SetBits - 1)
      BY DEF free
    <3> QED
      BY <2>2, <2>3, <3>1, LowestBit
  <2>5. Valid(r1) \ bs.words[r1] = InWord(r1, free)
    BY <1>2, <2>2
  <2> HIDE DEF free
  <2>6. FirstClear(bs).bit = Min(free) /\ FirstClear(bs).bs = [bs EXCEPT !.hint = r1]
    BY <1>5, <1>8, <1>10, <2>4, <2>5
  <2>7. \A v \in Words : v < r1 => InWord(v, in) = Valid(v)
    <3> SUFFICES ASSUME NEW v \in Words, v < r1 PROVE InWord(v, in) = Valid(v)
      OBVIOUS
    <3>1. f[v] = {}
      BY <1>2, <2>3
    <3>2. Valid(v) \ InWord(v, in) = {}
      BY <1>1, <3>1
    <3> QED
      BY <3>2 DEF InWord
  <2>8. MapHolds([bs EXCEPT !.hint = r1], in)
    BY <1>1, <2>2, <2>7 DEF MapHolds
  <2> QED
    BY <2>4, <2>6, <2>8 DEF FindsClear, free
<1> QED
  BY <1>9, <1>10

\* It finds the lowest bit that is set,
LEMMA SetFound ==
  ASSUME NEW bs, NEW in, MapHolds(bs, in)
  PROVE  FirstSet(bs) = (IF in = {} THEN NoBit ELSE Min(in))
<1> DEFINE f == bs.words
           hits == {v \in Words : f[v] # {}}
           w == IF hits = {} THEN NoBit ELSE Min(hits)
           i == w * SetWord + Ctz(f[w])
<1>1. /\ in \in SUBSET (0 .. SetBits - 1)
      /\ \A v \in Words : f[v] = InWord(v, in)
  BY DEF MapHolds
<1>2. ScanIs(Words, f, w)
  <2> HIDE DEF f
  <2> QED
    BY ScanFinds
<1>3. FirstSet(bs) = IF w = NoBit \/ i >= SetBits THEN NoBit ELSE i
  BY Zenon DEF FirstSet, Scanned
<1> HIDE DEF w, f
<1>4. \A v \in Words : v \in Nat
  BY ValidBits
<1>5. CASE w = NoBit
  <2>1. \A v \in Words : f[v] = {}
    <3>1. NoBit \notin Words
      BY <1>4 DEF NoBit
    <3> QED
      BY <1>2, <1>5, <3>1 DEF ScanIs
  <2>2. in = {}
    BY <1>1, <2>1, NoBitInWords
  <2> QED
    BY <1>3, <1>5, <2>2
<1>6. CASE w # NoBit
  <2>1. w \in Words /\ f[w] # {} /\ \A v \in Words : v < w => f[v] = {}
    BY <1>2, <1>6 DEF ScanIs
  <2>2. InWord(w, in) # {} /\ \A v \in Words : v < w => InWord(v, in) = {}
    BY <1>1, <2>1
  <2>3. in # {} /\ w * SetWord + Ctz(InWord(w, in)) = Min(in)
    BY <1>1, <2>1, <2>2, LowestBit
  <2>4. i = Min(in)
    BY <1>1, <2>1, <2>3
  <2>5. Min(in) \in in
    BY <1>1, <2>3, FirstIs
  <2>6. ~(Min(in) >= SetBits)
    <3>1. \A j \in in : ~(j >= SetBits)
      BY <1>1, BitsetAssumption
    <3> QED
      BY <2>5, <3>1
  <2> QED
    BY <1>3, <1>6, <2>3, <2>4, <2>6
<1> QED
  BY <1>5, <1>6

\* tests any bit there is,
LEMMA BitTested ==
  ASSUME NEW bs, NEW in, MapHolds(bs, in), NEW i \in 0 .. SetBits
  PROVE  BitTest(bs, i) <=> i \in in
<1>1. /\ in \in SUBSET (0 .. SetBits - 1)
      /\ \A v \in Words : bs.words[v] = InWord(v, in)
  BY DEF MapHolds
<1>2. CASE i = SetBits
  <2>1. ~(i < SetBits) /\ i \notin in
    BY <1>1, <1>2, BitsetAssumption
  <2> QED
    BY <2>1 DEF BitTest
<1>3. CASE i # SetBits
  <2>1. i \in 0 .. SetBits - 1 /\ i < SetBits
    BY <1>3, BitsetAssumption
  <2> DEFINE v == i \div SetWord
             c == i % SetWord
  <2>2. v \in Words /\ c \in Valid(v) /\ v * SetWord + c = i
    BY <2>1, BitIsAt
  <2>3. BitTest(bs, i) <=> c \in bs.words[v]
    BY <2>1, Zenon DEF BitTest
  <2> HIDE DEF v, c
  <2> QED
    BY <1>1, <2>2, <2>3 DEF InWord
<1> QED
  BY <1>2, <1>3

\* and counts them.
LEMMA PopcountTable ==
  ASSUME NEW bs
  PROVE  \E g : /\ SumTable(g, [w \in Words |-> Cardinality(bs.words[w])], Words)
                /\ Popcount(bs) = g[Words]
<1> DEFINE f == [w \in Words |-> Cardinality(bs.words[w])]
           p(g, s) == IF s = {} THEN 0 ELSE Cardinality(bs.words[Chosen(s)]) + g[s \ {Chosen(s)}]
           q(g, s) == IF s = {} THEN 0 ELSE f[Chosen(s)] + g[s \ {Chosen(s)}]
           Eq(g) == g = [s \in SUBSET Words |-> p(g, s)]
           iter == CHOOSE g : Eq(g)
<1>0. IsFiniteSet(Words)
  <2>1. PICK c \in Nat \ {0} : Words = 0 .. c - 1
    BY WordsAre
  <2> QED
    BY <2>1, FS_Interval
<1>1. Popcount(bs) = iter[Words]
  BY Zenon DEF Popcount, MapThenSumSet, MapThenFoldSet, Chosen
<1>2. ASSUME NEW g PROVE Eq(g) <=> SumTable(g, f, Words)
  <2>1. ASSUME NEW s \in SUBSET Words PROVE p(g, s) = q(g, s)
    <3>1. CASE s = {}
      BY <3>1
    <3>2. CASE s # {}
      <4>1. Chosen(s) \in s
        BY <3>2 DEF Chosen
      <4> QED BY <3>2, <4>1
    <3> QED BY <3>1, <3>2
  <2>2. SumTable(g, f, Words) <=> g = [s \in SUBSET Words |-> q(g, s)]
    BY Zenon DEF SumTable
  <2> HIDE DEF p, q
  <2>3. [s \in SUBSET Words |-> p(g, s)] = [s \in SUBSET Words |-> q(g, s)]
    BY <2>1
  <2> QED BY <2>2, <2>3
<1>3. \E g : SumTable(g, f, Words)
  BY <1>0, SumExists
<1> HIDE DEF Eq, f
<1>4. Eq(iter)
  BY <1>2, <1>3
<1> QED
  BY <1>1, <1>2, <1>4 DEF f

LEMMA BitsCounted ==
  ASSUME NEW bs, NEW in, MapHolds(bs, in)
  PROVE  Popcount(bs) = Cardinality(in) /\ IsFiniteSet(in)
<1> DEFINE parts == [w \in Words |-> {i \in in : i \div SetWord = w}]
<1>1. /\ in \in SUBSET (0 .. SetBits - 1)
      /\ \A v \in Words : bs.words[v] = InWord(v, in)
  BY DEF MapHolds
<1>2. IsFiniteSet(in) /\ IsFiniteSet(Words)
  <2>1. PICK c \in Nat \ {0} : Words = 0 .. c - 1
    BY WordsAre
  <2>2. SetBits \in Int /\ IsFiniteSet(0 .. SetBits - 1)
    BY BitsetAssumption, FS_Interval
  <2>3. IsFiniteSet(0 .. c - 1)
    BY FS_Interval
  <2>4. IsFiniteSet(in)
    BY <1>1, <2>2, FS_Subset
  <2> QED
    BY <2>1, <2>3, <2>4
<1>3. ASSUME NEW w \in Words
      PROVE  IsFiniteSet(parts[w]) /\ Cardinality(bs.words[w]) = Cardinality(parts[w])
  <2> DEFINE S == InWord(w, in)
             T == parts[w]
             h == [b \in S |-> w * SetWord + b]
  <2>1. \A b \in S : w * SetWord + b \in T /\ b \in Int
    <3> SUFFICES ASSUME NEW b \in S PROVE w * SetWord + b \in T /\ b \in Int
      OBVIOUS
    <3>1. b \in Valid(w) /\ w * SetWord + b \in in
      BY DEF InWord
    <3>2. (w * SetWord + b) \div SetWord = w
      BY <3>1, AtIsBit
    <3>3. b \in Int
      BY <3>1, ValidBits DEF Ones
    <3> QED
      BY <3>1, <3>2, <3>3
  <2>2. \A t \in T : \E b \in S : w * SetWord + b = t
    <3> SUFFICES ASSUME NEW t \in T PROVE \E b \in S : w * SetWord + b = t
      OBVIOUS
    <3>1. t \in in /\ t \div SetWord = w
      OBVIOUS
    <3>2. t % SetWord \in Valid(w) /\ w * SetWord + (t % SetWord) = t
      <4>1. t \in 0 .. SetBits - 1
        BY <1>1, <3>1
      <4> QED
        BY <3>1, <4>1, BitIsAt
    <3>3. t % SetWord \in S
      BY <3>1, <3>2 DEF InWord
    <3> QED
      BY <3>2, <3>3
  <2>3. w * SetWord \in Int
    BY ValidBits, BitsetAssumption
  <2>4. IsFiniteSet(S) /\ IsFiniteSet(T)
    <3>1. SetWord \in Int /\ IsFiniteSet(0 .. SetWord - 1)
      BY BitsetAssumption, FS_Interval
    <3>2. S \in SUBSET (0 .. SetWord - 1)
      BY ValidBits DEF InWord, Ones
    <3>3. T \in SUBSET in
      OBVIOUS
    <3> HIDE DEF S, T
    <3> QED
      BY <1>2, <3>1, <3>2, <3>3, FS_Subset
  <2> HIDE DEF S, T
  <2>5. h \in [S -> T]
    BY <2>1
  <2>6. \A x \in S, y \in S : h[x] = h[y] => x = y
    BY <2>1, <2>3
  <2>7. \A t \in T : \E x \in S : h[x] = t
    BY <2>2
  <2> HIDE DEF h
  <2>8. Cardinality(T) = Cardinality(S)
    BY <2>4, <2>5, <2>6, <2>7, SameSize
  <2> QED
    BY <1>1, <2>4, <2>8 DEF S, T
<1>4. \A v \in Words, w \in Words : v # w => parts[v] \cap parts[w] = {}
  OBVIOUS
<1>5. AllOf(parts, Words) = in
  <2>1. \A i \in in : i \div SetWord \in Words
    BY <1>1, BitIsAt
  <2>2. \A i \in in : i \in parts[i \div SetWord]
    BY <2>1
  <2>3. \A w \in Words : parts[w] \in SUBSET in
    OBVIOUS
  <2> HIDE DEF parts
  <2> QED
    BY <2>1, <2>2, <2>3, Zenon DEF AllOf
<1>6. PICK g : /\ SumTable(g, [w \in Words |-> Cardinality(bs.words[w])], Words)
               /\ Popcount(bs) = g[Words]
  BY PopcountTable
<1> HIDE DEF parts
<1>7. [w \in Words |-> Cardinality(bs.words[w])] = [w \in Words |-> Cardinality(parts[w])]
  BY <1>3
<1>8. SumTable(g, [w \in Words |-> Cardinality(parts[w])], Words)
  BY <1>6, <1>7
<1>9. g[Words] = Cardinality(AllOf(parts, Words))
  BY <1>2, <1>3, <1>4, <1>8, PartsCounted
<1> QED
  BY <1>2, <1>5, <1>6, <1>9

\* The map is right about the bits that were set and not cleared after.
BitsKnown == (question.ask = "bits" /\ answer # <<>>) => MapHolds(answer.bs, answer.in)

LEMMA BitsKnownKept ==
  ASSUME BitsKnown, AnswerBits
  PROVE  BitsKnown'
<1> DEFINE now == IF answer = <<>> THEN StartBits ELSE answer
           found == FirstClear(now.bs)
<1>1. MapHolds(now.bs, now.in)
  <2>1. question.ask = "bits"
    BY Zenon DEF AnswerBits
  <2>2. CASE answer = <<>>
    BY <2>2, NoneAndAllHold DEF StartBits
  <2>3. CASE answer # <<>>
    BY <2>1, <2>3 DEF BitsKnown
  <2> QED
    BY <2>2, <2>3
<1>2. \/ \E i \in 0 .. SetBits :
           answer' = [bs |-> BitSet(now.bs, i), in |-> now.in \cup ({i} \cap (0 .. SetBits - 1))]
      \/ \E i \in 0 .. SetBits : answer' = [bs |-> BitClear(now.bs, i), in |-> now.in \ {i}]
      \/ answer' = [bs |-> SetAll(now.bs), in |-> 0 .. SetBits - 1]
      \/ answer' = [bs |-> ClearAll(now.bs), in |-> {}]
      \/ answer' = IF found.bit = NoBit THEN now
                   ELSE [bs |-> BitSet(found.bs, found.bit), in |-> now.in \cup {found.bit}]
  BY Zenon DEF AnswerBits
<1> HIDE DEF now
<1>3. now.in \in SUBSET (0 .. SetBits - 1) /\ SetBits \in Nat
  BY <1>1, BitsetAssumption DEF MapHolds
<1>4. ASSUME NEW i \in 0 .. SetBits,
             answer' = [bs |-> BitSet(now.bs, i), in |-> now.in \cup ({i} \cap (0 .. SetBits - 1))]
      PROVE  MapHolds(answer'.bs, answer'.in)
  <2>1. CASE i = SetBits
    <3>1. i \notin 0 .. SetBits - 1 /\ i >= SetBits
      BY <1>3, <2>1
    <3>2. BitSet(now.bs, i) = now.bs
      BY <3>1 DEF BitSet
    <3>3. now.in \cup ({i} \cap (0 .. SetBits - 1)) = now.in
      BY <3>1
    <3> QED
      BY <1>1, <1>4, <3>2, <3>3
  <2>2. CASE i # SetBits
    <3>1. i \in 0 .. SetBits - 1
      BY <1>3, <2>2
    <3>2. MapHolds(BitSet(now.bs, i), now.in \cup {i})
      BY <1>1, <3>1, BitSetHolds
    <3>3. now.in \cup ({i} \cap (0 .. SetBits - 1)) = now.in \cup {i}
      BY <3>1
    <3> QED
      BY <1>4, <3>2, <3>3
  <2> QED
    BY <2>1, <2>2
<1>5. ASSUME NEW i \in 0 .. SetBits, answer' = [bs |-> BitClear(now.bs, i), in |-> now.in \ {i}]
      PROVE  MapHolds(answer'.bs, answer'.in)
  <2>1. CASE i = SetBits
    <3>1. i \notin now.in /\ i >= SetBits
      BY <1>3, <2>1
    <3>2. BitClear(now.bs, i) = now.bs
      BY <3>1 DEF BitClear
    <3>3. now.in \ {i} = now.in
      BY <3>1
    <3> QED
      BY <1>1, <1>5, <3>2, <3>3
  <2>2. CASE i # SetBits
    <3>1. i \in 0 .. SetBits - 1
      BY <1>3, <2>2
    <3>2. MapHolds(BitClear(now.bs, i), now.in \ {i})
      BY <1>1, <3>1, BitClearHolds
    <3> QED
      BY <1>5, <3>2
  <2> QED
    BY <2>1, <2>2
<1>6. SetAll(now.bs) = SetAll(BitInit) /\ ClearAll(now.bs) = ClearAll(BitInit)
  BY DEF SetAll, ClearAll
<1>7. ASSUME answer' = IF found.bit = NoBit THEN now
                       ELSE [bs |-> BitSet(found.bs, found.bit), in |-> now.in \cup {found.bit}]
      PROVE  MapHolds(answer'.bs, answer'.in)
  <2> DEFINE free == (0 .. SetBits - 1) \ now.in
  <2>1. found.bit = (IF free = {} THEN NoBit ELSE Min(free)) /\ MapHolds(found.bs, now.in)
    BY <1>1, ClearFound DEF FindsClear
  <2> HIDE DEF found
  <2>2. CASE found.bit = NoBit
    BY <1>1, <1>7, <2>2
  <2>3. CASE found.bit # NoBit
    <3>1. free # {} /\ found.bit = Min(free)
      BY <2>1, <2>3
    <3>2. found.bit \in free
      <4>1. free \in SUBSET Nat
        OBVIOUS
      <4> HIDE DEF free
      <4> QED
        BY <3>1, <4>1, FirstIs
    <3>3. MapHolds(BitSet(found.bs, found.bit), now.in \cup {found.bit})
      BY <2>1, <3>2, BitSetHolds
    <3> QED
      BY <1>7, <2>3, <3>3
  <2> QED
    BY <2>2, <2>3
<1>8. ASSUME answer' = [bs |-> SetAll(now.bs), in |-> 0 .. SetBits - 1]
             \/ answer' = [bs |-> ClearAll(now.bs), in |-> {}]
      PROVE  MapHolds(answer'.bs, answer'.in)
  BY <1>6, <1>8, NoneAndAllHold
<1> DEFINE right == MapHolds(answer'.bs, answer'.in)
<1> HIDE DEF found, right
<1>9. right
  BY <1>2, <1>4, <1>5, <1>7, <1>8 DEF right
<1> QED
  BY <1>9 DEF BitsKnown, right

LEMMA BitsFound == ASSUME BitsKnown PROVE FreeBitFound
<1> SUFFICES ASSUME question.ask = "bits", answer # <<>> PROVE FreeBitFound
  BY Zenon DEF FreeBitFound
<1> DEFINE bs == answer.bs
           in == answer.in
<1>1. MapHolds(bs, in)
  BY DEF BitsKnown
<1> HIDE DEF bs, in
<1>2. FirstClear(bs).bit = (IF (0 .. SetBits - 1) \ in = {} THEN NoBit ELSE Min((0 .. SetBits - 1) \ in))
  BY <1>1, ClearFound DEF FindsClear
<1>3. FirstSet(bs) = (IF in = {} THEN NoBit ELSE Min(in))
  BY <1>1, SetFound
<1>4. Popcount(bs) = Cardinality(in)
  BY <1>1, BitsCounted
<1>5. \A i \in 0 .. SetBits : BitTest(bs, i) <=> i \in in
  BY <1>1, BitTested
<1> QED
  BY <1>2, <1>3, <1>4, <1>5, Zenon DEF FreeBitFound, bs, in

\* The free map finds the lowest free bit and the lowest set one, counts and tests
\* right, after any calls in any order, for any number of bits and any word width
\* (bitset_find_first_clear, bits_ctz32).
THEOREM FreeBitAlwaysFound == AskSpec => []FreeBitFound
<1>1. AskInit => BitsKnown
  BY DEF AskInit, BitsKnown
<1>2. BitsKnown /\ [AskNext]_askVars => BitsKnown'
  <2> SUFFICES ASSUME BitsKnown, [AskNext]_askVars PROVE BitsKnown'
    OBVIOUS
  <2>1. CASE UNCHANGED askVars
    BY <2>1, Zenon DEF BitsKnown, askVars
  <2>2. CASE AskNext
    <3>1. /\ question' = question
          /\ \/ AnswerMask \/ AnswerMap \/ AnswerBits \/ AnswerPool \/ AnswerBind
             \/ question.ask \notin {"mask", "map", "bits", "pool", "bind"}
      BY <2>2, AnswersAside
    <3>2. CASE question.ask # "bits"
      BY <3>1, <3>2 DEF BitsKnown
    <3>3. CASE question.ask = "bits"
      <4>1. ~AnswerMask /\ ~AnswerMap
        BY <3>3 DEF AnswerMask, AnswerMap, Answers
      <4>2. ~AnswerPool
        <5> SUFFICES ASSUME AnswerPool PROVE FALSE
          OBVIOUS
        <5>1. question.ask = "pool"
          BY Zenon DEF AnswerPool
        <5> QED
          BY <3>3, <5>1
      <4>3. ~AnswerBind
        <5> SUFFICES ASSUME AnswerBind PROVE FALSE
          OBVIOUS
        <5>1. question.ask = "bind"
          BY Zenon DEF AnswerBind
        <5> QED
          BY <3>3, <5>1
      <4>4. AnswerBits
        BY <3>1, <3>3, <4>1, <4>2, <4>3
      <4> QED
        BY <4>4, BitsKnownKept
    <3> QED
      BY <3>2, <3>3
  <2> QED
    BY <2>1, <2>2
<1>3. BitsKnown => FreeBitFound
  BY BitsFound
<1> QED
  BY <1>1, <1>2, <1>3, PTL DEF AskSpec

-----------------------------------------------------------------------------
(* The ids of the streams.                                                  *)

\* The two places are apart; what is bound is what they hold.
PlacesHold(ctx, bound) ==
  /\ ctx \in [1 .. 2 -> [id : {NoStream} \cup (1 .. 3), handle : StreamHandles]]
  /\ \A i \in 1 .. 2 : ctx[i].id = NoStream <=> ctx[i].handle = NoHandleHere
  /\ ctx[1].id = ctx[2].id => ctx[1].id = NoStream
  /\ bound \in [1 .. 3 -> StreamHandles]
  /\ \A id \in 1 .. 3 : bound[id] = IF ctx[1].id = id THEN ctx[1].handle
                                    ELSE IF ctx[2].id = id THEN ctx[2].handle ELSE NoHandleHere

\* The least of one or two.
LEMMA LeastPlace ==
  /\ Min({1}) = 1 /\ Min({2}) = 2 /\ Min({1, 2}) = 1
<1>1. {1} \in SUBSET Nat /\ {2} \in SUBSET Nat /\ {1, 2} \in SUBSET Nat
  OBVIOUS
<1> QED
  BY <1>1, IsFirst

\* The first of the places that something is true of.
LEMMA FirstPlace ==
  ASSUME NEW P \in [1 .. 2 -> BOOLEAN]
  PROVE  LET S == {i \in 1 .. 2 : P[i]}
         IN  /\ S = {} <=> ~P[1] /\ ~P[2]
             /\ P[1] => Min(S) = 1
             /\ ~P[1] /\ P[2] => Min(S) = 2
<1> DEFINE S == {i \in 1 .. 2 : P[i]}
<1>1. S = {} <=> ~P[1] /\ ~P[2]
  OBVIOUS
<1>2. \A i \in 1 .. 2 : i = 1 \/ i = 2
  OBVIOUS
<1>3. ASSUME P[1] PROVE Min(S) = 1
  <2>1. CASE P[2]
    <3>1. S = {1, 2}
      BY <1>2, <1>3, <2>1
    <3> QED
      BY <3>1, LeastPlace
  <2>2. CASE ~P[2]
    <3>1. S = {1}
      BY <1>2, <1>3, <2>2
    <3> QED
      BY <3>1, LeastPlace
  <2> QED
    BY <2>1, <2>2
<1>4. ASSUME ~P[1], P[2] PROVE Min(S) = 2
  <2>1. S = {2}
    BY <1>2, <1>4
  <2> QED
    BY <2>1, LeastPlace
<1> QED
  BY <1>1, <1>3, <1>4

\* Binding, place by place.
LEMMA BindIs ==
  ASSUME NEW ctx, NEW id, NEW handle, id # NoStream
  PROVE  LET Put(i, entry) == [ctx EXCEPT ![i] = entry]
             new == IF handle = NoHandleHere THEN Unbound ELSE [id |-> id, handle |-> handle]
         IN  Bind(ctx, id, handle) =
               IF ctx[1].id = id THEN Put(1, new)
               ELSE IF ctx[2].id = id THEN Put(2, new)
               ELSE IF handle = NoHandleHere THEN ctx
               ELSE IF ctx[1].id = NoStream THEN Put(1, [id |-> id, handle |-> handle])
               ELSE IF ctx[2].id = NoStream THEN Put(2, [id |-> id, handle |-> handle])
               ELSE ctx
<1> DEFINE P == [i \in 1 .. 2 |-> ctx[i].id = id]
           Q == [i \in 1 .. 2 |-> ctx[i].id = NoStream]
           S == {i \in 1 .. 2 : P[i]}
           T == {i \in 1 .. 2 : Q[i]}
           new == IF handle = NoHandleHere THEN Unbound ELSE [id |-> id, handle |-> handle]
<1>1. {i \in 1 .. 2 : ctx[i].id = id /\ id # NoStream} = S
  OBVIOUS
<1>2. {i \in 1 .. 2 : ctx[i].id = NoStream} = T
  OBVIOUS
<1>3. /\ S = {} <=> ~P[1] /\ ~P[2]
      /\ P[1] => Min(S) = 1
      /\ ~P[1] /\ P[2] => Min(S) = 2
  <2>1. P \in [1 .. 2 -> BOOLEAN]
    OBVIOUS
  <2> HIDE DEF P
  <2> QED
    BY <2>1, FirstPlace
<1>4. /\ T = {} <=> ~Q[1] /\ ~Q[2]
      /\ Q[1] => Min(T) = 1
      /\ ~Q[1] /\ Q[2] => Min(T) = 2
  <2>1. Q \in [1 .. 2 -> BOOLEAN]
    OBVIOUS
  <2> HIDE DEF Q
  <2> QED
    BY <2>1, FirstPlace
<1>5. P[1] = (ctx[1].id = id) /\ P[2] = (ctx[2].id = id)
      /\ Q[1] = (ctx[1].id = NoStream) /\ Q[2] = (ctx[2].id = NoStream)
  OBVIOUS
<1> HIDE DEF P, Q, S, T
<1>6. Bind(ctx, id, handle) =
        CASE S # {} -> [ctx EXCEPT ![Min(S)] = new]
          [] S = {} /\ handle # NoHandleHere /\ T # {} ->
               [ctx EXCEPT ![Min(T)] = [id |-> id, handle |-> handle]]
          [] OTHER -> ctx
  BY <1>1, <1>2, Zenon DEF Bind
<1> HIDE DEF new
<1>7. CASE S # {}
  <2>1. Bind(ctx, id, handle) = [ctx EXCEPT ![Min(S)] = new]
    BY <1>6, <1>7
  <2> QED
    BY <1>3, <1>5, <1>7, <2>1 DEF new
<1>8. CASE S = {} /\ handle # NoHandleHere /\ T # {}
  <2>1. Bind(ctx, id, handle) = [ctx EXCEPT ![Min(T)] = [id |-> id, handle |-> handle]]
    BY <1>6, <1>8
  <2> QED
    BY <1>3, <1>4, <1>5, <1>8, <2>1
<1>9. CASE S = {} /\ (handle = NoHandleHere \/ T = {})
  <2>1. Bind(ctx, id, handle) = ctx
    BY <1>6, <1>9
  <2> QED
    BY <1>3, <1>4, <1>5, <1>9, <2>1
<1> QED
  BY <1>7, <1>8, <1>9

\* What an id gives, place by place.
LEMMA HandleBoundIs ==
  ASSUME NEW ctx, NEW id, id # NoStream
  PROVE  HandleBound(ctx, id) = IF ctx[1].id = id THEN ctx[1].handle
                                ELSE IF ctx[2].id = id THEN ctx[2].handle ELSE NoHandleHere
<1> DEFINE P == [i \in 1 .. 2 |-> ctx[i].id = id]
           S == {i \in 1 .. 2 : P[i]}
<1>1. {i \in 1 .. 2 : ctx[i].id = id /\ id # NoStream} = S
  OBVIOUS
<1>2. /\ S = {} <=> ~P[1] /\ ~P[2]
      /\ P[1] => Min(S) = 1
      /\ ~P[1] /\ P[2] => Min(S) = 2
  <2>1. P \in [1 .. 2 -> BOOLEAN]
    OBVIOUS
  <2> HIDE DEF P
  <2> QED
    BY <2>1, FirstPlace
<1>3. P[1] = (ctx[1].id = id) /\ P[2] = (ctx[2].id = id)
  OBVIOUS
<1> HIDE DEF P, S
<1>4. HandleBound(ctx, id) = IF S = {} THEN NoHandleHere ELSE ctx[Min(S)].handle
  BY <1>1, Zenon DEF HandleBound
<1> QED
  BY <1>2, <1>3, <1>4

\* Two of the ids are bound when both places hold one.
LEMMA TwoBound ==
  ASSUME NEW ctx, NEW bound, PlacesHold(ctx, bound)
  PROVE  Cardinality({id \in 1 .. 3 : bound[id] # NoHandleHere}) = 2
           <=> ctx[1].id # NoStream /\ ctx[2].id # NoStream
<1> DEFINE B == {id \in 1 .. 3 : bound[id] # NoHandleHere}
           a == ctx[1].id
           b == ctx[2].id
<1>1. /\ a \in {NoStream} \cup (1 .. 3) /\ b \in {NoStream} \cup (1 .. 3)
      /\ a = b => a = NoStream
      /\ a = NoStream <=> ctx[1].handle = NoHandleHere
      /\ b = NoStream <=> ctx[2].handle = NoHandleHere
      /\ \A id \in 1 .. 3 : bound[id] = IF a = id THEN ctx[1].handle
                                        ELSE IF b = id THEN ctx[2].handle ELSE NoHandleHere
  <2>1. ctx[1] \in [id : {NoStream} \cup (1 .. 3), handle : StreamHandles]
        /\ ctx[2] \in [id : {NoStream} \cup (1 .. 3), handle : StreamHandles]
    BY DEF PlacesHold
  <2> QED
    BY <2>1 DEF PlacesHold
<1> HIDE DEF a, b
<1>2. NoStream \notin 1 .. 3
  BY DEF NoStream
<1>3. \A id \in 1 .. 3 : id \in B <=> (id = a \/ id = b)
  BY <1>1, <1>2
<1> HIDE DEF B
<1>4. B \in SUBSET (1 .. 3)
  BY DEF B
<1>5. CASE a # NoStream /\ b # NoStream
  <2>1. B = {a} \cup {b} /\ a # b
    BY <1>1, <1>2, <1>3, <1>4, <1>5
  <2>2. IsFiniteSet({a}) /\ Cardinality({a}) = 1
    BY FS_Singleton
  <2>3. Cardinality({a} \cup {b}) = 2
    BY <2>1, <2>2, FS_AddElement
  <2> QED
    BY <1>5, <2>1, <2>3 DEF a, b, B
<1>6. CASE a = NoStream \/ b = NoStream
  <2>1. B = {} \/ B = {a} \/ B = {b}
    BY <1>1, <1>2, <1>3, <1>4, <1>6
  <2>2. Cardinality(B) # 2
    BY <2>1, FS_Singleton, FS_EmptySet
  <2> QED
    BY <1>6, <2>2 DEF a, b, B
<1> QED
  BY <1>5, <1>6

\* The places hold what is bound to the ids, two at a time.
StreamsKnown == (question.ask = "bind" /\ answer # <<>>) => PlacesHold(answer.ctx, answer.bound)

LEMMA StreamsKnownKept ==
  ASSUME StreamsKnown, AnswerBind
  PROVE  StreamsKnown'
<1> DEFINE now == IF answer = <<>> THEN [ctx |-> StreamsInit, bound |-> [id \in 1 .. 3 |-> NoHandleHere]]
                  ELSE answer
<1>1. PlacesHold(now.ctx, now.bound)
  <2>1. question.ask = "bind"
    BY Zenon DEF AnswerBind
  <2>2. CASE answer = <<>>
    <3>1. NoHandleHere \in StreamHandles
      BY DEF StreamHandles
    <3>2. StreamsInit \in [1 .. 2 -> {Unbound}]
      BY DEF StreamsInit
    <3>3. NoStream \notin 1 .. 3
      BY DEF NoStream
    <3>4. \A i \in 1 .. 2 : StreamsInit[i] = Unbound
      BY <3>2
    <3> QED
      BY <2>2, <3>1, <3>2, <3>3, <3>4 DEF PlacesHold, Unbound
  <2>3. CASE answer # <<>>
    BY <2>1, <2>3 DEF StreamsKnown
  <2> QED
    BY <2>2, <2>3
<1> DEFINE Two == Cardinality({id \in 1 .. 3 : now.bound[id] # NoHandleHere}) = 2
<1>2. PICK id \in 1 .. 3, h \in StreamHandles :
        answer' = [ctx |-> Bind(now.ctx, id, h),
                   bound |-> IF now.bound[id] = NoHandleHere /\ Two THEN now.bound
                             ELSE [now.bound EXCEPT ![id] = h]]
  BY Zenon DEF AnswerBind
<1> DEFINE ctx == now.ctx
           bound == now.bound
<1>3. Two <=> ctx[1].id # NoStream /\ ctx[2].id # NoStream
  BY <1>1, TwoBound
<1> HIDE DEF Two, now
<1>4. PlacesHold(ctx, bound)
  BY <1>1
<1> HIDE DEF ctx, bound
<1> DEFINE new == IF h = NoHandleHere THEN Unbound ELSE [id |-> id, handle |-> h]
           Put(i, entry) == [ctx EXCEPT ![i] = entry]
           after == Bind(ctx, id, h)
           then == IF bound[id] = NoHandleHere /\ Two THEN bound ELSE [bound EXCEPT ![id] = h]
<1>5. id # NoStream
  BY DEF NoStream
<1>6. after = IF ctx[1].id = id THEN Put(1, new)
              ELSE IF ctx[2].id = id THEN Put(2, new)
              ELSE IF h = NoHandleHere THEN ctx
              ELSE IF ctx[1].id = NoStream THEN Put(1, [id |-> id, handle |-> h])
              ELSE IF ctx[2].id = NoStream THEN Put(2, [id |-> id, handle |-> h])
              ELSE ctx
  BY <1>5, BindIs
<1> HIDE DEF after, then
<1>7. /\ ctx \in [1 .. 2 -> [id : {NoStream} \cup (1 .. 3), handle : StreamHandles]]
      /\ ctx[1].id = NoStream <=> ctx[1].handle = NoHandleHere
      /\ ctx[2].id = NoStream <=> ctx[2].handle = NoHandleHere
      /\ ctx[1].id = ctx[2].id => ctx[1].id = NoStream
      /\ bound \in [1 .. 3 -> StreamHandles]
      /\ \A k \in 1 .. 3 : bound[k] = IF ctx[1].id = k THEN ctx[1].handle
                                      ELSE IF ctx[2].id = k THEN ctx[2].handle ELSE NoHandleHere
  BY <1>4 DEF PlacesHold
<1>8. NoHandleHere \in StreamHandles /\ NoStream \notin 1 .. 3
  BY DEF StreamHandles, NoStream
<1>9. /\ new \in [id : {NoStream} \cup (1 .. 3), handle : StreamHandles]
      /\ new.handle = h /\ (new.id = NoStream <=> h = NoHandleHere)
      /\ h # NoHandleHere => new.id = id
  BY <1>5, <1>8 DEF Unbound
<1>10. h # NoHandleHere => [id |-> id, handle |-> h] = new
  OBVIOUS
<1> HIDE DEF new
<1>11. then \in [1 .. 3 -> StreamHandles]
  BY <1>7 DEF then
<1>12. PlacesHold(after, then)
  <2>1. CASE ctx[1].id = id
    <3>1. after = Put(1, new) /\ after[1] = new /\ after[2] = ctx[2]
          /\ after \in [1 .. 2 -> [id : {NoStream} \cup (1 .. 3), handle : StreamHandles]]
      BY <1>6, <1>7, <1>9, <2>1
    <3>2. then = [bound EXCEPT ![id] = h]
      BY <1>5, <1>7, <2>1 DEF then
    <3> QED
      BY <1>5, <1>7, <1>8, <1>9, <1>11, <2>1, <3>1, <3>2 DEF PlacesHold
  <2>2. CASE ctx[1].id # id /\ ctx[2].id = id
    <3>1. after = Put(2, new) /\ after[2] = new /\ after[1] = ctx[1]
          /\ after \in [1 .. 2 -> [id : {NoStream} \cup (1 .. 3), handle : StreamHandles]]
      BY <1>6, <1>7, <1>9, <2>2
    <3>2. then = [bound EXCEPT ![id] = h]
      BY <1>5, <1>7, <2>2 DEF then
    <3> QED
      BY <1>5, <1>7, <1>8, <1>9, <1>11, <2>2, <3>1, <3>2 DEF PlacesHold
  <2>3. CASE ctx[1].id # id /\ ctx[2].id # id
    <3>0. bound[id] = NoHandleHere
      BY <1>7, <2>3
    <3>1. CASE h = NoHandleHere \/ (ctx[1].id # NoStream /\ ctx[2].id # NoStream)
      <4>1. after = ctx
        BY <1>6, <2>3, <3>1
      <4>2. then = bound
        BY <1>3, <1>7, <3>0, <3>1 DEF then
      <4> QED
        BY <1>4, <4>1, <4>2
    <3>2. CASE h # NoHandleHere /\ ctx[1].id = NoStream
      <4>1. after = Put(1, new) /\ after[1] = new /\ after[2] = ctx[2]
            /\ after \in [1 .. 2 -> [id : {NoStream} \cup (1 .. 3), handle : StreamHandles]]
        <5>1. [id |-> id, handle |-> h] = new
          BY <1>10, <3>2
        <5>2. after = Put(1, new)
          BY <1>6, <2>3, <3>2, <5>1
        <5> QED
          BY <1>7, <1>9, <5>2
      <4>2. then = [bound EXCEPT ![id] = h]
        BY <1>3, <3>2 DEF then
      <4> QED
        BY <1>5, <1>7, <1>8, <1>9, <1>11, <2>3, <3>2, <4>1, <4>2 DEF PlacesHold
    <3>3. CASE h # NoHandleHere /\ ctx[1].id # NoStream /\ ctx[2].id = NoStream
      <4>1. after = Put(2, new) /\ after[2] = new /\ after[1] = ctx[1]
            /\ after \in [1 .. 2 -> [id : {NoStream} \cup (1 .. 3), handle : StreamHandles]]
        <5>1. [id |-> id, handle |-> h] = new
          BY <1>10, <3>3
        <5>2. after = Put(2, new)
          BY <1>6, <2>3, <3>3, <5>1
        <5> QED
          BY <1>7, <1>9, <5>2
      <4>2. then = [bound EXCEPT ![id] = h]
        BY <1>3, <3>3 DEF then
      <4> QED
        BY <1>5, <1>7, <1>8, <1>9, <1>11, <2>3, <3>3, <4>1, <4>2 DEF PlacesHold
    <3> QED
      BY <3>1, <3>2, <3>3
  <2> QED
    BY <2>1, <2>2, <2>3
<1>13. answer'.ctx = after /\ answer'.bound = then
  BY <1>2 DEF after, then, ctx, bound
<1> QED
  BY <1>12, <1>13 DEF StreamsKnown

LEMMA StreamsRight == ASSUME StreamsKnown PROVE StreamsBound
<1> SUFFICES ASSUME question.ask = "bind", answer # <<>>, NEW id \in 1 .. 3
             PROVE  HandleBound(answer.ctx, id) = answer.bound[id]
  BY Zenon DEF StreamsBound
<1>1. PlacesHold(answer.ctx, answer.bound)
  BY DEF StreamsKnown
<1>2. id # NoStream
  BY DEF NoStream
<1> QED
  BY <1>1, <1>2, HandleBoundIs DEF PlacesHold

-----------------------------------------------------------------------------
(* The bytes of the pool: where they are.                                   *)

PoolBlocks == 0 .. SetBits - 1

\* Of two numbers.
LEMMA LeastOfTwo ==
  ASSUME NEW a \in Int, NEW b \in Int
  PROVE  /\ Min({a, b}) = IF a <= b THEN a ELSE b
         /\ Max({a, b}) = IF a >= b THEN a ELSE b
<1>1. \E x \in {a, b} : \A y \in {a, b} : x <= y
  OBVIOUS
<1>2. Min({a, b}) \in {a, b} /\ \A y \in {a, b} : Min({a, b}) <= y
  BY <1>1, Zenon DEF Min
<1>3. \E x \in {a, b} : \A y \in {a, b} : x >= y
  OBVIOUS
<1>4. Max({a, b}) \in {a, b} /\ \A y \in {a, b} : Max({a, b}) >= y
  BY <1>3, Zenon DEF Max
<1> DEFINE m == Min({a, b})
           n == Max({a, b})
<1>5. m \in {a, b} /\ m <= a /\ m <= b /\ n \in {a, b} /\ n >= a /\ n >= b
  BY <1>2, <1>4
<1> HIDE DEF m, n
<1>6. m = (IF a <= b THEN a ELSE b) /\ n = IF a >= b THEN a ELSE b
  BY <1>5
<1> QED
  BY <1>6 DEF m, n

\* An object has a block, and one for each of its bytes.
LEMMA NeededHolds ==
  ASSUME NEW size \in Nat
  PROVE  /\ Needed(size) \in Nat \ {0}
         /\ \A k \in 0 .. size - 1 : 1 + (k \div BlockSize) \in 1 .. Needed(size)
<1> DEFINE m == (size + BlockSize - 1) \div BlockSize
           t == (size + BlockSize - 1) % BlockSize
<1>1. BlockSize \in Nat \ {0}
  BY PoolBytesAssumption
<1>2. m \in Int /\ t \in 0 .. BlockSize - 1 /\ size + BlockSize - 1 = BlockSize * m + t
  BY <1>1
<1>3. Needed(size) = IF 1 >= m THEN 1 ELSE m
  <2>1. Needed(size) = Max({1, m})
    BY DEF Needed
  <2> HIDE DEF m
  <2> QED
    <3>1. 1 \in Int /\ m \in Int
      BY <1>2
    <3>2. Max({1, m}) = IF 1 >= m THEN 1 ELSE m
      BY <3>1, LeastOfTwo, Zenon
    <3> QED
      BY <2>1, <3>2
<1> HIDE DEF m, t
<1>4. ASSUME NEW k \in 0 .. size - 1 PROVE 1 + (k \div BlockSize) \in 1 .. Needed(size)
  <2> DEFINE q == k \div BlockSize
             r == k % BlockSize
  <2>1. q \in Int /\ r \in 0 .. BlockSize - 1 /\ k = BlockSize * q + r
    BY <1>1
  <2> HIDE DEF q, r
  <2>2. q >= 0
    <3>1. q <= -1 => BlockSize * q <= -BlockSize
      BY <1>1, <2>1
    <3>2. BlockSize * q \in Int
      BY <1>1, <2>1
    <3> QED
      BY <1>1, <2>1, <3>1, <3>2
  <2>3. q + 1 <= m
    <3> SUFFICES ASSUME q >= m PROVE FALSE
      BY <1>2, <2>1
    <3>1. PICK d \in Nat : q = m + d
      <4>1. q - m \in Nat /\ q = m + (q - m)
        BY <1>2, <2>1
      <4> QED
        BY <4>1
    <3>2. BlockSize * (m + d) = BlockSize * m + BlockSize * d /\ BlockSize * d \in Nat
          /\ BlockSize * m \in Int
      BY <1>1, <1>2
    <3> QED
      BY <1>1, <1>2, <2>1, <3>1, <3>2
  <2>4. 1 + q \in 1 .. Needed(size)
    BY <1>2, <1>3, <2>1, <2>2, <2>3
  <2> QED
    BY <2>4 DEF q
<1>5. Needed(size) \in Nat \ {0}
  BY <1>2, <1>3
<1> QED
  BY <1>4, <1>5

\* The place of a byte of the object whose chain is c.
BytePlace(c, k) == c[1 + (k \div BlockSize)] * BlockSize + (k % BlockSize)

\* It is in the region, and says which byte of which block it is.
LEMMA PlaceTells ==
  ASSUME NEW c \in Seq(PoolBlocks), NEW k \in Nat, 1 + (k \div BlockSize) \in 1 .. Len(c)
  PROVE  /\ BytePlace(c, k) \in 0 .. SetBits * BlockSize - 1
         /\ BytePlace(c, k) \div BlockSize = c[1 + (k \div BlockSize)]
         /\ BytePlace(c, k) % BlockSize = k % BlockSize
<1> DEFINE b == c[1 + (k \div BlockSize)]
           r == k % BlockSize
           x == b * BlockSize + r
<1>1. BlockSize \in Nat \ {0} /\ SetBits \in Nat
  BY PoolBytesAssumption, BitsetAssumption
<1>2. b \in 0 .. SetBits - 1
  <2> DEFINE i == 1 + (k \div BlockSize)
  <2> HIDE DEF i
  <2>1. i \in 1 .. Len(c)
    BY DEF i
  <2>2. c[i] \in PoolBlocks
    BY <2>1
  <2> QED
    BY <2>2 DEF i, PoolBlocks
<1>3. r \in 0 .. (BlockSize - 1)
  BY <1>1
<1>4. BytePlace(c, k) = x
  BY Zenon DEF BytePlace
<1> HIDE DEF b, r
<1>5. x = BlockSize * b + r
  BY <1>1, <1>2, <1>3
<1>6. x \div BlockSize = b /\ x % BlockSize = r
  BY <1>1, <1>2, <1>3, <1>5, Divided
<1>7. x \in 0 .. SetBits * BlockSize - 1
  <2>1. PICK d \in Nat : SetBits = b + 1 + d
    <3>1. SetBits - (b + 1) \in Nat /\ SetBits = b + 1 + (SetBits - (b + 1))
      BY <1>1, <1>2
    <3> QED
      BY <3>1
  <2>2. /\ (b + 1 + d) * BlockSize = b * BlockSize + BlockSize + d * BlockSize
        /\ d * BlockSize \in Nat /\ b * BlockSize \in Nat
    BY <1>1, <1>2
  <2> QED
    BY <1>1, <1>3, <2>1, <2>2
<1> QED
  BY <1>4, <1>6, <1>7 DEF b, r

\* So two bytes of an object are apart, and those of objects whose chains are.
LEMMA PlacesApart ==
  ASSUME NEW c \in Seq(PoolBlocks), NEW d \in Seq(PoolBlocks), NEW k \in Nat, NEW l \in Nat,
         1 + (k \div BlockSize) \in 1 .. Len(c), 1 + (l \div BlockSize) \in 1 .. Len(d),
         BytePlace(c, k) = BytePlace(d, l)
  PROVE  /\ c[1 + (k \div BlockSize)] = d[1 + (l \div BlockSize)]
         /\ (k \div BlockSize) = (l \div BlockSize) => k = l
<1>1. /\ BytePlace(c, k) \div BlockSize = c[1 + (k \div BlockSize)]
      /\ BytePlace(c, k) % BlockSize = k % BlockSize
  BY PlaceTells
<1>2. /\ BytePlace(d, l) \div BlockSize = d[1 + (l \div BlockSize)]
      /\ BytePlace(d, l) % BlockSize = l % BlockSize
  BY PlaceTells
<1>3. k % BlockSize = l % BlockSize
  BY <1>1, <1>2
<1>4. (k \div BlockSize) = (l \div BlockSize) => k = l
  <2>1. BlockSize \in Nat \ {0}
    BY PoolBytesAssumption
  <2>2. /\ k = BlockSize * (k \div BlockSize) + (k % BlockSize)
        /\ l = BlockSize * (l \div BlockSize) + (l % BlockSize)
    BY <2>1
  <2> SUFFICES ASSUME (k \div BlockSize) = (l \div BlockSize) PROVE k = l
    OBVIOUS
  <2> QED
    BY <1>3, <2>2, Zenon
<1>5. c[1 + (k \div BlockSize)] = d[1 + (l \div BlockSize)]
  BY <1>1, <1>2, Zenon
<1> QED
  BY <1>4, <1>5

-----------------------------------------------------------------------------
(* Chains.                                                                  *)

\* c is what is linked from head on, to its end.
BlocksOf(c) == {c[i] : i \in 1 .. Len(c)}

IsChain(next, head, c) ==
  /\ c \in Seq(PoolBlocks) /\ Len(c) \in Nat \ {0} /\ c[1] = head
  /\ \A i \in 1 .. Len(c), j \in 1 .. Len(c) : c[i] = c[j] => i = j
  /\ \A i \in 1 .. Len(c) - 1 : next[c[i]] = c[i + 1]
  /\ next[c[Len(c)]] = NoBlock

\* A chain has a block at each of its positions, and not more blocks than there are.
LEMMA ChainBlocks ==
  ASSUME NEW next, NEW head, NEW c, IsChain(next, head, c)
  PROVE  /\ head \in PoolBlocks /\ \A i \in 1 .. Len(c) : c[i] \in PoolBlocks /\ c[i] # NoBlock
         /\ Len(c) <= SetBits /\ IsFiniteSet(BlocksOf(c)) /\ Cardinality(BlocksOf(c)) = Len(c)
<1>1. /\ c \in Seq(PoolBlocks) /\ Len(c) \in Nat \ {0} /\ c[1] = head
      /\ \A i \in 1 .. Len(c), j \in 1 .. Len(c) : c[i] = c[j] => i = j
  BY DEF IsChain
<1>2. \A i \in 1 .. Len(c) : c[i] \in PoolBlocks
  BY <1>1
<1>3. \A b \in PoolBlocks : b # NoBlock
  BY DEF PoolBlocks, NoBlock
<1> DEFINE S == 1 .. Len(c)
           T == BlocksOf(c)
           f == [i \in S |-> c[i]]
<1>4. IsFiniteSet(S) /\ Cardinality(S) = Len(c)
  BY <1>1, FS_Interval
<1>5. f \in [S -> T] /\ \A t \in T : \E i \in S : f[i] = t
  BY DEF BlocksOf
<1>6. \A i \in S, j \in S : f[i] = f[j] => i = j
  BY <1>1
<1>7. T \in SUBSET PoolBlocks
  BY <1>2 DEF BlocksOf
<1> HIDE DEF S, T, f
<1>8. IsFiniteSet(T) /\ Cardinality(T) = Cardinality(S)
  BY <1>4, <1>5, <1>6, SameSize
<1>9. IsFiniteSet(PoolBlocks) /\ Cardinality(PoolBlocks) = SetBits
  <2>1. SetBits \in Nat
    BY BitsetAssumption
  <2>2. IsFiniteSet(0 .. SetBits - 1) /\ Cardinality(0 .. SetBits - 1) = SetBits
    BY <2>1, FS_Interval
  <2> QED
    BY <2>2 DEF PoolBlocks
<1>10. Cardinality(T) <= SetBits
  BY <1>7, <1>9, FS_Subset
<1>11. head \in PoolBlocks
  BY <1>1, <1>2
<1> QED
  BY <1>2, <1>3, <1>4, <1>8, <1>10, <1>11 DEF T

\* A step of the walk along a chain.
Grown(p, c) == IF c = <<>> \/ p.next[Last(c)] = NoBlock THEN c ELSE Append(c, p.next[Last(c)])

\* What it grows to, step by step.
Growing(h, p, head) ==
  /\ h[0] = <<head>>
  /\ \A i \in 1 .. SetBits : h[i] = Grown(p, h[i - 1])

LEMMA ChainGrows ==
  ASSUME NEW p, p.next \in [PoolBlocks -> PoolBlocks \cup {NoBlock}], NEW head \in PoolBlocks
  PROVE  \E h : Growing(h, p, head) /\ ChainFrom(p, head) = h[SetBits]
<1> DEFINE n == SetBits
           D == Seq(PoolBlocks)
           E == Nat
           base == <<head>>
           f == [i \in 1 .. n |-> i]
           step == [z \in D \X E |-> Grown(p, z[1])]
           value(g, s) == IF s = {} THEN base ELSE Grown(p, g[s \ {Max(s)}])
           Eq(g) == g = [s \in SUBSET (1 .. n) |-> value(g, s)]
           iter == CHOOSE g : Eq(g)
<1>1. n \in Nat /\ f \in [1 .. n -> E] /\ DOMAIN [i \in 1 .. SetBits |-> i] = 1 .. n
  BY BitsetAssumption
<1>0. head # NoBlock
  BY DEF PoolBlocks, NoBlock
<1>2. ChainFrom(p, head) = iter[1 .. n]
  BY <1>0, <1>1, Zenon DEF ChainFrom, FoldLeft, MapThenFoldSet, Grown
<1>3. base \in D
  OBVIOUS
<1>4. step \in [D \X E -> D]
  <2> SUFFICES ASSUME NEW c \in D PROVE Grown(p, c) \in D
    OBVIOUS
  <2>1. CASE c = <<>> \/ p.next[Last(c)] = NoBlock
    BY <2>1 DEF Grown
  <2>2. CASE c # <<>> /\ p.next[Last(c)] # NoBlock
    <3>1. Len(c) \in 1 .. Len(c) /\ Last(c) = c[Len(c)]
      BY <2>2 DEF Last
    <3>2. Last(c) \in PoolBlocks
      BY <3>1
    <3>3. p.next[Last(c)] \in PoolBlocks
      BY <2>2, <3>2
    <3> QED
      BY <2>2, <3>3 DEF Grown
  <2> QED
    BY <2>1, <2>2
<1>5. PICK g \in [SUBSET (1 .. n) -> D] : FoldTable(g, base, step, f, n)
  <2> HIDE DEF D, E, base, step, n, f
  <2> QED
    BY <1>1, <1>3, <1>4, FoldExists
<1>6. Eq(g)
  <2>1. ASSUME NEW s \in SUBSET (1 .. n), s # {}
        PROVE  step[<<g[s \ {Max(s)}], f[Max(s)]>>] = Grown(p, g[s \ {Max(s)}])
    <3>1. Max(s) \in 1 .. n
      BY <1>1, <2>1, LastIs
    <3>2. g[s \ {Max(s)}] \in D /\ f[Max(s)] \in E
      BY <1>1, <3>1
    <3> HIDE DEF D, E, f
    <3> QED
      BY <3>2
  <2> HIDE DEF step, f
  <2> QED
    BY <1>5, <2>1 DEF FoldTable
<1>7. Eq(iter)
  <2> HIDE DEF Eq
  <2> QED
    BY <1>6
<1> DEFINE h == [i \in 0 .. n |-> iter[1 .. i]]
<1> HIDE DEF iter
<1>8. h[0] = base
  <2>1. (1 .. 0) = {} /\ {} \in SUBSET (1 .. n)
    OBVIOUS
  <2> QED
    BY <1>1, <1>7, <2>1
<1>9. ASSUME NEW i \in 1 .. n PROVE h[i] = Grown(p, h[i - 1])
  <2>1. /\ (1 .. i) # {} /\ (1 .. i) \in SUBSET (1 .. n) /\ Max(1 .. i) = i
        /\ (1 .. i) \ {Max(1 .. i)} = 1 .. (i - 1)
    BY <1>1, UpTo
  <2>2. iter[1 .. i] = value(iter, 1 .. i)
    BY <1>7, <2>1
  <2>3. i \in 0 .. n /\ i - 1 \in 0 .. n
    BY <1>1
  <2> QED
    BY <2>1, <2>2, <2>3
<1>10. ChainFrom(p, head) = h[n]
  BY <1>1, <1>2
<1>11. Growing(h, p, head)
  <2> HIDE DEF h
  <2> QED
    BY <1>8, <1>9 DEF Growing
<1> HIDE DEF h
<1> QED
  BY <1>10, <1>11

\* The walk goes along the chain.
LEMMA ChainWalked ==
  ASSUME NEW p, p.next \in [PoolBlocks -> PoolBlocks \cup {NoBlock}], NEW head, NEW c,
         IsChain(p.next, head, c)
  PROVE  ChainFrom(p, head) = c
<1>1. /\ c \in Seq(PoolBlocks) /\ Len(c) \in Nat \ {0} /\ c[1] = head
      /\ \A i \in 1 .. Len(c) - 1 : p.next[c[i]] = c[i + 1]
      /\ p.next[c[Len(c)]] = NoBlock
  BY DEF IsChain
<1>2. /\ head \in PoolBlocks /\ \A i \in 1 .. Len(c) : c[i] \in PoolBlocks /\ c[i] # NoBlock
      /\ Len(c) <= SetBits
  BY ChainBlocks
<1>3. PICK h : Growing(h, p, head) /\ ChainFrom(p, head) = h[SetBits]
  BY <1>2, ChainGrows
<1>4. SetBits \in Nat
  BY BitsetAssumption
<1> DEFINE Highest(i) == IF i + 1 <= Len(c) THEN i + 1 ELSE Len(c)
           Good(i) == /\ h[i] \in Seq(PoolBlocks) /\ Len(h[i]) = Highest(i)
                      /\ \A j \in 1 .. Highest(i) : h[i][j] = c[j]
           N == {i \in Nat : i <= SetBits => Good(i)}
<1>5. 0 \in N
  <2>1. h[0] = <<head>>
    BY <1>3 DEF Growing
  <2>2. Highest(0) = 1
    BY <1>1
  <2>3. <<head>> \in Seq(PoolBlocks) /\ Len(<<head>>) = 1 /\ <<head>>[1] = c[1]
    BY <1>1, <1>2
  <2>4. \A j \in 1 .. 1 : j = 1
    OBVIOUS
  <2> HIDE DEF Highest
  <2>5. \A j \in 1 .. Highest(0) : h[0][j] = c[j]
    BY <2>1, <2>2, <2>3, <2>4
  <2>6. Good(0)
    BY <2>1, <2>2, <2>3, <2>5
  <2> HIDE DEF Good
  <2> QED
    BY <2>6
<1>6. ASSUME NEW i \in N PROVE i + 1 \in N
  <2> SUFFICES ASSUME i + 1 <= SetBits PROVE Good(i + 1)
    OBVIOUS
  <2>1. Good(i) /\ i \in Nat
    BY <1>4
  <2> DEFINE j == i + 1
  <2>2. j \in 1 .. SetBits /\ j - 1 = i /\ j \in Nat
    BY <1>4, <2>1
  <2> HIDE DEF j
  <2>3. h[j] = Grown(p, h[i])
    BY <1>3, <2>2 DEF Growing
  <2> DEFINE d == h[i]
             m == Highest(i)
  <2>4. d \in Seq(PoolBlocks) /\ Len(d) = m /\ \A k \in 1 .. m : d[k] = c[k]
    BY <2>1
  <2>5. m \in 1 .. Len(c) /\ (m < Len(c) => m = i + 1) /\ (m = Len(c) => i + 1 >= Len(c))
    BY <1>1, <2>1
  <2> HIDE DEF d, m
  <2>6. d # <<>> /\ Last(d) = c[m]
    BY <2>4, <2>5 DEF Last
  <2>7. CASE m = Len(c)
    <3>1. Grown(p, d) = d
      BY <1>1, <2>6, <2>7 DEF Grown
    <3>2. Highest(j) = m
      BY <1>1, <2>1, <2>5, <2>7 DEF j
    <3> HIDE DEF Highest
    <3>3. Good(j)
      BY <2>3, <2>4, <3>1, <3>2 DEF d
    <3> QED
      BY <3>3 DEF j
  <2>8. CASE m < Len(c)
    <3>1. p.next[c[m]] = c[m + 1] /\ m + 1 \in 1 .. Len(c) /\ c[m + 1] \in PoolBlocks /\ c[m + 1] # NoBlock
      BY <1>1, <1>2, <2>5, <2>8
    <3>2. Grown(p, d) = Append(d, c[m + 1])
      BY <2>6, <3>1 DEF Grown
    <3>3. Highest(j) = m + 1
      BY <1>1, <2>1, <2>5, <2>8 DEF j
    <3> HIDE DEF Highest
    <3>4. /\ h[j] \in Seq(PoolBlocks) /\ Len(h[j]) = m + 1
          /\ \A k \in 1 .. m + 1 : h[j][k] = c[k]
      BY <2>3, <2>4, <2>5, <3>1, <3>2 DEF d
    <3>5. Good(j)
      BY <3>3, <3>4
    <3> QED
      BY <3>5 DEF j
  <2> QED
    BY <1>1, <2>5, <2>7, <2>8
<1>7. N = Nat
  <2>1. N \in SUBSET Nat
    OBVIOUS
  <2> HIDE DEF N
  <2> QED
    BY <1>5, <1>6, <2>1, NatSet
<1>8. Good(SetBits)
  BY <1>4, <1>7
<1>9. Highest(SetBits) = Len(c)
  BY <1>1, <1>2, <1>4
<1> HIDE DEF Highest
<1>10. h[SetBits] = c
  <2>1. /\ h[SetBits] \in Seq(PoolBlocks) /\ Len(h[SetBits]) = Len(c)
        /\ \A j \in 1 .. Len(c) : h[SetBits][j] = c[j]
    BY <1>8, <1>9
  <2> QED
    BY <1>1, <2>1, SeqEqual
<1> QED
  BY <1>3, <1>10

\* A chain that is given back is cleared in the map, block by block.
LEMMA ChainCleared ==
  ASSUME NEW bs, NEW in, MapHolds(bs, in), NEW c \in Seq(PoolBlocks)
  PROVE  MapHolds(FoldLeft(BitClear, bs, c), in \ BlocksOf(c))
<1> DEFINE n == Len(c)
           D == [words : [Words -> SUBSET Ones], hint : Int]
           E == PoolBlocks
           step == [z \in D \X E |-> BitClear(z[1], z[2])]
           value(g, s) == IF s = {} THEN bs ELSE BitClear(g[s \ {Max(s)}], c[Max(s)])
           Eq(g) == g = [s \in SUBSET (1 .. n) |-> value(g, s)]
           iter == CHOOSE g : Eq(g)
<1>1. n \in Nat /\ c \in [1 .. n -> E] /\ DOMAIN c = 1 .. n
  BY LenProperties
<1>2. FoldLeft(BitClear, bs, c) = iter[1 .. n]
  BY <1>1, Zenon DEF FoldLeft, MapThenFoldSet
<1>3. bs \in D
  <2>1. bs \in [words : [Words -> SUBSET Ones], hint : Words]
    BY DEF MapHolds
  <2>2. \A w \in Words : w \in Int
    BY ValidBits
  <2> QED
    BY <2>1, <2>2
<1>4. step \in [D \X E -> D]
  <2> SUFFICES ASSUME NEW m \in D, NEW i \in E PROVE BitClear(m, i) \in D
    OBVIOUS
  <2> DEFINE v == i \div SetWord
             r == i % SetWord
  <2>1. ~(i >= SetBits)
    BY BitsetAssumption DEF PoolBlocks
  <2>2. BitClear(m, i) = [words |-> [m.words EXCEPT ![v] = @ \ {r}],
                          hint |-> IF v < m.hint THEN v ELSE m.hint]
    BY <2>1, Zenon DEF BitClear
  <2>3. v \in Int
    BY BitsetAssumption DEF PoolBlocks
  <2> HIDE DEF v, r
  <2>4. m.words \in [Words -> SUBSET Ones] /\ m.hint \in Int
    OBVIOUS
  <2>5. [m.words EXCEPT ![v] = @ \ {r}] \in [Words -> SUBSET Ones]
    BY <2>4
  <2> QED
    BY <2>2, <2>3, <2>4, <2>5
<1>5. PICK g \in [SUBSET (1 .. n) -> D] : FoldTable(g, bs, step, c, n)
  <2> HIDE DEF D, E, step, n
  <2> QED
    BY <1>1, <1>3, <1>4, FoldExists
<1>6. Eq(g)
  <2>1. ASSUME NEW s \in SUBSET (1 .. n), s # {}
        PROVE  step[<<g[s \ {Max(s)}], c[Max(s)]>>] = BitClear(g[s \ {Max(s)}], c[Max(s)])
    <3>1. Max(s) \in 1 .. n
      BY <1>1, <2>1, LastIs
    <3>2. g[s \ {Max(s)}] \in D /\ c[Max(s)] \in E
      BY <1>1, <3>1
    <3> HIDE DEF D, E
    <3> QED
      BY <3>2
  <2> HIDE DEF step
  <2> QED
    BY <1>5, <2>1 DEF FoldTable
<1>7. Eq(iter)
  <2> HIDE DEF Eq
  <2> QED
    BY <1>6
<1> DEFINE h == [i \in 0 .. n |-> iter[1 .. i]]
<1> HIDE DEF iter
<1>8. h[0] = bs
  <2>1. (1 .. 0) = {} /\ {} \in SUBSET (1 .. n)
    OBVIOUS
  <2> QED
    BY <1>1, <1>7, <2>1
<1>9. ASSUME NEW i \in 1 .. n PROVE h[i] = BitClear(h[i - 1], c[i])
  <2>1. /\ (1 .. i) # {} /\ (1 .. i) \in SUBSET (1 .. n) /\ Max(1 .. i) = i
        /\ (1 .. i) \ {Max(1 .. i)} = 1 .. (i - 1)
    BY <1>1, UpTo
  <2>2. iter[1 .. i] = value(iter, 1 .. i)
    BY <1>7, <2>1
  <2>3. i \in 0 .. n /\ i - 1 \in 0 .. n
    BY <1>1
  <2> QED
    BY <2>1, <2>2, <2>3
<1>10. FoldLeft(BitClear, bs, c) = h[n]
  BY <1>1, <1>2
<1> HIDE DEF h
<1> DEFINE left(i) == in \ {c[j] : j \in 1 .. i}
           N == {i \in Nat : i <= n => MapHolds(h[i], left(i))}
<1>11. 0 \in N
  <2>1. left(0) = in
    OBVIOUS
  <2> HIDE DEF left
  <2> QED
    BY <1>8, <2>1
<1>12. ASSUME NEW i \in N PROVE i + 1 \in N
  <2> SUFFICES ASSUME i + 1 <= n PROVE MapHolds(h[i + 1], left(i + 1))
    OBVIOUS
  <2> DEFINE j == i + 1
  <2>1. j \in 1 .. n /\ j - 1 = i /\ i \in Nat
    BY <1>1
  <2>2. left(j) = left(i) \ {c[j]}
    BY <2>1
  <2> HIDE DEF j
  <2>3. MapHolds(h[i], left(i))
    BY <1>1, <2>1
  <2> HIDE DEF left
  <2>4. h[j] = BitClear(h[i], c[j])
    BY <1>9, <2>1
  <2>5. c[j] \in 0 .. SetBits - 1
    BY <1>1, <2>1 DEF PoolBlocks
  <2>6. MapHolds(h[j], left(j))
    BY <2>2, <2>3, <2>4, <2>5, BitClearHolds
  <2> QED
    BY <2>6 DEF j
<1>13. N = Nat
  <2>1. N \in SUBSET Nat
    OBVIOUS
  <2> HIDE DEF N
  <2> QED
    BY <1>11, <1>12, <2>1, NatSet
<1>14. MapHolds(h[n], left(n))
  <2> HIDE DEF left
  <2> QED
    BY <1>1, <1>13
<1>15. left(n) = in \ BlocksOf(c)
  BY DEF BlocksOf
<1> QED
  BY <1>10, <1>14, <1>15

-----------------------------------------------------------------------------
(* A chain that is made.                                                    *)

\* A block is found and linked behind the last.
Link(l) ==
  LET hit == FirstClear(l.map)
  IN  [map |-> BitSet(hit.bs, hit.bit), last |-> hit.bit,
       head |-> IF l.last = NoBlock THEN hit.bit ELSE l.head,
       next |-> [b \in DOMAIN l.next |->
                   IF b = l.last THEN hit.bit ELSE IF b = hit.bit THEN NoBlock ELSE l.next[b]]]

NoLinks(p) == [map |-> p.map, last |-> NoBlock, head |-> NoBlock, next |-> p.next]
LinkedBlocks(p, n) == FoldLeft(LAMBDA l, i : Link(l), NoLinks(p), [i \in 1 .. n |-> i])

\* The chain of audio_pool_alloc() is that.
LEMMA AllocIs ==
  ASSUME NEW p, NEW size
  PROVE  LET slots == {s \in 1 .. ObjectSlots : ~p.objects[s].used}
             slot == Min(slots)
             l == LinkedBlocks(p, Needed(size))
         IN  AllocBytes(p, size) =
               IF Needed(size) > FreeBlocks(p) \/ slots = {} THEN [pool |-> p, handle |-> NoHandleHere]
               ELSE [pool |-> [p EXCEPT !.map = l.map, !.next = l.next,
                                        !.objects[slot] = [used |-> TRUE, head |-> l.head, size |-> size]],
                     handle |-> [slot |-> slot, gen |-> p.gens[slot]]]
BY Zenon DEF AllocBytes, LinkedBlocks, NoLinks, Link, FoldLeft, MapThenFoldSet

\* What is linked, block by block.
Linking(h, p, n) ==
  /\ h[0] = NoLinks(p)
  /\ \A i \in 1 .. n : h[i] = Link(h[i - 1])

\* What a map finds is a clear bit, and none only if there is none; setting none
\* changes nothing.
LEMMA HitIs ==
  ASSUME NEW bs, NEW in, MapHolds(bs, in)
  PROVE  LET hit == FirstClear(bs)
             free == PoolBlocks \ in
         IN  IF free = {} THEN hit.bit = NoBit /\ MapHolds(BitSet(hit.bs, hit.bit), in)
             ELSE /\ hit.bit \in free
                  /\ MapHolds(BitSet(hit.bs, hit.bit), in \cup {hit.bit})
<1> DEFINE hit == FirstClear(bs)
           free == PoolBlocks \ in
<1>1. hit.bit = (IF free = {} THEN NoBit ELSE Min(free)) /\ MapHolds(hit.bs, in)
  BY ClearFound DEF FindsClear, PoolBlocks
<1> HIDE DEF hit
<1>2. CASE free # {}
  <2>1. free \in SUBSET Nat
    BY DEF PoolBlocks
  <2>2. hit.bit \in free
    <3> HIDE DEF free
    <3> QED
      BY <1>1, <1>2, <2>1, FirstIs
  <2>3. hit.bit \in 0 .. SetBits - 1
    BY <2>2 DEF PoolBlocks
  <2> QED
    BY <1>1, <1>2, <2>2, <2>3, BitSetHolds DEF hit
<1>3. CASE free = {}
  <2>1. hit.bit = -1
    BY <1>1, <1>3 DEF NoBit
  <2>2. ~(-1 >= SetBits) /\ (-1) \div SetWord = -1
    <3>1. SetWord \in Nat \ {0} /\ SetBits \in Nat
      BY BitsetAssumption
    <3>2. SetWord * (-1) + (SetWord - 1) = -1 /\ SetWord - 1 \in 0 .. (SetWord - 1)
      BY <3>1
    <3>3. (SetWord * (-1) + (SetWord - 1)) \div SetWord = -1
      BY <3>1, <3>2, Divided
    <3>4. (-1) \div SetWord = -1
      BY <3>2, <3>3
    <3> QED
      BY <3>1, <3>4
  <2> DEFINE m == hit.bs
             z == -1
             r == z % SetWord
             v == z \div SetWord
  <2>3. m \in [words : [Words -> SUBSET Ones], hint : Words]
    BY <1>1 DEF MapHolds
  <2>4. v \notin Words
    <3>1. v = -1
      BY <2>2
    <3>2. \A w \in Words : w \in Nat
      BY ValidBits
    <3> HIDE DEF v
    <3> QED
      BY <3>1, <3>2
  <2>5. BitSet(m, z) = [m EXCEPT !.words[v] = @ \cup {r}]
    BY <2>2, Zenon DEF BitSet
  <2> HIDE DEF m, v, r
  <2>6. BitSet(m, z) = m
    BY <2>3, <2>4, <2>5
  <2> QED
    BY <1>1, <1>3, <2>1, <2>6 DEF m, NoBit, hit
<1> QED
  BY <1>2, <1>3

LEMMA LinksGrow ==
  ASSUME NEW p, NEW in, MapHolds(p.map, in),
         p.next \in [PoolBlocks -> PoolBlocks \cup {NoBlock}], NEW n \in Nat
  PROVE  \E h : Linking(h, p, n) /\ LinkedBlocks(p, n) = h[n]
<1> DEFINE M == {m \in [words : [Words -> SUBSET Ones], hint : Words] : \E set : MapHolds(m, set)}
           D == [map : M, last : Int, head : Int, next : [PoolBlocks -> Int]]
           E == Nat
           base == NoLinks(p)
           f == [i \in 1 .. n |-> i]
           step == [z \in D \X E |-> Link(z[1])]
           value(g, s) == IF s = {} THEN base ELSE Link(g[s \ {Max(s)}])
           Eq(g) == g = [s \in SUBSET (1 .. n) |-> value(g, s)]
           iter == CHOOSE g : Eq(g)
<1>1. n \in Nat /\ f \in [1 .. n -> E] /\ DOMAIN [i \in 1 .. n |-> i] = 1 .. n
  OBVIOUS
<1>2. LinkedBlocks(p, n) = iter[1 .. n]
  BY <1>1, Zenon DEF LinkedBlocks, FoldLeft, MapThenFoldSet
<1>a. PoolBlocks \in SUBSET Int /\ NoBlock \in Int /\ NoBit \in Int
  BY DEF PoolBlocks, NoBlock, NoBit
<1>3. base \in D
  <2>1. p.map \in M
    BY DEF MapHolds
  <2>2. p.next \in [PoolBlocks -> Int]
    BY <1>a
  <2> HIDE DEF M
  <2> QED
    BY <1>a, <2>1, <2>2 DEF NoLinks
<1>4. step \in [D \X E -> D]
  <2> SUFFICES ASSUME NEW l \in D PROVE Link(l) \in D
    OBVIOUS
  <2> DEFINE hit == FirstClear(l.map)
  <2>1. PICK set : MapHolds(l.map, set)
    OBVIOUS
  <2>2. hit.bit \in Int /\ \E more : MapHolds(BitSet(hit.bs, hit.bit), more)
    <3>1. CASE PoolBlocks \ set = {}
      <4>1. hit.bit = NoBit /\ MapHolds(BitSet(hit.bs, hit.bit), set)
        BY <2>1, <3>1, HitIs
      <4> QED
        BY <1>a, <4>1
    <3>2. CASE PoolBlocks \ set # {}
      <4>1. hit.bit \in PoolBlocks \ set /\ MapHolds(BitSet(hit.bs, hit.bit), set \cup {hit.bit})
        BY <2>1, <3>2, HitIs
      <4> QED
        BY <1>a, <4>1
    <3> QED
      BY <3>1, <3>2
  <2>3. BitSet(hit.bs, hit.bit) \in M
    BY <2>2 DEF MapHolds
  <2>4. l.next \in [PoolBlocks -> Int] /\ l.head \in Int
    OBVIOUS
  <2>5. Link(l) = [map |-> BitSet(hit.bs, hit.bit), last |-> hit.bit,
                   head |-> IF l.last = NoBlock THEN hit.bit ELSE l.head,
                   next |-> [b \in DOMAIN l.next |->
                     IF b = l.last THEN hit.bit ELSE IF b = hit.bit THEN NoBlock ELSE l.next[b]]]
    BY Zenon DEF Link
  <2> HIDE DEF M, hit
  <2> QED
    BY <1>a, <2>2, <2>3, <2>4, <2>5
<1>5. PICK g \in [SUBSET (1 .. n) -> D] : FoldTable(g, base, step, f, n)
  <2> HIDE DEF D, E, base, step, f
  <2> QED
    BY <1>1, <1>3, <1>4, FoldExists
<1>6. Eq(g)
  <2>1. ASSUME NEW s \in SUBSET (1 .. n), s # {}
        PROVE  step[<<g[s \ {Max(s)}], f[Max(s)]>>] = Link(g[s \ {Max(s)}])
    <3>1. Max(s) \in 1 .. n
      BY <1>1, <2>1, LastIs
    <3>2. g[s \ {Max(s)}] \in D /\ f[Max(s)] \in E
      BY <1>1, <3>1
    <3> HIDE DEF D, E, f
    <3> QED
      BY <3>2
  <2> HIDE DEF step, f
  <2> QED
    BY <1>5, <2>1 DEF FoldTable
<1>7. Eq(iter)
  <2> HIDE DEF Eq
  <2> QED
    BY <1>6
<1> DEFINE h == [i \in 0 .. n |-> iter[1 .. i]]
<1> HIDE DEF iter
<1>8. h[0] = base
  <2>1. (1 .. 0) = {} /\ {} \in SUBSET (1 .. n)
    OBVIOUS
  <2> QED
    BY <1>1, <1>7, <2>1
<1>9. ASSUME NEW i \in 1 .. n PROVE h[i] = Link(h[i - 1])
  <2>1. /\ (1 .. i) # {} /\ (1 .. i) \in SUBSET (1 .. n) /\ Max(1 .. i) = i
        /\ (1 .. i) \ {Max(1 .. i)} = 1 .. (i - 1)
    BY <1>1, UpTo
  <2>2. iter[1 .. i] = value(iter, 1 .. i)
    BY <1>7, <2>1
  <2>3. i \in 0 .. n /\ i - 1 \in 0 .. n
    BY <1>1
  <2> QED
    BY <2>1, <2>2, <2>3
<1>10. LinkedBlocks(p, n) = h[n]
  BY <1>1, <1>2
<1>11. Linking(h, p, n)
  <2> HIDE DEF h
  <2> QED
    BY <1>8, <1>9 DEF Linking
<1> HIDE DEF h
<1> QED
  BY <1>10, <1>11

\* The blocks c were clear in the map of p, and are linked in l.
LinkedTo(l, p, in, c) ==
  /\ c \in Seq(PoolBlocks)
  /\ \A i \in 1 .. Len(c), j \in 1 .. Len(c) : c[i] = c[j] => i = j
  /\ BlocksOf(c) \cap in = {}
  /\ MapHolds(l.map, in \cup BlocksOf(c))
  /\ l.next \in [PoolBlocks -> PoolBlocks \cup {NoBlock}]
  /\ \A b \in PoolBlocks \ BlocksOf(c) : l.next[b] = p.next[b]
  /\ IF c = <<>> THEN l.last = NoBlock
     ELSE /\ l.last = c[Len(c)] /\ l.head = c[1] /\ l.next[c[Len(c)]] = NoBlock
          /\ \A i \in 1 .. Len(c) - 1 : l.next[c[i]] = c[i + 1]

\* While a block is free, one more is linked.
LEMMA OneLinked ==
  ASSUME NEW l, NEW p, NEW in, NEW c, LinkedTo(l, p, in, c),
         PoolBlocks \ (in \cup BlocksOf(c)) # {}
  PROVE  \E b \in PoolBlocks : LinkedTo(Link(l), p, in, Append(c, b))
<1> DEFINE hit == FirstClear(l.map)
           b == hit.bit
           d == Append(c, b)
           k == Link(l)
           n == Len(c)
<1>1. /\ c \in Seq(PoolBlocks) /\ n \in Nat
      /\ \A i \in 1 .. n, j \in 1 .. n : c[i] = c[j] => i = j
      /\ BlocksOf(c) \cap in = {}
      /\ MapHolds(l.map, in \cup BlocksOf(c))
      /\ l.next \in [PoolBlocks -> PoolBlocks \cup {NoBlock}]
      /\ \A x \in PoolBlocks \ BlocksOf(c) : l.next[x] = p.next[x]
  BY DEF LinkedTo
<1>2. /\ c = <<>> => l.last = NoBlock
      /\ c # <<>> => /\ l.last = c[n] /\ l.head = c[1] /\ l.next[c[n]] = NoBlock
                     /\ \A i \in 1 .. n - 1 : l.next[c[i]] = c[i + 1]
  BY DEF LinkedTo
<1>3. b \in PoolBlocks /\ b \notin in /\ b \notin BlocksOf(c)
      /\ MapHolds(BitSet(hit.bs, b), (in \cup BlocksOf(c)) \cup {b})
  <2> DEFINE u == in \cup BlocksOf(c)
  <2>1. MapHolds(l.map, u) /\ PoolBlocks \ u # {}
    BY <1>1
  <2> HIDE DEF u
  <2>2. b \in PoolBlocks \ u /\ MapHolds(BitSet(hit.bs, b), u \cup {b})
    BY <2>1, HitIs
  <2> HIDE DEF b, hit
  <2> QED
    BY <2>2 DEF u
<1>4. k = [map |-> BitSet(hit.bs, b), last |-> b,
           head |-> IF l.last = NoBlock THEN b ELSE l.head,
           next |-> [x \in PoolBlocks |->
             IF x = l.last THEN b ELSE IF x = b THEN NoBlock ELSE l.next[x]]]
  <2>1. DOMAIN l.next = PoolBlocks
    BY <1>1
  <2> QED
    BY <2>1, Zenon DEF Link
<1> HIDE DEF b, hit, k
<1>5. /\ d \in Seq(PoolBlocks) /\ Len(d) = n + 1 /\ d # <<>>
      /\ \A i \in 1 .. n : d[i] = c[i]
      /\ d[n + 1] = b
  BY <1>1, <1>3
<1> HIDE DEF d
<1>6. BlocksOf(d) = BlocksOf(c) \cup {b}
  <2>1. \A i \in 1 .. n + 1 : i \in 1 .. n \/ i = n + 1
    BY <1>1
  <2>2. \A i \in 1 .. n : i \in 1 .. n + 1
    BY <1>1
  <2>3. n + 1 \in 1 .. n + 1
    BY <1>1
  <2>4. BlocksOf(d) = {d[i] : i \in 1 .. n + 1}
    BY <1>5 DEF BlocksOf
  <2>5. \A x : x \in BlocksOf(d) <=> x \in BlocksOf(c) \/ x = b
    BY <1>5, <2>1, <2>2, <2>3, <2>4 DEF BlocksOf
  <2> QED
    BY <2>5
<1>7. \A i \in 1 .. n + 1, j \in 1 .. n + 1 : d[i] = d[j] => i = j
  <2>1. \A i \in 1 .. n + 1 : i \in 1 .. n \/ i = n + 1
    BY <1>1
  <2>2. \A i \in 1 .. n : c[i] # b
    BY <1>3 DEF BlocksOf
  <2> QED
    BY <1>1, <1>5, <2>1, <2>2
<1>8. BlocksOf(d) \cap in = {}
  BY <1>1, <1>3, <1>6
<1>9. MapHolds(k.map, in \cup BlocksOf(d))
  <2>1. in \cup BlocksOf(d) = (in \cup BlocksOf(c)) \cup {b}
    BY <1>6
  <2>2. k.map = BitSet(hit.bs, b)
    BY <1>4
  <2> QED
    BY <1>3, <2>1, <2>2
<1>10. /\ k.next \in [PoolBlocks -> PoolBlocks \cup {NoBlock}]
       /\ \A x \in PoolBlocks : k.next[x] = IF x = l.last THEN b ELSE IF x = b THEN NoBlock ELSE l.next[x]
       /\ k.last = b /\ k.head = IF l.last = NoBlock THEN b ELSE l.head
  BY <1>1, <1>3, <1>4
<1>11. c # <<>> => n \in 1 .. n /\ c[n] \in BlocksOf(c) /\ l.last \in BlocksOf(c)
  <2> SUFFICES ASSUME c # <<>> PROVE n \in 1 .. n
    BY <1>2 DEF BlocksOf
  <2> QED
    BY <1>1
<1>12. NoBlock \notin PoolBlocks
  BY DEF PoolBlocks, NoBlock
<1>13. \A x \in PoolBlocks \ BlocksOf(d) : k.next[x] = p.next[x]
  <2> SUFFICES ASSUME NEW x \in PoolBlocks, x \notin BlocksOf(d) PROVE k.next[x] = p.next[x]
    OBVIOUS
  <2>1. x # b /\ x \notin BlocksOf(c)
    BY <1>6
  <2>2. x # l.last
    BY <1>2, <1>11, <1>12, <2>1
  <2> QED
    BY <1>1, <1>10, <2>1, <2>2
<1>14. k.last = d[n + 1] /\ k.head = d[1] /\ k.next[d[n + 1]] = NoBlock
  <2>1. b # l.last
    BY <1>2, <1>3, <1>11, <1>12
  <2>2. k.next[b] = NoBlock
    BY <1>3, <1>10, <2>1
  <2>3. k.head = d[1]
    <3>1. CASE c = <<>>
      <4>1. n = 0
        BY <3>1
      <4> QED
        BY <1>2, <1>5, <1>10, <3>1, <4>1
    <3>2. CASE c # <<>>
      <4>1. l.last \in PoolBlocks /\ 1 \in 1 .. n
        BY <1>1, <1>2, <1>11, <3>2
      <4> QED
        BY <1>2, <1>5, <1>10, <1>12, <3>2, <4>1
    <3> QED
      BY <3>1, <3>2
  <2> QED
    BY <1>5, <1>10, <2>2, <2>3
<1>15. ASSUME NEW i \in 1 .. n PROVE k.next[d[i]] = d[i + 1]
  <2>1. c # <<>> /\ d[i] = c[i] /\ c[i] \in PoolBlocks /\ c[i] # b
    BY <1>1, <1>3, <1>5 DEF BlocksOf
  <2>2. CASE i = n
    BY <1>2, <1>5, <1>10, <2>1, <2>2
  <2>3. CASE i # n
    <3>1. i \in 1 .. n - 1 /\ i + 1 \in 1 .. n /\ n \in 1 .. n
      BY <1>1, <2>3
    <3>2. c[i] # c[n]
      BY <1>1, <2>3, <3>1
    <3>3. k.next[c[i]] = c[i + 1]
      BY <1>2, <1>10, <2>1, <3>1, <3>2
    <3> QED
      BY <1>5, <2>1, <3>1, <3>3
  <2> QED
    BY <2>2, <2>3
<1>16. n + 1 - 1 = n
  BY <1>1
<1>17. LinkedTo(k, p, in, d)
  BY <1>5, <1>7, <1>8, <1>9, <1>10, <1>13, <1>14, <1>15, <1>16 DEF LinkedTo
<1> QED
  BY <1>3, <1>17 DEF d, k

\* There are as many blocks as bits.
LEMMA BlocksCounted ==
  IsFiniteSet(PoolBlocks) /\ Cardinality(PoolBlocks) = SetBits /\ SetBits \in Nat
<1>1. SetBits \in Nat \ {0}
  BY BitsetAssumption
<1>2. SetBits - 1 \in Int /\ ~(0 > SetBits - 1) /\ SetBits - 1 - 0 + 1 = SetBits
  BY <1>1
<1>3. IsFiniteSet(0 .. SetBits - 1) /\ Cardinality(0 .. SetBits - 1) = SetBits
  BY <1>2, FS_Interval
<1> QED
  BY <1>1, <1>3 DEF PoolBlocks

\* As many as there is room for are linked to a chain of blocks that were free.
LEMMA LinksHold ==
  ASSUME NEW p, NEW in, MapHolds(p.map, in),
         p.next \in [PoolBlocks -> PoolBlocks \cup {NoBlock}], NEW n \in Nat \ {0},
         Cardinality(in) + n <= SetBits
  PROVE  \E c : Len(c) = n /\ LinkedTo(LinkedBlocks(p, n), p, in, c)
<1>1. PICK h : Linking(h, p, n) /\ LinkedBlocks(p, n) = h[n]
  BY LinksGrow
<1>2. /\ h[0] = NoLinks(p)
      /\ \A i \in 1 .. n : h[i] = Link(h[i - 1])
  BY <1>1 DEF Linking
<1>3. in \in SUBSET PoolBlocks
  BY DEF MapHolds, PoolBlocks
<1>4. IsFiniteSet(PoolBlocks) /\ Cardinality(PoolBlocks) = SetBits /\ SetBits \in Nat
  BY BlocksCounted
<1>5. IsFiniteSet(in) /\ Cardinality(in) \in Nat
  BY <1>3, <1>4, FS_Subset, FS_CardinalityType
<1> DEFINE Good(i) == \E c : Len(c) = i /\ LinkedTo(h[i], p, in, c)
           N == {i \in Nat : i <= n => Good(i)}
<1>6. 0 \in N
  <2> DEFINE c == <<>>
  <2>1. c \in Seq(PoolBlocks) /\ Len(c) = 0
    OBVIOUS
  <2>2. BlocksOf(c) = {}
    BY <2>1 DEF BlocksOf
  <2>3. NoLinks(p).map = p.map /\ NoLinks(p).next = p.next /\ NoLinks(p).last = NoBlock
    BY DEF NoLinks
  <2>4. in \cup BlocksOf(c) = in
    BY <2>2
  <2>5. c = <<>>
    OBVIOUS
  <2> HIDE DEF c
  <2>6. LinkedTo(NoLinks(p), p, in, c)
    BY <2>1, <2>2, <2>3, <2>4, <2>5 DEF LinkedTo
  <2> QED
    BY <1>2, <2>1, <2>6
<1>7. ASSUME NEW i \in N PROVE i + 1 \in N
  <2> SUFFICES ASSUME i + 1 <= n PROVE Good(i + 1)
    OBVIOUS
  <2>1. i \in Nat /\ i <= n
    OBVIOUS
  <2>2. PICK c : Len(c) = i /\ LinkedTo(h[i], p, in, c)
    BY <2>1
  <2> DEFINE j == i + 1
  <2>3. j \in 1 .. n /\ j - 1 = i
    BY <2>1
  <2> HIDE DEF j
  <2>4. h[j] = Link(h[i])
    BY <1>2, <2>3
  <2>5. PoolBlocks \ (in \cup BlocksOf(c)) # {}
    <3> DEFINE B == BlocksOf(c)
    <3>1. /\ c \in Seq(PoolBlocks)
          /\ \A x \in 1 .. Len(c), y \in 1 .. Len(c) : c[x] = c[y] => x = y
          /\ B \cap in = {}
      BY <2>2 DEF LinkedTo
    <3>2. IsFiniteSet(B) /\ Cardinality(B) = i
      <4> DEFINE S == 1 .. i
                 f == [x \in S |-> c[x]]
      <4>1. IsFiniteSet(S) /\ Cardinality(S) = i
        BY <2>1, FS_Interval
      <4>2. f \in [S -> B] /\ \A t \in B : \E x \in S : f[x] = t
        BY <2>2 DEF BlocksOf
      <4>3. \A x \in S, y \in S : f[x] = f[y] => x = y
        BY <2>2, <3>1
      <4> HIDE DEF S, f, B
      <4> QED
        BY <4>1, <4>2, <4>3, SameSize
    <3> HIDE DEF B
    <3>3. Cardinality(in \cup B) = Cardinality(in) + i
      <4>1. Cardinality(in \cup B) = Cardinality(in) + Cardinality(B) - Cardinality(in \cap B)
        BY <1>5, <3>2, FS_Union
      <4>2. Cardinality(in \cap B) = 0
        <5>1. in \cap B = {}
          <6>1. B \cap in = {}
            BY <3>1
          <6> QED
            BY <6>1
        <5>2. Cardinality({}) = 0
          BY FS_EmptySet
        <5> QED
          BY <5>1, <5>2
      <4> QED
        BY <1>5, <2>1, <3>2, <4>1, <4>2
    <3>4. Cardinality(in \cup B) < SetBits
      BY <1>4, <1>5, <2>1, <3>3
    <3>5. PoolBlocks # in \cup B
      <4> SUFFICES ASSUME PoolBlocks = in \cup B PROVE FALSE
        OBVIOUS
      <4>1. Cardinality(in \cup B) = SetBits
        BY <1>4
      <4> DEFINE u == Cardinality(in \cup B)
      <4> HIDE DEF u
      <4>2. u = SetBits /\ u < SetBits
        BY <3>4, <4>1 DEF u
      <4> QED
        BY <1>4, <4>2
    <3>6. B \in SUBSET PoolBlocks
      BY <3>1 DEF B, BlocksOf
    <3> QED
      BY <1>3, <3>5, <3>6 DEF B
  <2>6. PICK b \in PoolBlocks : LinkedTo(Link(h[i]), p, in, Append(c, b))
    BY <2>2, <2>5, OneLinked
  <2>7. Len(Append(c, b)) = j
    <3>1. /\ c \in Seq(PoolBlocks)
      BY <2>2 DEF LinkedTo
    <3> QED
      BY <2>2, <3>1 DEF j
  <2> QED
    BY <2>4, <2>6, <2>7 DEF j
<1>8. N = Nat
  <2>1. N \in SUBSET Nat
    OBVIOUS
  <2> HIDE DEF N
  <2> QED
    BY <1>6, <1>7, <2>1, NatSet
<1>9. Good(n)
  <2> HIDE DEF Good
  <2> QED
    BY <1>8
<1> QED
  BY <1>1, <1>9

-----------------------------------------------------------------------------
(* The objects of the pool.                                                 *)

UsedSlots(p) == {s \in 1 .. ObjectSlots : p.objects[s].used}

PoolTyped(p) ==
  p \in [map : [words : [Words -> SUBSET Ones], hint : Words],
         next : [PoolBlocks -> PoolBlocks \cup {NoBlock}],
         region : [0 .. SetBits * BlockSize - 1 -> Int],
         objects : [1 .. ObjectSlots -> [used : BOOLEAN, head : PoolBlocks \cup {NoBlock}, size : Nat]],
         gens : [1 .. ObjectSlots -> Nat]]

\* An object that is used has a chain of as many blocks as it needs, no two have a
\* block in common, and the map holds the blocks they have.
ChainsHold(p, ch, in) ==
  /\ MapHolds(p.map, in)
  /\ \A s \in UsedSlots(p) :
       IsChain(p.next, p.objects[s].head, ch[s]) /\ Len(ch[s]) = Needed(p.objects[s].size)
  /\ \A s \in UsedSlots(p), t \in UsedSlots(p) :
       s # t => BlocksOf(ch[s]) \cap BlocksOf(ch[t]) = {}
  /\ \A b \in PoolBlocks : b \in in <=> \E s \in UsedSlots(p) : b \in BlocksOf(ch[s])

\* Every byte of an object is in a block of its chain.
LEMMA ByteInChain ==
  ASSUME NEW p, NEW ch, NEW in, PoolTyped(p), ChainsHold(p, ch, in), NEW s \in UsedSlots(p)
  PROVE  /\ ch[s] \in Seq(PoolBlocks) /\ p.objects[s].size \in Nat
         /\ ChainFrom(p, p.objects[s].head) = ch[s]
         /\ \A k \in 0 .. p.objects[s].size - 1 : 1 + (k \div BlockSize) \in 1 .. Len(ch[s])
<1>1. IsChain(p.next, p.objects[s].head, ch[s]) /\ Len(ch[s]) = Needed(p.objects[s].size)
  BY DEF ChainsHold
<1>2. p.next \in [PoolBlocks -> PoolBlocks \cup {NoBlock}]
  BY DEF PoolTyped
<1>3. p.objects[s].size \in Nat
  BY DEF PoolTyped, UsedSlots
<1>4. ch[s] \in Seq(PoolBlocks)
  BY <1>1 DEF IsChain
<1>5. ChainFrom(p, p.objects[s].head) = ch[s]
  BY <1>1, <1>2, ChainWalked
<1>6. \A k \in 0 .. p.objects[s].size - 1 : 1 + (k \div BlockSize) \in 1 .. Needed(p.objects[s].size)
  BY <1>3, NeededHolds
<1> QED
  BY <1>1, <1>3, <1>4, <1>5, <1>6

\* How many of n bytes at an offset an object of a size has.
RoomOf(size, offset, n) ==
  IF offset >= size THEN 0 ELSE IF n <= size - offset THEN n ELSE size - offset

LEMMA RoomIs ==
  ASSUME NEW object, object.size \in Nat, NEW offset \in Nat, NEW n \in Nat
  PROVE  /\ Room(object, offset, n) = RoomOf(object.size, offset, n)
         /\ RoomOf(object.size, offset, n) \in Nat
         /\ \A i \in 1 .. RoomOf(object.size, offset, n) :
              offset + i - 1 \in 0 .. object.size - 1 /\ i \in 1 .. n
         /\ \A k \in 0 .. object.size - 1 :
              k + 1 - offset \in 1 .. n => k + 1 - offset \in 1 .. RoomOf(object.size, offset, n)
<1> DEFINE size == object.size
           rest == size - offset
<1>1. rest \in Int /\ n \in Int
  OBVIOUS
<1>2. Min({n, rest}) = IF n <= rest THEN n ELSE rest
  <2> HIDE DEF rest
  <2> QED
    BY <1>1, LeastOfTwo, Zenon
<1>3. Room(object, offset, n) = IF offset >= size THEN 0 ELSE Min({n, rest})
  BY Zenon DEF Room
<1>4. Room(object, offset, n) = RoomOf(size, offset, n)
  <2>1. RoomOf(size, offset, n) = IF offset >= size THEN 0 ELSE IF n <= rest THEN n ELSE rest
    BY Zenon DEF RoomOf
  <2> DEFINE m == Min({n, rest})
  <2>2. m = (IF n <= rest THEN n ELSE rest) /\ Room(object, offset, n) = IF offset >= size THEN 0 ELSE m
    BY <1>2, <1>3
  <2> HIDE DEF rest, size, m
  <2> QED
    BY <2>1, <2>2
<1>5. size \in Nat
  OBVIOUS
<1> DEFINE r == RoomOf(size, offset, n)
<1>6. r = IF offset >= size THEN 0 ELSE IF n <= size - offset THEN n ELSE size - offset
  BY DEF RoomOf
<1> HIDE DEF size, r
<1>7. r \in Nat /\ (r # 0 => r <= n /\ r <= size - offset) /\ (r < n => offset >= size \/ r = size - offset)
  BY <1>5, <1>6
<1>8. /\ \A i \in 1 .. r : offset + i - 1 \in 0 .. size - 1 /\ i \in 1 .. n
      /\ \A k \in 0 .. size - 1 : k + 1 - offset \in 1 .. n => k + 1 - offset \in 1 .. r
  BY <1>5, <1>7
<1> QED
  BY <1>4, <1>7, <1>8 DEF size, r

\* The places of an object.
PlacesOf(c, offset, n) == [i \in 1 .. n |-> BytePlace(c, offset + i - 1)]

LEMMA PlacesAre ==
  ASSUME NEW p, NEW object, NEW offset, NEW n, NEW c, ChainFrom(p, object.head) = c
  PROVE  Places(p, object, offset, n) = PlacesOf(c, offset, n)
BY Zenon DEF Places, PlacesOf, BytePlace

\* Reading gives what is there.
BytesAt(p, c, offset, n) == [i \in 1 .. n |-> p.region[BytePlace(c, offset + i - 1)]]

LEMMA ReadIs ==
  ASSUME NEW p, NEW ch, NEW in, PoolTyped(p), ChainsHold(p, ch, in), NEW h, Resolved(p, h),
         NEW offset \in Nat, NEW n \in Nat
  PROVE  ReadBytes(p, h, offset, n)
           = BytesAt(p, ch[h.slot], offset, RoomOf(p.objects[h.slot].size, offset, n))
<1> DEFINE s == h.slot
           object == p.objects[s]
           c == ch[s]
           r == RoomOf(object.size, offset, n)
           at == Places(p, object, offset, Room(object, offset, n))
<1>1. s \in UsedSlots(p)
  BY DEF Resolved, UsedSlots
<1>2. ChainFrom(p, object.head) = c /\ object.size \in Nat
  BY <1>1, ByteInChain
<1>3. ReadBytes(p, h, offset, n) = [i \in DOMAIN at |-> p.region[at[i]]]
  BY Zenon DEF ReadBytes
<1>4. Room(object, offset, n) = r
  BY <1>2, RoomIs
<1>5. at = [i \in 1 .. r |-> BytePlace(c, offset + i - 1)]
  <2>1. at = Places(p, object, offset, r)
    BY <1>4, Zenon
  <2> HIDE DEF at, r, c
  <2>2. Places(p, object, offset, r) = PlacesOf(c, offset, r)
    BY <1>2, PlacesAre
  <2> QED
    BY <2>1, <2>2, Zenon DEF PlacesOf
<1> HIDE DEF at, r, c
<1>6. DOMAIN at = 1 .. r /\ \A i \in 1 .. r : at[i] = BytePlace(c, offset + i - 1)
  BY <1>5
<1>7. [i \in DOMAIN at |-> p.region[at[i]]] = [i \in 1 .. r |-> p.region[BytePlace(c, offset + i - 1)]]
  BY <1>6
<1> QED
  BY <1>3, <1>7 DEF BytesAt, c, r

\* Writing changes the bytes that are written, of that object and no other.
Written(p, ch, s, offset, bytes, region) ==
  /\ region \in [0 .. SetBits * BlockSize - 1 -> Int]
  /\ \A k \in 0 .. p.objects[s].size - 1 :
       region[BytePlace(ch[s], k)] = IF k + 1 - offset \in 1 .. Len(bytes) THEN bytes[k + 1 - offset]
                                     ELSE p.region[BytePlace(ch[s], k)]
  /\ \A t \in UsedSlots(p) : t # s =>
       \A k \in 0 .. p.objects[t].size - 1 : region[BytePlace(ch[t], k)] = p.region[BytePlace(ch[t], k)]

LEMMA WriteIs ==
  ASSUME NEW p, NEW ch, NEW in, PoolTyped(p), ChainsHold(p, ch, in), NEW h, Resolved(p, h),
         NEW offset \in Nat, NEW bytes \in Seq(Int)
  PROVE  \E region : /\ WriteBytes(p, h, offset, bytes) = [p EXCEPT !.region = region]
                     /\ Written(p, ch, h.slot, offset, bytes, region)
<1> DEFINE s == h.slot
           object == p.objects[s]
           c == ch[s]
           n == Len(bytes)
           r == RoomOf(object.size, offset, n)
           at == Places(p, object, offset, Room(object, offset, n))
           Extent == 0 .. SetBits * BlockSize - 1
           picked(x) == CHOOSE j \in DOMAIN at : at[j] = x
           region == [x \in Extent |-> IF x \in ToSet(at) THEN bytes[picked(x)] ELSE p.region[x]]
<1>1. s \in UsedSlots(p)
  BY DEF Resolved, UsedSlots
<1>2. ChainFrom(p, object.head) = c /\ object.size \in Nat /\ c \in Seq(PoolBlocks)
      /\ \A k \in 0 .. object.size - 1 : 1 + (k \div BlockSize) \in 1 .. Len(c)
  BY <1>1, ByteInChain
<1>3. DOMAIN p.region = Extent /\ p.region \in [Extent -> Int]
  BY DEF PoolTyped
<1>4. WriteBytes(p, h, offset, bytes) = [p EXCEPT !.region = region]
  BY <1>3, Zenon DEF WriteBytes
<1>5. n \in Nat
  OBVIOUS
<1>6. /\ Room(object, offset, n) = r /\ r \in Nat
      /\ \A i \in 1 .. r : offset + i - 1 \in 0 .. object.size - 1 /\ i \in 1 .. n
      /\ \A k \in 0 .. object.size - 1 : k + 1 - offset \in 1 .. n => k + 1 - offset \in 1 .. r
  BY <1>2, <1>5, RoomIs
<1>7. at = [i \in 1 .. r |-> BytePlace(c, offset + i - 1)]
  <2>1. at = Places(p, object, offset, r)
    BY <1>6, Zenon
  <2> HIDE DEF at, r, c
  <2>2. Places(p, object, offset, r) = PlacesOf(c, offset, r)
    BY <1>2, PlacesAre
  <2> QED
    BY <2>1, <2>2, Zenon DEF PlacesOf
<1> DEFINE size == object.size
<1> HIDE DEF at, r, c, n, size
<1>8. DOMAIN at = 1 .. r /\ \A i \in 1 .. r : at[i] = BytePlace(c, offset + i - 1)
  BY <1>7
<1>9. \A x : x \in ToSet(at) <=> \E i \in 1 .. r : at[i] = x
  BY <1>8 DEF ToSet
<1>10. ASSUME NEW x \in ToSet(at) PROVE picked(x) \in 1 .. r /\ at[picked(x)] = x
  <2>1. \E j \in DOMAIN at : at[j] = x
    BY <1>8, <1>9
  <2>2. picked(x) \in DOMAIN at /\ at[picked(x)] = x
    BY <2>1, Zenon
  <2> QED
    BY <1>8, <2>2
<1> HIDE DEF picked, Extent
<1>11. region \in [Extent -> Int]
  <2>1. ASSUME NEW x \in ToSet(at) PROVE bytes[picked(x)] \in Int
    <3>1. picked(x) \in 1 .. n
      BY <1>6, <1>10
    <3> QED
      BY <3>1 DEF n
  <2> QED
    BY <1>3, <2>1
<1> HIDE DEF region
<1>12. \A x \in Extent : region[x] = IF x \in ToSet(at) THEN bytes[picked(x)] ELSE p.region[x]
  BY DEF region
<1>13. ASSUME NEW t \in UsedSlots(p), NEW k \in 0 .. p.objects[t].size - 1
       PROVE  /\ BytePlace(ch[t], k) \in Extent
              /\ \A i \in 1 .. r : at[i] = BytePlace(ch[t], k) => t = s /\ k = offset + i - 1
  <2>1. ch[t] \in Seq(PoolBlocks) /\ 1 + (k \div BlockSize) \in 1 .. Len(ch[t]) /\ k \in Nat
    <3>1. ch[t] \in Seq(PoolBlocks) /\ p.objects[t].size \in Nat
          /\ \A j \in 0 .. p.objects[t].size - 1 : 1 + (j \div BlockSize) \in 1 .. Len(ch[t])
      BY ByteInChain
    <3> QED
      BY <3>1
  <2>2. BytePlace(ch[t], k) \in Extent
    BY <2>1, PlaceTells DEF Extent
  <2>3. ASSUME NEW i \in 1 .. r, at[i] = BytePlace(ch[t], k) PROVE t = s /\ k = offset + i - 1
    <3> DEFINE l == offset + i - 1
    <3>0. l \in 0 .. object.size - 1
      BY <1>6
    <3>1. l \in 0 .. object.size - 1 /\ l \in Nat
      BY ONLY <3>0, <1>2
    <3> HIDE DEF l
    <3>2. 1 + (l \div BlockSize) \in 1 .. Len(c)
      BY <1>2, <3>1
    <3>3. BytePlace(c, l) = BytePlace(ch[t], k)
      BY <1>8, <2>3 DEF l
    <3> DEFINE u == 1 + (l \div BlockSize)
               v == 1 + (k \div BlockSize)
    <3>4. c[u] = ch[t][v] /\ ((l \div BlockSize) = (k \div BlockSize) => l = k)
      BY <1>2, <2>1, <3>1, <3>2, <3>3, PlacesApart
    <3>5. u \in 1 .. Len(c) /\ v \in 1 .. Len(ch[t])
      BY <2>1, <3>2
    <3>6. u = v => l = k
      <4>1. (l \div BlockSize) \in Int /\ (k \div BlockSize) \in Int
        BY <2>1, <3>1, PoolBytesAssumption
      <4> DEFINE a == l \div BlockSize
                 b == k \div BlockSize
      <4>2. a \in Int /\ b \in Int
        BY <4>1
      <4>3. a = b => l = k
        BY <3>4
      <4> HIDE DEF a, b
      <4>4. 1 + a = 1 + b => a = b
        BY <4>2
      <4> QED
        BY <4>3, <4>4 DEF a, b
    <3> HIDE DEF u, v
    <3>7. t = s
      <4> SUFFICES ASSUME t # s PROVE FALSE
        OBVIOUS
      <4>1. BlocksOf(ch[s]) \cap BlocksOf(ch[t]) = {}
        BY <1>1 DEF ChainsHold
      <4>2. c[u] \in BlocksOf(ch[s]) /\ ch[t][v] \in BlocksOf(ch[t])
        BY <3>5 DEF BlocksOf, c
      <4> QED
        BY <3>4, <4>1, <4>2
    <3>8. \A i1 \in 1 .. Len(c), j1 \in 1 .. Len(c) : c[i1] = c[j1] => i1 = j1
      BY <1>1 DEF ChainsHold, IsChain, c
    <3>9. u = v
      <4>1. ch[t] = c
        BY <3>7 DEF c
      <4> QED
        BY <3>4, <3>5, <3>8, <4>1
    <3> QED
      BY <3>6, <3>7, <3>9 DEF l
  <2> QED
    BY <2>2, <2>3
<1>14. ASSUME NEW k \in 0 .. object.size - 1
       PROVE  region[BytePlace(c, k)] = IF k + 1 - offset \in 1 .. n THEN bytes[k + 1 - offset]
                                        ELSE p.region[BytePlace(c, k)]
  <2> DEFINE x == BytePlace(c, k)
             i == k + 1 - offset
  <2>1. x \in Extent /\ \A j \in 1 .. r : at[j] = x => k = offset + j - 1
    BY <1>1, <1>13 DEF c
  <2>2. k \in Int /\ i \in Int /\ offset + i - 1 = k
    BY <1>2
  <2> HIDE DEF x
  <2>3. CASE i \in 1 .. n
    <3>1. i \in 1 .. r
      BY <1>6, <2>3
    <3>2. at[i] = x
      <4> HIDE DEF i
      <4>1. at[i] = BytePlace(c, offset + i - 1)
        BY <1>8, <3>1
      <4> QED
        BY <2>2, <4>1 DEF x
    <3>3. x \in ToSet(at)
      BY <1>9, <3>1, <3>2
    <3>4. picked(x) \in 1 .. r /\ at[picked(x)] = x
      BY <1>10, <3>3
    <3>5. picked(x) = i
      <4> DEFINE j == picked(x)
      <4>1. j \in 1 .. r /\ at[j] = x
        BY <3>4
      <4> HIDE DEF j
      <4>2. k = offset + j - 1 /\ j \in Int
        BY <1>6, <2>1, <4>1
      <4>3. j = i
        BY <2>2, <4>2
      <4> QED
        BY <4>3 DEF j
    <3> QED
      BY <1>12, <2>1, <2>3, <3>3, <3>5 DEF x
  <2>4. CASE i \notin 1 .. n
    <3>1. x \notin ToSet(at)
      <4> SUFFICES ASSUME x \in ToSet(at) PROVE FALSE
        OBVIOUS
      <4>1. PICK j \in 1 .. r : at[j] = x
        BY <1>9
      <4>2. k = offset + j - 1 /\ j \in 1 .. n /\ j \in Int
        BY <1>6, <2>1, <4>1
      <4>3. i = j
        BY <2>2, <4>2
      <4> QED
        BY <2>4, <4>2, <4>3
    <3> QED
      BY <1>12, <2>1, <2>4, <3>1 DEF x
  <2> QED
    BY <2>3, <2>4
<1>15. ASSUME NEW t \in UsedSlots(p), t # s, NEW k \in 0 .. p.objects[t].size - 1
       PROVE  region[BytePlace(ch[t], k)] = p.region[BytePlace(ch[t], k)]
  <2>1. BytePlace(ch[t], k) \in Extent /\ BytePlace(ch[t], k) \notin ToSet(at)
    BY <1>9, <1>13, <1>15
  <2> QED
    BY <1>12, <2>1
<1>16. Written(p, ch, s, offset, bytes, region)
  BY <1>11, <1>14, <1>15 DEF Written, Extent, c, n
<1> QED
  BY <1>4, <1>16

\* A chain is one wherever its links are the same.
LEMMA ChainElsewhere ==
  ASSUME NEW next, NEW other, NEW head, NEW c, IsChain(next, head, c),
         \A b \in BlocksOf(c) : other[b] = next[b]
  PROVE  IsChain(other, head, c)
<1>1. /\ c \in Seq(PoolBlocks) /\ Len(c) \in Nat \ {0} /\ c[1] = head
      /\ \A i \in 1 .. Len(c), j \in 1 .. Len(c) : c[i] = c[j] => i = j
      /\ \A i \in 1 .. Len(c) - 1 : next[c[i]] = c[i + 1]
      /\ next[c[Len(c)]] = NoBlock
  BY DEF IsChain
<1>2. \A i \in 1 .. Len(c) : other[c[i]] = next[c[i]]
  BY DEF BlocksOf
<1>3. /\ \A i \in 1 .. Len(c) - 1 : i \in 1 .. Len(c)
      /\ Len(c) \in 1 .. Len(c)
  BY <1>1
<1> QED
  BY <1>1, <1>2, <1>3 DEF IsChain

\* A record with the fields of a pool is one when they are typed.
LEMMA PoolFields ==
  ASSUME NEW q, q = [x \in DOMAIN q |-> q[x]], DOMAIN q = {"map", "next", "region", "objects", "gens"},
         q.map \in [words : [Words -> SUBSET Ones], hint : Words],
         q.next \in [PoolBlocks -> PoolBlocks \cup {NoBlock}],
         q.region \in [0 .. SetBits * BlockSize - 1 -> Int],
         q.objects \in [1 .. ObjectSlots -> [used : BOOLEAN, head : PoolBlocks \cup {NoBlock}, size : Nat]],
         q.gens \in [1 .. ObjectSlots -> Nat]
  PROVE  PoolTyped(q)
<1>1. q = [map |-> q.map, next |-> q.next, region |-> q.region, objects |-> q.objects, gens |-> q.gens]
  OBVIOUS
<1> QED
  BY <1>1 DEF PoolTyped

\* An object that is made has a slot that was free, and a chain of blocks that were.
LaidOut(p, ch, in, size, q, slot, c) ==
  /\ slot \in 1 .. ObjectSlots /\ slot \notin UsedSlots(p)
  /\ PoolTyped(q) /\ q.gens = p.gens /\ q.region = p.region
  /\ UsedSlots(q) = UsedSlots(p) \cup {slot}
  /\ q.objects[slot].size = size
  /\ \A s \in UsedSlots(p) : q.objects[s] = p.objects[s]
  /\ ChainsHold(q, [s \in 1 .. ObjectSlots |-> IF s = slot THEN c ELSE ch[s]], in \cup BlocksOf(c))

LEMMA AllocHolds ==
  ASSUME NEW p, NEW ch, NEW in, PoolTyped(p), ChainsHold(p, ch, in), NEW size \in Nat
  PROVE  \/ AllocBytes(p, size) = [pool |-> p, handle |-> NoHandleHere]
         \/ \E q, slot, c :
              /\ AllocBytes(p, size) = [pool |-> q, handle |-> [slot |-> slot, gen |-> p.gens[slot]]]
              /\ LaidOut(p, ch, in, size, q, slot, c)
<1> DEFINE slots == {s \in 1 .. ObjectSlots : ~p.objects[s].used}
           slot == Min(slots)
           n == Needed(size)
           l == LinkedBlocks(p, n)
           object == [used |-> TRUE, head |-> l.head, size |-> size]
           q == [p EXCEPT !.map = l.map, !.next = l.next, !.objects[slot] = object]
<1>1. AllocBytes(p, size) =
        IF n > FreeBlocks(p) \/ slots = {} THEN [pool |-> p, handle |-> NoHandleHere]
        ELSE [pool |-> q, handle |-> [slot |-> slot, gen |-> p.gens[slot]]]
  BY AllocIs, Zenon
<1> SUFFICES ASSUME ~(n > FreeBlocks(p)), slots # {}
             PROVE  \E c : LaidOut(p, ch, in, size, q, slot, c)
  <2>1. CASE n > FreeBlocks(p) \/ slots = {}
    BY <1>1, <2>1
  <2>2. CASE ~(n > FreeBlocks(p) \/ slots = {})
    <3>1. AllocBytes(p, size) = [pool |-> q, handle |-> [slot |-> slot, gen |-> p.gens[slot]]]
      BY <1>1, <2>2
    <3> HIDE DEF q, slot
    <3>2. \E c : LaidOut(p, ch, in, size, q, slot, c)
      BY <2>2
    <3> QED
      BY <3>1, <3>2
  <2> QED
    BY <2>1, <2>2
<1>2. slot \in slots
  <2>1. slots \in SUBSET Nat
    OBVIOUS
  <2> HIDE DEF slots
  <2> QED
    BY <2>1, FirstIs
<1>3. slot \in 1 .. ObjectSlots /\ slot \notin UsedSlots(p)
  BY <1>2 DEF UsedSlots
<1>4. MapHolds(p.map, in) /\ n \in Nat \ {0} /\ p.next \in [PoolBlocks -> PoolBlocks \cup {NoBlock}]
  BY NeededHolds DEF ChainsHold, PoolTyped
<1>5. Cardinality(in) + n <= SetBits
  <2>1. FreeBlocks(p) = SetBits - Cardinality(in) /\ IsFiniteSet(in)
    BY <1>4, BitsCounted DEF FreeBlocks
  <2>2. Cardinality(in) \in Nat /\ SetBits \in Nat
    BY <2>1, BitsetAssumption, FS_CardinalityType
  <2> HIDE DEF n
  <2> QED
    BY <1>4, <2>1, <2>2
<1> HIDE DEF n, l, slot, slots
<1>6. PICK c : Len(c) = n /\ LinkedTo(l, p, in, c)
  <2>1. \E c : Len(c) = n /\ LinkedTo(LinkedBlocks(p, n), p, in, c)
    BY <1>4, <1>5, LinksHold
  <2> QED
    BY <2>1 DEF l
<1>7. /\ c \in Seq(PoolBlocks) /\ c # <<>>
      /\ \A i \in 1 .. Len(c), j \in 1 .. Len(c) : c[i] = c[j] => i = j
      /\ BlocksOf(c) \cap in = {}
      /\ MapHolds(l.map, in \cup BlocksOf(c))
      /\ l.next \in [PoolBlocks -> PoolBlocks \cup {NoBlock}]
      /\ \A b \in PoolBlocks \ BlocksOf(c) : l.next[b] = p.next[b]
  <2>1. c # <<>>
    BY <1>4, <1>6
  <2> QED
    BY <1>6, <2>1 DEF LinkedTo
<1>8. IsChain(l.next, l.head, c)
  <2>1. l.head = c[1] /\ l.next[c[Len(c)]] = NoBlock
        /\ \A i \in 1 .. Len(c) - 1 : l.next[c[i]] = c[i + 1]
    BY <1>6, <1>7 DEF LinkedTo
  <2> QED
    BY <1>4, <1>6, <1>7, <2>1 DEF IsChain
<1>9. l.head \in PoolBlocks
  BY <1>8, ChainBlocks
<1>10. l.map \in [words : [Words -> SUBSET Ones], hint : Words]
  BY <1>7 DEF MapHolds
<1> HIDE DEF l
<1>11. object \in [used : BOOLEAN, head : PoolBlocks \cup {NoBlock}, size : Nat]
       /\ object.used /\ object.head = l.head /\ object.size = size
  BY <1>9
<1> HIDE DEF object
<1>12. /\ PoolTyped(q) /\ q.map = l.map /\ q.next = l.next /\ q.gens = p.gens /\ q.region = p.region
       /\ q.objects = [p.objects EXCEPT ![slot] = object]
  <2>1. p \in [map : [words : [Words -> SUBSET Ones], hint : Words],
               next : [PoolBlocks -> PoolBlocks \cup {NoBlock}],
               region : [0 .. SetBits * BlockSize - 1 -> Int],
               objects : [1 .. ObjectSlots -> [used : BOOLEAN, head : PoolBlocks \cup {NoBlock}, size : Nat]],
               gens : [1 .. ObjectSlots -> Nat]]
    BY DEF PoolTyped
  <2>2. /\ q.map = l.map /\ q.next = l.next /\ q.gens = p.gens /\ q.region = p.region
        /\ q.objects = [p.objects EXCEPT ![slot] = object]
    BY <2>1
  <2>3. [p.objects EXCEPT ![slot] = object]
          \in [1 .. ObjectSlots -> [used : BOOLEAN, head : PoolBlocks \cup {NoBlock}, size : Nat]]
    BY <1>3, <1>11, <2>1
  <2>4. DOMAIN p = {"map", "next", "region", "objects", "gens"}
    BY <2>1
  <2>5. q = [x \in DOMAIN q |-> q[x]] /\ DOMAIN q = {"map", "next", "region", "objects", "gens"}
    BY <2>4
  <2> HIDE DEF q
  <2>6. PoolTyped(q)
    BY <1>7, <1>10, <2>1, <2>2, <2>3, <2>5, PoolFields
  <2> QED
    BY <2>2, <2>6
<1> HIDE DEF q
<1>13. /\ q.objects[slot] = object
       /\ \A s \in 1 .. ObjectSlots : s # slot => q.objects[s] = p.objects[s]
  <2>1. DOMAIN p.objects = 1 .. ObjectSlots
    BY DEF PoolTyped
  <2> QED
    BY <1>3, <1>12, <2>1
<1>14. UsedSlots(q) = UsedSlots(p) \cup {slot} /\ \A s \in UsedSlots(p) : s # slot /\ s \in 1 .. ObjectSlots
  BY <1>3, <1>11, <1>13 DEF UsedSlots
<1> DEFINE dh == [s \in 1 .. ObjectSlots |-> IF s = slot THEN c ELSE ch[s]]
<1>15. dh[slot] = c /\ \A s \in UsedSlots(p) : dh[s] = ch[s]
  BY <1>3, <1>14
<1> HIDE DEF dh
<1>16. ASSUME NEW s \in UsedSlots(p)
       PROVE  /\ IsChain(q.next, q.objects[s].head, ch[s]) /\ Len(ch[s]) = Needed(q.objects[s].size)
              /\ BlocksOf(ch[s]) \cap BlocksOf(c) = {}
              /\ BlocksOf(ch[s]) \in SUBSET PoolBlocks
  <2>1. IsChain(p.next, p.objects[s].head, ch[s]) /\ Len(ch[s]) = Needed(p.objects[s].size)
    BY DEF ChainsHold
  <2>2. \A i \in 1 .. Len(ch[s]) : ch[s][i] \in PoolBlocks
    BY <2>1, ChainBlocks
  <2>3. BlocksOf(ch[s]) \in SUBSET PoolBlocks
    BY <2>2 DEF BlocksOf
  <2>4. \A b \in BlocksOf(ch[s]) : b \in in
    BY <2>3 DEF ChainsHold
  <2>5. BlocksOf(ch[s]) \cap BlocksOf(c) = {}
    BY <1>7, <2>4
  <2>6. \A b \in BlocksOf(ch[s]) : q.next[b] = p.next[b]
    BY <1>7, <1>12, <2>3, <2>5
  <2>7. IsChain(q.next, p.objects[s].head, ch[s])
    BY <2>1, <2>6, ChainElsewhere
  <2> QED
    BY <1>13, <1>14, <2>1, <2>3, <2>5, <2>7
<1>17. ChainsHold(q, dh, in \cup BlocksOf(c))
  <2>1. \A s \in UsedSlots(q) :
          IsChain(q.next, q.objects[s].head, dh[s]) /\ Len(dh[s]) = Needed(q.objects[s].size)
    <3>1. IsChain(q.next, q.objects[slot].head, dh[slot]) /\ Len(dh[slot]) = Needed(q.objects[slot].size)
      BY <1>6, <1>8, <1>11, <1>12, <1>13, <1>15 DEF n
    <3> QED
      BY <1>14, <1>15, <1>16, <3>1
  <2>2. ASSUME NEW s \in UsedSlots(q), NEW t \in UsedSlots(q), s # t
        PROVE  BlocksOf(dh[s]) \cap BlocksOf(dh[t]) = {}
    <3>1. CASE s = slot
      <4>1. t \in UsedSlots(p)
        BY <1>14, <2>2, <3>1
      <4>2. BlocksOf(ch[t]) \cap BlocksOf(c) = {}
        BY <1>16, <4>1
      <4>3. dh[s] = c /\ dh[t] = ch[t]
        BY <1>15, <3>1, <4>1
      <4> QED
        BY <4>2, <4>3
    <3>2. CASE t = slot
      <4>1. s \in UsedSlots(p)
        BY <1>14, <2>2, <3>2
      <4>2. BlocksOf(ch[s]) \cap BlocksOf(c) = {}
        BY <1>16, <4>1
      <4>3. dh[t] = c /\ dh[s] = ch[s]
        BY <1>15, <3>2, <4>1
      <4> QED
        BY <4>2, <4>3
    <3>3. CASE s # slot /\ t # slot
      <4>1. s \in UsedSlots(p) /\ t \in UsedSlots(p)
        BY <1>14, <3>3
      <4> QED
        BY <1>15, <2>2, <4>1 DEF ChainsHold
    <3> QED
      BY <3>1, <3>2, <3>3
  <2>3. \A b \in PoolBlocks : b \in in \cup BlocksOf(c) <=> \E s \in UsedSlots(q) : b \in BlocksOf(dh[s])
    <3>1. \A b \in PoolBlocks : b \in in <=> \E s \in UsedSlots(p) : b \in BlocksOf(ch[s])
      BY DEF ChainsHold
    <3> QED
      BY <1>14, <1>15, <3>1
  <2>4. MapHolds(q.map, in \cup BlocksOf(c))
    BY <1>7, <1>12
  <2> QED
    BY <2>1, <2>2, <2>3, <2>4, Zenon DEF ChainsHold
<1>18. q.objects[slot].size = size
  BY <1>11, <1>13
<1>19. LaidOut(p, ch, in, size, q, slot, c)
  BY <1>3, <1>12, <1>13, <1>14, <1>17, <1>18 DEF LaidOut, dh
<1> QED
  BY <1>19

\* The next generation is the next number, until it comes round.
LEMMA BumpedIs ==
  ASSUME NEW g \in Nat
  PROVE  Bumped(g) \in Nat /\ (g < SlotGens - 1 => Bumped(g) = g + 1)
<1>1. SlotGens \in Nat \ {0, 1}
  BY PoolBytesAssumption
<1>2. (g + 1) % SlotGens \in Nat
  BY <1>1
<1>3. ASSUME g < SlotGens - 1 PROVE (g + 1) % SlotGens = g + 1
  BY <1>1, <1>3
<1> QED
  BY <1>2, <1>3 DEF Bumped

\* An object that is freed gives its chain back, and its handle is no more.
Freed(p, ch, in, h, q) ==
  /\ PoolTyped(q) /\ q.region = p.region
  /\ UsedSlots(q) = UsedSlots(p) \ {h.slot}
  /\ \A s \in UsedSlots(q) : q.objects[s] = p.objects[s]
  /\ q.gens[h.slot] = Bumped(p.gens[h.slot])
  /\ \A s \in 1 .. ObjectSlots : s # h.slot => q.gens[s] = p.gens[s]
  /\ ChainsHold(q, ch, in \ BlocksOf(ch[h.slot]))

LEMMA FreeHolds ==
  ASSUME NEW p, NEW ch, NEW in, PoolTyped(p), ChainsHold(p, ch, in), NEW h, Resolved(p, h)
  PROVE  Freed(p, ch, in, h, FreeBytes(p, h))
<1> DEFINE slot == h.slot
           c == ch[slot]
           map == FoldLeft(BitClear, p.map, c)
           next == [b \in PoolBlocks |-> IF b \in ToSet(c) THEN NoBlock ELSE p.next[b]]
           q == [p EXCEPT !.map = map, !.next = next, !.objects[slot] = NoObject, !.gens[slot] = Bumped(@)]
<1>0. slot \in UsedSlots(p)
  BY DEF Resolved, UsedSlots
<1>1. slot \in 1 .. ObjectSlots
  BY DEF Resolved
<1>2. IsChain(p.next, p.objects[slot].head, c) /\ ChainFrom(p, p.objects[slot].head) = c
      /\ c \in Seq(PoolBlocks)
  <2>1. IsChain(p.next, p.objects[slot].head, c)
    BY <1>0 DEF ChainsHold
  <2> QED
    BY <1>0, <2>1, ByteInChain
<1>3. p \in [map : [words : [Words -> SUBSET Ones], hint : Words],
             next : [PoolBlocks -> PoolBlocks \cup {NoBlock}],
             region : [0 .. SetBits * BlockSize - 1 -> Int],
             objects : [1 .. ObjectSlots -> [used : BOOLEAN, head : PoolBlocks \cup {NoBlock}, size : Nat]],
             gens : [1 .. ObjectSlots -> Nat]]
  BY DEF PoolTyped
<1>4. FreeBytes(p, h) = q
  <2>1. DOMAIN p.next = PoolBlocks
    BY <1>3
  <2> QED
    BY <1>2, <2>1, Zenon DEF FreeBytes
<1>5. ToSet(c) = BlocksOf(c)
  <2>1. DOMAIN c = 1 .. Len(c)
    BY <1>2
  <2> QED
    BY <2>1, Zenon DEF ToSet, BlocksOf
<1>6. MapHolds(map, in \ BlocksOf(c))
  BY <1>2, ChainCleared DEF ChainsHold
<1>7. map \in [words : [Words -> SUBSET Ones], hint : Words]
  BY <1>6 DEF MapHolds
<1>8. next \in [PoolBlocks -> PoolBlocks \cup {NoBlock}]
      /\ \A b \in PoolBlocks \ BlocksOf(c) : next[b] = p.next[b]
  BY <1>3, <1>5
<1> HIDE DEF map, next, c, slot
<1>9. NoObject \in [used : BOOLEAN, head : PoolBlocks \cup {NoBlock}, size : Nat] /\ ~NoObject.used
  BY DEF NoObject
<1>10. /\ q.region = p.region /\ q.map = map /\ q.next = next
       /\ q.objects = [p.objects EXCEPT ![slot] = NoObject]
       /\ q.gens = [p.gens EXCEPT ![slot] = Bumped(p.gens[slot])]
  BY <1>3
<1>11. /\ [p.objects EXCEPT ![slot] = NoObject]
            \in [1 .. ObjectSlots -> [used : BOOLEAN, head : PoolBlocks \cup {NoBlock}, size : Nat]]
       /\ [p.gens EXCEPT ![slot] = Bumped(p.gens[slot])] \in [1 .. ObjectSlots -> Nat]
  <2>1. p.objects \in [1 .. ObjectSlots -> [used : BOOLEAN, head : PoolBlocks \cup {NoBlock}, size : Nat]]
        /\ p.gens \in [1 .. ObjectSlots -> Nat]
    BY <1>3
  <2>2. Bumped(p.gens[slot]) \in Nat
    <3>1. p.gens[slot] \in Nat
      BY <1>1, <2>1
    <3> QED
      BY <3>1, BumpedIs
  <2> QED
    BY <1>1, <1>9, <2>1, <2>2
<1>12. PoolTyped(q)
  <2>1. DOMAIN p = {"map", "next", "region", "objects", "gens"}
    BY <1>3
  <2>2. q = [x \in DOMAIN q |-> q[x]] /\ DOMAIN q = {"map", "next", "region", "objects", "gens"}
    BY <2>1
  <2> HIDE DEF q
  <2> QED
    BY <1>3, <1>7, <1>8, <1>10, <1>11, <2>2, PoolFields
<1> HIDE DEF q
<1>13. /\ q.region = p.region /\ q.map = map /\ q.next = next
       /\ q.objects[slot] = NoObject /\ \A s \in 1 .. ObjectSlots : s # slot => q.objects[s] = p.objects[s]
       /\ q.gens[slot] = Bumped(p.gens[slot]) /\ \A s \in 1 .. ObjectSlots : s # slot => q.gens[s] = p.gens[s]
  BY <1>1, <1>3, <1>10
<1>14. UsedSlots(q) = UsedSlots(p) \ {slot} /\ \A s \in UsedSlots(q) : s \in 1 .. ObjectSlots /\ s # slot
  BY <1>1, <1>9, <1>13 DEF UsedSlots
<1>15. \A s \in UsedSlots(q) : q.objects[s] = p.objects[s] /\ s \in UsedSlots(p) /\ s # slot
  BY <1>13, <1>14
<1>16. ASSUME NEW s \in UsedSlots(p), s # slot
       PROVE  BlocksOf(ch[s]) \cap BlocksOf(c) = {} /\ IsChain(q.next, p.objects[s].head, ch[s])
  <2>1. IsChain(p.next, p.objects[s].head, ch[s])
    BY DEF ChainsHold
  <2>2. \A i \in 1 .. Len(ch[s]) : ch[s][i] \in PoolBlocks
    BY <2>1, ChainBlocks
  <2>3. BlocksOf(ch[s]) \in SUBSET PoolBlocks
    BY <2>2 DEF BlocksOf
  <2>4. BlocksOf(ch[s]) \cap BlocksOf(c) = {}
    BY <1>0, <1>16 DEF ChainsHold, c
  <2>5. \A b \in BlocksOf(ch[s]) : q.next[b] = p.next[b]
    BY <1>8, <1>13, <2>3, <2>4
  <2>6. IsChain(q.next, p.objects[s].head, ch[s])
    BY <2>1, <2>5, ChainElsewhere
  <2> QED
    BY <2>4, <2>6
<1>17. ChainsHold(q, ch, in \ BlocksOf(c))
  <2>1. \A s \in UsedSlots(q) :
          IsChain(q.next, q.objects[s].head, ch[s]) /\ Len(ch[s]) = Needed(q.objects[s].size)
    <3>1. \A s \in UsedSlots(p) : Len(ch[s]) = Needed(p.objects[s].size)
      BY DEF ChainsHold
    <3> QED
      BY <1>15, <1>16, <3>1
  <2>2. \A s \in UsedSlots(q), t \in UsedSlots(q) :
          s # t => BlocksOf(ch[s]) \cap BlocksOf(ch[t]) = {}
    BY <1>15 DEF ChainsHold
  <2>3. \A b \in PoolBlocks : b \in in \ BlocksOf(c) <=> \E s \in UsedSlots(q) : b \in BlocksOf(ch[s])
    <3>1. \A b \in PoolBlocks : b \in in <=> \E s \in UsedSlots(p) : b \in BlocksOf(ch[s])
      BY DEF ChainsHold
    <3>2. \A s \in UsedSlots(p) : s \in UsedSlots(q) \/ s = slot
      BY <1>14
    <3> QED
      BY <1>15, <1>16, <3>1, <3>2 DEF c
  <2>4. MapHolds(q.map, in \ BlocksOf(c))
    BY <1>6, <1>13
  <2> QED
    BY <2>1, <2>2, <2>3, <2>4, Zenon DEF ChainsHold
<1>18. Freed(p, ch, in, h, q)
  BY <1>12, <1>13, <1>14, <1>15, <1>17 DEF Freed, slot, c
<1> QED
  BY <1>4, <1>18

\* A pool whose region alone is another's has its objects and its chains.
LEMMA RegionAlone ==
  ASSUME NEW p, PoolTyped(p), NEW region \in [0 .. SetBits * BlockSize - 1 -> Int],
         NEW q, q = [p EXCEPT !.region = region]
  PROVE  /\ PoolTyped(q) /\ q.region = region /\ q.objects = p.objects /\ q.gens = p.gens
         /\ UsedSlots(q) = UsedSlots(p)
         /\ \A h : Resolved(q, h) <=> Resolved(p, h)
         /\ \A ch, in : ChainsHold(p, ch, in) => ChainsHold(q, ch, in)
<1>1. /\ PoolTyped(q) /\ q.region = region /\ q.objects = p.objects /\ q.gens = p.gens
      /\ q.map = p.map /\ q.next = p.next
  BY DEF PoolTyped
<1>2. UsedSlots(q) = UsedSlots(p)
  BY <1>1, Zenon DEF UsedSlots
<1>3. \A h : Resolved(q, h) <=> Resolved(p, h)
  BY <1>1, Zenon DEF Resolved
<1>4. ASSUME NEW ch, NEW in, ChainsHold(p, ch, in) PROVE ChainsHold(q, ch, in)
  BY <1>1, <1>2, <1>4, Zenon DEF ChainsHold
<1> QED
  BY <1>1, <1>2, <1>3, <1>4

\* An object is the pool's: its handle is good, and its bytes are where its chain has them.
ObjectHolds(p, c, o) ==
  /\ o \in [handle : [slot : 1 .. ObjectSlots, gen : Nat], bytes : Seq(Int)]
  /\ Resolved(p, o.handle)
  /\ p.objects[o.handle.slot].size = Len(o.bytes)
  /\ \A k \in 0 .. Len(o.bytes) - 1 : p.region[BytePlace(c, k)] = o.bytes[k + 1]

\* What is known of the pool: every slot in use is that of one object, and a handle
\* that was freed is older than its slot.
PoolHolds(now, ch, in) ==
  /\ DOMAIN now = {"pool", "calls", "live", "dead"}
  /\ now.calls \in Nat /\ PoolTyped(now.pool) /\ ChainsHold(now.pool, ch, in)
  /\ \A o \in now.live : ObjectHolds(now.pool, ch[o.handle.slot], o)
  /\ \A o \in now.live, x \in now.live : o.handle.slot = x.handle.slot => o = x
  /\ \A s \in UsedSlots(now.pool) : \E o \in now.live : o.handle.slot = s
  /\ \A h \in now.dead : h \in [slot : 1 .. ObjectSlots, gen : Nat] /\ h.gen < now.pool.gens[h.slot]

\* Nothing of it is in the count of calls.
LEMMA CallsAlone ==
  ASSUME NEW now, NEW ch, NEW in, PoolHolds(now, ch, in), NEW n \in Nat
  PROVE  PoolHolds([now EXCEPT !.calls = n], ch, in)
<1> DEFINE then == [now EXCEPT !.calls = n]
<1>1. DOMAIN now = {"pool", "calls", "live", "dead"}
  BY DEF PoolHolds
<1>2. /\ DOMAIN then = {"pool", "calls", "live", "dead"} /\ then.calls = n
      /\ then.pool = now.pool /\ then.live = now.live /\ then.dead = now.dead
  BY <1>1
<1> HIDE DEF then
<1>3. PoolHolds(then, ch, in)
  BY <1>2, Zenon DEF PoolHolds
<1> QED
  BY <1>3 DEF then

\* A pool with no objects yet.
LEMMA PoolStarts == \E ch : PoolHolds(StartPool, ch, {})
<1> DEFINE p == BytesInit
           ch == [s \in 1 .. ObjectSlots |-> <<>>]
<1>1. MapHolds(BitInit, {})
  BY NoneAndAllHold
<1>2. BitInit \in [words : [Words -> SUBSET Ones], hint : Words]
  BY <1>1 DEF MapHolds
<1>3. /\ p.map = BitInit /\ p.objects = [s \in 1 .. ObjectSlots |-> NoObject]
      /\ PoolTyped(p)
  BY <1>2 DEF BytesInit, PoolTyped, PoolBlocks, NoObject, Unwritten
<1> HIDE DEF p
<1>4. UsedSlots(p) = {}
  BY <1>3 DEF UsedSlots, NoObject
<1>5. ChainsHold(p, ch, {})
  BY <1>1, <1>3, <1>4 DEF ChainsHold
<1>6. /\ DOMAIN StartPool = {"pool", "calls", "live", "dead"} /\ StartPool.calls = 0
      /\ StartPool.pool = p /\ StartPool.live = {} /\ StartPool.dead = {}
  BY DEF StartPool, p
<1> HIDE DEF ch
<1>7. PoolHolds(StartPool, ch, {})
  BY <1>3, <1>4, <1>5, <1>6 DEF PoolHolds
<1> QED
  BY <1>7

\* The generations of a pool are no more than so many, and a call makes a slot no
\* older than the next.
Young(p, n) == \A s \in 1 .. ObjectSlots : p.gens[s] <= n
Aged(now, then) == \A s \in 1 .. ObjectSlots : then.pool.gens[s] <= now.pool.gens[s] + 1

\* A call that leaves the generations as they are makes no slot older.
LEMMA SameAge ==
  ASSUME NEW now, NEW then, PoolTyped(now.pool), then.pool.gens = now.pool.gens
  PROVE  Aged(now, then)
<1>1. now.pool.gens \in [1 .. ObjectSlots -> Nat]
  BY DEF PoolTyped
<1>2. ASSUME NEW s \in 1 .. ObjectSlots PROVE now.pool.gens[s] <= now.pool.gens[s] + 1
  <2>1. now.pool.gens[s] \in Nat
    BY <1>1
  <2> QED
    BY <2>1
<1> QED
  BY <1>2 DEF Aged

\* Nothing was ever freed of a new pool; no call makes more than one generation; and
\* until the calls are used up the generation of a slot that ends is not the last.
LEMMA StartsYoung == Young(StartPool.pool, StartPool.calls + 1)
<1>1. StartPool.calls = 0 /\ StartPool.pool = BytesInit
  BY DEF StartPool
<1>2. BytesInit.gens = [s \in 1 .. ObjectSlots |-> 1]
  BY DEF BytesInit
<1>3. \A s \in 1 .. ObjectSlots : StartPool.pool.gens[s] = 1
  BY <1>1, <1>2
<1> QED
  BY <1>1, <1>3 DEF Young

\* After a call there is at most one generation more.
LEMMA StillYoung ==
  ASSUME NEW now, NEW then, PoolTyped(now.pool), PoolTyped(then.pool), now.calls \in Nat,
         Young(now.pool, now.calls + 1), Aged(now, then)
  PROVE  Young(then.pool, now.calls + 1 + 1)
<1> SUFFICES ASSUME NEW s \in 1 .. ObjectSlots PROVE then.pool.gens[s] <= now.calls + 1 + 1
  BY DEF Young
<1>1. now.pool.gens[s] <= now.calls + 1 /\ then.pool.gens[s] <= now.pool.gens[s] + 1
  BY DEF Young, Aged
<1>2. now.pool.gens[s] \in Nat /\ then.pool.gens[s] \in Nat
  BY DEF PoolTyped
<1> QED
  BY <1>1, <1>2

\* The generations do not come round while there are calls left.
LEMMA MayEnd ==
  ASSUME NEW now, NEW s \in 1 .. ObjectSlots, PoolTyped(now.pool), now.calls \in Nat,
         now.calls < MaxCalls, Young(now.pool, now.calls + 1)
  PROVE  now.pool.gens[s] < SlotGens - 1
<1>1. now.pool.gens[s] <= now.calls + 1
  BY DEF Young
<1>2. now.pool.gens[s] \in Nat
  BY DEF PoolTyped
<1>3. MaxCalls \in Nat /\ SlotGens \in Nat /\ MaxCalls <= SlotGens - 2
  BY StoresAssumption, PoolBytesAssumption
<1> QED
  BY <1>1, <1>2, <1>3

\* An object that is freed is gone, and the others are as they were.
LEMMA DropHolds ==
  ASSUME NEW now, NEW ch, NEW in, PoolHolds(now, ch, in), NEW o \in now.live,
         now.pool.gens[o.handle.slot] < SlotGens - 1
  PROVE  /\ \E d, u : PoolHolds(DropObject(now, o), d, u)
         /\ Aged(now, DropObject(now, o))
<1> DEFINE p == now.pool
           h == o.handle
           q == FreeBytes(p, h)
           then == DropObject(now, o)
           u == in \ BlocksOf(ch[h.slot])
<1>1. /\ DOMAIN now = {"pool", "calls", "live", "dead"}
      /\ now.calls \in Nat /\ PoolTyped(p) /\ ChainsHold(p, ch, in)
      /\ \A x \in now.live : ObjectHolds(p, ch[x.handle.slot], x)
      /\ \A x \in now.live, y \in now.live : x.handle.slot = y.handle.slot => x = y
      /\ \A s \in UsedSlots(p) : \E x \in now.live : x.handle.slot = s
      /\ \A g \in now.dead : g \in [slot : 1 .. ObjectSlots, gen : Nat] /\ g.gen < p.gens[g.slot]
  BY DEF PoolHolds
<1>2. Resolved(p, h) /\ h \in [slot : 1 .. ObjectSlots, gen : Nat]
  BY <1>1 DEF ObjectHolds
<1>3. Freed(p, ch, in, h, q)
  BY <1>1, <1>2, FreeHolds
<1>4. /\ DOMAIN then = {"pool", "calls", "live", "dead"} /\ then.calls = now.calls
      /\ then.pool = q /\ then.live = now.live \ {o} /\ then.dead = now.dead \cup {h}
  BY <1>1 DEF DropObject
<1> HIDE DEF then, q, p, h
<1>5. /\ PoolTyped(q) /\ q.region = p.region
      /\ UsedSlots(q) = UsedSlots(p) \ {h.slot}
      /\ \A s \in UsedSlots(q) : q.objects[s] = p.objects[s]
      /\ q.gens[h.slot] = p.gens[h.slot] + 1
      /\ \A s \in 1 .. ObjectSlots : s # h.slot => q.gens[s] = p.gens[s]
      /\ ChainsHold(q, ch, u)
  <2>1. p.gens[h.slot] \in Nat
    BY <1>1, <1>2 DEF PoolTyped
  <2>2. Bumped(p.gens[h.slot]) = p.gens[h.slot] + 1
    BY <2>1, BumpedIs DEF p, h
  <2> QED
    BY <1>3, <2>2, Zenon DEF Freed
<1>6. ASSUME NEW x \in then.live PROVE ObjectHolds(q, ch[x.handle.slot], x)
  <2> DEFINE s == x.handle.slot
  <2>1. x \in now.live /\ x # o
    BY <1>4
  <2>2. s # h.slot
    BY <1>1, <2>1 DEF h
  <2>3. /\ x \in [handle : [slot : 1 .. ObjectSlots, gen : Nat], bytes : Seq(Int)]
        /\ Resolved(p, x.handle) /\ p.objects[s].size = Len(x.bytes)
        /\ \A k \in 0 .. Len(x.bytes) - 1 : p.region[BytePlace(ch[s], k)] = x.bytes[k + 1]
    BY <1>1, <2>1 DEF ObjectHolds
  <2>4. s \in UsedSlots(q) /\ s \in 1 .. ObjectSlots
    BY <1>5, <2>2, <2>3 DEF UsedSlots, Resolved
  <2>5. q.objects[s] = p.objects[s] /\ q.gens[s] = p.gens[s]
    BY <1>5, <2>2, <2>4
  <2>6. Resolved(q, x.handle)
    BY <2>3, <2>5 DEF Resolved
  <2> QED
    BY <1>5, <2>3, <2>5, <2>6 DEF ObjectHolds
<1>7. \A x \in then.live, y \in then.live : x.handle.slot = y.handle.slot => x = y
  BY <1>1, <1>4
<1>8. ASSUME NEW s \in UsedSlots(q) PROVE \E x \in then.live : x.handle.slot = s
  <2>1. s \in UsedSlots(p) /\ s # h.slot
    BY <1>5
  <2>2. PICK x \in now.live : x.handle.slot = s
    BY <1>1, <2>1
  <2>3. x # o
    BY <2>1, <2>2 DEF h
  <2> QED
    BY <1>4, <2>2, <2>3
<1>9. ASSUME NEW g \in then.dead
      PROVE  g \in [slot : 1 .. ObjectSlots, gen : Nat] /\ g.gen < q.gens[g.slot]
  <2>1. p.gens \in [1 .. ObjectSlots -> Nat]
    BY <1>1 DEF PoolTyped
  <2>2. CASE g \in now.dead
    <3>1. g.slot \in 1 .. ObjectSlots /\ g.gen \in Nat /\ g.gen < p.gens[g.slot] /\ p.gens[g.slot] \in Nat
      BY <1>1, <2>1, <2>2
    <3>2. q.gens[g.slot] = p.gens[g.slot] \/ q.gens[g.slot] = p.gens[g.slot] + 1
      BY <1>5, <3>1
    <3>3. g.gen < q.gens[g.slot]
      BY <3>1, <3>2
    <3> QED
      BY <1>1, <2>2, <3>3
  <2>3. CASE g = h
    <3>1. h.gen = p.gens[h.slot] /\ p.gens[h.slot] \in Nat
      BY <1>2, <2>1 DEF Resolved
    <3>2. h.gen < q.gens[h.slot]
      BY <1>5, <3>1
    <3> QED
      BY <1>2, <2>3, <3>2
  <2> QED
    BY <1>4, <2>2, <2>3
<1>10. PoolHolds(then, ch, u)
  BY <1>1, <1>4, <1>5, <1>6, <1>7, <1>8, <1>9, Zenon DEF PoolHolds
<1>11. \A s \in 1 .. ObjectSlots : q.gens[s] <= p.gens[s] + 1
  <2>1. p.gens \in [1 .. ObjectSlots -> Nat]
    BY <1>1 DEF PoolTyped
  <2>2. ASSUME NEW s \in 1 .. ObjectSlots PROVE q.gens[s] <= p.gens[s] + 1
    <3>1. p.gens[s] \in Nat
      BY <2>1
    <3>2. q.gens[s] = p.gens[s] \/ q.gens[s] = p.gens[s] + 1
      BY <1>5
    <3> QED
      BY <3>1, <3>2
  <2> QED
    BY <2>2
<1>12. Aged(now, then)
  BY <1>4, <1>11 DEF Aged, p
<1> QED
  BY <1>10, <1>12 DEF then

\* An object that is loaded is held, and the others are as they were.
LEMMA LoadHolds ==
  ASSUME NEW now, NEW ch, NEW in, PoolHolds(now, ch, in), NEW size \in Nat
  PROVE  /\ \E d, u : PoolHolds(LoadObject(now, size), d, u)
         /\ Aged(now, LoadObject(now, size))
<1> DEFINE p == now.pool
           made == AllocBytes(p, size)
           bytes == [i \in 1 .. size |-> 10 * (now.calls + 1) + i]
           then == LoadObject(now, size)
<1>1. /\ DOMAIN now = {"pool", "calls", "live", "dead"}
      /\ now.calls \in Nat /\ PoolTyped(p) /\ ChainsHold(p, ch, in)
      /\ \A x \in now.live : ObjectHolds(p, ch[x.handle.slot], x)
      /\ \A x \in now.live, y \in now.live : x.handle.slot = y.handle.slot => x = y
      /\ \A s \in UsedSlots(p) : \E x \in now.live : x.handle.slot = s
      /\ \A g \in now.dead : g \in [slot : 1 .. ObjectSlots, gen : Nat] /\ g.gen < p.gens[g.slot]
  BY DEF PoolHolds
<1>2. then = IF made.handle = NoHandleHere THEN now
             ELSE [now EXCEPT !.pool = WriteBytes(made.pool, made.handle, 0, bytes),
                              !.live = @ \cup {[handle |-> made.handle, bytes |-> bytes]}]
  BY Zenon DEF LoadObject
<1>3. bytes \in Seq(Int) /\ Len(bytes) = size
  <2>1. \A i \in 1 .. size : 10 * (now.calls + 1) + i \in Int
    BY <1>1
  <2> QED
    BY <2>1
<1> HIDE DEF then, bytes, made, p
<1>4. CASE made.handle = NoHandleHere
  <2>1. then = now
    BY <1>2, <1>4
  <2>2. PoolHolds(then, ch, in) /\ Aged(now, then)
    BY <1>1, <2>1, SameAge DEF p
  <2> QED
    BY <2>2 DEF then
<1>5. CASE made.handle # NoHandleHere
  <2>1. PICK q, slot, c :
          /\ made = [pool |-> q, handle |-> [slot |-> slot, gen |-> p.gens[slot]]]
          /\ LaidOut(p, ch, in, size, q, slot, c)
    <3>1. \/ made = [pool |-> p, handle |-> NoHandleHere]
          \/ \E q, slot, c :
               /\ made = [pool |-> q, handle |-> [slot |-> slot, gen |-> p.gens[slot]]]
               /\ LaidOut(p, ch, in, size, q, slot, c)
      BY <1>1, AllocHolds DEF made
    <3> QED
      BY <1>5, <3>1
  <2> DEFINE h == [slot |-> slot, gen |-> p.gens[slot]]
             d == [s \in 1 .. ObjectSlots |-> IF s = slot THEN c ELSE ch[s]]
             u == in \cup BlocksOf(c)
             o == [handle |-> h, bytes |-> bytes]
             r == WriteBytes(q, h, 0, bytes)
  <2>2. /\ slot \in 1 .. ObjectSlots /\ slot \notin UsedSlots(p)
        /\ PoolTyped(q) /\ q.gens = p.gens /\ q.region = p.region
        /\ UsedSlots(q) = UsedSlots(p) \cup {slot}
        /\ q.objects[slot].size = size
        /\ \A s \in UsedSlots(p) : q.objects[s] = p.objects[s]
        /\ ChainsHold(q, d, u)
    BY <2>1, Zenon DEF LaidOut
  <2>3. h \in [slot : 1 .. ObjectSlots, gen : Nat] /\ h.slot = slot /\ h.gen = q.gens[slot]
    <3>1. p.gens[slot] \in Nat
      BY <1>1, <2>2 DEF PoolTyped
    <3> QED
      BY <2>2, <3>1
  <2>4. Resolved(q, h)
    BY <2>2, <2>3 DEF Resolved, UsedSlots
  <2>5. made.pool = q /\ made.handle = h
    BY <2>1
  <2> HIDE DEF h, d, u
  <2>6. PICK region : r = [q EXCEPT !.region = region] /\ Written(q, d, h.slot, 0, bytes, region)
    BY <1>3, <2>2, <2>4, WriteIs
  <2>7. /\ DOMAIN then = {"pool", "calls", "live", "dead"} /\ then.calls = now.calls
        /\ then.pool = r /\ then.live = now.live \cup {o} /\ then.dead = now.dead
    <3>1. then = [now EXCEPT !.pool = r, !.live = @ \cup {o}]
      BY <1>2, <1>5, <2>5
    <3> HIDE DEF r, o
    <3> QED
      BY <1>1, <3>1
  <2> HIDE DEF r
  <2>8. /\ region \in [0 .. SetBits * BlockSize - 1 -> Int]
        /\ \A k \in 0 .. q.objects[slot].size - 1 :
             region[BytePlace(d[slot], k)]
               = IF k + 1 - 0 \in 1 .. Len(bytes) THEN bytes[k + 1 - 0] ELSE q.region[BytePlace(d[slot], k)]
        /\ \A t \in UsedSlots(q) : t # slot =>
             \A k \in 0 .. q.objects[t].size - 1 : region[BytePlace(d[t], k)] = q.region[BytePlace(d[t], k)]
    BY <2>3, <2>6, Zenon DEF Written
  <2>9. /\ PoolTyped(r) /\ r.region = region /\ r.objects = q.objects /\ r.gens = q.gens
        /\ UsedSlots(r) = UsedSlots(q)
        /\ \A g : Resolved(r, g) <=> Resolved(q, g)
        /\ ChainsHold(r, d, u)
    BY <2>2, <2>6, <2>8, RegionAlone
  <2>10. ObjectHolds(r, d[slot], o)
    <3>1. \A k \in 0 .. Len(bytes) - 1 : region[BytePlace(d[slot], k)] = bytes[k + 1]
      <4> SUFFICES ASSUME NEW k \in 0 .. Len(bytes) - 1
                   PROVE  region[BytePlace(d[slot], k)] = bytes[k + 1]
        OBVIOUS
      <4>1. k + 1 - 0 = k + 1 /\ k + 1 \in 1 .. Len(bytes) /\ k \in 0 .. q.objects[slot].size - 1
        BY <1>3, <2>2
      <4> QED
        BY <2>8, <4>1
    <3>2. o \in [handle : [slot : 1 .. ObjectSlots, gen : Nat], bytes : Seq(Int)]
          /\ o.handle = h /\ o.bytes = bytes
      BY <1>3, <2>3
    <3> HIDE DEF o
    <3>3. r.objects[o.handle.slot].size = Len(o.bytes)
      BY <1>3, <2>2, <2>3, <2>9, <3>2
    <3> QED
      BY <2>4, <2>9, <3>1, <3>2, <3>3 DEF ObjectHolds
  <2>11. ASSUME NEW x \in now.live
         PROVE  ObjectHolds(r, d[x.handle.slot], x) /\ x.handle.slot # slot /\ x.handle.slot \in UsedSlots(p)
    <3> DEFINE s == x.handle.slot
    <3>1. /\ x \in [handle : [slot : 1 .. ObjectSlots, gen : Nat], bytes : Seq(Int)]
          /\ Resolved(p, x.handle) /\ p.objects[s].size = Len(x.bytes)
          /\ \A k \in 0 .. Len(x.bytes) - 1 : p.region[BytePlace(ch[s], k)] = x.bytes[k + 1]
      BY <1>1 DEF ObjectHolds
    <3>2. s \in UsedSlots(p) /\ s \in 1 .. ObjectSlots
      BY <3>1 DEF UsedSlots, Resolved
    <3>3. s # slot /\ s \in UsedSlots(q) /\ q.objects[s] = p.objects[s]
      BY <2>2, <3>2
    <3>4. d[s] = ch[s]
      BY <3>2, <3>3 DEF d
    <3>5. Resolved(r, x.handle)
      BY <2>2, <2>9, <3>1, <3>3 DEF Resolved
    <3>6. \A k \in 0 .. Len(x.bytes) - 1 : r.region[BytePlace(d[s], k)] = x.bytes[k + 1]
      <4>1. \A k \in 0 .. Len(x.bytes) - 1 : region[BytePlace(d[s], k)] = q.region[BytePlace(d[s], k)]
        BY <2>8, <3>1, <3>3
      <4> QED
        BY <2>2, <2>9, <3>1, <3>4, <4>1
    <3>7. r.objects[s].size = Len(x.bytes)
      BY <2>9, <3>1, <3>3
    <3> QED
      BY <3>1, <3>2, <3>3, <3>5, <3>6, <3>7 DEF ObjectHolds
  <2>12. o.handle.slot = slot
    BY <2>3
  <2> HIDE DEF o
  <2>13. \A x \in then.live : ObjectHolds(r, d[x.handle.slot], x)
    BY <2>7, <2>10, <2>11, <2>12
  <2>14. \A x \in then.live, y \in then.live : x.handle.slot = y.handle.slot => x = y
    BY <1>1, <2>7, <2>11, <2>12
  <2>15. \A s \in UsedSlots(r) : \E x \in then.live : x.handle.slot = s
    BY <1>1, <2>2, <2>7, <2>9, <2>12
  <2>16. \A g \in then.dead : g \in [slot : 1 .. ObjectSlots, gen : Nat] /\ g.gen < r.gens[g.slot]
    BY <1>1, <2>2, <2>7, <2>9
  <2>17. PoolHolds(then, d, u)
    BY <1>1, <2>7, <2>9, <2>13, <2>14, <2>15, <2>16, Zenon DEF PoolHolds
  <2>18. Aged(now, then)
    <3>1. then.pool.gens = now.pool.gens
      BY <2>2, <2>7, <2>9 DEF p
    <3> QED
      BY <1>1, <3>1, SameAge DEF p
  <2> QED
    BY <2>17, <2>18 DEF then
<1> QED
  BY <1>4, <1>5

\* An object that is written into holds what was, where there was room, and the others
\* are as they were.
LEMMA PatchHolds ==
  ASSUME NEW now, NEW ch, NEW in, PoolHolds(now, ch, in), NEW o \in now.live, NEW offset \in Nat
  PROVE  /\ \E d, u : PoolHolds(PatchObject(now, o, offset), d, u)
         /\ Aged(now, PatchObject(now, o, offset))
<1> DEFINE p == now.pool
           h == o.handle
           slot == h.slot
           patch == [i \in 1 .. BlockSize + 1 |-> 10 * (now.calls + 1) + i]
           kept == [i \in DOMAIN o.bytes |->
                      IF i - offset \in DOMAIN patch THEN patch[i - offset] ELSE o.bytes[i]]
           v == [o EXCEPT !.bytes = kept]
           r == WriteBytes(p, h, offset, patch)
           then == PatchObject(now, o, offset)
<1>1. /\ DOMAIN now = {"pool", "calls", "live", "dead"}
      /\ now.calls \in Nat /\ PoolTyped(p) /\ ChainsHold(p, ch, in)
      /\ \A x \in now.live : ObjectHolds(p, ch[x.handle.slot], x)
      /\ \A x \in now.live, y \in now.live : x.handle.slot = y.handle.slot => x = y
      /\ \A s \in UsedSlots(p) : \E x \in now.live : x.handle.slot = s
      /\ \A g \in now.dead : g \in [slot : 1 .. ObjectSlots, gen : Nat] /\ g.gen < p.gens[g.slot]
  BY DEF PoolHolds
<1>2. then = [now EXCEPT !.pool = r, !.live = (@ \ {o}) \cup {v}]
  BY Zenon DEF PatchObject
<1>3. patch \in Seq(Int) /\ Len(patch) = BlockSize + 1 /\ DOMAIN patch = 1 .. Len(patch)
  <2>1. \A i \in 1 .. BlockSize + 1 : 10 * (now.calls + 1) + i \in Int
    BY <1>1
  <2>2. BlockSize + 1 \in Nat
    BY PoolBytesAssumption
  <2> QED
    BY <2>1, <2>2
<1>4. /\ o \in [handle : [slot : 1 .. ObjectSlots, gen : Nat], bytes : Seq(Int)]
      /\ Resolved(p, h) /\ p.objects[slot].size = Len(o.bytes)
      /\ \A k \in 0 .. Len(o.bytes) - 1 : p.region[BytePlace(ch[slot], k)] = o.bytes[k + 1]
  BY <1>1 DEF ObjectHolds
<1> HIDE DEF then, patch, p
<1>5. /\ kept \in Seq(Int) /\ Len(kept) = Len(o.bytes)
      /\ \A i \in 1 .. Len(o.bytes) :
           kept[i] = IF i - offset \in 1 .. Len(patch) THEN patch[i - offset] ELSE o.bytes[i]
  <2>1. DOMAIN o.bytes = 1 .. Len(o.bytes) /\ o.bytes \in Seq(Int) /\ Len(o.bytes) \in Nat
    BY <1>4
  <2>2. \A i \in 1 .. Len(o.bytes) :
          (IF i - offset \in DOMAIN patch THEN patch[i - offset] ELSE o.bytes[i]) \in Int
    BY <1>3, <2>1
  <2>3. kept = [i \in 1 .. Len(o.bytes) |->
                  IF i - offset \in DOMAIN patch THEN patch[i - offset] ELSE o.bytes[i]]
    BY <2>1
  <2> HIDE DEF kept
  <2>4. kept \in Seq(Int) /\ Len(kept) = Len(o.bytes)
    BY <2>1, <2>2, <2>3
  <2> QED
    BY <1>3, <2>3, <2>4
<1> HIDE DEF kept
<1>6. /\ v \in [handle : [slot : 1 .. ObjectSlots, gen : Nat], bytes : Seq(Int)]
      /\ v.handle = h /\ v.bytes = kept
  BY <1>4, <1>5
<1>7. PICK region : r = [p EXCEPT !.region = region] /\ Written(p, ch, slot, offset, patch, region)
  BY <1>1, <1>3, <1>4, WriteIs
<1> HIDE DEF v, r
<1>8. /\ DOMAIN then = {"pool", "calls", "live", "dead"} /\ then.calls = now.calls
      /\ then.pool = r /\ then.live = (now.live \ {o}) \cup {v} /\ then.dead = now.dead
  BY <1>1, <1>2
<1>9. slot \in UsedSlots(p)
  BY <1>4 DEF Resolved, UsedSlots
<1> HIDE DEF slot
<1>10. /\ region \in [0 .. SetBits * BlockSize - 1 -> Int]
       /\ \A k \in 0 .. p.objects[slot].size - 1 :
            region[BytePlace(ch[slot], k)]
              = IF k + 1 - offset \in 1 .. Len(patch) THEN patch[k + 1 - offset]
                ELSE p.region[BytePlace(ch[slot], k)]
       /\ \A t \in UsedSlots(p) : t # slot =>
            \A k \in 0 .. p.objects[t].size - 1 : region[BytePlace(ch[t], k)] = p.region[BytePlace(ch[t], k)]
  BY <1>7, Zenon DEF Written
<1>11. /\ PoolTyped(r) /\ r.region = region /\ r.objects = p.objects /\ r.gens = p.gens
       /\ UsedSlots(r) = UsedSlots(p)
       /\ \A g : Resolved(r, g) <=> Resolved(p, g)
       /\ ChainsHold(r, ch, in)
  BY <1>1, <1>7, <1>10, RegionAlone
<1>12. v.handle.slot = slot
  BY <1>6 DEF slot
<1>13. ObjectHolds(r, ch[slot], v)
  <2>1. ASSUME NEW k \in 0 .. Len(kept) - 1 PROVE r.region[BytePlace(ch[slot], k)] = kept[k + 1]
    <3>1. k \in 0 .. p.objects[slot].size - 1 /\ k \in 0 .. Len(o.bytes) - 1 /\ k + 1 \in 1 .. Len(o.bytes)
      BY <1>4, <1>5 DEF slot
    <3>2. p.region[BytePlace(ch[slot], k)] = o.bytes[k + 1]
      BY <1>4, <3>1 DEF slot
    <3> QED
      BY <1>5, <1>10, <1>11, <3>1, <3>2
  <2>2. r.objects[v.handle.slot].size = Len(v.bytes)
    BY <1>4, <1>5, <1>6, <1>11 DEF slot
  <2> QED
    BY <1>4, <1>6, <1>11, <1>12, <2>1, <2>2 DEF ObjectHolds
<1>14. ASSUME NEW x \in now.live, x # o
       PROVE  ObjectHolds(r, ch[x.handle.slot], x) /\ x.handle.slot # slot
  <2> DEFINE s == x.handle.slot
  <2>1. s # slot
    BY <1>1, <1>14 DEF slot
  <2>2. /\ x \in [handle : [slot : 1 .. ObjectSlots, gen : Nat], bytes : Seq(Int)]
        /\ Resolved(p, x.handle) /\ p.objects[s].size = Len(x.bytes)
        /\ \A k \in 0 .. Len(x.bytes) - 1 : p.region[BytePlace(ch[s], k)] = x.bytes[k + 1]
    BY <1>1 DEF ObjectHolds
  <2>3. s \in UsedSlots(p)
    BY <2>2 DEF UsedSlots, Resolved
  <2>4. \A k \in 0 .. Len(x.bytes) - 1 : r.region[BytePlace(ch[s], k)] = x.bytes[k + 1]
    BY <1>10, <1>11, <2>1, <2>2, <2>3
  <2> QED
    BY <1>11, <2>1, <2>2, <2>4 DEF ObjectHolds
<1>15. \A x \in then.live : ObjectHolds(r, ch[x.handle.slot], x)
  BY <1>8, <1>12, <1>13, <1>14
<1>16. \A x \in then.live, y \in then.live : x.handle.slot = y.handle.slot => x = y
  BY <1>1, <1>8, <1>12, <1>14
<1>17. \A s \in UsedSlots(r) : \E x \in then.live : x.handle.slot = s
  <2> SUFFICES ASSUME NEW s \in UsedSlots(p) PROVE \E x \in then.live : x.handle.slot = s
    BY <1>11
  <2>1. PICK x \in now.live : x.handle.slot = s
    BY <1>1
  <2> QED
    BY <1>8, <1>12, <2>1 DEF slot
<1>18. \A g \in then.dead : g \in [slot : 1 .. ObjectSlots, gen : Nat] /\ g.gen < r.gens[g.slot]
  BY <1>1, <1>8, <1>11
<1>19. PoolHolds(then, ch, in)
  BY <1>1, <1>8, <1>11, <1>15, <1>16, <1>17, <1>18, Zenon DEF PoolHolds
<1>20. Aged(now, then)
  <2>1. then.pool.gens = now.pool.gens
    BY <1>8, <1>11 DEF p
  <2> QED
    BY <1>1, <2>1, SameAge DEF p
<1> QED
  BY <1>19, <1>20 DEF then

\* The pool, once it has been asked.
PoolKnown ==
  (question.ask = "pool" /\ answer # <<>>) =>
    /\ \E ch, in : PoolHolds(answer, ch, in)
    /\ Young(answer.pool, answer.calls + 1)

LEMMA PoolKnownKept ==
  ASSUME PoolKnown, AnswerPool
  PROVE  PoolKnown'
<1> DEFINE now == NowPool
<1>0. (\E ch, in : PoolHolds(now, ch, in)) /\ Young(now.pool, now.calls + 1)
  <2>1. question.ask = "pool"
    BY Zenon DEF AnswerPool
  <2>2. CASE answer = <<>>
    <3>1. now = StartPool
      BY <2>2 DEF NowPool
    <3>2. Young(StartPool.pool, StartPool.calls + 1)
      BY StartsYoung
    <3> QED
      BY <3>1, <3>2, PoolStarts
  <2>3. CASE answer # <<>>
    BY <2>1, <2>3 DEF PoolKnown, NowPool
  <2> QED
    BY <2>2, <2>3
<1>1. PICK ch, in : PoolHolds(now, ch, in)
  BY <1>0
<1>10. now.calls < MaxCalls
  BY DEF AnswerPool
<1>2. PICK after \in {LoadObject(now, size) : size \in Sizes}
                     \cup {PatchObject(now, o, offset) : o \in now.live, offset \in {1, BlockSize}}
                     \cup {DropObject(now, o) : o \in now.live} :
        answer' = [after EXCEPT !.calls = now.calls + 1]
  BY DEF AnswerPool
<1> HIDE DEF now
<1>3. \/ \E size \in Sizes : after = LoadObject(now, size)
      \/ \E o \in now.live, offset \in {1, BlockSize} : after = PatchObject(now, o, offset)
      \/ \E o \in now.live : after = DropObject(now, o)
  OBVIOUS
<1>4. (\E d, u : PoolHolds(after, d, u)) /\ Aged(now, after)
  <2>1. ASSUME NEW size \in Sizes, after = LoadObject(now, size)
        PROVE  (\E d, u : PoolHolds(after, d, u)) /\ Aged(now, after)
    <3>1. size \in Nat
      BY StoresAssumption
    <3> QED
      BY <1>1, <2>1, <3>1, LoadHolds
  <2>2. ASSUME NEW o \in now.live, NEW offset \in {1, BlockSize}, after = PatchObject(now, o, offset)
        PROVE  (\E d, u : PoolHolds(after, d, u)) /\ Aged(now, after)
    <3>1. offset \in Nat
      BY PoolBytesAssumption
    <3> QED
      BY <1>1, <2>2, <3>1, PatchHolds
  <2>3. ASSUME NEW o \in now.live, after = DropObject(now, o)
        PROVE  (\E d, u : PoolHolds(after, d, u)) /\ Aged(now, after)
    <3>1. o.handle.slot \in 1 .. ObjectSlots /\ now.pool.gens \in [1 .. ObjectSlots -> Nat]
          /\ now.calls \in Nat
      <4>1. ObjectHolds(now.pool, ch[o.handle.slot], o) /\ PoolTyped(now.pool) /\ now.calls \in Nat
        BY <1>1 DEF PoolHolds
      <4>2. Resolved(now.pool, o.handle)
        BY <4>1 DEF ObjectHolds
      <4> QED
        BY <4>1, <4>2 DEF Resolved, PoolTyped
    <3>2. PoolTyped(now.pool)
      BY <1>1 DEF PoolHolds
    <3>3. now.pool.gens[o.handle.slot] < SlotGens - 1
      BY <1>0, <1>10, <3>1, <3>2, MayEnd
    <3> QED
      BY <1>1, <2>3, <3>3, DropHolds
  <2> QED
    BY <1>3, <2>1, <2>2, <2>3
<1>5. now.calls + 1 \in Nat
  BY <1>1 DEF PoolHolds
<1>6. \E d, u : PoolHolds(answer', d, u)
  <2>1. PICK d, u : PoolHolds(after, d, u)
    BY <1>4
  <2>2. PoolHolds([after EXCEPT !.calls = now.calls + 1], d, u)
    BY <1>5, <2>1, CallsAlone
  <2> QED
    BY <1>2, <2>2
<1>7. Young(answer'.pool, answer'.calls + 1)
  <2>1. PICK d, u : PoolHolds(after, d, u)
    BY <1>4
  <2>2. PoolHolds([after EXCEPT !.calls = now.calls + 1], d, u)
    BY <1>5, <2>1, CallsAlone
  <2>3. DOMAIN after = {"pool", "calls", "live", "dead"}
    BY <2>1 DEF PoolHolds
  <2>4. answer'.pool = after.pool /\ answer'.calls = now.calls + 1
    BY <1>2, <2>3
  <2>5. PoolTyped(after.pool) /\ PoolTyped(now.pool) /\ now.calls \in Nat
    BY <1>1, <2>1 DEF PoolHolds
  <2>6. Young(after.pool, now.calls + 1 + 1)
    BY <1>0, <1>4, <2>5, StillYoung
  <2> QED
    BY <2>4, <2>6
<1> QED
  BY <1>6, <1>7 DEF PoolKnown

-----------------------------------------------------------------------------
(* What the pool gives.                                                     *)

\* Some bytes of an object, from an offset on.
Taken(bytes, offset, n) == [i \in 1 .. n |-> bytes[offset + i]]

\* An object is read as it was written.
LEMMA ObjectRead ==
  ASSUME NEW now, NEW ch, NEW in, PoolHolds(now, ch, in), NEW o \in now.live,
         NEW offset \in Nat, NEW n \in Nat
  PROVE  ReadBytes(now.pool, o.handle, offset, n)
           = Taken(o.bytes, offset, RoomOf(Len(o.bytes), offset, n))
<1> DEFINE p == now.pool
           s == o.handle.slot
           r == RoomOf(Len(o.bytes), offset, n)
           c == ch[s]
<1>1. PoolTyped(p) /\ ChainsHold(p, ch, in) /\ ObjectHolds(p, c, o)
  BY DEF PoolHolds
<1>2. /\ o.bytes \in Seq(Int) /\ Resolved(p, o.handle) /\ p.objects[s].size = Len(o.bytes)
      /\ \A k \in 0 .. Len(o.bytes) - 1 : p.region[BytePlace(c, k)] = o.bytes[k + 1]
  BY <1>1 DEF ObjectHolds
<1>3. ReadBytes(p, o.handle, offset, n) = [i \in 1 .. r |-> p.region[BytePlace(c, offset + i - 1)]]
  <2>1. ReadBytes(p, o.handle, offset, n) = BytesAt(p, c, offset, RoomOf(p.objects[s].size, offset, n))
    BY <1>1, <1>2, ReadIs
  <2> QED
    BY <1>2, <2>1 DEF BytesAt
<1>4. r \in Nat /\ \A i \in 1 .. r : offset + i - 1 \in 0 .. Len(o.bytes) - 1
  <2> DEFINE size == Len(o.bytes)
  <2>1. size \in Nat
    BY <1>2
  <2>2. \A i \in 1 .. RoomOf(size, offset, n) : offset + i - 1 \in 0 .. size - 1
    BY <1>2, <2>1, RoomIs
  <2>3. RoomOf(size, offset, n) \in Nat
    BY <1>2, <2>1, RoomIs
  <2> QED
    BY <2>2, <2>3
<1> HIDE DEF r, p, c
<1>5. \A i \in 1 .. r : p.region[BytePlace(c, offset + i - 1)] = o.bytes[offset + i]
  <2> SUFFICES ASSUME NEW i \in 1 .. r
               PROVE  p.region[BytePlace(c, offset + i - 1)] = o.bytes[offset + i]
    OBVIOUS
  <2> DEFINE k == offset + i - 1
  <2>1. k \in 0 .. Len(o.bytes) - 1 /\ k + 1 = offset + i
    BY <1>4
  <2> HIDE DEF k
  <2>2. p.region[BytePlace(c, k)] = o.bytes[k + 1]
    BY <1>2, <2>1
  <2> QED
    BY <2>1, <2>2 DEF k
<1>6. ReadBytes(p, o.handle, offset, n) = [i \in 1 .. r |-> o.bytes[offset + i]]
  BY <1>3, <1>5
<1> QED
  BY <1>6, Zenon DEF Taken, p, r

\* That is what is there of it.
LEMMA TakenIs ==
  ASSUME NEW bytes \in Seq(Int), NEW offset \in 0 .. Len(bytes), NEW n \in Nat
  PROVE  Taken(bytes, offset, RoomOf(Len(bytes), offset, n))
           = SubSeq(bytes, offset + 1, Min({offset + n, Len(bytes)}))
<1> DEFINE size == Len(bytes)
           m == Min({offset + n, size})
           r == RoomOf(size, offset, n)
<1>1. size \in Nat /\ offset \in Nat /\ offset + n \in Int
  OBVIOUS
<1>2. m = IF offset + n <= size THEN offset + n ELSE size
  <2> DEFINE end == offset + n
  <2>1. end \in Int /\ size \in Int
    OBVIOUS
  <2> HIDE DEF size, end
  <2>2. Min({end, size}) = IF end <= size THEN end ELSE size
    BY <2>1, LeastOfTwo, Zenon
  <2> QED
    BY <2>2 DEF end
<1>3. r = IF offset >= size THEN 0 ELSE IF n <= size - offset THEN n ELSE size - offset
  BY DEF RoomOf
<1>4. offset <= size
  OBVIOUS
<1> HIDE DEF size, m, r
<1>5. m \in Int /\ 1 + m - (offset + 1) = r /\ r \in Nat
  BY <1>1, <1>2, <1>3, <1>4
<1>6. SubSeq(bytes, offset + 1, m) = [i \in 1 .. r |-> bytes[i + (offset + 1) - 1]]
  BY <1>1, <1>5
<1>7. [i \in 1 .. r |-> bytes[i + (offset + 1) - 1]] = [i \in 1 .. r |-> bytes[offset + i]]
  <2>1. \A i \in 1 .. r : i + (offset + 1) - 1 = offset + i
    BY <1>1, <1>5
  <2> QED
    BY <2>1
<1> QED
  BY <1>6, <1>7 DEF Taken, size, m, r

\* Pairs that are put in a row are the row they were taken from.
Pairs(b, m) == [i \in 1 .. m |-> <<b[2 * i - 1], b[2 * i]>>]
InARow(f, seqs) == f = [i \in 1 .. Len(seqs) |-> IF i = 1 THEN seqs[i] ELSE f[i - 1] \o seqs[i]]

LEMMA PairsInARow ==
  ASSUME NEW b, NEW m \in Nat
  PROVE  FlattenSeq(Pairs(b, m)) = [j \in 1 .. 2 * m |-> b[j]]
<1> DEFINE seqs == Pairs(b, m)
           row(i) == [j \in 1 .. 2 * i |-> b[j]]
           f == CHOOSE f : InARow(f, seqs)
           g == [i \in 1 .. m |-> row(i)]
<1>1. Len(seqs) = m /\ \A i \in 1 .. m : seqs[i] = <<b[2 * i - 1], b[2 * i]>>
  BY DEF Pairs
<1>2. FlattenSeq(seqs) = IF Len(seqs) = 0 THEN seqs ELSE f[Len(seqs)]
  BY Zenon DEF FlattenSeq, InARow
<1> HIDE DEF seqs
<1>3. CASE m = 0
  <2>1. FlattenSeq(seqs) = seqs
    BY <1>1, <1>2, <1>3
  <2>2. seqs = [j \in 1 .. 2 * m |-> b[j]]
    BY <1>3 DEF seqs, Pairs
  <2> QED
    BY <2>1, <2>2 DEF seqs
<1>4. CASE m # 0
  <2>1. ASSUME NEW i \in 1 .. m, i # 1 PROVE row(i) = row(i - 1) \o seqs[i]
    <3> DEFINE a == row(i - 1)
    <3>1. Len(a) = 2 * (i - 1) /\ \A j \in 1 .. 2 * (i - 1) : a[j] = b[j]
      OBVIOUS
    <3> DEFINE c == seqs[i]
               T == {b[j] : j \in Int}
    <3>0. c = <<b[2 * i - 1], b[2 * i]>>
      BY <1>1
    <3> HIDE DEF c
    <3>2. Len(c) = 2 /\ c[1] = b[2 * i - 1] /\ c[2] = b[2 * i]
      BY <3>0
    <3>6. a \in Seq(T)
      <4>1. 2 * (i - 1) \in Nat /\ \A j \in 1 .. 2 * (i - 1) : b[j] \in T
        OBVIOUS
      <4> HIDE DEF T
      <4> QED
        BY <4>1
    <3>7. c \in Seq(T)
      <4>1. b[2 * i - 1] \in T /\ b[2 * i] \in T
        OBVIOUS
      <4> HIDE DEF T
      <4> QED
        BY <3>0, <4>1
    <3> HIDE DEF a, T
    <3>3. a \o c = [j \in 1 .. Len(a) + Len(c) |-> IF j <= Len(a) THEN a[j] ELSE c[j - Len(a)]]
      <4>1. /\ a \o c \in Seq(T) /\ Len(a \o c) = Len(a) + Len(c)
            /\ \A j \in 1 .. Len(a) + Len(c) : (a \o c)[j] = IF j <= Len(a) THEN a[j] ELSE c[j - Len(a)]
        BY <3>6, <3>7, ConcatProperties
      <4> DEFINE d == a \o c
      <4>2. d \in Seq(T) /\ Len(d) = Len(a) + Len(c)
            /\ \A j \in 1 .. Len(d) : d[j] = IF j <= Len(a) THEN a[j] ELSE c[j - Len(a)]
        BY <4>1
      <4> HIDE DEF d
      <4>3. d = [j \in 1 .. Len(d) |-> d[j]]
        BY <4>2
      <4>4. d = [j \in 1 .. Len(d) |-> IF j <= Len(a) THEN a[j] ELSE c[j - Len(a)]]
        BY <4>2, <4>3
      <4> QED
        BY <4>2, <4>4 DEF d
    <3>4. Len(a) + Len(c) = 2 * i
      BY <3>1, <3>2
    <3>5. \A j \in 1 .. 2 * i : (IF j <= Len(a) THEN a[j] ELSE c[j - Len(a)]) = b[j]
      <4> SUFFICES ASSUME NEW j \in 1 .. 2 * i
                   PROVE  (IF j <= Len(a) THEN a[j] ELSE c[j - Len(a)]) = b[j]
        OBVIOUS
      <4>1. CASE j <= 2 * (i - 1)
        BY <3>1, <4>1
      <4>2. CASE j > 2 * (i - 1)
        <5>1. j = 2 * i - 1 \/ j = 2 * i
          BY <4>2
        <5>2. ~(j <= Len(a)) /\ j - Len(a) = j - 2 * (i - 1)
          BY <3>1, <4>2
        <5>3. CASE j = 2 * i - 1
          <6>1. j - 2 * (i - 1) = 1
            BY <5>3
          <6> QED
            BY <3>2, <5>2, <5>3, <6>1
        <5>4. CASE j = 2 * i
          <6>1. j - 2 * (i - 1) = 2
            BY <5>4
          <6> QED
            BY <3>2, <5>2, <5>4, <6>1
        <5> QED
          BY <5>1, <5>3, <5>4
      <4> QED
        BY <4>1, <4>2
    <3> QED
      BY <3>3, <3>4, <3>5 DEF a, c
  <2>2. row(1) = seqs[1]
    BY <1>1, <1>4
  <2>3. InARow(g, seqs)
    <3>1. \A i \in 1 .. m : row(i) = IF i = 1 THEN seqs[i] ELSE g[i - 1] \o seqs[i]
      <4> SUFFICES ASSUME NEW i \in 1 .. m PROVE row(i) = IF i = 1 THEN seqs[i] ELSE g[i - 1] \o seqs[i]
        OBVIOUS
      <4>1. i # 1 => g[i - 1] = row(i - 1)
        OBVIOUS
      <4> HIDE DEF row, g
      <4> QED
        BY <2>1, <2>2, <4>1
    <3> HIDE DEF row
    <3>2. g = [i \in 1 .. m |-> IF i = 1 THEN seqs[i] ELSE g[i - 1] \o seqs[i]]
      BY <3>1
    <3> HIDE DEF g
    <3> QED
      BY <1>1, <3>2, Zenon DEF InARow
  <2>4. InARow(f, seqs)
    <3> HIDE DEF g, row
    <3>1. \E h : InARow(h, seqs)
      BY <2>3
    <3> QED
      BY <3>1
  <2> HIDE DEF f, row
  <2>5. \A i \in 1 .. m : f[i] = IF i = 1 THEN seqs[i] ELSE f[i - 1] \o seqs[i]
    BY <1>1, <2>4 DEF InARow
  <2> DEFINE N == {i \in Nat : i \in 1 .. m => f[i] = row(i)}
  <2>6. 0 \in N
    OBVIOUS
  <2>7. ASSUME NEW i \in N PROVE i + 1 \in N
    <3> SUFFICES ASSUME i + 1 \in 1 .. m PROVE f[i + 1] = row(i + 1)
      OBVIOUS
    <3>1. CASE i = 0
      <4>1. f[1] = seqs[1]
        BY <2>5, <3>1
      <4> QED
        BY <2>2, <3>1, <4>1
    <3>2. CASE i # 0
      <4>1. i \in 1 .. m /\ i + 1 # 1 /\ (i + 1) - 1 = i
        BY <3>2
      <4>2. f[i] = row(i)
        BY <4>1
      <4>3. f[i + 1] = f[i] \o seqs[i + 1]
        <5> DEFINE k == i + 1
        <5>1. k \in 1 .. m /\ k # 1 /\ k - 1 = i
          BY <4>1
        <5> HIDE DEF k
        <5>2. f[k] = f[k - 1] \o seqs[k]
          BY <2>5, <5>1
        <5> QED
          BY <5>1, <5>2 DEF k
      <4>4. row(i + 1) = row(i) \o seqs[i + 1]
        <5> DEFINE k == i + 1
        <5>1. k \in 1 .. m /\ k # 1 /\ k - 1 = i
          BY <4>1
        <5> HIDE DEF k
        <5>2. row(k) = row(k - 1) \o seqs[k]
          BY <2>1, <5>1
        <5> QED
          BY <5>1, <5>2 DEF k
      <4> QED
        BY <4>2, <4>3, <4>4
    <3> QED
      BY <3>1, <3>2
  <2>8. N \in SUBSET Nat
    OBVIOUS
  <2>9. m \in N
    <3> HIDE DEF N
    <3> QED
      BY <2>6, <2>7, <2>8, NatSet
  <2>10. f[m] = row(m)
    BY <1>4, <2>9
  <2>11. FlattenSeq(seqs) = f[m]
    BY <1>1, <1>2, <1>4
  <2> QED
    BY <2>10, <2>11 DEF row, seqs
<1> QED
  BY <1>3, <1>4

\* An id that is bound to an object gives it.
LEMMA StreamGives ==
  ASSUME NEW h, h # NoHandleHere
  PROVE  HandleBound(Bind(StreamsInit, 7, h), 7) = h
<1> DEFINE ctx == Bind(StreamsInit, 7, h)
<1>1. 7 # NoStream
  BY DEF NoStream
<1>2. StreamsInit[1].id = NoStream /\ StreamsInit[2].id = NoStream /\ StreamsInit \in [1 .. 2 -> {Unbound}]
  BY DEF StreamsInit, Unbound
<1>3. ctx = [StreamsInit EXCEPT ![1] = [id |-> 7, handle |-> h]]
  BY <1>1, <1>2, BindIs
<1> HIDE DEF ctx
<1>4. ctx[1].id = 7 /\ ctx[1].handle = h
  BY <1>2, <1>3
<1>5. HandleBound(ctx, 7) = h
  BY <1>1, <1>4, HandleBoundIs
<1> QED
  BY <1>5 DEF ctx

\* A number is twice its half, or one more.
LEMMA InHalf ==
  ASSUME NEW x \in Nat
  PROVE  x \div 2 \in Nat /\ (x = 2 * (x \div 2) \/ x = 2 * (x \div 2) + 1)
OBVIOUS

\* The player gets the frames that are whole, from a frame on.
LEMMA FramesTaken ==
  ASSUME NEW now, NEW ch, NEW in, PoolHolds(now, ch, in), NEW o \in now.live,
         NEW offset \in Nat, NEW n \in Nat
  PROVE  FlattenSeq(StreamFrames(now.pool, Bind(StreamsInit, 7, o.handle), 7, offset, n, FALSE))
           = SubSeq(o.bytes, 2 * offset + 1, Min({2 * (offset + n), 2 * (Len(o.bytes) \div 2)}))
<1> DEFINE p == now.pool
           ctx == Bind(StreamsInit, 7, o.handle)
           size == Len(o.bytes)
           r == RoomOf(size, 2 * offset, 2 * n)
           b == ReadBytes(p, o.handle, 2 * offset, 2 * n)
           half == size \div 2
           last == Min({2 * (offset + n), 2 * half})
           m == r \div 2
<1>1. o.bytes \in Seq(Int) /\ o.handle.slot \in 1 .. ObjectSlots
  BY DEF PoolHolds, ObjectHolds
<1>2. HandleBound(ctx, 7) = o.handle
  <2>1. o.handle # NoHandleHere
    BY <1>1 DEF NoHandleHere
  <2> QED
    BY <2>1, StreamGives
<1>3. b = Taken(o.bytes, 2 * offset, r)
  <2>1. 2 * offset \in Nat /\ 2 * n \in Nat
    OBVIOUS
  <2> DEFINE x == 2 * offset
             y == 2 * n
  <2> HIDE DEF x, y
  <2>2. ReadBytes(now.pool, o.handle, x, y) = Taken(o.bytes, x, RoomOf(Len(o.bytes), x, y))
    BY <2>1, ObjectRead DEF x, y
  <2> QED
    BY <2>2 DEF x, y
<1>4. size \in Nat /\ half \in Nat /\ (size = 2 * half \/ size = 2 * half + 1)
  <2>1. size \in Nat
    BY <1>1
  <2> HIDE DEF size
  <2> QED
    BY <2>1, InHalf
<1>5. r = IF 2 * offset >= size THEN 0 ELSE IF 2 * n <= size - 2 * offset THEN 2 * n ELSE size - 2 * offset
  BY DEF RoomOf
<1>6. last = IF 2 * (offset + n) <= 2 * half THEN 2 * (offset + n) ELSE 2 * half
  <2> DEFINE x == 2 * (offset + n)
             y == 2 * half
  <2>1. x \in Int /\ y \in Int
    BY <1>4
  <2> HIDE DEF x, y
  <2>2. Min({x, y}) = IF x <= y THEN x ELSE y
    BY <2>1, LeastOfTwo, Zenon
  <2> QED
    BY <2>2 DEF x, y
<1> HIDE DEF size, half, last
<1>7. r \in Nat
  BY <1>4, <1>5
<1>8. Len(b) = r /\ \A i \in 1 .. r : b[i] = o.bytes[2 * offset + i]
  BY <1>3, <1>7 DEF Taken
<1> HIDE DEF r
<1>9. m \in Nat /\ (r = 2 * m \/ r = 2 * m + 1)
  BY <1>7
<1>10. StreamFrames(p, ctx, 7, offset, n, FALSE) = Pairs(b, m)
  <2> HIDE DEF ctx
  <2>1. StreamFrames(p, ctx, 7, offset, n, FALSE) = Pairs(b, Len(b) \div 2)
    BY <1>2 DEF StreamFrames, Pairs
  <2> HIDE DEF b
  <2> QED
    BY <1>8, <2>1
<1> HIDE DEF b, m, ctx, p
<1>11. FlattenSeq(Pairs(b, m)) = [j \in 1 .. 2 * m |-> b[j]]
  BY <1>9, PairsInARow
<1>12. [j \in 1 .. 2 * m |-> b[j]] = [j \in 1 .. 2 * m |-> o.bytes[2 * offset + j]]
  <2>1. \A j \in 1 .. 2 * m : j \in 1 .. r
    BY <1>9
  <2> QED
    BY <1>8, <2>1
<1>13. last \in Int /\ (1 .. 1 + last - (2 * offset + 1)) = 1 .. 2 * m
  <2>1. last \in Int
    BY <1>4, <1>6
  <2>2. CASE 2 * offset >= size
    <3>1. m = 0 /\ 1 + last - (2 * offset + 1) <= 0
      BY <1>4, <1>5, <1>6, <1>9, <2>2
    <3> QED
      BY <2>1, <3>1
  <2>3. CASE 2 * offset < size /\ 2 * n <= size - 2 * offset
    <3>1. r = 2 * n
      BY <1>4, <1>5, <2>3
    <3>2. n = m /\ offset + n <= half
      BY <1>4, <1>9, <2>3, <3>1
    <3>3. 1 + last - (2 * offset + 1) = 2 * m
      BY <1>4, <1>6, <3>2
    <3> QED
      BY <2>1, <3>3
  <2>4. CASE 2 * offset < size /\ ~(2 * n <= size - 2 * offset)
    <3>1. r = size - 2 * offset
      BY <1>4, <1>5, <2>4
    <3>2. offset + m = half /\ offset + n >= half
      BY <1>4, <1>9, <2>4, <3>1
    <3>3. last = 2 * half
      BY <1>4, <1>6, <3>2
    <3>4. 1 + last - (2 * offset + 1) = 2 * m
      BY <1>4, <1>9, <3>2, <3>3
    <3> QED
      BY <2>1, <3>4
  <2> QED
    BY <1>4, <2>1, <2>2, <2>3, <2>4
<1>14. SubSeq(o.bytes, 2 * offset + 1, last) = [i \in 1 .. 2 * m |-> o.bytes[2 * offset + i]]
  <2> DEFINE k == 2 * offset + 1
  <2>1. k \in Int /\ \A i \in 1 .. 2 * m : i + k - 1 = 2 * offset + i
    BY <1>9
  <2>2. (1 .. 1 + last - k) = 1 .. 2 * m
    BY <1>13
  <2> HIDE DEF k
  <2>3. SubSeq(o.bytes, k, last) = [i \in 1 .. (1 + last - k) |-> o.bytes[i + k - 1]]
    BY <1>1, <1>13, <2>1
  <2>4. SubSeq(o.bytes, k, last) = [i \in 1 .. 2 * m |-> o.bytes[i + k - 1]]
    BY <2>2, <2>3
  <2>5. [i \in 1 .. 2 * m |-> o.bytes[i + k - 1]] = [i \in 1 .. 2 * m |-> o.bytes[2 * offset + i]]
    BY <2>1
  <2> QED
    BY <2>4, <2>5 DEF k
<1> QED
  BY <1>10, <1>11, <1>12, <1>14 DEF ctx, p, size, half, last

\* A chain has as many blocks as it is long.
LEMMA ChainCounted ==
  ASSUME NEW next, NEW head, NEW c, IsChain(next, head, c)
  PROVE  /\ IsFiniteSet(BlocksOf(c)) /\ Cardinality(BlocksOf(c)) = Len(c)
         /\ BlocksOf(c) \in SUBSET PoolBlocks
<1>1. \A i \in 1 .. Len(c) : c[i] \in PoolBlocks
  BY ChainBlocks
<1>2. BlocksOf(c) \in SUBSET PoolBlocks
  BY <1>1 DEF BlocksOf
<1> QED
  BY <1>2, ChainBlocks

\* The blocks that objects need are summed by a table.
NeededBy(o) == Needed(Len(o.bytes))

LEMMA NeededTable ==
  ASSUME NEW S, IsFiniteSet(S)
  PROVE  \E g : /\ SumTable(g, [o \in S |-> NeededBy(o)], S)
                /\ MapThenSumSet(LAMBDA o : Needed(Len(o.bytes)), S) = g[S]
<1> DEFINE f == [o \in S |-> NeededBy(o)]
           p(g, s) == IF s = {} THEN 0 ELSE NeededBy(Chosen(s)) + g[s \ {Chosen(s)}]
           q(g, s) == IF s = {} THEN 0 ELSE f[Chosen(s)] + g[s \ {Chosen(s)}]
           Eq(g) == g = [s \in SUBSET S |-> p(g, s)]
           iter == CHOOSE g : Eq(g)
<1>1. MapThenSumSet(LAMBDA o : Needed(Len(o.bytes)), S) = iter[S]
  BY Zenon DEF MapThenSumSet, MapThenFoldSet, Chosen, NeededBy
<1>2. ASSUME NEW g PROVE Eq(g) <=> SumTable(g, f, S)
  <2>1. ASSUME NEW s \in SUBSET S PROVE p(g, s) = q(g, s)
    <3>1. CASE s = {}
      BY <3>1
    <3>2. CASE s # {}
      <4>1. Chosen(s) \in s
        BY <3>2 DEF Chosen
      <4> QED
        BY <3>2, <4>1
    <3> QED
      BY <3>1, <3>2
  <2>2. SumTable(g, f, S) <=> g = [s \in SUBSET S |-> q(g, s)]
    BY Zenon DEF SumTable
  <2> HIDE DEF p, q
  <2>3. [s \in SUBSET S |-> p(g, s)] = [s \in SUBSET S |-> q(g, s)]
    BY <2>1
  <2> QED
    BY <2>2, <2>3
<1>3. \E g : SumTable(g, f, S)
  BY SumExists
<1> HIDE DEF Eq, f
<1>4. Eq(iter)
  BY <1>2, <1>3
<1> QED
  BY <1>1, <1>2, <1>4 DEF f

\* The blocks that are free are those that no object needs.
LEMMA NeededAreTaken ==
  ASSUME NEW now, NEW ch, NEW in, PoolHolds(now, ch, in)
  PROVE  FreeBlocks(now.pool)
           = SetBits - MapThenSumSet(LAMBDA o : Needed(Len(o.bytes)), now.live)
<1> DEFINE p == now.pool
           S == now.live
           parts == [o \in S |-> BlocksOf(ch[o.handle.slot])]
<1>1. /\ ChainsHold(p, ch, in)
      /\ \A o \in S : ObjectHolds(p, ch[o.handle.slot], o)
      /\ \A o \in S, x \in S : o.handle.slot = x.handle.slot => o = x
      /\ \A s \in UsedSlots(p) : \E o \in S : o.handle.slot = s
  BY DEF PoolHolds
<1>2. MapHolds(p.map, in)
  BY <1>1 DEF ChainsHold
<1> HIDE DEF p, S
<1>3. FreeBlocks(p) = SetBits - Cardinality(in)
  BY <1>2, BitsCounted DEF FreeBlocks
<1>4. \A o \in S : /\ o.handle.slot \in UsedSlots(p) /\ o.handle.slot \in 1 .. ObjectSlots
                   /\ p.objects[o.handle.slot].size = Len(o.bytes)
  BY <1>1 DEF ObjectHolds, Resolved, UsedSlots
<1>5. IsFiniteSet(S)
  <2> DEFINE T == {o.handle.slot : o \in S}
             f == [t \in T |-> CHOOSE o \in S : o.handle.slot = t]
  <2>1. IsFiniteSet(T)
    <3>1. IsFiniteSet(1 .. ObjectSlots)
      BY PoolBytesAssumption, FS_Interval
    <3>2. T \in SUBSET (1 .. ObjectSlots)
      BY <1>4
    <3> HIDE DEF T
    <3> QED
      BY <3>1, <3>2, FS_Subset
  <2>2. \A t \in T : f[t] \in S /\ f[t].handle.slot = t
    OBVIOUS
  <2>3. \A o \in S : o.handle.slot \in T
    OBVIOUS
  <2>4. f = [t \in T |-> f[t]]
    OBVIOUS
  <2> HIDE DEF f, T
  <2>5. f \in [T -> S]
    BY <2>2, <2>4
  <2>6. \A x \in T, y \in T : f[x] = f[y] => x = y
    BY <2>2
  <2>7. \A o \in S : \E t \in T : f[t] = o
    BY <1>1, <2>2, <2>3
  <2> QED
    BY <2>1, <2>5, <2>6, <2>7, SameSize
<1>6. ASSUME NEW o \in S
      PROVE  /\ IsFiniteSet(parts[o]) /\ Cardinality(parts[o]) = NeededBy(o)
             /\ parts[o] \in SUBSET PoolBlocks
  <2> DEFINE c == ch[o.handle.slot]
  <2>1. IsChain(p.next, p.objects[o.handle.slot].head, c) /\ Len(c) = Needed(p.objects[o.handle.slot].size)
    BY <1>1, <1>4 DEF ChainsHold
  <2> HIDE DEF c
  <2>2. /\ IsFiniteSet(BlocksOf(c)) /\ Cardinality(BlocksOf(c)) = Len(c)
        /\ BlocksOf(c) \in SUBSET PoolBlocks
    BY <2>1, ChainCounted, Zenon
  <2>3. parts[o] = BlocksOf(c)
    BY DEF c
  <2> HIDE DEF parts
  <2> QED
    BY <1>4, <2>1, <2>2, <2>3 DEF NeededBy
<1>7. \A x \in S, y \in S : x # y => parts[x] \cap parts[y] = {}
  <2> SUFFICES ASSUME NEW x \in S, NEW y \in S, x # y PROVE parts[x] \cap parts[y] = {}
    OBVIOUS
  <2>1. x.handle.slot # y.handle.slot
    BY <1>1
  <2>2. BlocksOf(ch[x.handle.slot]) \cap BlocksOf(ch[y.handle.slot]) = {}
    BY <1>1, <1>4, <2>1 DEF ChainsHold
  <2> QED
    BY <2>2
<1>8. AllOf(parts, S) = in
  <2>1. in \in SUBSET PoolBlocks
    BY <1>2 DEF MapHolds, PoolBlocks
  <2>2. \A b \in PoolBlocks : b \in in <=> \E o \in S : b \in parts[o]
    <3>1. \A b \in PoolBlocks : b \in in <=> \E s \in UsedSlots(p) : b \in BlocksOf(ch[s])
      BY <1>1 DEF ChainsHold
    <3>2. \A o \in S : parts[o] = BlocksOf(ch[o.handle.slot])
      OBVIOUS
    <3> HIDE DEF parts
    <3> QED
      BY <1>1, <1>4, <3>1, <3>2
  <2> HIDE DEF parts
  <2>3. \A b : b \in AllOf(parts, S) <=> \E o \in S : b \in parts[o]
    BY DEF AllOf
  <2> QED
    BY <1>6, <2>1, <2>2, <2>3
<1> HIDE DEF parts
<1>9. PICK g : /\ SumTable(g, [o \in S |-> NeededBy(o)], S)
               /\ MapThenSumSet(LAMBDA o : Needed(Len(o.bytes)), S) = g[S]
  BY <1>5, NeededTable
<1>10. [o \in S |-> NeededBy(o)] = [o \in S |-> Cardinality(parts[o])]
  BY <1>6
<1>11. SumTable(g, [o \in S |-> Cardinality(parts[o])], S)
  BY <1>9, <1>10
<1>12. g[S] = Cardinality(AllOf(parts, S))
  BY <1>5, <1>6, <1>7, <1>11, PartsCounted
<1> QED
  BY <1>3, <1>8, <1>9, <1>12 DEF p, S

\* What is known of the pool is what is read of it.
LEMMA PoolRight == ASSUME PoolKnown PROVE BytesKept
<1> SUFFICES ASSUME question.ask = "pool", answer # <<>> PROVE BytesKept
  BY Zenon DEF BytesKept
<1>1. PICK ch, in : PoolHolds(answer, ch, in)
  BY DEF PoolKnown
<1>2. ASSUME NEW o \in answer.live, NEW offset \in 0 .. Len(o.bytes), NEW n \in 0 .. Len(o.bytes) + 1
      PROVE  /\ ReadBytes(answer.pool, o.handle, offset, n)
                  = SubSeq(o.bytes, offset + 1, Min({offset + n, Len(o.bytes)}))
             /\ FlattenSeq(StreamFrames(answer.pool, Bind(StreamsInit, 7, o.handle), 7, offset, n, FALSE))
                  = SubSeq(o.bytes, 2 * offset + 1, Min({2 * (offset + n), 2 * (Len(o.bytes) \div 2)}))
  <2>1. o.bytes \in Seq(Int)
    BY <1>1 DEF PoolHolds, ObjectHolds
  <2>2. offset \in Nat /\ n \in Nat
    BY <2>1
  <2>3. ReadBytes(answer.pool, o.handle, offset, n)
          = Taken(o.bytes, offset, RoomOf(Len(o.bytes), offset, n))
    BY <1>1, <2>2, ObjectRead
  <2>4. Taken(o.bytes, offset, RoomOf(Len(o.bytes), offset, n))
          = SubSeq(o.bytes, offset + 1, Min({offset + n, Len(o.bytes)}))
    BY <2>1, <2>2, TakenIs
  <2>5. FlattenSeq(StreamFrames(answer.pool, Bind(StreamsInit, 7, o.handle), 7, offset, n, FALSE))
          = SubSeq(o.bytes, 2 * offset + 1, Min({2 * (offset + n), 2 * (Len(o.bytes) \div 2)}))
    BY <1>1, <2>2, FramesTaken
  <2> QED
    BY <2>3, <2>4, <2>5, Zenon
<1>3. ASSUME NEW h \in answer.dead PROVE ReadBytes(answer.pool, h, 0, 1) = <<>>
  <2>1. h \in [slot : 1 .. ObjectSlots, gen : Nat] /\ h.gen < answer.pool.gens[h.slot]
        /\ answer.pool.gens \in [1 .. ObjectSlots -> Nat]
    BY <1>1 DEF PoolHolds, PoolTyped
  <2>2. h.gen # answer.pool.gens[h.slot]
    BY <2>1
  <2> QED
    BY <2>2 DEF ReadBytes, Resolved
<1>4. FreeBlocks(answer.pool)
        = SetBits - MapThenSumSet(LAMBDA o : Needed(Len(o.bytes)), answer.live)
  BY <1>1, NeededAreTaken
<1> QED
  BY <1>2, <1>3, <1>4, Zenon DEF BytesKept

\* What the pool is asked is answered right, after any calls in any order, for any
\* number of blocks of any size and any number of objects, and for as many calls as
\* generations do not come round in: an object holds what was written into it and not
\* a byte of another, a handle that was freed reads nothing,
\* the free map counts the blocks that objects need, and the ids of the streams give
\* the objects they are bound to (audio_pool_alloc, audio_pool_write, audio_pool_read,
\* bitset_find_first_clear, audio_pool_stream_bind).
THEOREM PoolAlwaysKeepsBytes == AskSpec => []PoolKeepsBytes
<1> DEFINE Known == BitsKnown /\ StreamsKnown /\ PoolKnown
<1>1. AskInit => Known
  BY DEF AskInit, BitsKnown, StreamsKnown, PoolKnown
<1>2. Known /\ [AskNext]_askVars => Known'
  <2> SUFFICES ASSUME Known, [AskNext]_askVars PROVE Known'
    OBVIOUS
  <2>1. CASE UNCHANGED askVars
    BY <2>1, Zenon DEF BitsKnown, StreamsKnown, PoolKnown, askVars
  <2>2. CASE AskNext
    <3>1. /\ question' = question
          /\ \/ AnswerMask \/ AnswerMap \/ AnswerBits \/ AnswerPool \/ AnswerBind
             \/ question.ask \notin {"mask", "map", "bits", "pool", "bind"}
      BY <2>2, AnswersAside
    <3>2. AnswerMask => question.ask = "mask"
      BY DEF AnswerMask, Answers
    <3>3. AnswerMap => question.ask = "map"
      BY DEF AnswerMap, Answers
    <3>4. AnswerBits => question.ask = "bits"
      BY Zenon DEF AnswerBits
    <3>5. AnswerPool => question.ask = "pool"
      <4> SUFFICES ASSUME AnswerPool PROVE question.ask = "pool"
        OBVIOUS
      <4> QED
        BY Zenon DEF AnswerPool
    <3>6. AnswerBind => question.ask = "bind"
      BY Zenon DEF AnswerBind
    <3>7. CASE AnswerBits
      <4>1. BitsKnown'
        BY <3>7, BitsKnownKept
      <4> QED
        BY <3>1, <3>4, <3>7, <4>1 DEF StreamsKnown, PoolKnown
    <3>8. CASE AnswerPool
      <4>1. PoolKnown'
        BY <3>8, PoolKnownKept
      <4> QED
        BY <3>1, <3>5, <3>8, <4>1 DEF StreamsKnown, BitsKnown
    <3>9. CASE AnswerBind
      <4>1. StreamsKnown'
        BY <3>9, StreamsKnownKept
      <4> QED
        BY <3>1, <3>6, <3>9, <4>1 DEF PoolKnown, BitsKnown
    <3>10. CASE AnswerMask \/ AnswerMap \/ question.ask \notin {"mask", "map", "bits", "pool", "bind"}
      BY <3>1, <3>2, <3>3, <3>10 DEF BitsKnown, StreamsKnown, PoolKnown
    <3> QED
      BY <3>1, <3>7, <3>8, <3>9, <3>10
  <2> QED
    BY <2>1, <2>2
<1>3. Known => PoolKeepsBytes
  BY BitsFound, StreamsRight, PoolRight DEF PoolKeepsBytes
<1> QED
  BY <1>1, <1>2, <1>3, PTL DEF AskSpec
=============================================================================
