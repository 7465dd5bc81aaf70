------------------------------ MODULE AudioPool ------------------------------
(***************************************************************************)
(* The sample pool of engine/audio/audio_pool.c: fixed-size blocks, a      *)
(* table of reference-counted objects made of block chains, and handles    *)
(* that pair a table slot with the generation the slot had when the object *)
(* was allocated.                                                          *)
(*                                                                         *)
(* The pool is single-context (audio_pool.h, "Concurrency"): an operation  *)
(* is one step.  Operations that give up before they change anything (bad  *)
(* handle, no space, no slot) are stuttering steps and have no action.     *)
(* A chain is the SET of its blocks: nothing here reads the payload, and   *)
(* the free block the bitset's rolling hint picks is any free block.       *)
(***************************************************************************)
EXTENDS Integers, FiniteSets, Sequences

CONSTANTS
  Blocks,        \* the blocks the region is cut into
  MaxObjects,    \* AUDIO_POOL_MAX_OBJECTS, the size of the object table
  Generations,   \* number of values of the uint16_t generation (65536)
  VMs            \* owner_vm values

ASSUME PoolAssumption ==
  /\ IsFiniteSet(Blocks)
  /\ MaxObjects \in Nat \ {0}
  /\ Generations \in Nat /\ Generations > 2
  /\ IsFiniteSet(VMs) /\ VMs \subseteq Nat

VARIABLES
  usedMap,       \* blocks whose bit is set in used_map
  freeBlocks,    \* free_blocks, the counter kept beside the bitset
  objects,       \* the object table
  generations,   \* generation the next object of each slot will get
  deadObjects    \* history: per slot, the generations of its freed objects,
                 \* newest last, as far back as they can be told apart

poolVars == <<usedMap, freeBlocks, objects, generations, deadObjects>>

Slots == 0 .. MaxObjects - 1
Gens == 1 .. Generations - 1
Handles == [slot : Slots, gen : Gens]
NoHandle == [slot |-> -1, gen |-> 0]     \* AUDIO_POOL_HANDLE_NONE

\* A descriptor as memset leaves it.
FreeObject == [inUse |-> FALSE, refcount |-> 0, generation |-> 0,
               ownerVm |-> 0, chain |-> {}]

InUse(s) == objects[s].inUse

\* The handle of the object that occupies slot s.
HandleOf(s) == [slot |-> s, gen |-> objects[s].generation]

\* resolve(): the handle names a live object, and of the right generation.
Resolves(h) == h.slot \in Slots /\ InUse(h.slot) /\ h = HandleOf(h.slot)

\* find_free_slot(): the lowest slot that is not in use.
IsFirstFreeSlot(s) == ~InUse(s) /\ \A r \in Slots : r < s => InUse(r)

\* Bug: a freed slot keeps its generation.
NextGenerationKept(g) == g

\* The generation counter wraps past 0, which only a zeroed handle carries.
NextGeneration(g) == IF g = Generations - 1 THEN 1 ELSE g + 1

\* History: remember that generation g of a slot or track is over.  Handles
\* of the last Generations - 2 generations differ from the current one.
Remember(past, g) ==
  LET all == Append(past, g)
  IN  IF Len(all) > Generations - 2 THEN Tail(all) ELSE all

PoolInit ==
  /\ usedMap = {}
  /\ freeBlocks = Cardinality(Blocks)
  /\ objects = [s \in Slots |-> FreeObject]
  /\ generations = [s \in Slots |-> 1]
  /\ deadObjects = [s \in Slots |-> <<>>]

(***************************************************************************)
(* Operations.                                                             *)
(***************************************************************************)

\* audio_pool_alloc() of an object of `need' blocks into slot s: the chain
\* is built from free blocks, the creator holds the first reference.
AllocObject(s, vm, need, chain) ==
  /\ need <= freeBlocks
  /\ IsFirstFreeSlot(s)
  /\ chain \subseteq Blocks \ usedMap /\ Cardinality(chain) = need
  /\ usedMap' = usedMap \cup chain
  /\ freeBlocks' = freeBlocks - need
  /\ objects' = [objects EXCEPT ![s] =
                   [inUse |-> TRUE, refcount |-> 1,
                    generation |-> generations[s],
                    ownerVm |-> vm, chain |-> chain]]
  /\ UNCHANGED <<generations, deadObjects>>

\* audio_pool_ref().
RefObject(h) ==
  /\ Resolves(h)
  /\ objects' = [objects EXCEPT ![h.slot].refcount = @ + 1]
  /\ UNCHANGED <<usedMap, freeBlocks, generations, deadObjects>>

\* Bug: an object goes although one reference is left.
LastDroppedEarly(k) == {s \in Slots : /\ InUse(s)
                                      /\ k[s] > 0
                                      /\ objects[s].refcount <= k[s] + 1}

\* The slots whose last reference goes when k[s] references are dropped.
LastDropped(k) == {s \in Slots : /\ InUse(s)
                                 /\ k[s] > 0
                                 /\ objects[s].refcount <= k[s]}

\* Bug: only one block of a chain is given back.
ReclaimedHeads(freed) ==
  {CHOOSE b \in objects[s].chain : TRUE : s \in freed}

\* Blocks free_chain() gives back; a block is counted only if its bit is set.
Reclaimed(freed) == {b \in usedMap : \E s \in freed : b \in objects[s].chain}

\* Drop k[s] references of the object in each slot s, one after the other:
\* an object whose count reaches zero is freed by free_object().
DropReferences(k) ==
  LET freed == LastDropped(k) IN
  /\ objects' = [s \in Slots |->
                   IF s \in freed THEN FreeObject
                   ELSE [objects[s] EXCEPT !.refcount = @ - k[s]]]
  /\ usedMap' = usedMap \ Reclaimed(freed)
  /\ freeBlocks' = freeBlocks + Cardinality(Reclaimed(freed))
  /\ generations' = [s \in Slots |->
                       IF s \in freed THEN NextGeneration(generations[s])
                       ELSE generations[s]]
  /\ deadObjects' = [s \in Slots |->
                       IF s \in freed
                       THEN Remember(deadObjects[s], objects[s].generation)
                       ELSE deadObjects[s]]

\* audio_pool_unref(): one reference of the object h names, if it names one.
UnrefObject(h) ==
  DropReferences([s \in Slots |-> IF Resolves(h) /\ s = h.slot THEN 1 ELSE 0])

\* audio_pool_sweep_vm(): one reference of every object the VM created.
SweepObjects(vm) ==
  DropReferences([s \in Slots |->
                    IF InUse(s) /\ objects[s].ownerVm = vm THEN 1 ELSE 0])

(***************************************************************************)
(* What the pool promises whatever its callers do.                         *)
(***************************************************************************)

\* Every block belongs to at most one chain, exactly the chained blocks have
\* their bit set, and the counter that audio_pool_alloc() trusts before it
\* builds a chain agrees with the bitset (audio_pool.c:51-68, 144-161).
BlockAccounting ==
  /\ \A s, r \in Slots : s # r => objects[s].chain \cap objects[r].chain = {}
  /\ \A b \in Blocks : b \in usedMap <=> \E s \in Slots : b \in objects[s].chain
  /\ freeBlocks = Cardinality(Blocks) - Cardinality(usedMap)

\* No handle of an object that is gone names the object that took its slot,
\* or will name the next one to take it (audio_pool.h:34-38): the generation
\* counter has to come all the way round before a handle is valid again.
StaleObjectsRejected ==
  \A s \in Slots : \A i \in DOMAIN deadObjects[s] :
    /\ ~Resolves([slot |-> s, gen |-> deadObjects[s][i]])
    /\ generations[s] # deadObjects[s][i]
=============================================================================
