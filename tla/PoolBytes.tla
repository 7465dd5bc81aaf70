----------------------------- MODULE PoolBytes -----------------------------
(***************************************************************************)
(* The bytes of the sample pool: engine/audio/audio_pool.c builds an       *)
(* object's chain from the lowest free blocks, and reads and writes it     *)
(* across them; audio_pool_stream.c gives the music player the frames of   *)
(* two objects. Reference counts and owners are AudioPool's.               *)
(***************************************************************************)
EXTENDS Bitset

CONSTANTS
  BlockSize,    \* AUDIO_POOL_BLOCK_SIZE
  ObjectSlots,  \* AUDIO_POOL_MAX_OBJECTS
  SlotGens      \* 2^16: the values of a uint16_t, of which 0 is no generation

ASSUME PoolBytesAssumption ==
  BlockSize \in Nat \ {0} /\ ObjectSlots \in Nat /\ SlotGens \in Nat \ {0, 1}

NoBlock == -1
NoObject == [used |-> FALSE, head |-> NoBlock, size |-> 0]
NoHandleHere == [slot |-> 0, gen |-> 0]
Unwritten == 0

BytesInit ==
  [map |-> BitInit, next |-> [b \in 0 .. SetBits - 1 |-> NoBlock],
   region |-> [i \in 0 .. SetBits * BlockSize - 1 |-> Unwritten],
   objects |-> [s \in 1 .. ObjectSlots |-> NoObject],
   gens |-> [s \in 1 .. ObjectSlots |-> 1]]

Resolved(p, h) ==
  h.slot \in 1 .. ObjectSlots /\ p.objects[h.slot].used /\ h.gen = p.gens[h.slot]

Needed(size) == Max({1, (size + BlockSize - 1) \div BlockSize})
FreeBlocks(p) == SetBits - Popcount(p.map)

\* audio_pool_alloc(): a chain of blocks, each the lowest that is free.
AllocBytes(p, size) ==
  LET slots == {s \in 1 .. ObjectSlots : ~p.objects[s].used}
      slot == Min(slots)
      Linked(c, i) ==
        LET hit == FirstClear(c.map)
        IN  [map |-> BitSet(hit.bs, hit.bit), last |-> hit.bit,
             head |-> IF c.last = NoBlock THEN hit.bit ELSE c.head,
             next |-> [b \in DOMAIN c.next |->
                         IF b = c.last THEN hit.bit ELSE IF b = hit.bit THEN NoBlock ELSE c.next[b]]]
      chain == FoldLeft(Linked, [map |-> p.map, last |-> NoBlock, head |-> NoBlock, next |-> p.next],
                        [i \in 1 .. Needed(size) |-> i])
  IN  IF Needed(size) > FreeBlocks(p) \/ slots = {} THEN [pool |-> p, handle |-> NoHandleHere]
      ELSE [pool |-> [p EXCEPT !.map = chain.map, !.next = chain.next,
                               !.objects[slot] = [used |-> TRUE, head |-> chain.head, size |-> size]],
            handle |-> [slot |-> slot, gen |-> p.gens[slot]]]

\* The blocks of a chain from a block on.
ChainFrom(p, head) ==
  FoldLeft(LAMBDA c, i : IF c = <<>> \/ p.next[Last(c)] = NoBlock THEN c ELSE Append(c, p.next[Last(c)]),
           IF head = NoBlock THEN <<>> ELSE <<head>>, [i \in 1 .. SetBits |-> i])

\* The next generation of a slot; 0 is skipped.
Bumped(gen) == IF (gen + 1) % SlotGens = 0 THEN 1 ELSE (gen + 1) % SlotGens

\* free_object() of the last reference: the chain, block by block.
FreeBytes(p, h) ==
  LET chain == ChainFrom(p, p.objects[h.slot].head)
  IN  IF ~Resolved(p, h) THEN p
      ELSE [p EXCEPT !.map = FoldLeft(BitClear, p.map, chain),
                     !.next = [b \in DOMAIN p.next |-> IF b \in ToSet(chain) THEN NoBlock ELSE p.next[b]],
                     !.objects[h.slot] = NoObject,
                     !.gens[h.slot] = Bumped(@)]

\* seek_block(): where a byte of an object is in the region. Bug: the chain is
\* taken to be in the order of the region.
PlacesInOrder(p, object, offset, n) ==
  [i \in 1 .. n |-> object.head * BlockSize + offset + i - 1]

Places(p, object, offset, n) ==
  LET chain == ChainFrom(p, object.head)
  IN  [i \in 1 .. n |->
         chain[1 + (offset + i - 1) \div BlockSize] * BlockSize + ((offset + i - 1) % BlockSize)]

\* How much of n bytes at an offset an object has.
Room(object, offset, n) ==
  IF offset >= object.size THEN 0 ELSE Min({n, object.size - offset})

\* audio_pool_read(), audio_pool_write().
ReadBytes(p, h, offset, n) ==
  IF ~Resolved(p, h) THEN <<>>
  ELSE LET object == p.objects[h.slot]
           at == Places(p, object, offset, Room(object, offset, n))
       IN  [i \in DOMAIN at |-> p.region[at[i]]]
WriteBytes(p, h, offset, bytes) ==
  IF ~Resolved(p, h) THEN p
  ELSE LET object == p.objects[h.slot]
           at == Places(p, object, offset, Room(object, offset, Len(bytes)))
       IN  [p EXCEPT !.region =
              [i \in DOMAIN @ |-> IF i \in ToSet(at) THEN bytes[CHOOSE j \in DOMAIN at : at[j] = i]
                                  ELSE @[i]]]

(***************************************************************************)
(* audio_pool_stream.c: two stream ids, each bound to an object.           *)
(***************************************************************************)
NoStream == -1
Unbound == [id |-> NoStream, handle |-> NoHandleHere]
StreamsInit == <<Unbound, Unbound>>

\* audio_pool_stream_bind(): an id that is bound changes its object or gives up
\* its place, another takes a free place.
Bind(ctx, id, handle) ==
  LET bound == {i \in 1 .. 2 : ctx[i].id = id /\ id # NoStream}
      free == {i \in 1 .. 2 : ctx[i].id = NoStream}
  IN  CASE bound # {} -> [ctx EXCEPT ![Min(bound)] =
                            IF handle = NoHandleHere THEN Unbound ELSE [id |-> id, handle |-> handle]]
        [] bound = {} /\ handle # NoHandleHere /\ free # {} ->
             [ctx EXCEPT ![Min(free)] = [id |-> id, handle |-> handle]]
        [] OTHER -> ctx

HandleBound(ctx, id) ==
  LET bound == {i \in 1 .. 2 : ctx[i].id = id /\ id # NoStream}
  IN  IF bound = {} THEN NoHandleHere ELSE ctx[Min(bound)].handle

\* audio_pool_stream_read(): whole frames of two bytes, doubled for the other side.
StreamFrames(p, ctx, id, offset, n, promote) ==
  LET bytes == ReadBytes(p, HandleBound(ctx, id), 2 * offset, 2 * n)
  IN  [i \in 1 .. Len(bytes) \div 2 |->
         LET frame == <<bytes[2 * i - 1], bytes[2 * i]>> IN IF promote THEN frame \o frame ELSE frame]
=============================================================================
