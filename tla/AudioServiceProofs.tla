------------------------- MODULE AudioServiceProofs -------------------------
(***************************************************************************)
(* Proofs about the audio service: voices and the resources behind them    *)
(* stay together, channels hold their own voice's frames, and the command  *)
(* window can stop every stream it started, for any number of tracks and   *)
(* any sizes.                                                              *)
(***************************************************************************)
EXTENDS AudioService, FiniteSetTheorems, TLAPS

SlotType == [inUse : BOOLEAN, track : Tracks, source : {"none", "file", "ring"},
             open : BOOLEAN]
ChanType == [active : BOOLEAN, frames : 0 .. ChannelSize, of : Nat]
VoiceType == [track : Tracks, gen : Nat]

SvcType ==
  [kind : [Tracks -> {"free", "sfx", "music"}], gen : [Tracks -> Nat],
   object : [Tracks -> Nat], next : [Tracks -> Nat], slots : [Tracks -> SlotType],
   chan : [Tracks -> ChanType], ring : 0 .. RingSize]

\* A voice that plays is the last its track was given.
VoicesInOrder(s) ==
  \A t \in Tracks :
    /\ s.next[t] \in 1 .. MaxGen + 2
    /\ s.kind[t] # "free" => s.gen[t] = s.next[t] /\ s.next[t] <= MaxGen + 1

\* A slot in use is a stream's, a stream has a slot, and no stream has two.
SlotsInOrder(s) ==
  /\ \A i \in Tracks :
       /\ s.slots[i].inUse => s.kind[s.slots[i].track] = "music"
       /\ s.slots[i].open <=> s.slots[i].inUse /\ s.slots[i].source = "file"
  /\ \A t \in Tracks : s.kind[t] = "music" =>
       \E i \in Tracks : s.slots[i].inUse /\ s.slots[i].track = t
  /\ \A i, j \in Tracks :
       s.slots[i].inUse /\ s.slots[j].inUse /\ s.slots[i].track = s.slots[j].track
         => i = j

\* What a channel holds is of the voice that plays on its track.
ChannelsClean(s) ==
  \A t \in Tracks : s.chan[t].frames > 0 =>
    s.kind[t] # "free" /\ s.chan[t].of = s.gen[t]

\* The voice a channel's frames are of is one its track has been given.
ChannelsOf(s) == \A t \in Tracks : s.chan[t].of <= MaxGen + 1

SvcOK(s) ==
  /\ s \in SvcType
  /\ VoicesInOrder(s) /\ SlotsInOrder(s) /\ ChannelsClean(s) /\ ChannelsOf(s)

FrontOK ==
  /\ objects \in [1 .. Loaded -> Lengths] /\ Loaded \in Nat
  /\ sfx \in [0 .. SfxSlots - 1 -> 0 .. Loaded]
  /\ nsfx \in 0 .. SfxSlots
  /\ music \in VoiceType /\ tone \in VoiceType /\ toneOn \in BOOLEAN

IInv == SvcOK(svc) /\ FrontOK /\ WindowOwnsMusic

-----------------------------------------------------------------------------
(* Numbers and slots.                                                      *)

\* The sizes are positive.
LEMMA Sizes ==
  /\ TrackCount \in Nat \ {0} /\ SfxSlots \in Nat \ {0} /\ ChannelSize \in Nat \ {0}
  /\ LowFill \in Nat \ {0} /\ RingSize \in Nat \ {0} /\ Quantum \in Nat \ {0}
  /\ MaxGen \in Nat \ {0} /\ MaxLoads \in Nat \ {0}
  /\ LowFill <= ChannelSize /\ Lengths \subseteq Nat \ {0}
  /\ Tracks \subseteq Nat /\ 0 \in Tracks
<1>1. {TrackCount, SfxSlots, ChannelSize, LowFill, RingSize, Quantum,
       MaxGen, MaxLoads} \subseteq Nat \ {0}
  BY ServiceAssumption
<1>2. /\ TrackCount \in Nat \ {0} /\ SfxSlots \in Nat \ {0} /\ ChannelSize \in Nat \ {0}
      /\ LowFill \in Nat \ {0} /\ RingSize \in Nat \ {0} /\ Quantum \in Nat \ {0}
      /\ MaxGen \in Nat \ {0} /\ MaxLoads \in Nat \ {0}
  BY <1>1
<1>3. Tracks \subseteq Nat /\ 0 \in Tracks
  BY <1>2 DEF Tracks
<1> QED
  BY <1>2, <1>3, ServiceAssumption

\* The least of some naturals is one of them.
LEMMA LeastIsIn ==
  ASSUME NEW S \in SUBSET Nat, S # {}
  PROVE  Least(S) \in S
<1>1. PICK n \in S : \A m \in S : ~(<<m, n>> \in OpToRel(<, Nat))
  BY NatLessThanWellFounded, WFMin
<1>2. ASSUME NEW m \in S PROVE n <= m
  <2>1. ~(m < n)
    BY <1>1 DEF OpToRel
  <2>2. m \in Nat /\ n \in Nat
    OBVIOUS
  <2> QED
    BY <2>1, <2>2
<1>3. \E k \in S : \A m \in S : k <= m
  BY <1>2
<1> QED
  BY <1>3 DEF Least

\* A track that is free leaves a slot free: a slot in use is another stream's.
LEMMA SlotLeft ==
  ASSUME NEW s \in SvcType, SlotsInOrder(s), NEW t \in FreeTracks(s)
  PROVE  FreeSlots(s) # {}
<1> SUFFICES ASSUME FreeSlots(s) = {} PROVE FALSE
  OBVIOUS
<1>1. t \in Tracks /\ s.kind[t] = "free"
  BY DEF FreeTracks
<1>2. IsFiniteSet(Tracks) /\ Cardinality(Tracks) = TrackCount
  BY Sizes, FS_Interval DEF Tracks
<1>3. IsFiniteSet(Tracks \ {t}) /\ Cardinality(Tracks \ {t}) = TrackCount - 1
  BY <1>1, <1>2, FS_RemoveElement
<1>4. \A i \in Tracks : s.slots[i].inUse
  BY DEF FreeSlots
<1> DEFINE f == [i \in Tracks |-> s.slots[i].track]
<1>5. f \in [Tracks -> Tracks \ {t}]
  <2>1. ASSUME NEW i \in Tracks PROVE s.slots[i].track \in Tracks \ {t}
    <3>1. s.slots[i].track \in Tracks
      BY DEF SvcType, SlotType
    <3>2. s.kind[s.slots[i].track] = "music"
      BY <1>4 DEF SlotsInOrder
    <3> QED
      BY <1>1, <3>1, <3>2
  <2> QED
    BY <2>1
<1>6. Cardinality(Tracks \ {t}) < Cardinality(Tracks)
  BY <1>2, <1>3, Sizes
<1> DEFINE T == Tracks \ {t}
<1> HIDE DEF f, T
<1>7. \E i, j \in Tracks : i # j /\ f[i] = f[j]
  <2>1. IsFiniteSet(T) /\ Cardinality(T) < Cardinality(Tracks) /\ f \in [Tracks -> T]
    BY <1>3, <1>5, <1>6 DEF T
  <2> QED
    BY <1>2, <2>1, FS_PigeonHole
<1> QED
  BY <1>4, <1>7 DEF SlotsInOrder, f

\* The voice that is started next.
LEMMA NextVoiceIs ==
  ASSUME NEW s \in SvcType, HasRoom(s)
  PROVE  /\ NextVoice(s).track \in FreeTracks(s)
         /\ NextVoice(s).gen = s.next[NextVoice(s).track]
         /\ NextVoice(s) = [track |-> NextVoice(s).track,
                            gen |-> s.next[NextVoice(s).track]]
<1>1. FreeTracks(s) \in SUBSET Nat /\ FreeTracks(s) # {}
  BY Sizes DEF FreeTracks, HasRoom
<1> QED
  BY <1>1, LeastIsIn DEF NextVoice

-----------------------------------------------------------------------------
(* What the service's functions make of its record.                        *)

\* Claiming an entry changes that entry and nothing of the sink.
LEMMA ClaimedIs ==
  ASSUME NEW s \in SvcType, HasRoom(s), NEW kind \in {"sfx", "music"}, NEW object \in Nat
  PROVE  /\ Claimed(s, kind, object) \in SvcType
         /\ Claimed(s, kind, object).kind = [s.kind EXCEPT ![NextVoice(s).track] = kind]
         /\ Claimed(s, kind, object).gen =
              [s.gen EXCEPT ![NextVoice(s).track] = s.next[NextVoice(s).track]]
         /\ Claimed(s, kind, object).next = s.next
         /\ Claimed(s, kind, object).slots = s.slots
         /\ Claimed(s, kind, object).chan = s.chan
         /\ Claimed(s, kind, object).ring = s.ring
<1>1. NextVoice(s).track \in Tracks
  BY NextVoiceIs DEF FreeTracks
<1> QED
  BY <1>1 DEF Claimed, SvcType

\* A channel that was reset is empty.
LEMMA SilentIs ==
  /\ Silent \in ChanType /\ Silent.frames = 0 /\ Silent.of = 0 /\ Silent.active = FALSE
BY Sizes DEF Silent, ChanType

\* A stream on its way to a player has the source of a free slot set and the
\* channel of a free track reset, and nothing else of either.
LEMMA StreamOpenedIs ==
  ASSUME NEW s \in SvcType, HasRoom(s), FreeSlots(s) # {}, NEW source \in {"file", "ring"},
         NEW t, t = NextVoice(s).track, NEW i, i = Least(FreeSlots(s)),
         NEW o, o = StreamOpened(s, source)
  PROVE  /\ t \in FreeTracks(s) /\ i \in FreeSlots(s)
         /\ NextVoice(s) = [track |-> t, gen |-> s.next[t]]
         /\ o \in SvcType
         /\ o.kind = s.kind /\ o.gen = s.gen /\ o.next = s.next
         /\ o.chan = [s.chan EXCEPT ![t] = Silent]
         /\ o.slots[i].inUse = s.slots[i].inUse /\ o.slots[i].source = source
         /\ o.slots[i].open <=> source = "file"
         /\ \A j \in Tracks : j # i => o.slots[j] = s.slots[j]
<1> DEFINE slot == [s.slots[i] EXCEPT !.source = source, !.open = source = "file"]
<1>1. /\ t \in FreeTracks(s) /\ t \in Tracks
      /\ NextVoice(s) = [track |-> t, gen |-> s.next[t]]
  BY NextVoiceIs DEF FreeTracks
<1>2. i \in FreeSlots(s) /\ i \in Tracks
  <2>1. FreeSlots(s) \in SUBSET Nat
    BY Sizes DEF FreeSlots
  <2> QED
    BY <2>1, LeastIsIn DEF FreeSlots
<1>3. /\ slot \in SlotType /\ slot.inUse = s.slots[i].inUse /\ slot.source = source
      /\ slot.open <=> source = "file"
  <2>1. s.slots[i] \in SlotType
    BY <1>2 DEF SvcType
  <2> QED
    BY <2>1 DEF SlotType
<1>4. o = [s EXCEPT !.slots[i] = slot, !.ring = IF source = "ring" THEN 0 ELSE @,
                    !.chan[t] = Silent]
  BY Zenon DEF StreamOpened
<1> HIDE DEF slot
<1>5. (IF source = "ring" THEN 0 ELSE s.ring) \in 0 .. RingSize
  BY Sizes DEF SvcType
<1>6. /\ o.kind = s.kind /\ o.gen = s.gen /\ o.next = s.next
      /\ o.slots = [s.slots EXCEPT ![i] = slot] /\ o.chan = [s.chan EXCEPT ![t] = Silent]
  BY <1>4 DEF SvcType
<1>7. [s.slots EXCEPT ![i] = slot] \in [Tracks -> SlotType]
  BY <1>2, <1>3 DEF SvcType
<1>8. [s.chan EXCEPT ![t] = Silent] \in [Tracks -> ChanType]
  BY <1>1, SilentIs DEF SvcType
<1>9. o \in SvcType
  BY <1>4, <1>5, <1>7, <1>8 DEF SvcType
<1>10. o.slots[i] = slot /\ \A j \in Tracks : j # i => o.slots[j] = s.slots[j]
  BY <1>2, <1>6 DEF SvcType
<1> QED
  BY <1>1, <1>2, <1>3, <1>6, <1>9, <1>10

\* Starting a stream claims a free track and a free slot.
LEMMA MusicStartedIs ==
  ASSUME NEW s \in SvcType, HasRoom(s), SlotsInOrder(s), NEW source \in {"file", "ring"},
         NEW t, t = NextVoice(s).track, NEW i, i = Least(FreeSlots(s)),
         NEW m, m = MusicStarted(s, source)
  PROVE  /\ t \in FreeTracks(s) /\ i \in FreeSlots(s)
         /\ NextVoice(s) = [track |-> t, gen |-> s.next[t]]
         /\ m \in SvcType
         /\ m.kind = [s.kind EXCEPT ![t] = "music"]
         /\ m.gen = [s.gen EXCEPT ![t] = s.next[t]]
         /\ m.next = s.next
         /\ m.slots[i].inUse /\ m.slots[i].track = t /\ m.slots[i].source = source
         /\ m.slots[i].open <=> source = "file"
         /\ \A j \in Tracks : j # i => m.slots[j] = s.slots[j]
         /\ m.chan[t].frames = 0 /\ m.chan[t].of = 0
         /\ \A u \in Tracks : u # t => m.chan[u] = s.chan[u]
<1> DEFINE o == StreamOpened(s, source)
           c == Claimed(o, "music", 0)
           slot == [o.slots[i] EXCEPT !.inUse = TRUE, !.track = t]
           chan == [Silent EXCEPT !.active = TRUE]
<1>1. FreeSlots(s) # {}
  <2>1. NextVoice(s).track \in FreeTracks(s)
    BY NextVoiceIs
  <2> QED
    BY <2>1, SlotLeft
<1>2. /\ t \in FreeTracks(s) /\ i \in FreeSlots(s)
      /\ NextVoice(s) = [track |-> t, gen |-> s.next[t]]
      /\ o \in SvcType
      /\ o.kind = s.kind /\ o.gen = s.gen /\ o.next = s.next
      /\ o.chan = [s.chan EXCEPT ![t] = Silent]
      /\ o.slots[i].source = source /\ (o.slots[i].open <=> source = "file")
      /\ \A j \in Tracks : j # i => o.slots[j] = s.slots[j]
  BY <1>1, StreamOpenedIs
<1> HIDE DEF o
<1>3. t \in Tracks /\ i \in Tracks
  BY <1>2 DEF FreeTracks, FreeSlots
<1>4. NextVoice(o) = NextVoice(s) /\ HasRoom(o)
  BY <1>2 DEF NextVoice, HasRoom, FreeTracks
<1>5. /\ c \in SvcType
      /\ c.kind = [o.kind EXCEPT ![t] = "music"] /\ c.gen = [o.gen EXCEPT ![t] = o.next[t]]
      /\ c.next = o.next /\ c.slots = o.slots /\ c.chan = o.chan
  <2>1. NextVoice(o).track = t
    BY <1>4
  <2>2. /\ c \in SvcType
        /\ c.kind = [o.kind EXCEPT ![NextVoice(o).track] = "music"]
        /\ c.gen = [o.gen EXCEPT ![NextVoice(o).track] = o.next[NextVoice(o).track]]
        /\ c.next = o.next /\ c.slots = o.slots /\ c.chan = o.chan
    <3>1. o \in SvcType /\ HasRoom(o)
      BY <1>2, <1>4
    <3> QED
      BY <3>1, ClaimedIs
  <2> QED
    BY <2>1, <2>2
<1>6. m = [c EXCEPT !.slots[i] = [c.slots[i] EXCEPT !.inUse = TRUE, !.track = t],
                    !.chan[t] = chan]
  BY Zenon DEF MusicStarted, o
<1>7. m = [c EXCEPT !.slots[i] = slot, !.chan[t] = chan]
  BY <1>5, <1>6
<1>8. /\ slot \in SlotType /\ slot.inUse /\ slot.track = t /\ slot.source = source
      /\ slot.open <=> source = "file"
  <2>1. o.slots[i] \in SlotType
    BY <1>2, <1>3 DEF SvcType
  <2> QED
    BY <1>2, <1>3, <2>1 DEF SlotType
<1>9. chan \in ChanType /\ chan.frames = 0 /\ chan.of = 0
  BY SilentIs DEF ChanType
<1> HIDE DEF c, slot, chan
<1>10. /\ m.kind = c.kind /\ m.gen = c.gen /\ m.next = c.next
       /\ m.slots = [c.slots EXCEPT ![i] = slot] /\ m.chan = [c.chan EXCEPT ![t] = chan]
  BY <1>5, <1>7 DEF SvcType
<1>11. m \in SvcType
  <2>1. [c.slots EXCEPT ![i] = slot] \in [Tracks -> SlotType]
    BY <1>3, <1>5, <1>8 DEF SvcType
  <2>2. [c.chan EXCEPT ![t] = chan] \in [Tracks -> ChanType]
    BY <1>3, <1>5, <1>9 DEF SvcType
  <2> QED
    BY <1>5, <1>7, <2>1, <2>2 DEF SvcType
<1>12. m.chan[t] = chan /\ \A u \in Tracks : u # t => m.chan[u] = s.chan[u]
  BY <1>2, <1>3, <1>5, <1>10 DEF SvcType
<1>13. m.slots[i] = slot /\ \A j \in Tracks : j # i => m.slots[j] = s.slots[j]
  BY <1>2, <1>3, <1>5, <1>10 DEF SvcType
<1> QED
  BY <1>2, <1>5, <1>8, <1>9, <1>10, <1>11, <1>12, <1>13

\* A stream without a player leaves the free slot it was given free and shut, and
\* the channel of its track empty.
LEMMA MusicFailedIs ==
  ASSUME NEW s \in SvcType, HasRoom(s), FreeSlots(s) # {}, NEW source \in {"file", "ring"},
         NEW m, m = MusicFailed(s, source)
  PROVE  \E t \in FreeTracks(s), i \in FreeSlots(s) :
           /\ m \in SvcType /\ m.kind = s.kind /\ m.gen = s.gen /\ m.next = s.next
           /\ ~m.slots[i].inUse /\ ~m.slots[i].open
           /\ \A j \in Tracks : j # i => m.slots[j] = s.slots[j]
           /\ m.chan[t] = Silent /\ \A u \in Tracks : u # t => m.chan[u] = s.chan[u]
<1> DEFINE o == StreamOpened(s, source)
           t == NextVoice(s).track
           i == Least(FreeSlots(s))
           slot == [o.slots[i] EXCEPT !.source = "none", !.open = FALSE]
<1>1. /\ t \in FreeTracks(s) /\ i \in FreeSlots(s) /\ o \in SvcType
      /\ o.kind = s.kind /\ o.gen = s.gen /\ o.next = s.next
      /\ o.chan = [s.chan EXCEPT ![t] = Silent]
      /\ o.slots[i].inUse = s.slots[i].inUse
      /\ \A j \in Tracks : j # i => o.slots[j] = s.slots[j]
  BY StreamOpenedIs
<1>2. m = [o EXCEPT !.slots[i] = slot]
  BY Zenon DEF MusicFailed
<1> HIDE DEF o, t, i
<1>3. t \in Tracks /\ i \in Tracks /\ ~s.slots[i].inUse
  BY <1>1 DEF FreeTracks, FreeSlots
<1>4. slot \in SlotType /\ ~slot.inUse /\ ~slot.open
  <2>1. o.slots[i] \in SlotType
    BY <1>1, <1>3 DEF SvcType
  <2> QED
    BY <1>1, <1>3, <2>1 DEF SlotType
<1> HIDE DEF slot
<1>5. [o.slots EXCEPT ![i] = slot] \in [Tracks -> SlotType]
  BY <1>1, <1>3, <1>4 DEF SvcType
<1>6. /\ m \in SvcType /\ m.kind = o.kind /\ m.gen = o.gen /\ m.next = o.next
      /\ m.chan = o.chan /\ m.slots = [o.slots EXCEPT ![i] = slot]
  BY <1>1, <1>2, <1>5 DEF SvcType
<1>7. m.slots[i] = slot /\ \A j \in Tracks : j # i => m.slots[j] = s.slots[j]
  BY <1>1, <1>3, <1>6 DEF SvcType
<1>8. m.chan[t] = Silent /\ \A u \in Tracks : u # t => m.chan[u] = s.chan[u]
  BY <1>1, <1>3, <1>6 DEF SvcType
<1> QED
  BY <1>1, <1>4, <1>6, <1>7, <1>8

\* Starting a one-shot claims a free track and fills its channel.
LEMMA SfxStartedIs ==
  ASSUME NEW s \in SvcType, HasRoom(s), NEW object \in Nat, objects[object] \in Nat
  PROVE  \E t \in FreeTracks(s) :
           /\ SfxStarted(s, object) \in SvcType
           /\ SfxStarted(s, object).kind = [s.kind EXCEPT ![t] = "sfx"]
           /\ SfxStarted(s, object).gen = [s.gen EXCEPT ![t] = s.next[t]]
           /\ SfxStarted(s, object).next = s.next
           /\ SfxStarted(s, object).slots = s.slots
           /\ SfxStarted(s, object).chan[t].of = s.next[t]
           /\ \A u \in Tracks : u # t => SfxStarted(s, object).chan[u] = s.chan[u]
<1> DEFINE v == NextVoice(s)
           t == v.track
           c == Claimed(s, "sfx", object)
           m == SfxStarted(s, object)
           frames == Smaller(objects[object], ChannelSize)
           chan == [active |-> TRUE, of |-> v.gen, frames |-> frames]
<1>1. t \in FreeTracks(s) /\ t \in Tracks /\ v.gen = s.next[t] /\ s.next[t] \in Nat
  BY NextVoiceIs DEF FreeTracks, SvcType
<1>2. /\ c \in SvcType
      /\ c.kind = [s.kind EXCEPT ![t] = "sfx"] /\ c.gen = [s.gen EXCEPT ![t] = s.next[t]]
      /\ c.next = s.next /\ c.slots = s.slots /\ c.chan = s.chan /\ c.ring = s.ring
  BY ClaimedIs
<1>3. m = [c EXCEPT !.chan[t] = chan]
  BY Zenon DEF SfxStarted
<1>4. frames \in 0 .. ChannelSize
  BY Sizes DEF Smaller
<1> HIDE DEF frames
<1>5. chan \in ChanType /\ chan.of = s.next[t]
  BY <1>1, <1>4 DEF ChanType
<1> HIDE DEF v, t, c, m, chan
<1>6. /\ m.kind = c.kind /\ m.gen = c.gen /\ m.next = c.next /\ m.slots = c.slots
      /\ m.chan = [c.chan EXCEPT ![t] = chan]
  BY <1>2, <1>3 DEF SvcType
<1>7. m \in SvcType
  <2>1. [c.chan EXCEPT ![t] = chan] \in [Tracks -> ChanType]
    BY <1>1, <1>2, <1>5 DEF SvcType
  <2> QED
    BY <1>2, <1>3, <2>1 DEF SvcType
<1>8. m.chan[t] = chan /\ \A u \in Tracks : u # t => m.chan[u] = s.chan[u]
  BY <1>1, <1>2, <1>6 DEF SvcType
<1> QED
  BY <1>1, <1>2, <1>5, <1>6, <1>7, <1>8 DEF m

\* Stopping the tracks of T frees them, their slots and their channels, and
\* makes their voices' handles stale.
LEMMA StoppedIs ==
  ASSUME NEW s \in SvcType, NEW T \in SUBSET Tracks
  PROVE  /\ Stopped(s, T) \in SvcType
         /\ Stopped(s, T).gen = s.gen
         /\ \A t \in Tracks :
              /\ Stopped(s, T).kind[t] = IF t \in T THEN "free" ELSE s.kind[t]
              /\ Stopped(s, T).next[t] = IF t \in T THEN s.next[t] + 1 ELSE s.next[t]
              /\ Stopped(s, T).chan[t] = IF t \in T THEN Silent ELSE s.chan[t]
         /\ \A i \in Tracks :
              Stopped(s, T).slots[i] = IF s.slots[i].inUse /\ s.slots[i].track \in T
                                       THEN FreeSlot ELSE s.slots[i]
<1> DEFINE p == Stopped(s, T)
           slots == [i \in Tracks |-> IF s.slots[i].inUse /\ s.slots[i].track \in T
                                      THEN FreeSlot ELSE s.slots[i]]
           chan == [t \in Tracks |-> IF t \in T THEN Silent ELSE s.chan[t]]
           kind == [t \in Tracks |-> IF t \in T THEN "free" ELSE s.kind[t]]
           next == [t \in Tracks |-> IF t \in T THEN s.next[t] + 1 ELSE s.next[t]]
<1>1. p = [s EXCEPT !.slots = slots, !.chan = chan, !.kind = kind, !.next = next]
  BY DEF Stopped
<1>2. slots \in [Tracks -> SlotType]
  <2>1. FreeSlot \in SlotType
    BY Sizes DEF FreeSlot, SlotType
  <2> QED
    BY <2>1 DEF SvcType
<1>3. chan \in [Tracks -> ChanType]
  BY SilentIs DEF SvcType
<1>4. kind \in [Tracks -> {"free", "sfx", "music"}] /\ next \in [Tracks -> Nat]
  BY DEF SvcType
<1> HIDE DEF p, slots, chan, kind, next
<1>5. /\ p.slots = slots /\ p.chan = chan /\ p.kind = kind /\ p.next = next /\ p.gen = s.gen
      /\ p \in SvcType
  BY <1>1, <1>2, <1>3, <1>4 DEF SvcType
<1> QED
  BY <1>5 DEF p, slots, chan, kind, next

\* What an update adds to a channel fits in it.
LEMMA FramesFit ==
  ASSUME NEW s \in SvcType, NEW i \in Tracks
  PROVE  /\ FramesFor(s, i) \in Nat
         /\ s.chan[s.slots[i].track].frames + FramesFor(s, i) <= ChannelSize
<1> DEFINE q == s.chan[s.slots[i].track].frames
<1>1. q \in 0 .. ChannelSize
  <2>1. s.slots[i].track \in Tracks
    BY DEF SvcType, SlotType
  <2> QED
    BY <2>1 DEF SvcType, ChanType
<1> HIDE DEF q
<1>2. FramesFor(s, i) =
        IF ~s.slots[i].inUse THEN 0
        ELSE IF s.slots[i].source = "file" THEN ChannelSize - q
        ELSE IF q >= LowFill THEN 0 ELSE LowFill - q
  BY DEF FramesFor, q
<1> QED
  BY <1>1, <1>2, Sizes DEF q

\* Updating the players changes nothing but the ring and the channels of
\* tracks that have a slot.
LEMMA UpdatedIs ==
  ASSUME NEW s \in SvcType, NEW left \in [0 .. TrackCount -> 0 .. RingSize]
  PROVE  /\ Updated(s, left) \in SvcType
         /\ Updated(s, left).kind = s.kind /\ Updated(s, left).gen = s.gen
         /\ Updated(s, left).next = s.next /\ Updated(s, left).slots = s.slots
         /\ \A t \in Tracks :
              \/ Updated(s, left).chan[t] = s.chan[t]
              \/ /\ SlotsOf(s, t) # {}
                 /\ \/ Updated(s, left).chan[t].of = s.gen[t]
                    \/ /\ Updated(s, left).chan[t].of = s.chan[t].of
                       /\ \/ Updated(s, left).chan[t].frames = 0
                          \/ s.chan[t].frames > 0
<1> DEFINE u == Updated(s, left)
           I(t) == Least(SlotsOf(s, t))
           N(t) == FramesFor(s, I(t))
           C(t) == [s.chan[t] EXCEPT !.frames = @ + N(t),
                                     !.of = IF N(t) > 0 /\ s.chan[t].frames = 0
                                            THEN s.gen[t] ELSE @]
           chan == [t \in Tracks |-> IF SlotsOf(s, t) = {} THEN s.chan[t] ELSE C(t)]
<1>1. u = [s EXCEPT !.ring = left[TrackCount], !.chan = chan]
  BY DEF Updated
<1>2. ASSUME NEW t \in Tracks, SlotsOf(s, t) # {}
      PROVE  /\ C(t) \in ChanType
             /\ C(t).of = IF N(t) > 0 /\ s.chan[t].frames = 0
                          THEN s.gen[t] ELSE s.chan[t].of
             /\ C(t).frames = 0 \/ s.chan[t].frames > 0 \/ N(t) > 0
  <2>1. I(t) \in SlotsOf(s, t)
    <3>1. SlotsOf(s, t) \in SUBSET Nat
      BY Sizes DEF SlotsOf
    <3> QED
      BY <1>2, <3>1, LeastIsIn
  <2>2. I(t) \in Tracks /\ s.slots[I(t)].track = t
    BY <2>1 DEF SlotsOf
  <2>4. N(t) \in Nat /\ s.chan[t].frames + N(t) <= ChannelSize
    BY <2>2, FramesFit
  <2>5. s.chan[t] \in ChanType /\ s.gen[t] \in Nat /\ s.chan[t].frames \in 0 .. ChannelSize
        /\ s.chan[t].of \in Nat
    BY DEF SvcType, ChanType
  <2> DEFINE n == N(t)
             o == IF n > 0 /\ s.chan[t].frames = 0 THEN s.gen[t] ELSE s.chan[t].of
  <2>6. C(t) = [s.chan[t] EXCEPT !.frames = @ + n, !.of = o]
    BY Zenon
  <2> HIDE DEF n, o, C, N, I
  <2>7. o \in Nat
    BY <2>5 DEF o
  <2>8. n \in Nat /\ s.chan[t].frames + n \in 0 .. ChannelSize
    BY <2>4, <2>5, Sizes DEF n
  <2>9. C(t) \in ChanType /\ C(t).of = o /\ C(t).frames = s.chan[t].frames + n
    BY <2>5, <2>6, <2>7, <2>8 DEF ChanType
  <2>10. C(t).frames = 0 \/ s.chan[t].frames > 0 \/ n > 0
    BY <2>5, <2>8, <2>9
  <2> QED
    BY <2>9, <2>10 DEF n, o
<1> HIDE DEF C, N, I
<1>3. chan \in [Tracks -> ChanType]
  BY <1>2 DEF SvcType
<1>4. left[TrackCount] \in 0 .. RingSize
  BY Sizes
<1>5. \A t \in Tracks : chan[t] = IF SlotsOf(s, t) = {} THEN s.chan[t] ELSE C(t)
  OBVIOUS
<1> HIDE DEF u, chan
<1>6. /\ u \in SvcType /\ u.kind = s.kind /\ u.gen = s.gen /\ u.next = s.next
      /\ u.slots = s.slots /\ u.chan = chan
  BY <1>1, <1>3, <1>4 DEF SvcType
<1>7. ASSUME NEW t \in Tracks
      PROVE  \/ u.chan[t] = s.chan[t]
             \/ /\ SlotsOf(s, t) # {}
                /\ \/ u.chan[t].of = s.gen[t]
                   \/ /\ u.chan[t].of = s.chan[t].of
                      /\ u.chan[t].frames = 0 \/ s.chan[t].frames > 0
  <2>1. s.chan[t].frames = 0 \/ s.chan[t].frames > 0
    BY DEF SvcType, ChanType
  <2> QED
    BY <1>2, <1>5, <1>6, <2>1
<1> QED
  BY <1>6, <1>7 DEF u

\* Mixing only takes from the channels.
LEMMA MixedIs ==
  ASSUME NEW s \in SvcType
  PROVE  /\ Mixed(s) \in SvcType
         /\ Mixed(s).kind = s.kind /\ Mixed(s).gen = s.gen
         /\ Mixed(s).next = s.next /\ Mixed(s).slots = s.slots
         /\ \A t \in Tracks :
              \/ Mixed(s).chan[t] = s.chan[t]
              \/ Mixed(s).chan[t].frames = 0 /\ Mixed(s).chan[t].of = 0
              \/ Mixed(s).chan[t].of = s.chan[t].of /\ s.chan[t].frames > 0
<1> DEFINE C(t) == IF ~s.chan[t].active THEN s.chan[t]
                   ELSE IF s.chan[t].frames <= Quantum
                        THEN [s.chan[t] EXCEPT !.frames = 0, !.of = 0]
                        ELSE [s.chan[t] EXCEPT !.frames = @ - Quantum]
           chan == [t \in Tracks |-> C(t)]
<1>1. Mixed(s) = [s EXCEPT !.chan = chan]
  BY DEF Mixed
<1>2. ASSUME NEW t \in Tracks
      PROVE  /\ C(t) \in ChanType
             /\ \/ C(t) = s.chan[t]
                \/ C(t).frames = 0 /\ C(t).of = 0
                \/ C(t).of = s.chan[t].of /\ s.chan[t].frames > 0
  <2>1. s.chan[t] \in ChanType /\ s.chan[t].frames \in 0 .. ChannelSize
    BY DEF SvcType, ChanType
  <2>2. CASE ~s.chan[t].active
    BY <2>1, <2>2
  <2>3. CASE s.chan[t].active /\ s.chan[t].frames <= Quantum
    <3>1. 0 \in 0 .. ChannelSize
      BY Sizes
    <3>2. C(t) = [s.chan[t] EXCEPT !.frames = 0, !.of = 0]
      BY <2>3
    <3> HIDE DEF C
    <3>3. C(t) \in ChanType /\ C(t).frames = 0 /\ C(t).of = 0
      BY <2>1, <3>1, <3>2, Sizes DEF ChanType
    <3> QED
      BY <3>3 DEF C
  <2>4. CASE s.chan[t].active /\ ~(s.chan[t].frames <= Quantum)
    <3>1. s.chan[t].frames - Quantum \in 0 .. ChannelSize /\ s.chan[t].frames > 0
      BY <2>1, <2>4, Sizes
    <3> QED
      BY <2>1, <2>4, <3>1 DEF ChanType
  <2> QED
    BY <2>2, <2>3, <2>4
<1> HIDE DEF C
<1>3. chan \in [Tracks -> ChanType] /\ \A t \in Tracks : chan[t] = C(t)
  BY <1>2
<1> HIDE DEF chan
<1>4. /\ Mixed(s) \in SvcType /\ Mixed(s).kind = s.kind /\ Mixed(s).gen = s.gen
      /\ Mixed(s).next = s.next /\ Mixed(s).slots = s.slots /\ Mixed(s).chan = chan
  BY <1>1, <1>3 DEF SvcType
<1> QED
  BY <1>2, <1>3, <1>4

-----------------------------------------------------------------------------
(* What they keep.                                                         *)

\* A stream that is started keeps the service in order.
LEMMA MusicStartedOK ==
  ASSUME NEW s, SvcOK(s), HasRoom(s), \A t \in Tracks : s.next[t] <= MaxGen + 1,
         NEW source \in {"file", "ring"}
  PROVE  SvcOK(MusicStarted(s, source))
<1> DEFINE m == MusicStarted(s, source)
           t == NextVoice(s).track
           i == Least(FreeSlots(s))
<1>1. s \in SvcType /\ VoicesInOrder(s) /\ SlotsInOrder(s) /\ ChannelsClean(s) /\ ChannelsOf(s)
  BY DEF SvcOK
<1>2. /\ t \in FreeTracks(s) /\ i \in FreeSlots(s)
      /\ m \in SvcType
      /\ m.kind = [s.kind EXCEPT ![t] = "music"]
      /\ m.gen = [s.gen EXCEPT ![t] = s.next[t]] /\ m.next = s.next
      /\ m.slots[i].inUse /\ m.slots[i].track = t /\ m.slots[i].source = source
      /\ m.slots[i].open <=> source = "file"
      /\ \A j \in Tracks : j # i => m.slots[j] = s.slots[j]
      /\ m.chan[t].frames = 0 /\ m.chan[t].of = 0
      /\ \A u \in Tracks : u # t => m.chan[u] = s.chan[u]
  BY <1>1, MusicStartedIs
<1> HIDE DEF m, t, i
<1>3. t \in Tracks /\ s.kind[t] = "free" /\ i \in Tracks /\ ~s.slots[i].inUse
  BY <1>2 DEF FreeTracks, FreeSlots
<1>4. /\ m.kind[t] = "music" /\ m.gen[t] = s.next[t]
      /\ \A u \in Tracks : u # t => m.kind[u] = s.kind[u] /\ m.gen[u] = s.gen[u]
  BY <1>1, <1>2, <1>3 DEF SvcType
<1>5. VoicesInOrder(m)
  BY <1>1, <1>2, <1>3, <1>4 DEF VoicesInOrder
<1>6. SlotsInOrder(m)
  <2>1. ASSUME NEW j \in Tracks
        PROVE  /\ m.slots[j].inUse => m.kind[m.slots[j].track] = "music"
               /\ m.slots[j].open <=> m.slots[j].inUse /\ m.slots[j].source = "file"
    <3>1. CASE j = i
      BY <1>2, <1>4, <3>1
    <3>2. CASE j # i
      <4>1. s.slots[j].track \in Tracks
        BY <1>1 DEF SvcType, SlotType
      <4>2. s.slots[j].inUse => s.slots[j].track # t
        BY <1>1, <1>3 DEF SlotsInOrder
      <4> QED
        BY <1>1, <1>2, <1>4, <3>2, <4>1, <4>2 DEF SlotsInOrder
    <3> QED
      BY <3>1, <3>2
  <2>2. ASSUME NEW u \in Tracks, m.kind[u] = "music"
        PROVE  \E j \in Tracks : m.slots[j].inUse /\ m.slots[j].track = u
    <3>1. CASE u = t
      BY <1>2, <1>3, <3>1
    <3>2. CASE u # t
      <4>1. PICK j \in Tracks : s.slots[j].inUse /\ s.slots[j].track = u
        BY <1>1, <1>4, <2>2, <3>2 DEF SlotsInOrder
      <4> QED
        BY <1>2, <1>3, <4>1
    <3> QED
      BY <3>1, <3>2
  <2>3. ASSUME NEW j \in Tracks, NEW k \in Tracks, m.slots[j].inUse, m.slots[k].inUse,
               m.slots[j].track = m.slots[k].track
        PROVE  j = k
    <3>1. ASSUME NEW l \in Tracks, l # i, m.slots[l].inUse PROVE m.slots[l].track # t
      BY <1>1, <1>2, <1>3, <3>1 DEF SlotsInOrder
    <3> QED
      BY <1>1, <1>2, <2>3, <3>1 DEF SlotsInOrder
  <2> QED
    BY <2>1, <2>2, <2>3 DEF SlotsInOrder
<1>7. ChannelsClean(m)
  BY <1>1, <1>2, <1>4 DEF ChannelsClean
<1>8. ChannelsOf(m)
  <2>1. 0 <= MaxGen + 1
    BY Sizes
  <2> QED
    BY <1>1, <1>2, <2>1 DEF ChannelsOf
<1> QED
  BY <1>2, <1>5, <1>6, <1>7, <1>8 DEF SvcOK, m

\* So does one that has no player.
LEMMA MusicFailedOK ==
  ASSUME NEW s, SvcOK(s), HasRoom(s), FreeSlots(s) # {}, NEW source \in {"file", "ring"}
  PROVE  /\ SvcOK(MusicFailed(s, source))
         /\ MusicFailed(s, source).kind = s.kind /\ MusicFailed(s, source).next = s.next
<1> DEFINE m == MusicFailed(s, source)
<1>1. s \in SvcType /\ VoicesInOrder(s) /\ SlotsInOrder(s) /\ ChannelsClean(s) /\ ChannelsOf(s)
  BY DEF SvcOK
<1>2. PICK t \in FreeTracks(s), i \in FreeSlots(s) :
        /\ m \in SvcType /\ m.kind = s.kind /\ m.gen = s.gen /\ m.next = s.next
        /\ ~m.slots[i].inUse /\ ~m.slots[i].open
        /\ \A j \in Tracks : j # i => m.slots[j] = s.slots[j]
        /\ m.chan[t] = Silent /\ \A u \in Tracks : u # t => m.chan[u] = s.chan[u]
  BY <1>1, MusicFailedIs
<1> HIDE DEF m
<1>3. VoicesInOrder(m)
  BY <1>1, <1>2 DEF VoicesInOrder
<1>4. i \in Tracks /\ ~s.slots[i].inUse
  BY DEF FreeSlots
<1>5. SlotsInOrder(m)
  <2>1. ASSUME NEW u \in Tracks, m.kind[u] = "music"
        PROVE  \E j \in Tracks : m.slots[j].inUse /\ m.slots[j].track = u
    <3>1. PICK j \in Tracks : s.slots[j].inUse /\ s.slots[j].track = u
      BY <1>1, <1>2, <2>1 DEF SlotsInOrder
    <3> QED
      BY <1>2, <1>4, <3>1
  <2> QED
    BY <1>1, <1>2, <1>4, <2>1 DEF SlotsInOrder
<1>6. ChannelsClean(m)
  BY <1>1, <1>2, SilentIs DEF ChannelsClean
<1>7. ChannelsOf(m)
  <2>1. 0 <= MaxGen + 1
    BY Sizes
  <2> QED
    BY <1>1, <1>2, <2>1, SilentIs DEF ChannelsOf
<1> QED
  BY <1>2, <1>3, <1>5, <1>6, <1>7 DEF SvcOK, m

\* A stream that is asked for keeps the service in order whatever comes of it, and
\* the generations to come as they were.
LEMMA AskedOK ==
  ASSUME NEW s, SvcOK(s), \A t \in Tracks : s.next[t] <= MaxGen + 1,
         NEW source \in {"file", "ring"}, NEW outcome
  PROVE  SvcOK(Asked(s, source, outcome)) /\ Asked(s, source, outcome).next = s.next
<1>1. CASE ~TakesStream(s) \/ outcome = "noFile"
  BY <1>1 DEF Asked
<1>2. CASE HasRoom(s) /\ FreeSlots(s) # {}
  <2>1. SvcOK(MusicFailed(s, source)) /\ MusicFailed(s, source).next = s.next
    BY <1>2, MusicFailedOK
  <2>2. SvcOK(MusicStarted(s, source))
    BY <1>2, MusicStartedOK
  <2>3. MusicStarted(s, source).next = s.next
    <3> DEFINE t == NextVoice(s).track
               i == Least(FreeSlots(s))
               m == MusicStarted(s, source)
    <3>1. s \in SvcType /\ SlotsInOrder(s)
      BY DEF SvcOK
    <3>2. /\ t \in FreeTracks(s) /\ i \in FreeSlots(s)
          /\ m \in SvcType
          /\ m.kind = [s.kind EXCEPT ![t] = "music"]
          /\ m.gen = [s.gen EXCEPT ![t] = s.next[t]] /\ m.next = s.next
      BY <1>2, <3>1, MusicStartedIs
    <3> QED
      BY <3>2
  <2> QED
    BY <2>1, <2>2, <2>3 DEF Asked
<1> QED
  BY <1>1, <1>2 DEF TakesStream

\* So does a one-shot.
LEMMA SfxStartedOK ==
  ASSUME NEW s, SvcOK(s), HasRoom(s), \A t \in Tracks : s.next[t] <= MaxGen + 1,
         NEW object \in Nat, objects[object] \in Nat
  PROVE  SvcOK(SfxStarted(s, object))
<1> DEFINE m == SfxStarted(s, object)
<1>1. s \in SvcType /\ VoicesInOrder(s) /\ SlotsInOrder(s) /\ ChannelsClean(s) /\ ChannelsOf(s)
  BY DEF SvcOK
<1>2. PICK t \in FreeTracks(s) :
        /\ m \in SvcType
        /\ m.kind = [s.kind EXCEPT ![t] = "sfx"]
        /\ m.gen = [s.gen EXCEPT ![t] = s.next[t]] /\ m.next = s.next
        /\ m.slots = s.slots
        /\ m.chan[t].of = s.next[t]
        /\ \A u \in Tracks : u # t => m.chan[u] = s.chan[u]
  BY <1>1, SfxStartedIs
<1> HIDE DEF m
<1>3. t \in Tracks /\ s.kind[t] = "free"
  BY DEF FreeTracks
<1>4. /\ m.kind[t] = "sfx" /\ m.gen[t] = s.next[t]
      /\ \A u \in Tracks : u # t => m.kind[u] = s.kind[u] /\ m.gen[u] = s.gen[u]
  BY <1>1, <1>2, <1>3 DEF SvcType
<1>5. VoicesInOrder(m)
  BY <1>1, <1>2, <1>3, <1>4 DEF VoicesInOrder
<1>6. SlotsInOrder(m)
  <2>1. \A j \in Tracks : s.slots[j].inUse =>
          s.slots[j].track \in Tracks /\ s.slots[j].track # t
    BY <1>1, <1>3 DEF SlotsInOrder, SvcType, SlotType
  <2>2. \A u \in Tracks : m.kind[u] = "music" => s.kind[u] = "music"
    BY <1>4
  <2> QED
    BY <1>1, <1>2, <1>4, <2>1, <2>2 DEF SlotsInOrder
<1>7. ChannelsClean(m)
  BY <1>1, <1>2, <1>4 DEF ChannelsClean
<1>8. ChannelsOf(m)
  BY <1>1, <1>2, <1>3 DEF ChannelsOf
<1> QED
  BY <1>2, <1>5, <1>6, <1>7, <1>8 DEF SvcOK, m

\* So does stopping tracks that are taken.
LEMMA StoppedOK ==
  ASSUME NEW s, SvcOK(s), NEW T \in SUBSET Tracks, \A t \in T : s.kind[t] # "free"
  PROVE  SvcOK(Stopped(s, T))
<1> DEFINE p == Stopped(s, T)
<1>1. s \in SvcType /\ VoicesInOrder(s) /\ SlotsInOrder(s) /\ ChannelsClean(s) /\ ChannelsOf(s)
  BY DEF SvcOK
<1>2. /\ p \in SvcType /\ p.gen = s.gen
      /\ \A t \in Tracks :
           /\ p.kind[t] = IF t \in T THEN "free" ELSE s.kind[t]
           /\ p.next[t] = IF t \in T THEN s.next[t] + 1 ELSE s.next[t]
           /\ p.chan[t] = IF t \in T THEN Silent ELSE s.chan[t]
      /\ \A i \in Tracks :
           p.slots[i] = IF s.slots[i].inUse /\ s.slots[i].track \in T
                        THEN FreeSlot ELSE s.slots[i]
  BY <1>1, StoppedIs
<1> HIDE DEF p
<1>3. VoicesInOrder(p)
  <2> SUFFICES ASSUME NEW t \in Tracks
               PROVE  /\ p.next[t] \in 1 .. MaxGen + 2
                      /\ p.kind[t] # "free" => p.gen[t] = p.next[t]
                                               /\ p.next[t] <= MaxGen + 1
    BY DEF VoicesInOrder
  <2>1. CASE t \in T
    <3>1. s.next[t] \in 1 .. MaxGen + 2 /\ s.next[t] <= MaxGen + 1
      BY <1>1, <2>1 DEF VoicesInOrder
    <3> QED
      BY <1>2, <2>1, <3>1, Sizes
  <2>2. CASE t \notin T
    BY <1>1, <1>2, <2>2 DEF VoicesInOrder
  <2> QED
    BY <2>1, <2>2
<1>4. \A i \in Tracks : p.slots[i].inUse =>
        p.slots[i] = s.slots[i] /\ s.slots[i].track \notin T /\ s.slots[i].track \in Tracks
  BY <1>1, <1>2 DEF FreeSlot, SvcType, SlotType
<1>5. SlotsInOrder(p)
  <2>1. ASSUME NEW i \in Tracks
        PROVE  /\ p.slots[i].inUse => p.kind[p.slots[i].track] = "music"
               /\ p.slots[i].open <=> p.slots[i].inUse /\ p.slots[i].source = "file"
    BY <1>1, <1>2, <1>4 DEF SlotsInOrder, FreeSlot
  <2>2. ASSUME NEW t \in Tracks, p.kind[t] = "music"
        PROVE  \E i \in Tracks : p.slots[i].inUse /\ p.slots[i].track = t
    <3>1. t \notin T /\ s.kind[t] = "music"
      BY <1>2, <2>2
    <3>2. PICK i \in Tracks : s.slots[i].inUse /\ s.slots[i].track = t
      BY <1>1, <3>1 DEF SlotsInOrder
    <3> QED
      BY <1>2, <3>1, <3>2
  <2>3. ASSUME NEW i \in Tracks, NEW j \in Tracks, p.slots[i].inUse, p.slots[j].inUse,
               p.slots[i].track = p.slots[j].track
        PROVE  i = j
    BY <1>1, <1>4, <2>3 DEF SlotsInOrder
  <2> QED
    BY <2>1, <2>2, <2>3 DEF SlotsInOrder
<1>6. ChannelsClean(p)
  BY <1>1, <1>2, SilentIs DEF ChannelsClean
<1>7. ChannelsOf(p)
  <2>1. 0 <= MaxGen + 1
    BY Sizes
  <2> QED
    BY <1>1, <1>2, <2>1, SilentIs DEF ChannelsOf
<1> QED
  BY <1>2, <1>3, <1>5, <1>6, <1>7 DEF SvcOK, p

\* So does stopping a voice, be it stale.
LEMMA VoiceStoppedOK ==
  ASSUME NEW s, SvcOK(s), NEW v \in VoiceType
  PROVE  SvcOK(VoiceStopped(s, v))
<1> DEFINE T == IF Live(s, v) THEN {v.track} ELSE {}
<1>1. T \in SUBSET Tracks /\ \A t \in T : s.kind[t] # "free"
  BY DEF VoiceType, Live
<1> QED
  BY <1>1, StoppedOK DEF VoiceStopped

\* So does a render: players, reaper and mixer in a row.
LEMMA RenderedOK ==
  ASSUME NEW s, SvcOK(s), NEW left \in [0 .. TrackCount -> 0 .. RingSize]
  PROVE  /\ SvcOK(Rendered(s, left))
         /\ Rendered(s, left).gen = s.gen
         /\ \A t \in Tracks : (Rendered(s, left).kind[t] = "music") = (s.kind[t] = "music")
<1> DEFINE u == Updated(s, left)
           p == Stopped(u, Drained(u))
           m == Mixed(p)
<1>1. s \in SvcType /\ VoicesInOrder(s) /\ SlotsInOrder(s) /\ ChannelsClean(s) /\ ChannelsOf(s)
  BY DEF SvcOK
<1>2. /\ u \in SvcType /\ u.kind = s.kind /\ u.gen = s.gen
      /\ u.next = s.next /\ u.slots = s.slots
      /\ \A t \in Tracks :
           \/ u.chan[t] = s.chan[t]
           \/ /\ SlotsOf(s, t) # {}
              /\ \/ u.chan[t].of = s.gen[t]
                 \/ /\ u.chan[t].of = s.chan[t].of
                    /\ \/ u.chan[t].frames = 0
                       \/ s.chan[t].frames > 0
  BY <1>1, UpdatedIs
<1>3. SvcOK(u)
  <2> HIDE DEF u
  <2>1. VoicesInOrder(u) /\ SlotsInOrder(u)
    BY <1>1, <1>2 DEF VoicesInOrder, SlotsInOrder
  <2>2. \A t \in Tracks : SlotsOf(s, t) # {} => s.kind[t] = "music" /\ s.gen[t] <= MaxGen + 1
    BY <1>1 DEF SlotsOf, SlotsInOrder, VoicesInOrder
  <2>3. ChannelsClean(u)
    <3> SUFFICES ASSUME NEW t \in Tracks, u.chan[t].frames > 0
                 PROVE  u.kind[t] # "free" /\ u.chan[t].of = u.gen[t]
      BY DEF ChannelsClean
    <3>1. u.chan[t].frames # 0
      OBVIOUS
    <3> QED
      BY <1>1, <1>2, <2>2, <3>1 DEF ChannelsClean
  <2>4. ChannelsOf(u)
    BY <1>1, <1>2, <2>2 DEF ChannelsOf
  <2> QED
    BY <1>2, <2>1, <2>3, <2>4 DEF SvcOK
<1>4. Drained(u) \in SUBSET Tracks /\ \A t \in Drained(u) : u.kind[t] = "sfx"
  BY DEF Drained
<1>5. SvcOK(p) /\ p \in SvcType
  BY <1>3, <1>4, StoppedOK DEF SvcOK
<1>6. p.gen = u.gen /\ \A t \in Tracks :
        p.kind[t] = IF t \in Drained(u) THEN "free" ELSE u.kind[t]
  BY <1>2, <1>4, StoppedIs
<1> HIDE DEF p
<1>7. /\ m \in SvcType /\ m.kind = p.kind /\ m.gen = p.gen
      /\ m.next = p.next /\ m.slots = p.slots
      /\ \A t \in Tracks :
           \/ m.chan[t] = p.chan[t]
           \/ m.chan[t].frames = 0 /\ m.chan[t].of = 0
           \/ m.chan[t].of = p.chan[t].of /\ p.chan[t].frames > 0
  BY <1>5, MixedIs
<1> HIDE DEF m
<1>8. SvcOK(m)
  <2>1. VoicesInOrder(m) /\ SlotsInOrder(m)
    BY <1>5, <1>7 DEF SvcOK, VoicesInOrder, SlotsInOrder
  <2>2. ChannelsClean(m)
    <3> SUFFICES ASSUME NEW t \in Tracks, m.chan[t].frames > 0
                 PROVE  m.kind[t] # "free" /\ m.chan[t].of = m.gen[t]
      BY DEF ChannelsClean
    <3>1. m.chan[t].frames # 0
      OBVIOUS
    <3> QED
      BY <1>5, <1>7, <3>1 DEF ChannelsClean, SvcOK
  <2>3. ChannelsOf(m)
    <3>1. 0 <= MaxGen + 1
      BY Sizes
    <3> QED
      BY <1>5, <1>7, <3>1 DEF ChannelsOf, SvcOK
  <2> QED
    BY <1>7, <2>1, <2>2, <2>3 DEF SvcOK
<1>9. m = Rendered(s, left)
  BY DEF m, p, Rendered
<1>10. \A t \in Tracks : (m.kind[t] = "music") = (s.kind[t] = "music")
  BY <1>2, <1>4, <1>6, <1>7
<1> QED
  BY <1>2, <1>6, <1>7, <1>8, <1>9, <1>10

-----------------------------------------------------------------------------
(* The window's music.                                                     *)

\* The handle v is that of every stream there is.
Owned(s, v) ==
  \A t \in Tracks : s.kind[t] = "music" => v = [track |-> t, gen |-> s.gen[t]]

\* Stopping the voice that is every stream leaves none.
LEMMA OwnedStopped ==
  ASSUME NEW s, SvcOK(s), NEW v \in VoiceType, Owned(s, v), NEW t \in Tracks
  PROVE  VoiceStopped(s, v).kind[t] # "music"
<1> DEFINE T == IF Live(s, v) THEN {v.track} ELSE {}
<1>1. T \in SUBSET Tracks /\ s \in SvcType
  BY DEF VoiceType, SvcOK
<1>2. VoiceStopped(s, v).kind[t] = IF t \in T THEN "free" ELSE s.kind[t]
  BY <1>1, StoppedIs DEF VoiceStopped
<1>3. s.kind[t] = "music" => t \in T
  <2> SUFFICES ASSUME s.kind[t] = "music" PROVE t \in T
    OBVIOUS
  <2>1. v = [track |-> t, gen |-> s.gen[t]]
    BY DEF Owned
  <2>2. s.gen[t] = s.next[t] /\ s.next[t] \in 1 .. MaxGen + 2
    BY DEF SvcOK, VoicesInOrder
  <2>3. v.track = t /\ v.gen = s.gen[t] /\ v.gen # 0
    BY <2>1, <2>2, Sizes
  <2> QED
    BY <2>3 DEF Live
<1> HIDE DEF T
<1> QED
  BY <1>2, <1>3

\* A voice that is started has a handle.
LEMMA NextVoiceType ==
  ASSUME NEW s \in SvcType, HasRoom(s)
  PROVE  NextVoice(s) \in VoiceType
<1>1. NextVoice(s).track \in Tracks /\ s.next[NextVoice(s).track] \in Nat
  BY NextVoiceIs DEF FreeTracks, SvcType
<1> QED
  BY <1>1, NextVoiceIs DEF VoiceType

\* The stream that starts where there is none is every stream.
LEMMA StartedOwned ==
  ASSUME NEW s, SvcOK(s), HasRoom(s), NEW source \in {"file", "ring"},
         \A t \in Tracks : s.kind[t] # "music"
  PROVE  Owned(MusicStarted(s, source), NextVoice(s))
<1> DEFINE m == MusicStarted(s, source)
           t == NextVoice(s).track
           i == Least(FreeSlots(s))
<1>1. s \in SvcType /\ SlotsInOrder(s)
  BY DEF SvcOK
<1>2. /\ t \in FreeTracks(s)
      /\ NextVoice(s) = [track |-> t, gen |-> s.next[t]]
      /\ m.kind = [s.kind EXCEPT ![t] = "music"]
      /\ m.gen = [s.gen EXCEPT ![t] = s.next[t]]
  BY <1>1, MusicStartedIs
<1> HIDE DEF m, t, i
<1>3. t \in Tracks
  BY <1>2 DEF FreeTracks
<1>4. m.gen[t] = s.next[t] /\ \A u \in Tracks : u # t => m.kind[u] = s.kind[u]
  BY <1>1, <1>2, <1>3 DEF SvcType
<1>5. Owned(m, NextVoice(s))
  BY <1>2, <1>4 DEF Owned
<1> QED
  BY <1>5 DEF m

\* So it is whether it starts or not.
LEMMA AskedOwned ==
  ASSUME NEW s, SvcOK(s), NEW source \in {"file", "ring"}, NEW outcome \in Outcomes("file"),
         \A t \in Tracks : s.kind[t] # "music"
  PROVE  Owned(Asked(s, source, outcome), Given(s, outcome))
<1>1. CASE ~TakesStream(s) \/ outcome = "noFile"
  BY <1>1 DEF Asked, Owned
<1>2. CASE TakesStream(s) /\ outcome = "noPlayer"
  <2>1. MusicFailed(s, source).kind = s.kind
    BY <1>2, MusicFailedOK DEF TakesStream
  <2>2. Asked(s, source, outcome) = MusicFailed(s, source)
    BY <1>2 DEF Asked
  <2> QED
    BY <2>1, <2>2 DEF Owned
<1>3. CASE TakesStream(s) /\ outcome = "starts"
  <2>1. Asked(s, source, outcome) = MusicStarted(s, source)
        /\ Given(s, outcome) = NextVoice(s)
    BY <1>3 DEF Asked, Given
  <2> QED
    BY <1>3, <2>1, StartedOwned DEF TakesStream
<1> QED
  BY <1>1, <1>2, <1>3 DEF Outcomes

\* What a caller is given is a handle.
LEMMA GivenType ==
  ASSUME NEW s \in SvcType, NEW outcome
  PROVE  Given(s, outcome) \in VoiceType
<1>1. NoVoice \in VoiceType
  BY Sizes DEF NoVoice, VoiceType
<1> QED
  BY <1>1, NextVoiceType DEF Given, TakesStream

\* A one-shot is no stream.
LEMMA SfxKeepsOwned ==
  ASSUME NEW s, SvcOK(s), HasRoom(s), NEW object \in Nat, objects[object] \in Nat,
         NEW v, Owned(s, v)
  PROVE  Owned(SfxStarted(s, object), v)
<1> DEFINE m == SfxStarted(s, object)
<1>1. s \in SvcType
  BY DEF SvcOK
<1>2. PICK t \in FreeTracks(s) :
        /\ m \in SvcType
        /\ m.kind = [s.kind EXCEPT ![t] = "sfx"]
        /\ m.gen = [s.gen EXCEPT ![t] = s.next[t]] /\ m.next = s.next
        /\ m.slots = s.slots
        /\ m.chan[t].of = s.next[t]
        /\ \A u \in Tracks : u # t => m.chan[u] = s.chan[u]
  BY <1>1, SfxStartedIs
<1> HIDE DEF m
<1>3. t \in Tracks
  BY DEF FreeTracks
<1>4. /\ m.kind[t] = "sfx"
      /\ \A u \in Tracks : u # t => m.kind[u] = s.kind[u] /\ m.gen[u] = s.gen[u]
  BY <1>1, <1>2, <1>3 DEF SvcType
<1>5. Owned(m, v)
  BY <1>4 DEF Owned
<1> QED
  BY <1>5 DEF m

-----------------------------------------------------------------------------
(* The invariant.                                                          *)

\* As many objects are loaded as there are lengths.
LEMMA LoadedIs ==
  ASSUME NEW n \in Nat, NEW S, NEW f \in [1 .. n -> S]
  PROVE  Cardinality(DOMAIN f) = n
<1>1. DOMAIN f = 1 .. n
  OBVIOUS
<1>2. Cardinality(1 .. n) = n
  BY FS_Interval
<1> QED
  BY <1>1, <1>2

\* hxa_create() leaves everything free.
LEMMA IdleOK ==
  /\ SvcOK(Idle) /\ HasRoom(Idle)
  /\ \A t \in Tracks : Idle.next[t] = 1 /\ Idle.kind[t] = "free"
<1>1. FreeSlot \in SlotType /\ FreeSlot.inUse = FALSE /\ FreeSlot.open = FALSE
  BY Sizes DEF FreeSlot, SlotType
<1>2. 0 \in 0 .. RingSize /\ 0 \in Nat /\ 1 \in Nat
  BY Sizes
<1>3. /\ Idle.kind = [t \in Tracks |-> "free"] /\ Idle.gen = [t \in Tracks |-> 0]
      /\ Idle.next = [t \in Tracks |-> 1] /\ Idle.slots = [i \in Tracks |-> FreeSlot]
      /\ Idle.chan = [t \in Tracks |-> Silent]
  BY DEF Idle
<1>4. Idle \in SvcType
  BY <1>1, <1>2, SilentIs DEF Idle, SvcType
<1>5. VoicesInOrder(Idle)
  BY <1>3, Sizes DEF VoicesInOrder
<1>6. SlotsInOrder(Idle)
  BY <1>1, <1>3 DEF SlotsInOrder
<1>7. ChannelsClean(Idle) /\ ChannelsOf(Idle)
  BY <1>3, SilentIs, Sizes DEF ChannelsClean, ChannelsOf
<1>8. HasRoom(Idle)
  BY <1>3, Sizes DEF HasRoom, FreeTracks
<1> QED
  BY <1>3, <1>4, <1>5, <1>6, <1>7, <1>8 DEF SvcOK

\* The runtime starts in order.
LEMMA InitInv == Init => IInv
<1> SUFFICES ASSUME Init PROVE IInv
  OBVIOUS
<1>1. /\ front \in Fronts /\ wav \in BOOLEAN
      /\ objects = <<>> /\ sfx = [e \in 0 .. SfxSlots - 1 |-> 0] /\ nsfx = 0
      /\ music = NoVoice
  BY DEF Init
<1>2. PICK cmdMode \in BOOLEAN, film \in Outcomes("ring"), first \in Outcomes("ring"),
           file \in Outcomes("file") :
        LET filmed == IF front = "film" THEN Asked(Idle, "ring", film) ELSE Idle
            filed == front # "window" /\ wav /\ ~cmdMode
            toned == front = "calls" /\ ~wav /\ ~cmdMode
        IN  /\ svc = IF filed THEN Asked(filmed, "file", file)
                     ELSE IF toned THEN Asked(filmed, "ring", first) ELSE filmed
            /\ tone = IF toned THEN Given(filmed, first) ELSE NoVoice
            /\ toneOn = (tone # NoVoice)
  BY Zenon DEF Init
<1> DEFINE filmed == IF front = "film" THEN Asked(Idle, "ring", film) ELSE Idle
<1>3. Idle \in SvcType /\ \A t \in Tracks : Idle.next[t] <= MaxGen + 1
  <2>1. 1 <= MaxGen + 1
    BY Sizes
  <2>2. \A t \in Tracks : Idle.next[t] = 1
    BY IdleOK
  <2> QED
    BY <2>1, <2>2, IdleOK DEF SvcOK
<1>4. SvcOK(filmed) /\ \A t \in Tracks : filmed.next[t] <= MaxGen + 1
  <2> DEFINE m == Asked(Idle, "ring", film)
  <2>1. SvcOK(m) /\ m.next = Idle.next
    BY <1>3, IdleOK, AskedOK
  <2> HIDE DEF m
  <2>2. filmed = m \/ filmed = Idle
    BY DEF m
  <2> QED
    BY <1>3, <2>1, <2>2, IdleOK
<1>5. front = "window" => svc = Idle
  BY <1>2
<1>6. /\ \/ svc = filmed
         \/ svc = Asked(filmed, "file", file)
         \/ svc = Asked(filmed, "ring", first)
      /\ tone = Given(filmed, first) \/ tone = NoVoice
      /\ toneOn \in BOOLEAN
  BY <1>2
<1> HIDE DEF filmed
<1>7. SvcOK(svc)
  BY <1>4, <1>6, AskedOK
<1>8. FrontOK
  <2>1. Loaded = 0
    <3>1. DOMAIN objects = {}
      BY <1>1
    <3> QED
      BY <3>1, FS_EmptySet DEF Loaded
  <2>2. objects \in [1 .. Loaded -> Lengths]
    BY <1>1, <2>1
  <2>3. sfx \in [0 .. SfxSlots - 1 -> 0 .. Loaded] /\ nsfx \in 0 .. SfxSlots
    BY <1>1, <2>1, Sizes
  <2>4. NoVoice \in VoiceType
    BY Sizes DEF NoVoice, VoiceType
  <2>5. tone \in VoiceType
    BY <1>4, <1>6, <2>4, GivenType DEF SvcOK
  <2> QED
    BY <1>1, <1>6, <2>1, <2>2, <2>3, <2>4, <2>5 DEF FrontOK
<1>9. WindowOwnsMusic
  BY <1>5, IdleOK DEF WindowOwnsMusic
<1> QED
  BY <1>7, <1>8, <1>9 DEF IInv

-----------------------------------------------------------------------------
(* Every step keeps it.                                                    *)

\* The invariant of the next state, part by part.
LEMMA KeptInv ==
  ASSUME SvcOK(svc'), FrontOK', front' = "window" => Owned(svc', music')
  PROVE  IInv'
<1>1. SvcOK(svc)'
  BY DEF SvcOK, SvcType, VoicesInOrder, SlotsInOrder, ChannelsClean, ChannelsOf,
         Tracks, SlotType, ChanType
<1>2. WindowOwnsMusic'
  BY DEF WindowOwnsMusic, Owned, Tracks
<1> QED
  BY <1>1, <1>2 DEF IInv

\* A step that loads nothing keeps the tables.
LEMMA FrontKept ==
  ASSUME FrontOK, UNCHANGED <<objects, sfx, nsfx>>,
         music' \in VoiceType, tone' \in VoiceType, toneOn' \in BOOLEAN
  PROVE  FrontOK'
<1>1. Loaded' = Loaded
  BY DEF Loaded
<1> QED
  BY <1>1 DEF FrontOK, VoiceType, Tracks

\* The parts of the invariant.
LEMMA Parts ==
  ASSUME IInv
  PROVE  /\ SvcOK(svc) /\ svc \in SvcType /\ FrontOK
         /\ music \in VoiceType /\ tone \in VoiceType /\ toneOn \in BOOLEAN
         /\ front = "window" => Owned(svc, music)
BY DEF IInv, SvcOK, FrontOK, WindowOwnsMusic, Owned

\* What the ring holds is no voice's business.
LEMMA RingOf ==
  ASSUME NEW s, SvcOK(s), NEW r \in 0 .. RingSize
  PROVE  /\ SvcOK([s EXCEPT !.ring = r])
         /\ [s EXCEPT !.ring = r].kind = s.kind /\ [s EXCEPT !.ring = r].gen = s.gen
<1> DEFINE m == [s EXCEPT !.ring = r]
<1>1. s \in SvcType
  BY DEF SvcOK
<1>2. /\ m \in SvcType /\ m.kind = s.kind /\ m.gen = s.gen /\ m.next = s.next
      /\ m.slots = s.slots /\ m.chan = s.chan
  BY <1>1 DEF SvcType
<1> HIDE DEF m
<1>3. SvcOK(m)
  BY <1>2 DEF SvcOK, VoicesInOrder, SlotsInOrder, ChannelsClean, ChannelsOf
<1> QED
  BY <1>2, <1>3 DEF m

\* A track that may start a voice in the model has a generation to give.
LEMMA BoundedIs ==
  ASSUME NEW s \in SvcType, Bounded(s), NEW t \in Tracks
  PROVE  s.next[t] <= MaxGen + 1
<1>1. s.next[t] <= MaxGen /\ s.next[t] \in Nat
  BY DEF Bounded, SvcType
<1> QED
  BY <1>1, Sizes

\* hxa_render() keeps the order.
LEMMA RenderInv == ASSUME IInv, Render PROVE IInv'
<1>1. PICK left \in [0 .. TrackCount -> 0 .. RingSize] : svc' = Rendered(svc, left)
  BY DEF Render
<1>2. UNCHANGED <<front, objects, sfx, nsfx, music, toneOn, tone>>
  BY DEF Render
<1>3. /\ SvcOK(svc') /\ svc'.gen = svc.gen
      /\ \A t \in Tracks : (svc'.kind[t] = "music") = (svc.kind[t] = "music")
  BY <1>1, Parts, RenderedOK
<1>4. front' = "window" => Owned(svc', music')
  BY <1>2, <1>3, Parts DEF Owned
<1>5. FrontOK'
  BY <1>2, Parts, FrontKept
<1> QED
  BY <1>3, <1>4, <1>5, KeptInv

\* What a feed or a flush makes of the ring disturbs nothing else.
LEMMA RingInv ==
  ASSUME IInv, NEW r \in 0 .. RingSize, svc' = [svc EXCEPT !.ring = r],
         UNCHANGED <<front, wav, objects, sfx, nsfx, music, toneOn, tone>>
  PROVE  IInv'
<1>1. SvcOK(svc') /\ svc'.kind = svc.kind /\ svc'.gen = svc.gen
  BY Parts, RingOf
<1>2. front' = "window" => Owned(svc', music')
  BY <1>1, Parts DEF Owned
<1>3. FrontOK'
  BY Parts, FrontKept
<1> QED
  BY <1>1, <1>2, <1>3, KeptInv

\* hxa_feed_pcm() keeps it.
LEMMA FeedRingInv == ASSUME IInv, NEW n \in 1 .. RingSize, FeedRing(n) PROVE IInv'
<1>1. svc.ring \in 0 .. RingSize
  BY Parts DEF SvcType
<1>2. n <= RingSize - svc.ring /\ svc' = [svc EXCEPT !.ring = svc.ring + n]
      /\ UNCHANGED <<front, wav, objects, sfx, nsfx, music, toneOn, tone>>
  BY DEF FeedRing
<1>3. svc.ring + n \in 0 .. RingSize
  BY <1>1, <1>2, Sizes
<1> QED
  BY <1>2, <1>3, RingInv

\* hxa_flush_pcm() keeps it.
LEMMA FlushRingInv == ASSUME IInv, FlushRing PROVE IInv'
<1>1. 0 \in 0 .. RingSize
  BY Sizes
<1> QED
  BY <1>1, RingInv DEF FlushRing

\* One object more is loaded, and an entry may name it.
LEMMA LoadInv ==
  ASSUME IInv, NEW length \in Lengths, objects' = LoadedWith(length),
         sfx' = sfx \/ (\E e \in 0 .. SfxSlots - 1 : sfx' = [sfx EXCEPT ![e] = Loaded + 1]),
         nsfx' \in 0 .. SfxSlots, UNCHANGED <<svc, front, wav, music, toneOn, tone>>
  PROVE  IInv'
<1>1. /\ objects \in [1 .. Loaded -> Lengths] /\ Loaded \in Nat
      /\ sfx \in [0 .. SfxSlots - 1 -> 0 .. Loaded]
  BY Parts DEF FrontOK
<1> DEFINE n == Loaded
<1>2. objects' \in [1 .. n + 1 -> Lengths]
  BY <1>1 DEF LoadedWith
<1>3. Loaded' = n + 1
  <2>1. n + 1 \in Nat
    BY <1>1
  <2>2. Cardinality(DOMAIN objects') = n + 1
    BY <1>2, <2>1, LoadedIs
  <2> QED
    BY <2>2 DEF Loaded
<1>4. sfx' \in [0 .. SfxSlots - 1 -> 0 .. n + 1]
  BY <1>1
<1>5. FrontOK'
  BY <1>1, <1>2, <1>3, <1>4, Parts DEF FrontOK, VoiceType, Tracks
<1>6. SvcOK(svc') /\ (front' = "window" => Owned(svc', music'))
  BY Parts DEF Owned
<1> QED
  BY <1>5, <1>6, KeptInv

\* HX421_OP_LOAD_SFX keeps it, with the table full too.
LEMMA WindowLoadInv == ASSUME IInv, NEW length \in Lengths, WindowLoad(length) PROVE IInv'
<1>1. objects' = LoadedWith(length) /\ UNCHANGED <<svc, front, wav, music, toneOn, tone>>
  BY DEF WindowLoad
<1>2. nsfx \in 0 .. SfxSlots /\ SfxSlots \in Nat
  BY Parts, Sizes DEF FrontOK
<1>3. \/ sfx' = sfx /\ nsfx' = nsfx
      \/ nsfx < SfxSlots /\ sfx' = [sfx EXCEPT ![nsfx] = Loaded + 1] /\ nsfx' = nsfx + 1
  BY DEF WindowLoad
<1>4. nsfx' \in 0 .. SfxSlots
  BY <1>2, <1>3
<1>5. sfx' = sfx \/ (\E e \in 0 .. SfxSlots - 1 : sfx' = [sfx EXCEPT ![e] = Loaded + 1])
  <2>1. nsfx < SfxSlots => nsfx \in 0 .. SfxSlots - 1
    BY <1>2
  <2> QED
    BY <1>3, <2>1
<1> QED
  BY <1>1, <1>4, <1>5, LoadInv

\* HX421_ACMD_LOAD_SFX keeps it.
LEMMA CallLoadInv ==
  ASSUME IInv, NEW length \in Lengths, NEW e \in DOMAIN sfx, CallLoad(e, length)
  PROVE  IInv'
<1>1. DOMAIN sfx = 0 .. SfxSlots - 1 /\ nsfx \in 0 .. SfxSlots
  BY Parts DEF FrontOK
<1>2. /\ objects' = LoadedWith(length) /\ sfx' = [sfx EXCEPT ![e] = Loaded + 1]
      /\ nsfx' = nsfx /\ UNCHANGED <<svc, front, wav, music, toneOn, tone>>
  BY DEF CallLoad
<1>3. sfx' = sfx \/ (\E d \in 0 .. SfxSlots - 1 : sfx' = [sfx EXCEPT ![d] = Loaded + 1])
  BY <1>1, <1>2
<1> QED
  BY <1>1, <1>2, <1>3, LoadInv

\* A trigger keeps it: the entry names an object that is loaded.
LEMMA TriggerInv == ASSUME IInv, NEW e \in DOMAIN sfx, Trigger(e) PROVE IInv'
<1> DEFINE o == sfx[e]
<1>1. /\ o # 0 /\ HasRoom(svc) /\ Bounded(svc) /\ svc' = SfxStarted(svc, o)
      /\ UNCHANGED <<front, objects, sfx, nsfx, music, toneOn, tone>>
  BY DEF Trigger
<1>2. o \in Nat /\ objects[o] \in Nat
  <2>1. /\ objects \in [1 .. Loaded -> Lengths] /\ Loaded \in Nat
        /\ sfx \in [0 .. SfxSlots - 1 -> 0 .. Loaded]
    BY Parts DEF FrontOK
  <2>2. o \in 1 .. Loaded
    BY <1>1, <2>1
  <2>3. objects[o] \in Lengths
    BY <2>1, <2>2
  <2>4. o \in Nat
    BY <2>1, <2>2
  <2>5. objects[o] \in Nat
    BY <2>3, Sizes
  <2> QED
    BY <2>4, <2>5
<1> HIDE DEF o
<1>3. \A t \in Tracks : svc.next[t] <= MaxGen + 1
  BY <1>1, Parts, BoundedIs
<1>4. SvcOK(svc')
  BY <1>1, <1>2, <1>3, Parts, SfxStartedOK
<1>5. front' = "window" => Owned(svc', music')
  BY <1>1, <1>2, Parts, SfxKeepsOwned
<1>6. FrontOK'
  BY <1>1, Parts, FrontKept
<1> QED
  BY <1>4, <1>5, <1>6, KeptInv

\* A handle that was given is one.
LEMMA NoVoiceIs == NoVoice \in VoiceType
BY Sizes DEF NoVoice, VoiceType

\* HX421_OP_PRIME_STREAM keeps it: what plays is stopped first, so what starts is
\* the only stream and its handle is kept.
LEMMA PrimeInv == ASSUME IInv, NEW outcome \in Outcomes("file"), Prime(outcome) PROVE IInv'
<1> DEFINE quiet == VoiceStopped(svc, music)
<1>1. /\ front = "window" /\ Bounded(svc)
      /\ svc' = Asked(quiet, "file", outcome) /\ music' = Given(quiet, outcome)
      /\ UNCHANGED <<front, objects, sfx, nsfx, toneOn, tone>>
  BY DEF Prime
<1>2. SvcOK(quiet)
  BY Parts, VoiceStoppedOK
<1>3. \A t \in Tracks : quiet.kind[t] # "music"
  BY <1>1, Parts, OwnedStopped
<1>4. \A t \in Tracks : quiet.next[t] <= MaxGen + 1
  <2> SUFFICES ASSUME NEW t \in Tracks PROVE quiet.next[t] <= MaxGen + 1
    OBVIOUS
  <2> DEFINE T == IF Live(svc, music) THEN {music.track} ELSE {}
  <2>1. T \in SUBSET Tracks
    BY Parts DEF VoiceType
  <2>2. quiet.next[t] = IF t \in T THEN svc.next[t] + 1 ELSE svc.next[t]
    BY <2>1, Parts, StoppedIs DEF VoiceStopped
  <2>3. svc.next[t] <= MaxGen /\ svc.next[t] \in Nat
    BY <1>1, Parts DEF Bounded, SvcType
  <2> HIDE DEF T
  <2> QED
    BY <2>2, <2>3, Sizes
<1> HIDE DEF quiet
<1>5. quiet \in SvcType
  BY <1>2 DEF SvcOK
<1>6. SvcOK(svc')
  BY <1>1, <1>2, <1>4, AskedOK
<1>7. Owned(svc', music')
  BY <1>1, <1>2, <1>3, AskedOwned
<1>8. music' \in VoiceType
  BY <1>1, <1>5, GivenType
<1>9. FrontOK'
  BY <1>1, <1>8, Parts, FrontKept
<1> QED
  BY <1>6, <1>7, <1>9, KeptInv

\* HX421_OP_STOP_MUSIC keeps it: no stream is left.
LEMMA WindowStopInv == ASSUME IInv, WindowStop PROVE IInv'
<1>1. /\ front = "window" /\ svc' = VoiceStopped(svc, music) /\ music' = NoVoice
      /\ UNCHANGED <<front, objects, sfx, nsfx, toneOn, tone>>
  BY DEF WindowStop
<1>2. SvcOK(svc')
  BY <1>1, Parts, VoiceStoppedOK
<1>3. \A t \in Tracks : svc'.kind[t] # "music"
  BY <1>1, Parts, OwnedStopped
<1>4. Owned(svc', music')
  BY <1>3 DEF Owned
<1>5. FrontOK'
  BY <1>1, NoVoiceIs, Parts, FrontKept
<1> QED
  BY <1>2, <1>4, <1>5, KeptInv

\* HX421_ACMD_PLAY_MUSIC of a file keeps it.
LEMMA PlayWavInv ==
  ASSUME IInv, NEW outcome \in Outcomes("file"), PlayWav(outcome)
  PROVE  IInv'
<1>1. /\ front # "window" /\ Bounded(svc)
      /\ svc' = Asked(svc, "file", outcome) /\ music' = Given(svc, outcome)
      /\ UNCHANGED <<front, objects, sfx, nsfx, toneOn, tone>>
  BY DEF PlayWav
<1>2. \A t \in Tracks : svc.next[t] <= MaxGen + 1
  BY <1>1, Parts, BoundedIs
<1>3. SvcOK(svc')
  BY <1>1, <1>2, Parts, AskedOK
<1>4. music' \in VoiceType
  BY <1>1, Parts, GivenType
<1>5. FrontOK'
  BY <1>1, <1>4, Parts, FrontKept
<1> QED
  BY <1>1, <1>3, <1>5, KeptInv

\* HX421_ACMD_PLAY_MUSIC of the tone keeps it.
LEMMA PlayToneInv ==
  ASSUME IInv, NEW outcome \in Outcomes("ring"), PlayTone(outcome)
  PROVE  IInv'
<1>1. /\ front # "window" /\ Bounded(svc)
      /\ svc' = Asked(svc, "ring", outcome)
      /\ tone' = Given(svc, outcome) /\ toneOn' \in BOOLEAN
      /\ music' = Given(svc, outcome)
      /\ UNCHANGED <<front, objects, sfx, nsfx>>
  BY DEF PlayTone
<1>2. \A t \in Tracks : svc.next[t] <= MaxGen + 1
  BY <1>1, Parts, BoundedIs
<1>3. SvcOK(svc')
  BY <1>1, <1>2, Parts, AskedOK
<1>4. music' \in VoiceType /\ tone' \in VoiceType /\ toneOn' \in BOOLEAN
  BY <1>1, Parts, GivenType
<1>5. FrontOK'
  BY <1>1, <1>4, Parts, FrontKept
<1> QED
  BY <1>1, <1>3, <1>5, KeptInv

\* HX421_ACMD_STOP keeps it, of a stale handle too.
LEMMA CallStopInv == ASSUME IInv, NEW v \in Handles, CallStop(v) PROVE IInv'
<1>1. /\ front # "window" /\ svc' = VoiceStopped(svc, v)
      /\ music' = music \/ music' = NoVoice
      /\ UNCHANGED <<front, objects, sfx, nsfx, toneOn, tone>>
  BY DEF CallStop
<1>2. v \in VoiceType
  <2>1. \A t \in Tracks : [track |-> t, gen |-> svc.gen[t]] \in VoiceType
    BY Parts DEF SvcType, VoiceType
  <2> QED
    BY <2>1, Parts DEF Handles
<1>3. SvcOK(svc')
  BY <1>1, <1>2, Parts, VoiceStoppedOK
<1>4. FrontOK'
  BY <1>1, NoVoiceIs, Parts, FrontKept
<1> QED
  BY <1>1, <1>3, <1>4, KeptInv

\* HX421_ACMD_STOP_ALL keeps it: the second handle may have gone stale by then.
LEMMA CallStopAllInv == ASSUME IInv, CallStopAll PROVE IInv'
<1> DEFINE v == IF toneOn THEN tone ELSE NoVoice
           s == VoiceStopped(svc, music)
<1>1. /\ front # "window" /\ svc' = VoiceStopped(s, v)
      /\ music' = NoVoice /\ tone' = NoVoice /\ toneOn' = FALSE
      /\ UNCHANGED <<front, objects, sfx, nsfx>>
  BY DEF CallStopAll
<1>2. v \in VoiceType
  BY NoVoiceIs, Parts
<1>3. SvcOK(s)
  BY Parts, VoiceStoppedOK
<1> HIDE DEF v, s
<1>4. SvcOK(svc')
  BY <1>1, <1>2, <1>3, VoiceStoppedOK
<1>5. FrontOK'
  BY <1>1, NoVoiceIs, Parts, FrontKept
<1> QED
  BY <1>1, <1>4, <1>5, KeptInv

\* No step of the engine breaks it.
LEMMA StepInv == IInv /\ [Next]_vars => IInv'
<1> SUFFICES ASSUME IInv, [Next]_vars PROVE IInv'
  OBVIOUS
<1>1. CASE Render
  BY <1>1, RenderInv
<1>2. CASE FlushRing
  BY <1>2, FlushRingInv
<1>3. CASE \E n \in 1 .. RingSize : FeedRing(n)
  BY <1>3, FeedRingInv
<1>4. CASE \E length \in Lengths : WindowLoad(length)
  BY <1>4, WindowLoadInv
<1>5. CASE \E length \in Lengths, e \in DOMAIN sfx : CallLoad(e, length)
  BY <1>5, CallLoadInv
<1>6. CASE \E e \in DOMAIN sfx : Trigger(e)
  BY <1>6, TriggerInv
<1>7. CASE \E outcome \in Outcomes("file") : Prime(outcome)
  BY <1>7, PrimeInv
<1>8. CASE \E outcome \in Outcomes("file") : PlayWav(outcome)
  BY <1>8, PlayWavInv
<1>9. CASE WindowStop
  BY <1>9, WindowStopInv
<1>10. CASE \E outcome \in Outcomes("ring") : PlayTone(outcome)
  BY <1>10, PlayToneInv
<1>11. CASE \E v \in Handles : CallStop(v)
  BY <1>11, CallStopInv
<1>12. CASE CallStopAll
  BY <1>12, CallStopAllInv
<1>13. CASE UNCHANGED vars
  <2>1. UNCHANGED <<svc, front, objects, sfx, nsfx, music, toneOn, tone>>
    BY <1>13 DEF vars
  <2>2. SvcOK(svc') /\ (front' = "window" => Owned(svc', music'))
    BY <2>1, Parts DEF Owned
  <2>3. FrontOK'
    BY <2>1, Parts, FrontKept
  <2> QED
    BY <2>2, <2>3, KeptInv
<1> QED
  BY <1>1, <1>2, <1>3, <1>4, <1>5, <1>6, <1>7, <1>8, <1>9, <1>10, <1>11, <1>12, <1>13
  DEF Next, Commands

-----------------------------------------------------------------------------
(* The theorems.                                                           *)

\* Whatever is called in whatever order, the service stays in order, and so do
\* its front end's handles: the inductive invariant of engine/service.c.
THEOREM Invariance == Spec => []IInv
<1> QED
  BY InitInv, StepInv, PTL DEF Spec

\* Kinds, generations, slots, queues and tables have their types; no channel and no
\* ring holds more than it has room for (hxa_render(), hxa_feed_pcm()).
THEOREM TypeCorrect == Spec => []TypeOK
<1>1. IInv => TypeOK
  <2> SUFFICES ASSUME IInv PROVE TypeOK
    OBVIOUS
  <2>1. /\ svc \in SvcType /\ VoicesInOrder(svc) /\ ChannelsOf(svc) /\ FrontOK
    BY Parts DEF SvcOK
  <2>2. svc.next \in [Tracks -> 1 .. MaxGen + 2]
    BY <2>1 DEF SvcType, VoicesInOrder
  <2>3. svc.chan \in [Tracks -> [active : BOOLEAN, frames : 0 .. ChannelSize,
                                 of : 0 .. MaxGen + 1]]
    <3> SUFFICES ASSUME NEW t \in Tracks
                 PROVE  svc.chan[t] \in [active : BOOLEAN, frames : 0 .. ChannelSize,
                                         of : 0 .. MaxGen + 1]
      BY <2>1 DEF SvcType
    <3>1. svc.chan[t] \in ChanType /\ svc.chan[t].of <= MaxGen + 1
      BY <2>1 DEF SvcType, ChannelsOf
    <3>2. svc.chan[t].of \in 0 .. MaxGen + 1
      BY <3>1, Sizes DEF ChanType
    <3> QED
      BY <3>1, <3>2 DEF ChanType
  <2> QED
    BY <2>1, <2>2, <2>3 DEF TypeOK, SvcType, SlotType, FrontOK
<1> QED
  BY <1>1, Invariance, PTL

\* A stream has one slot, a slot a stream, and a file is open for the streams that
\* read it and for no other (svc_sink_start(), svc_sink_stop()).
THEOREM ResourcesAgree == Spec => []SinkAgrees
<1>1. IInv => SinkAgrees
  <2> SUFFICES ASSUME IInv PROVE SinkAgrees
    OBVIOUS
  <2>1. svc \in SvcType /\ SlotsInOrder(svc)
    BY Parts DEF SvcOK
  <2>2. ASSUME NEW t \in Tracks
        PROVE  Cardinality(SlotsOf(svc, t)) = (IF svc.kind[t] = "music" THEN 1 ELSE 0)
    <3>1. CASE svc.kind[t] = "music"
      <4>1. PICK i \in Tracks : svc.slots[i].inUse /\ svc.slots[i].track = t
        BY <2>1, <3>1 DEF SlotsInOrder
      <4>2. SlotsOf(svc, t) = {i}
        BY <2>1, <4>1 DEF SlotsOf, SlotsInOrder
      <4> QED
        BY <3>1, <4>2, FS_Singleton
    <3>2. CASE svc.kind[t] # "music"
      <4>1. SlotsOf(svc, t) = {}
        BY <2>1, <3>2 DEF SlotsOf, SlotsInOrder
      <4> QED
        BY <3>2, <4>1, FS_EmptySet
    <3> QED
      BY <3>1, <3>2
  <2>3. ASSUME NEW i \in Tracks
        PROVE  svc.slots[i].open <=> svc.slots[i].inUse /\ svc.slots[i].source = "file"
    BY <2>1 DEF SlotsInOrder
  <2> QED
    BY <2>2, <2>3 DEF SinkAgrees
<1> QED
  BY <1>1, Invariance, PTL

\* A track's channel never plays what another voice left in it
\* (mixer_reset_channel() at every start and stop).
THEOREM ChannelsAreClean == Spec => []ChannelIsItsVoices
<1>1. IInv => ChannelIsItsVoices
  BY DEF IInv, SvcOK, ChannelsClean, ChannelIsItsVoices
<1> QED
  BY <1>1, Invariance, PTL

\* The window can stop every stream that plays under it
\* (HX421_OP_PRIME_STREAM stops the one it replaces).
THEOREM WindowStopsMusic == Spec => []WindowOwnsMusic
<1>1. IInv => WindowOwnsMusic
  BY DEF IInv
<1> QED
  BY <1>1, Invariance, PTL

=============================================================================
