---------------------------- MODULE AudioArbiter ----------------------------
(***************************************************************************)
(* The track arbiter of engine/audio/audio_arbiter.c on top of the sample  *)
(* pool, with the VMs that call both and the sink (mixer channels) the     *)
(* arbiter drives.  All of them run in the one service context, so every   *)
(* call is one step.  Declined calls (bad object, every track busy, a sink *)
(* that refuses, after which the reference taken is given back) leave the  *)
(* state as it was and have no action.                                     *)
(***************************************************************************)
EXTENDS AudioPool

CONSTANT MaxTracks     \* track_count, the channels being arbitrated

ASSUME TrackAssumption == MaxTracks \in Nat \ {0}

VARIABLES
  tracks,         \* the track table
  trackGens,      \* generation the next voice of each track will get
  activeCount,    \* active_count
  sink,           \* what the sink plays on each track
  deadVoices,     \* history: generations of each track's finished voices
  holds           \* callers: the handles each VM owns a reference for

arbiterVars == <<tracks, trackGens, activeCount, sink, deadVoices>>
vars == <<usedMap, freeBlocks, objects, generations, deadObjects,
          tracks, trackGens, activeCount, sink, deadVoices, holds>>

Tracks == 0 .. MaxTracks - 1
Kinds == {"SFX", "MUSIC"}

FreeTrack == [active |-> FALSE, object |-> NoHandle, kind |-> "SFX",
              ownerVm |-> 0, generation |-> 0]

Active(t) == tracks[t].active

\* find_free_track(): the lowest track that is not active.
IsFirstFreeTrack(t) == ~Active(t) /\ \A u \in Tracks : u < t => Active(u)

\* The voices among T that keep the object in slot s alive.
VoicesOf(s, T) == {t \in T : Active(t) /\ InUse(s)
                                       /\ tracks[t].object = HandleOf(s)}

\* The VMs that own a reference on the object in slot s.
HoldersOf(s) == {vm \in VMs : InUse(s) /\ HandleOf(s) \in holds[vm]}

Init ==
  /\ PoolInit
  /\ tracks = [t \in Tracks |-> FreeTrack]
  /\ trackGens = [t \in Tracks |-> 1]
  /\ activeCount = 0
  /\ sink = [t \in Tracks |-> "off"]
  /\ deadVoices = [t \in Tracks |-> <<>>]
  /\ holds = [vm \in VMs |-> {}]

(***************************************************************************)
(* Pool calls of a VM.                                                     *)
(***************************************************************************)

\* A VM loads a sample and owns its creation reference.
Alloc(vm) ==
  /\ \E s \in Slots, need \in 1 .. freeBlocks, chain \in SUBSET (Blocks \ usedMap) :
       /\ AllocObject(s, vm, need, chain)
       /\ holds' = [holds EXCEPT ![vm] =
                      @ \cup {[slot |-> s, gen |-> generations[s]]}]
  /\ UNCHANGED arbiterVars

\* Another VM takes a share in a live object.  Bound: a VM owns at most one
\* reference per object.
Ref(vm, h) ==
  /\ h \notin holds[vm]
  /\ RefObject(h)
  /\ holds' = [holds EXCEPT ![vm] = @ \cup {h}]
  /\ UNCHANGED arbiterVars

\* A VM gives up a reference it owns.
Unref(vm, h) ==
  /\ h \in holds[vm]
  /\ UnrefObject(h)
  /\ holds' = [holds EXCEPT ![vm] = @ \ {h}]
  /\ UNCHANGED arbiterVars

\* The pool's half of a VM's death.
PoolSweep(vm) ==
  /\ SweepObjects(vm)
  /\ holds' = [holds EXCEPT ![vm] = {}]
  /\ UNCHANGED arbiterVars

(***************************************************************************)
(* Arbiter calls.                                                          *)
(***************************************************************************)

\* The bookkeeping play() and play_external() share once the sink accepted.
StartVoice(t, vm, kind, object) ==
  /\ IsFirstFreeTrack(t)
  /\ tracks' = [tracks EXCEPT ![t] =
                  [active |-> TRUE, object |-> object, kind |-> kind,
                   ownerVm |-> vm, generation |-> trackGens[t]]]
  /\ activeCount' = activeCount + 1
  /\ sink' = [sink EXCEPT ![t] = "on"]
  /\ UNCHANGED <<trackGens, deadVoices, holds>>

\* Bug: the voice takes no reference.
PlayWithoutRef(vm, h, kind) ==
  /\ Resolves(h)
  /\ UNCHANGED poolVars
  /\ \E t \in Tracks : StartVoice(t, vm, kind, h)

\* audio_arbiter_play() of a live object, by any VM that knows its handle:
\* the voice takes a reference of its own.
Play(vm, h, kind) ==
  /\ RefObject(h)
  /\ \E t \in Tracks : StartVoice(t, vm, kind, h)

\* audio_arbiter_play_external(): a file or ring stream, no pool object.
PlayExternal(vm) ==
  /\ \E t \in Tracks : StartVoice(t, vm, "MUSIC", NoHandle)
  /\ UNCHANGED poolVars

\* stop_track() on every active track of T: the sink is stopped, the voice's
\* reference dropped, the track's generation bumped.
StopTracks(T) ==
  LET stopped == {t \in T : Active(t)} IN
  /\ sink' = [t \in Tracks |-> IF t \in stopped THEN "off" ELSE sink[t]]
  /\ DropReferences([s \in Slots |-> Cardinality(VoicesOf(s, stopped))])
  /\ trackGens' = [t \in Tracks |->
                     IF t \in stopped THEN NextGeneration(trackGens[t])
                     ELSE trackGens[t]]
  /\ deadVoices' = [t \in Tracks |->
                      IF t \in stopped
                      THEN Remember(deadVoices[t], tracks[t].generation)
                      ELSE deadVoices[t]]
  /\ tracks' = [t \in Tracks |-> IF t \in stopped THEN FreeTrack ELSE tracks[t]]
  /\ activeCount' = activeCount - Cardinality(stopped)
  /\ UNCHANGED holds

\* A voice handle names the voice now on track t.
VoiceResolves(t, gen) == Active(t) /\ tracks[t].generation = gen

\* audio_arbiter_stop() and _voice_finished() with any voice handle.
Stop(t, gen) == VoiceResolves(t, gen) /\ StopTracks({t})

\* The tracks audio_arbiter_reap() frees: one-shots the sink has played out.
Finished == {t \in Tracks : /\ Active(t)
                            /\ tracks[t].kind = "SFX"
                            /\ sink[t] = "done"}

\* Bug: the scan ends at the first free track instead of passing it over.
ReapToFirstGap ==
  LET reached == {t \in Finished : \A u \in Tracks : u < t => Active(u)}
  IN  reached # {} /\ StopTracks(reached)

\* audio_arbiter_reap(), once per rendered buffer (service.c:536).
Reap == Finished # {} /\ StopTracks(Finished)

\* audio_arbiter_sweep_vm(), the arbiter's half of a VM's death.
ArbiterSweep(vm) ==
  /\ \E t \in Tracks : Active(t) /\ tracks[t].ownerVm = vm
  /\ StopTracks({t \in Tracks : tracks[t].ownerVm = vm})

\* The mixer drains a one-shot's channel: sink.is_done() answers true from
\* now on.  A music channel waits for its player instead.
Drain(t) ==
  /\ sink[t] = "on" /\ tracks[t].kind = "SFX"
  /\ sink' = [sink EXCEPT ![t] = "done"]
  /\ UNCHANGED <<usedMap, freeBlocks, objects, generations, deadObjects,
                 tracks, trackGens, activeCount, deadVoices, holds>>

(***************************************************************************)
(* The callers' contract: the sweep drops one reference per object the     *)
(* dying VM created, so a VM dies owning exactly those references.  It has *)
(* given back its shares in other VMs' objects, and not its creation       *)
(* references (audio_pool.h:188-192).                                      *)
(***************************************************************************)
OwnsWhatItCreated(vm) ==
  holds[vm] = {HandleOf(s) : s \in {r \in Slots : /\ InUse(r)
                                                  /\ objects[r].ownerVm = vm}}

\* A sweep of a VM that owns nothing changes nothing.
SweepByContract(vm) ==
  holds[vm] # {} /\ OwnsWhatItCreated(vm) /\ PoolSweep(vm)

Next ==
  \/ \E vm \in VMs :
       \/ Alloc(vm)
       \/ \E h \in Handles : Ref(vm, h) \/ Unref(vm, h)
       \/ \E h \in Handles, kind \in Kinds : Play(vm, h, kind)
       \/ PlayExternal(vm)
       \/ ArbiterSweep(vm)
       \/ SweepByContract(vm)
  \/ \E t \in Tracks, gen \in Gens : Stop(t, gen)
  \/ \E t \in Tracks : Drain(t)
  \/ Reap

\* Rendering goes on, and every buffer reaps before it mixes.
Fairness == WF_vars(Reap)

Spec == Init /\ [][Next]_vars /\ Fairness

\* The same calls, a VM dying with whatever it happens to own once its own
\* voices have been stopped.
SweepAfterVoices(vm) ==
  /\ \A t \in Tracks : Active(t) => tracks[t].ownerVm # vm
  /\ PoolSweep(vm)

AnySweepNext == Next \/ \E vm \in VMs : SweepAfterVoices(vm)
AnySweepSpec == Init /\ [][AnySweepNext]_vars /\ Fairness
-----------------------------------------------------------------------------
(***************************************************************************)
(* Properties.                                                             *)
(***************************************************************************)
ObjectType == [inUse : BOOLEAN, refcount : Nat, generation : 0 .. Generations - 1,
               ownerVm : VMs \cup {0}, chain : SUBSET Blocks]
TrackType == [active : BOOLEAN, object : Handles \cup {NoHandle}, kind : Kinds,
              ownerVm : VMs \cup {0}, generation : 0 .. Generations - 1]

\* Types of the pool, the track table, the sink and the callers' handles.
TypeOK ==
  /\ usedMap \subseteq Blocks
  /\ freeBlocks \in Nat
  /\ objects \in [Slots -> ObjectType]
  /\ generations \in [Slots -> Gens]
  /\ deadObjects \in [Slots -> Seq(Gens)]
  /\ tracks \in [Tracks -> TrackType]
  /\ trackGens \in [Tracks -> Gens]
  /\ activeCount \in Nat
  /\ sink \in [Tracks -> {"off", "on", "done"}]
  /\ deadVoices \in [Tracks -> Seq(Gens)]
  /\ holds \in [VMs -> SUBSET Handles]

\* A sounding voice's object is the one it was started with and is still
\* there: "a playing object cannot be freed out from under the mixer even if
\* its creator VM frees its own handle" (audio_arbiter.h:53-55).
PlayingObjectLives ==
  \A t \in Tracks :
    Active(t) /\ tracks[t].object # NoHandle => Resolves(tracks[t].object)

\* No VM is left with a reference to something that was freed.
HeldObjectLives == \A vm \in VMs : \A h \in holds[vm] : Resolves(h)

\* The count of a live object is the number of VMs and voices that own a
\* reference on it, and it is live only while there is one (audio_pool.h:
\* 40-45): neither a leak nor a premature free is possible.
RefcountExact ==
  \A s \in Slots : InUse(s) =>
    /\ objects[s].refcount = Cardinality(HoldersOf(s))
                             + Cardinality(VoicesOf(s, Tracks))
    /\ objects[s].refcount > 0

\* active_count, from which free_tracks is computed, agrees with the table,
\* and a channel of the mixer sounds exactly while its track is claimed.
TrackAccounting ==
  /\ activeCount = Cardinality({t \in Tracks : Active(t)})
  /\ \A t \in Tracks : Active(t) <=> sink[t] # "off"

\* A voice handle kept after its voice ended never stops the voice that took
\* the track over (audio_arbiter.c:157-159).
StaleVoicesRejected ==
  \A t \in Tracks : \A i \in DOMAIN deadVoices[t] :
    /\ ~VoiceResolves(t, deadVoices[t][i])
    /\ trackGens[t] # deadVoices[t][i]

\* Neither a block nor a track is lost, shared or miscounted over any sequence
\* of calls, also when a play or a load is declined halfway.
Accounted == BlockAccounting /\ TrackAccounting

\* A handle kept too long, to an object or to a voice, reaches nothing newer.
StaleRejected == StaleObjectsRejected /\ StaleVoicesRejected

\* A one-shot that has played out gives its track back, so finished sounds
\* cannot fill the arbiter (service.c:534-536).
FinishedVoiceReaped ==
  \A t \in Tracks : t \in Finished ~> t \notin Finished

(***************************************************************************)
(* The inductive invariant: the properties above, and what ties a          *)
(* descriptor's generation to its slot's counter.                          *)
(***************************************************************************)

\* A descriptor in use carries its slot's generation, a free one no blocks.
SlotsCoherent ==
  \A s \in Slots : IF InUse(s) THEN objects[s].generation = generations[s]
                              ELSE objects[s].chain = {}

TracksCoherent ==
  \A t \in Tracks : Active(t) => tracks[t].generation = trackGens[t]

\* The i-th last entry of a history is the generation i steps before g.
IsHistory(past, g) ==
  /\ Len(past) <= Generations - 2
  /\ \A i \in 1 .. Len(past) :
       past[Len(past) + 1 - i] = IF g > i THEN g - i ELSE g - i + Generations - 1

Histories ==
  /\ \A s \in Slots : IsHistory(deadObjects[s], generations[s])
  /\ \A t \in Tracks : IsHistory(deadVoices[t], trackGens[t])

IInv ==
  /\ TypeOK
  /\ BlockAccounting
  /\ SlotsCoherent
  /\ TracksCoherent
  /\ Histories
  /\ HeldObjectLives
  /\ PlayingObjectLives
  /\ RefcountExact
  /\ TrackAccounting

(***************************************************************************)
(* The abstract specification: an object lives exactly as long as somebody *)
(* refers to it.                                                           *)
(***************************************************************************)
\* Whoever refers to slot s, of whatever generation: were an object freed too
\* early, its users would still show here.
UsersOf(s) ==
  ({"vm"} \X {vm \in VMs : \E h \in holds[vm] : h.slot = s})
    \cup ({"voice"} \X {t \in Tracks : Active(t) /\ tracks[t].object.slot = s})

Lifetime == INSTANCE ObjectLifetime WITH
  Names <- Slots,
  Users <- ({"vm"} \X VMs) \cup ({"voice"} \X Tracks),
  live  <- {s \in Slots : InUse(s)},
  users <- [s \in Slots |-> UsersOf(s)]

\* Pool and arbiter together implement it: every call maps to one of its
\* steps or to none.
ImplementsLifetime == Lifetime!Spec
=============================================================================
