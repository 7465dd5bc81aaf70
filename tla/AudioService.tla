---------------------------- MODULE AudioService ----------------------------
(***************************************************************************)
(* The audio engine's owner, engine/service.c: what its arbiter sink does  *)
(* with music slots, files, the push ring and mixer channels, what         *)
(* hxa_render() does with all of them, and the two command front ends that *)
(* keep its handles: the window of engine/hx421_cmd.c and the calls of     *)
(* hx421_audio_command() in runtime/hx421_runtime.c.                       *)
(*                                                                         *)
(* A call runs to its end on one thread, so each is a step, and what the   *)
(* service does in it is a function of its state.  A track stands for the  *)
(* arbiter's entry (AudioArbiter has it in full), a slot's player for the  *)
(* frames it moves (MusicPlayer has it in full), a channel's queue for its *)
(* length and the voice whose frames it holds.                             *)
(***************************************************************************)
EXTENDS Integers, FiniteSets

CONSTANTS
  TrackCount,   \* track_count
  SfxSlots,     \* HX421_CMD_SFX_SLOTS, HX421_SFX_SLOTS
  Lengths,      \* frames a one-shot may hold
  ChannelSize,  \* buffer_samples of a mixer channel
  LowFill,      \* ll_chanfill: the cap of a ring voice's channel
  RingSize,     \* frames the push ring holds
  Quantum,      \* frames hxa_render() is asked for
  Fronts,       \* the front ends looked at
  MaxGen,       \* bound: voices a track may have had
  MaxLoads      \* bound: one-shots loaded

ASSUME ServiceAssumption ==
  /\ {TrackCount, SfxSlots, ChannelSize, LowFill, RingSize, Quantum,
      MaxGen, MaxLoads} \subseteq Nat \ {0}
  /\ LowFill <= ChannelSize /\ Lengths \subseteq Nat \ {0}
  /\ Fronts \subseteq {"window", "calls", "film"}

VARIABLES
  svc,      \* HxaService: kind, gen and object of each track, the generation of
            \* its next voice, slots, channels and the push ring
  front,    \* "window": hx421_cmd_poll(); "calls": hx421_audio_command();
            \* "film": the latter, next to the audio voice of an open .fmv
  wav,      \* HX421_WAV names a file for PLAY_MUSIC
  objects,  \* lengths of the live pool objects; nothing frees one
  sfx,      \* the front end's table of objects, 0 for none
  nsfx,     \* window: entries in use
  music,    \* c->music, g_music_voice
  toneOn,   \* g_smoke_mixer
  tone      \* g_smoke_voice

vars == <<svc, front, wav, objects, sfx, nsfx, music, toneOn, tone>>

Tracks == 0 .. TrackCount - 1
NoVoice == [track |-> 0, gen |-> 0]
FreeSlot == [inUse |-> FALSE, track |-> 0, source |-> "none", open |-> FALSE]
Silent == [active |-> FALSE, frames |-> 0, of |-> 0]

Smaller(a, b) == IF a <= b THEN a ELSE b
Least(S) == CHOOSE n \in S : \A m \in S : n <= m

FreeTracks(s) == {t \in Tracks : s.kind[t] = "free"}
Live(s, v) == v.gen # 0 /\ s.kind[v.track] # "free" /\ s.gen[v.track] = v.gen
SlotsOf(s, t) == {i \in Tracks : s.slots[i].inUse /\ s.slots[i].track = t}
FreeSlots(s) == {i \in Tracks : ~s.slots[i].inUse}
HasRoom(s) == FreeTracks(s) # {}

(***************************************************************************)
(* Voices: the arbiter's calls with the service's sink.                    *)
(***************************************************************************)

\* The voice the arbiter starts next, and its entry for it.
NextVoice(s) == LET t == Least(FreeTracks(s)) IN [track |-> t, gen |-> s.next[t]]

Claimed(s, kind, object) ==
  LET t == NextVoice(s).track
  IN  [s EXCEPT !.kind[t] = kind, !.gen[t] = s.next[t], !.object[t] = object]

\* svc_sink_start() of a one-shot: the channel is reset and the whole sample
\* pushed into its ring, which keeps the last ChannelSize frames.
SfxStarted(s, object) ==
  LET v == NextVoice(s) IN
  [Claimed(s, "sfx", object) EXCEPT
     !.chan[v.track] = [active |-> TRUE, of |-> v.gen,
                        frames |-> Smaller(objects[object], ChannelSize)]]

\* svc_sink_start() of a stream as far as start_music() before its player: the
\* first free slot has its source, the file is open or the one ring is reset, and
\* the channel of the track is reset.
StreamOpened(s, source) ==
  LET i == Least(FreeSlots(s)) IN
  [s EXCEPT !.slots[i] = [@ EXCEPT !.source = source, !.open = source = "file"],
            !.ring = IF source = "ring" THEN 0 ELSE @,
            !.chan[NextVoice(s).track] = Silent]

\* With a player the slot is the track's and the channel runs; the arbiter claims
\* the track last.
MusicStarted(s, source) ==
  LET t == NextVoice(s).track IN
  [Claimed(StreamOpened(s, source), "music", 0) EXCEPT
     !.slots[Least(FreeSlots(s))] = [@ EXCEPT !.inUse = TRUE, !.track = t],
     !.chan[t] = [Silent EXCEPT !.active = TRUE]]

\* Bug: without a player the file stays open.
MusicFailedOpen(s, source) ==
  [StreamOpened(s, source) EXCEPT !.slots[Least(FreeSlots(s))] = [@ EXCEPT !.source = "none"]]

\* Without a player (music_create() fails) the file is closed and the slot as it
\* was; the ring stays reset, and so does the channel.
MusicFailed(s, source) ==
  [StreamOpened(s, source) EXCEPT
     !.slots[Least(FreeSlots(s))] = [@ EXCEPT !.source = "none", !.open = FALSE]]

\* What may come of a stream that is asked for, if there is a track and a slot.
Outcomes(source) ==
  {"starts", "noPlayer"} \cup (IF source = "file" THEN {"noFile"} ELSE {})
TakesStream(s) == HasRoom(s) /\ FreeSlots(s) # {}

\* hxa_play_stream_wav(), hxa_open_pcm_stream(): the service after it, and the
\* handle it returns.
Asked(s, source, outcome) ==
  IF ~TakesStream(s) \/ outcome = "noFile" THEN s
  ELSE IF outcome = "noPlayer" THEN MusicFailed(s, source)
  ELSE MusicStarted(s, source)
Given(s, outcome) ==
  IF TakesStream(s) /\ outcome = "starts" THEN NextVoice(s) ELSE NoVoice

\* Bug: the queued frames are not dropped.
StoppedKeepFrames(s, T) ==
  [s EXCEPT
     !.slots = [i \in Tracks |-> IF @[i].inUse /\ @[i].track \in T THEN FreeSlot ELSE @[i]],
     !.chan = [t \in Tracks |-> IF t \in T THEN [@[t] EXCEPT !.active = FALSE] ELSE @[t]],
     !.kind = [t \in Tracks |-> IF t \in T THEN "free" ELSE @[t]],
     !.next = [t \in Tracks |-> IF t \in T THEN @[t] + 1 ELSE @[t]]]

\* stop_track() and svc_sink_stop() on the tracks of T: player destroyed, file
\* closed, slot free, channel stopped and emptied, outstanding handles stale.
Stopped(s, T) ==
  [s EXCEPT
     !.slots = [i \in Tracks |-> IF @[i].inUse /\ @[i].track \in T THEN FreeSlot ELSE @[i]],
     !.chan = [t \in Tracks |-> IF t \in T THEN Silent ELSE @[t]],
     !.kind = [t \in Tracks |-> IF t \in T THEN "free" ELSE @[t]],
     !.next = [t \in Tracks |-> IF t \in T THEN @[t] + 1 ELSE @[t]]]

\* hxa_stop_voice(): a stale handle stops nothing.
VoiceStopped(s, v) == Stopped(s, IF Live(s, v) THEN {v.track} ELSE {})

\* The generations of the model are bounded.
Bounded(s) == \A t \in Tracks : s.next[t] <= MaxGen

(***************************************************************************)
(* hxa_render().                                                           *)
(***************************************************************************)

\* music_update() of the player in slot i: a looping file never ends, and neither
\* does a ring, which makes up with silence what it lacks
\* (audio_ring_stream_read()); it goes up to the cap of its channel.
FramesFor(s, i) ==
  LET queued == s.chan[s.slots[i].track].frames IN
  IF ~s.slots[i].inUse THEN 0
  ELSE IF s.slots[i].source = "file" THEN ChannelSize - queued
  ELSE IF queued >= LowFill THEN 0 ELSE LowFill - queued

\* The slots are updated in order: left[i] frames are in the ring at slot i's turn.
RingLeft(s, left) ==
  /\ left[0] = s.ring
  /\ \A i \in Tracks :
       left[i + 1] = left[i] - (IF s.slots[i].source = "ring"
                                THEN Smaller(left[i], FramesFor(s, i)) ELSE 0)

Updated(s, left) ==
  [s EXCEPT
     !.ring = left[TrackCount],
     !.chan = [t \in Tracks |->
                 IF SlotsOf(s, t) = {} THEN s.chan[t]
                 ELSE LET n == FramesFor(s, Least(SlotsOf(s, t)))
                      IN  [s.chan[t] EXCEPT !.frames = @ + n,
                                            !.of = IF n > 0 /\ s.chan[t].frames = 0
                                                   THEN s.gen[t] ELSE @]]]

\* Bug: a drained one-shot is looked for among the stopped channels.
DrainedWhenStopped(s) == {t \in Tracks : s.kind[t] = "sfx" /\ ~s.chan[t].active}

\* audio_arbiter_reap(), svc_sink_is_done(): the one-shots that have drained.
Drained(s) == {t \in Tracks : s.kind[t] = "sfx" /\ s.chan[t].frames = 0}

\* mixer_render(): Quantum frames of every active channel.
Mixed(s) ==
  [s EXCEPT !.chan = [t \in Tracks |->
     IF ~s.chan[t].active THEN s.chan[t]
     ELSE IF s.chan[t].frames <= Quantum THEN [s.chan[t] EXCEPT !.frames = 0, !.of = 0]
     ELSE [s.chan[t] EXCEPT !.frames = @ - Quantum]]]

Rendered(s, left) == Mixed(Stopped(Updated(s, left), Drained(Updated(s, left))))

Render ==
  /\ \E left \in [0 .. TrackCount -> 0 .. RingSize] :
       RingLeft(svc, left) /\ svc' = Rendered(svc, left)
  /\ UNCHANGED <<front, wav, objects, sfx, nsfx, music, toneOn, tone>>

\* hxa_feed_pcm(): the film's decoder, or smoke_feed() ahead of a render.
FeedRing(n) ==
  /\ front = "film" \/ toneOn
  /\ n <= RingSize - svc.ring
  /\ svc' = [svc EXCEPT !.ring = @ + n]
  /\ UNCHANGED <<front, wav, objects, sfx, nsfx, music, toneOn, tone>>

\* hxa_flush_pcm(): a seek of the film drops the audio of where it was.
FlushRing ==
  /\ front = "film"
  /\ svc' = [svc EXCEPT !.ring = 0]
  /\ UNCHANGED <<front, wav, objects, sfx, nsfx, music, toneOn, tone>>

(***************************************************************************)
(* Commands.                                                               *)
(***************************************************************************)

Loaded == Cardinality(DOMAIN objects)
LoadedWith(length) ==
  [o \in 1 .. Loaded + 1 |-> IF o <= Loaded THEN objects[o] ELSE length]

\* HX421_OP_LOAD_SFX: with the table full the object is loaded all the same and
\* its handle forgotten.
WindowLoad(length) ==
  /\ front = "window" /\ Loaded < MaxLoads
  /\ objects' = LoadedWith(length)
  /\ IF nsfx < SfxSlots
     THEN sfx' = [sfx EXCEPT ![nsfx] = Loaded + 1] /\ nsfx' = nsfx + 1
     ELSE UNCHANGED <<sfx, nsfx>>
  /\ UNCHANGED <<svc, front, wav, music, toneOn, tone>>

\* HX421_ACMD_LOAD_SFX: the object an entry held before is not freed.
CallLoad(entry, length) ==
  /\ front # "window" /\ Loaded < MaxLoads
  /\ objects' = LoadedWith(length)
  /\ sfx' = [sfx EXCEPT ![entry] = Loaded + 1]
  /\ UNCHANGED <<svc, front, wav, nsfx, music, toneOn, tone>>

\* HX421_OP_TRIGGER_SFX, HX421_ACMD_TRIGGER: rejected when every track is taken.
Trigger(entry) ==
  /\ sfx[entry] # 0 /\ HasRoom(svc) /\ Bounded(svc)
  /\ svc' = SfxStarted(svc, sfx[entry])
  /\ UNCHANGED <<front, wav, objects, sfx, nsfx, music, toneOn, tone>>

\* Bug: the stream that plays is not stopped first.
PrimeOver(outcome) ==
  /\ front = "window" /\ Bounded(svc)
  /\ svc' = Asked(svc, "file", outcome) /\ music' = Given(svc, outcome)
  /\ UNCHANGED <<front, wav, objects, sfx, nsfx, toneOn, tone>>

\* HX421_OP_PRIME_STREAM: the stream that plays is stopped, and the named one
\* asked for.
Prime(outcome) ==
  LET quiet == VoiceStopped(svc, music) IN
  /\ front = "window" /\ Bounded(svc)
  /\ svc' = Asked(quiet, "file", outcome) /\ music' = Given(quiet, outcome)
  /\ UNCHANGED <<front, wav, objects, sfx, nsfx, toneOn, tone>>

\* HX421_OP_STOP_MUSIC and HX421_OP_STOP_ALL, which leaves the one-shots alone.
WindowStop ==
  /\ front = "window" /\ music # NoVoice
  /\ svc' = VoiceStopped(svc, music) /\ music' = NoVoice
  /\ UNCHANGED <<front, wav, objects, sfx, nsfx, toneOn, tone>>

\* HX421_ACMD_PLAY_MUSIC with HX421_WAV: the stream that plays is not stopped.
PlayWav(outcome) ==
  /\ front # "window" /\ wav /\ Bounded(svc)
  /\ svc' = Asked(svc, "file", outcome) /\ music' = Given(svc, outcome)
  /\ UNCHANGED <<front, wav, objects, sfx, nsfx, toneOn, tone>>

\* HX421_ACMD_PLAY_MUSIC without: the tone, unless it is thought to play.
PlayTone(outcome) ==
  LET v == Given(svc, outcome) IN
  /\ front # "window" /\ ~wav /\ ~toneOn /\ Bounded(svc)
  /\ svc' = Asked(svc, "ring", outcome)
  /\ tone' = v /\ toneOn' = (v # NoVoice) /\ music' = v
  /\ UNCHANGED <<front, wav, objects, sfx, nsfx>>

\* HX421_ACMD_STOP of a handle the caller was given; g_smoke_mixer stays set.
Handles == {[track |-> t, gen |-> svc.gen[t]] : t \in Tracks \ FreeTracks(svc)}
             \cup {music, tone}
CallStop(v) ==
  /\ front # "window"
  /\ svc' = VoiceStopped(svc, v)
  /\ music' = IF v = music THEN NoVoice ELSE music
  /\ UNCHANGED <<front, wav, objects, sfx, nsfx, toneOn, tone>>

\* HX421_ACMD_STOP_ALL: the two voices it has handles for.
CallStopAll ==
  /\ front # "window"
  /\ svc' = VoiceStopped(VoiceStopped(svc, music), IF toneOn THEN tone ELSE NoVoice)
  /\ music' = NoVoice /\ tone' = NoVoice /\ toneOn' = FALSE
  /\ UNCHANGED <<front, wav, objects, sfx, nsfx>>

\* hxa_create(): nothing plays.
Idle ==
  [kind |-> [t \in Tracks |-> "free"], gen |-> [t \in Tracks |-> 0],
   object |-> [t \in Tracks |-> 0], next |-> [t \in Tracks |-> 1],
   slots |-> [i \in Tracks |-> FreeSlot], chan |-> [t \in Tracks |-> Silent],
   ring |-> 0]

\* hx421_init(): an open film asks for a ring voice; without HX421_CMD the file of
\* HX421_WAV is asked for, its handle forgotten, or else, without a film, the tone.
Init ==
  /\ front \in Fronts /\ wav \in BOOLEAN
  /\ objects = <<>> /\ sfx = [e \in 0 .. SfxSlots - 1 |-> 0] /\ nsfx = 0
  /\ music = NoVoice
  /\ \E cmdMode \in BOOLEAN, film, first \in Outcomes("ring"), file \in Outcomes("file") :
       LET filmed == IF front = "film" THEN Asked(Idle, "ring", film) ELSE Idle
           filed == front # "window" /\ wav /\ ~cmdMode
           toned == front = "calls" /\ ~wav /\ ~cmdMode
       IN  /\ svc = IF filed THEN Asked(filmed, "file", file)
                    ELSE IF toned THEN Asked(filmed, "ring", first) ELSE filmed
           /\ tone = IF toned THEN Given(filmed, first) ELSE NoVoice
           /\ toneOn = (tone # NoVoice)

Commands ==
  \/ \E length \in Lengths : \/ WindowLoad(length)
                             \/ \E e \in DOMAIN sfx : CallLoad(e, length)
  \/ \E e \in DOMAIN sfx : Trigger(e)
  \/ \E outcome \in Outcomes("file") : Prime(outcome) \/ PlayWav(outcome)
  \/ WindowStop
  \/ \E outcome \in Outcomes("ring") : PlayTone(outcome)
  \/ \E v \in Handles : CallStop(v)
  \/ CallStopAll

Next == Render \/ FlushRing \/ (\E n \in 1 .. RingSize : FeedRing(n)) \/ Commands

\* The output is pulled for as long as the emulator runs.
Spec == Init /\ [][Next]_vars /\ WF_vars(Render)

(***************************************************************************)
(* Properties.                                                             *)
(***************************************************************************)

\* Types, and the bounds on queues: no queue is fuller than its ring.
TypeOK ==
  /\ svc.kind \in [Tracks -> {"free", "sfx", "music"}]
  /\ svc.next \in [Tracks -> 1 .. MaxGen + 2]
  /\ svc.slots \in [Tracks -> [inUse : BOOLEAN, track : Tracks,
                               source : {"none", "file", "ring"}, open : BOOLEAN]]
  /\ svc.chan \in [Tracks -> [active : BOOLEAN, frames : 0 .. ChannelSize,
                              of : 0 .. MaxGen + 1]]
  /\ svc.ring \in 0 .. RingSize
  /\ sfx \in [0 .. SfxSlots - 1 -> 0 .. Loaded]

\* The arbiter's voices and the sink's resources never come apart, whatever the
\* order of commands, failures and reaps: a stream has one slot, a slot a
\* stream, a file is open for the streams that read it and for no other.
SinkAgrees ==
  /\ \A t \in Tracks :
       Cardinality(SlotsOf(svc, t)) = (IF svc.kind[t] = "music" THEN 1 ELSE 0)
  /\ \A i \in Tracks : svc.slots[i].open <=> svc.slots[i].inUse
                                               /\ svc.slots[i].source = "file"

\* A track's channel never plays what another voice left in it.
ChannelIsItsVoices ==
  \A t \in Tracks : svc.chan[t].frames > 0 =>
    svc.kind[t] # "free" /\ svc.chan[t].of = svc.gen[t]

\* Under the window a stream that plays is the one the window can stop.
WindowOwnsMusic ==
  front = "window" => \A t \in Tracks : svc.kind[t] = "music" =>
                        music = [track |-> t, gen |-> svc.gen[t]]

\* A one-shot ends and gives its track back, however full the tracks are.
SfxEnds ==
  \A t \in Tracks : \A g \in 1 .. MaxGen + 1 :
    (svc.kind[t] = "sfx" /\ svc.gen[t] = g)
      ~> (svc.kind[t] # "sfx" \/ svc.gen[t] # g)

===============================================================================
