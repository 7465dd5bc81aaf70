---------------------------- MODULE MusicPlayer -----------------------------
(***************************************************************************)
(* The intro-and-loop driver of engine/audio/music_player.c, the mixer     *)
(* channel it feeds and the stream it pulls from.  music_update() and      *)
(* mixer_render() alternate in the one service context, so each is a step. *)
(*                                                                         *)
(* A frame is its segment and its offset there.  The streaming buffer is   *)
(* the sequence of frames staged in it, so compaction moves nothing; the   *)
(* mixer channel is the queue rb_push() and rb_pop() make of it.           *)
(***************************************************************************)
EXTENDS Integers, Sequences

CONSTANTS
  Configs,      \* MusicPlayerConfig: [head, intro, loop, fill], in frames;
                \* length 0 is MUSIC_STREAM_NONE, fill = 0 is "no cap"
  BufferSize,   \* streaming_buffer_samples
  ChannelSize,  \* capacity of the mixer channel's ring
  MaxRender     \* bound: frames one mixer_render() pops

ASSUME MusicAssumption ==
  /\ BufferSize \in Nat /\ BufferSize > 1
  /\ ChannelSize \in Nat \ {0} /\ MaxRender \in Nat \ {0}
  /\ \A c \in Configs :
       /\ c \in [head : Nat, intro : Nat, loop : Nat, fill : Nat]
       /\ c.intro + c.loop > 0 /\ c.head <= BufferSize

VARIABLES
  cfg,       \* the configuration, fixed when the player is created
  state,     \* MusicState
  player,    \* segment, segment_offset, pinned_remaining, streaming buffer
  channel,   \* frames queued in the mixer channel
  active,    \* the mixer channel plays
  before,    \* history: the last frame handed to the mixer before ...
  pushed,    \* ... the frames the last music_update() handed over
  entered    \* history: that update ended a segment

vars == <<cfg, state, player, channel, active, before, pushed, entered>>

Segments == {"intro", "loop"}
Length(seg) == IF seg = "intro" THEN cfg.intro ELSE cfg.loop

\* What a head buffer holds past the end of a segment too short to fill it.
Garbage == [seg |-> "none", n |-> 0]

Frame(seg, n) == [seg |-> seg, n |-> n]
FrameSet == [seg : Segments \cup {"none"}, n : Nat]
Frames(seg, from, count) == [i \in 1 .. count |-> Frame(seg, from + i - 1)]
Smaller(a, b) == IF a <= b THEN a ELSE b

\* prime_head(): a short segment fills only the start of the buffer, and the
\* service ignores the error (service.c:161-162).
PinnedHead(seg, from, count) ==
  [i \in 1 .. count |-> IF from + i - 1 < Length(seg) THEN Frame(seg, from + i - 1)
                        ELSE Garbage]

\* audio_file_stream_read(): what the file holds from an offset on.
Stream(seg, offset, count) ==
  IF offset >= Length(seg) THEN <<>>
  ELSE Frames(seg, offset, Smaller(count, Length(seg) - offset))

\* enter_segment().
Entering(seg) ==
  [segment |-> seg, offset |-> 0, staged |-> <<>>,
   pinned |-> IF seg = "none" THEN 0 ELSE cfg.head]

Init ==
  /\ cfg \in Configs
  /\ state = "stopped" /\ player = Entering("none")
  /\ channel = <<>> /\ active = FALSE
  /\ before = Garbage /\ pushed = <<>> /\ entered = FALSE

(***************************************************************************)
(* music_update().                                                         *)
(***************************************************************************)

\* Bug: the frames already staged do not count in the offset.
RefillFromLastPush(p) ==
  [p EXCEPT !.staged =
     @ \o Stream(p.segment, p.offset + p.pinned, BufferSize - Len(@))]

\* refill_streaming_buffer(): the frames that follow those staged, as the
\* offsets have them.
Refill(p) ==
  [p EXCEPT !.staged =
     @ \o Stream(p.segment, p.offset + p.pinned + Len(@), BufferSize - Len(@))]

\* pump_to_mixer(): the rest of the head, then staged frames, up to `target'.
FromHead(p, target) == Smaller(p.pinned, target)
FromStaged(p, target) == Smaller(Len(p.staged), target - FromHead(p, target))

Handed(p, target) ==
  PinnedHead(p.segment, cfg.head - p.pinned, FromHead(p, target))
    \o SubSeq(p.staged, 1, FromStaged(p, target))

Pumped(p, target) ==
  [p EXCEPT !.pinned = @ - FromHead(p, target),
            !.offset = @ + FromStaged(p, target),
            !.staged = SubSeq(@, FromStaged(p, target) + 1, Len(@))]

\* Bug: the head has to be unplayed.
ExhaustedNever(p, got, q) ==
  got = 0 /\ q.staged = <<>> /\ q.pinned = cfg.head

\* segment_exhausted(), `got' being what the refill added, -1 without one.
Exhausted(p, got, q) == got = 0 /\ q.staged = <<>> /\ q.pinned = 0

\* One iteration of music_update()'s loop.
Pass(p, target) ==
  LET refills == Len(p.staged) < BufferSize \div 2
      r == IF refills THEN Refill(p) ELSE p
      got == IF refills THEN Len(r.staged) - Len(p.staged) ELSE -1
      q == Pumped(r, target)
  IN  [player |-> q, frames |-> Handed(r, target), over |-> Exhausted(r, got, q)]

\* The fill the player keeps the channel at, and what is missing to it.
Cap == IF cfg.fill > 0 THEN Smaller(cfg.fill, ChannelSize) ELSE ChannelSize

\* Bug: the frames already queued are not subtracted.
TargetBlind == Smaller(Cap, BufferSize)

Target ==
  IF Cap > Len(channel) THEN Smaller(Cap - Len(channel), BufferSize) ELSE 0

\* mixer_write_channel(): rb_push() drops the oldest frame of a full ring.
Queued(queue, frames) ==
  LET all == queue \o frames
  IN  SubSeq(all, Len(all) - Smaller(Len(all), ChannelSize) + 1, Len(all))

LastFrame(f, frames) == IF frames = <<>> THEN f ELSE frames[Len(frames)]

\* After the last frame of a segment the loop starts, or starts over, within
\* the same call; its end inside that call leaves it entered again.
AfterEnd(first) ==
  LET second == Pass(Entering("loop"), Target)
      frames == first.frames \o second.frames
  IN  /\ player' = IF second.over THEN Entering("loop") ELSE second.player
      /\ pushed' = frames
      /\ channel' = Queued(channel, frames)
      /\ state' = "loop" /\ entered' = TRUE
      /\ UNCHANGED active

\* music_stop(): the channel's queue is thrown away too.
Silence ==
  /\ state' = "stopped" /\ player' = Entering("none")
  /\ channel' = <<>> /\ active' = FALSE /\ pushed' = <<>> /\ entered' = FALSE

Update ==
  /\ state \in Segments /\ Target > 0
  /\ before' = LastFrame(before, pushed)
  /\ LET first == Pass(player, Target)
     IN  \/ /\ ~first.over
            /\ player' = first.player /\ pushed' = first.frames
            /\ channel' = Queued(channel, first.frames)
            /\ entered' = FALSE
            /\ UNCHANGED <<state, active>>
         \/ first.over /\ cfg.loop > 0 /\ AfterEnd(first)
         \/ first.over /\ cfg.loop = 0 /\ Silence
  /\ UNCHANGED cfg

(***************************************************************************)
(* Playback control and the mixer.                                         *)
(***************************************************************************)

\* The segment a playback starts with.
First == IF cfg.intro > 0 THEN "intro" ELSE "loop"

\* music_play() when stopped.
Play ==
  /\ state = "stopped"
  /\ state' = First /\ player' = Entering(First)
  /\ channel' = <<>> /\ active' = TRUE
  /\ before' = Garbage /\ pushed' = <<>> /\ entered' = FALSE
  /\ UNCHANGED cfg

Stop == Silence /\ before' = Garbage /\ UNCHANGED cfg

Pause ==
  /\ state \in Segments
  /\ state' = "paused" /\ active' = FALSE
  /\ UNCHANGED <<cfg, player, channel, before, pushed, entered>>

\* music_resume(), and music_play() when paused.
Resume ==
  /\ state = "paused"
  /\ state' = player.segment /\ active' = TRUE
  /\ UNCHANGED <<cfg, player, channel, before, pushed, entered>>

\* mixer_render() pops frames of an active channel; the resampler makes their
\* number per call vary.
Render ==
  /\ active /\ channel # <<>>
  /\ \E n \in 1 .. Smaller(MaxRender, Len(channel)) :
       channel' = SubSeq(channel, n + 1, Len(channel))
  /\ UNCHANGED <<cfg, state, player, active, before, pushed, entered>>

Next == Update \/ Play \/ Stop \/ Pause \/ Resume \/ Render

\* hxa_render() pumps every player and renders, buffer after buffer.
Spec == Init /\ [][Next]_vars /\ WF_vars(Update) /\ WF_vars(Render)
-----------------------------------------------------------------------------
(***************************************************************************)
(* Properties.                                                             *)
(***************************************************************************)

PlayerType ==
  {p \in [segment : Segments \cup {"none"}, offset : Nat,
          staged : Seq(FrameSet), pinned : 0 .. cfg.head] :
     Len(p.staged) <= BufferSize}

\* Types, the staging buffer's and the channel's capacities.
TypeOK ==
  /\ cfg \in Configs
  /\ state \in {"stopped", "paused"} \cup Segments
  /\ player \in PlayerType
  /\ channel \in Seq(FrameSet) /\ Len(channel) <= ChannelSize
  /\ pushed \in Seq(FrameSet) /\ before \in FrameSet
  /\ active \in BOOLEAN /\ entered \in BOOLEAN

\* What is playing, or resumes after a pause, is the player's segment.
SegmentKept ==
  /\ state \in Segments => player.segment = state
  /\ state = "paused" => player.segment \in Segments

IInv == TypeOK /\ SegmentKept

\* The heads could be primed in full.
HeadsFit == cfg.head <= cfg.intro /\ (cfg.loop > 0 => cfg.head <= cfg.loop)

\* What the mixer is given from the last update but one on, in order.
Delivered == IF before = Garbage THEN pushed ELSE <<before>> \o pushed
Successions == {<<Delivered[i], Delivered[i + 1]>> : i \in 1 .. Len(Delivered) - 1}

\* g is the frame that follows f: the next one of its segment or, after the
\* last one, the first one of the loop.
Follows(f, g) ==
  \/ g = Frame(f.seg, f.n + 1)
  \/ f.n = Length(f.seg) - 1 /\ g = Frame("loop", 0)

\* "The transition between intro and loop is sample-accurate and gap-free"
\* (music_player.h:6-7): the mixer is given every frame once and in order.
GapFree == \A p \in Successions : Follows(p[1], p[2])

\* Without pinned heads that is what happens.
GapFreeWithoutHeads == cfg.head = 0 => GapFree

\* With heads frames may come again, but none is ever left out: whatever the
\* refills and pauses, a segment ends at its last frame, and the loop begins
\* at its first.
NoFrameSkipped ==
  HeadsFit => \A p \in Successions :
                \/ Follows(p[1], p[2])
                \/ p[2].seg = p[1].seg /\ p[2].n <= p[1].n

\* What the mixer is given is the score: nothing skipped with heads, nothing
\* skipped or repeated without.
ScoreKept == GapFreeWithoutHeads /\ NoFrameSkipped

\* "Pump only as much as the mixer channel can actually hold without
\* overwriting unplayed audio" and no more than the latency cap asks for
\* (music_player.c:413-428), unless the update also ended a segment.
FillCapped ==
  [][Len(channel') > Len(channel) => Len(channel') <= Cap \/ entered']_vars

\* A stream that ends is noticed: the intro gives way to the loop or to
\* silence, unless somebody pauses it.
IntroEnds == state = "intro" ~> state # "intro"
=============================================================================
