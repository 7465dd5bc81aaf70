---------------------------- MODULE MixerChannel ----------------------------
(***************************************************************************)
(* One channel of engine/audio/audio_mixer.c: the ring its writer fills    *)
(* (containers/ring_buffer.c), the window of taps the interpolator looks   *)
(* at, the phase that says how far into the window the output is, and the  *)
(* step that the source rate and the clock correction give it.  The writer *)
(* and mixer_render() alternate in one context, in any order.              *)
(*                                                                         *)
(* A source frame is its number, counted from 1 over the channel's life,   *)
(* and 0 is silence; what the taps add up to is in MixerMath.  A phase of  *)
(* Unit is one source frame (2^32 in the code).                            *)
(***************************************************************************)
EXTENDS Integers, Sequences

CONSTANTS
  Unit,       \* phase of one frame
  Capacity,   \* rb.capacity
  Rates,      \* base steps of the source rates, Unit being the output's own
  Trims,      \* what the clock correction adds to the step of a channel
  Cycle,      \* bound of loop_read_pos, a multiple of any number of frames queued
  Interps,    \* the interpolations looked at: "linear", "cubic"
  MaxFrames,  \* bound: frames written
  MaxCalls    \* bound: start, stop, reset and rate calls

ASSUME ChannelAssumption ==
  /\ {Unit, Capacity, MaxFrames} \subseteq Nat \ {0} /\ MaxCalls \in Nat
  /\ Rates \subseteq Nat \ {0} /\ 0 \in Trims /\ Trims \subseteq Int
  /\ \A r \in Rates, d \in Trims : r + d > 0
  /\ Cycle \in Nat \ {0} /\ \A c \in 1 .. Capacity : Cycle % c = 0
  /\ Interps \subseteq {"linear", "cubic"}

VARIABLES
  interp,  \* c->interp, fixed when the mixer is created
  loop,    \* c->loop, likewise
  sync,    \* sync_enabled: every channel resamples
  queue,   \* the frames in rb
  taps,    \* tap_l, tap_r
  primed,  \* tap_primed
  phase,   \* phase, of which the integer part is always 0 between frames
  base,    \* base_step; 0 is "no resampling"
  trim,    \* the correction of sync_corr_acc
  step,    \* step
  pos,     \* loop_read_pos
  active,  \* active
  written, \* history: frames written so far
  calls    \* history: control calls so far

vars == <<interp, loop, sync, queue, taps, primed, phase, base, trim, step, pos,
          active, written, calls>>
config == <<interp, loop, sync>>
rate == <<base, trim, step>>

Smaller(a, b) == IF a <= b THEN a ELSE b

\* taps_for_interp(), current_tap_index().
TapCount == IF interp = "cubic" THEN 4 ELSE 2
Current == IF interp = "cubic" THEN 1 ELSE 0
TapRange == 0 .. TapCount - 1
NoTaps == [t \in TapRange |-> 0]

\* rb_peek_at(): silence past the frames there are.
PeekAt(q, offset) == IF offset < Len(q) THEN q[offset + 1] ELSE 0

\* read_loop_frame_q15(): the ring read round and round, nothing consumed.
LoopFrame(q, at) == IF q = <<>> THEN 0 ELSE q[(at % Len(q)) + 1]

\* load_tap().
Loaded(q, at, offset) == IF loop THEN LoopFrame(q, at + offset) ELSE PeekAt(q, offset)

\* prime_tap_window(): no history, the current frame and those after it.
Primed == [t \in TapRange |->
             IF t < Current THEN 0 ELSE Loaded(queue, pos, t - Current)]

\* Bug: one frame leaves the ring however many are passed.
AdvancedByOne(window, n) ==
  LET m == Smaller(n, TapCount)
      q == IF loop THEN queue ELSE SubSeq(queue, Smaller(1, Len(queue)) + 1, Len(queue))
      at == IF loop THEN pos + m ELSE pos
  IN  [taps |-> [t \in TapRange |->
                   IF t < TapCount - m THEN window[t + m] ELSE Loaded(q, at, t - Current)],
       queue |-> q, pos |-> at]

\* Bug: the frame the window has moved onto is left in the ring.
AdvancedShort(window, n) ==
  LET m == Smaller(n, TapCount)
      q == IF loop THEN queue ELSE SubSeq(queue, Smaller(m, Len(queue) + 1), Len(queue))
      at == IF loop THEN pos + m ELSE pos
  IN  [taps |-> [t \in TapRange |->
                   IF t < TapCount - m THEN window[t + m] ELSE Loaded(q, at, t - Current)],
       queue |-> q, pos |-> at]

\* advance_tap_window(): the taps shift, as many frames leave the ring, at most
\* a window of them, and the taps on the right are loaded from what is left.
Advanced(window, n) ==
  LET m == Smaller(n, TapCount)
      q == IF loop THEN queue ELSE SubSeq(queue, Smaller(m, Len(queue)) + 1, Len(queue))
      at == IF loop THEN pos + m ELSE pos
  IN  [taps |-> [t \in TapRange |->
                   IF t < TapCount - m THEN window[t + m] ELSE Loaded(q, at, t - Current)],
       queue |-> q, pos |-> at]

Init ==
  /\ interp \in Interps /\ loop \in BOOLEAN /\ sync \in BOOLEAN
  /\ queue = <<>> /\ taps = NoTaps /\ primed = FALSE /\ phase = 0
  /\ base \in Rates \cup {0} /\ (base = 0 => ~sync) /\ (base = Unit => sync)
  /\ trim = 0 /\ step = base /\ pos = 0 /\ active = FALSE
  /\ written = 0 /\ calls = 0

\* mixer_write_channel(): rb_push() overwrites the oldest frame of a full ring.
\* The service fills a playing channel no further than its free frames, and one
\* that is not yet playing without looking.
Write(n) ==
  /\ written + n <= MaxFrames
  /\ primed => n <= Capacity - Len(queue)
  /\ LET all == queue \o [i \in 1 .. n |-> written + i]
     IN  queue' = SubSeq(all, Len(all) - Smaller(Len(all), Capacity) + 1, Len(all))
  /\ written' = written + n
  /\ UNCHANGED <<config, taps, primed, phase, rate, pos, active, calls>>

\* produce_channel_sample() without resampling: a frame off the ring.
RenderPlain ==
  /\ active /\ base = 0 /\ ~loop
  /\ queue # <<>> /\ queue' = Tail(queue)
  /\ UNCHANGED <<config, taps, primed, phase, rate, pos, active, written, calls>>

\* produce_channel_sample() through the window: nothing without a frame to start
\* on; once started, the window is advanced over an empty ring as well.
RenderWindow ==
  /\ active /\ (base # 0 \/ loop) /\ (primed \/ queue # <<>>)
  /\ LET window == IF primed THEN taps ELSE Primed
         next == phase + (IF base # 0 THEN step ELSE Unit)
         n == next \div Unit
         after == IF n > 0 THEN Advanced(window, n)
                  ELSE [taps |-> window, queue |-> queue, pos |-> pos]
     IN  /\ taps' = after.taps /\ queue' = after.queue
         /\ pos' = after.pos % Cycle
         /\ phase' = next % Unit
  /\ primed' = TRUE
  /\ UNCHANGED <<config, rate, active, written, calls>>

Render == RenderPlain \/ RenderWindow

Call == calls < MaxCalls /\ calls' = calls + 1

\* mixer_channel_start(): plays what is queued, from its start.
Start ==
  /\ Call /\ active' = TRUE /\ phase' = 0 /\ primed' = FALSE /\ pos' = 0
  /\ UNCHANGED <<config, queue, taps, rate, written>>

\* mixer_channel_stop().
Stop ==
  /\ Call /\ active' = FALSE
  /\ UNCHANGED <<config, queue, taps, primed, phase, rate, pos, written>>

\* Bug: the window survives a reset.
ResetKeepsWindow ==
  /\ Call /\ active' = FALSE /\ queue' = <<>> /\ phase' = 0 /\ pos' = 0
  /\ UNCHANGED <<config, taps, primed, rate, written>>

\* mixer_channel_reset().
Reset ==
  /\ Call /\ active' = FALSE /\ queue' = <<>> /\ phase' = 0
  /\ primed' = FALSE /\ pos' = 0
  /\ UNCHANGED <<config, taps, rate, written>>

\* mixer_set_source_rate(): the window is emptied, the correction waits for the
\* next observation.
SetRate(r) ==
  /\ Call
  /\ base' = IF r # Unit THEN r ELSE IF sync THEN Unit ELSE 0
  /\ step' = base' /\ phase' = 0 /\ taps' = NoTaps /\ primed' = FALSE
  /\ UNCHANGED <<config, queue, trim, pos, active, written>>

\* mixer_set_drift_ppm(), mixer_observe_sync(), mixer_reset_sync(): a clamped
\* correction, and update_channel_steps().
Correct(d) ==
  /\ sync /\ Call
  /\ trim' = d /\ step' = base + d
  /\ UNCHANGED <<config, queue, taps, primed, phase, base, pos, active, written>>

Next ==
  \/ \E n \in 1 .. MaxFrames : Write(n)
  \/ Render
  \/ Start \/ Stop \/ Reset
  \/ \E r \in Rates : SetRate(r)
  \/ \E d \in Trims : Correct(d)

\* The output device asks for frames as long as the program runs.
Spec == Init /\ [][Next]_vars /\ WF_vars(Render)

(***************************************************************************)
(* Properties.                                                             *)
(***************************************************************************)

\* The window and the ring never come apart: a tap from the current one on is
\* the frame as far into the ring, or silence where the frame came too late.
\* Neither an underrun, nor a change of rate, nor a reset makes the
\* interpolator look at a frame that is not about to be played.
WindowInStep ==
  (primed /\ ~loop) => \A t \in Current .. TapCount - 1 :
    taps[t] # 0 => taps[t] = PeekAt(queue, t - Current)

\* The ring gives up a frame for each frame of time: over a step, with enough
\* queued, the phase before, the step and the phase after account for what left.
KeepsTime ==
  [][(RenderWindow /\ ~loop /\ Len(queue) * Unit >= phase + step) =>
       (Len(queue) - Len(queue')) * Unit = phase + step - phase']_vars

\* A playing channel drains, which is what a one-shot's track waits for.
Drains == (active /\ ~loop) ~> (queue = <<>> \/ ~active)
===============================================================================
