------------------------------ MODULE MixerMath ------------------------------
(***************************************************************************)
(* The arithmetic of engine/audio/audio_mixer.c: what a source frame is    *)
(* worth, what lies between two taps, what the channels add up to, and the *)
(* filter that turns clock observations into a rate correction.            *)
(*                                                                         *)
(* Samples have their own sixteen bits; the accumulator of the filter has  *)
(* AccOne for the code's 2^31 - 2^16, and the tick rates are small.        *)
(***************************************************************************)
EXTENDS Integers, Sequences, SequencesExt, CNumbers

CONSTANTS
  AccOne,     \* SYNC_ACC_ONE: a correction of one
  Smoothing,  \* sync_smoothing, in parts of SmoothOne
  SmoothOne,  \* Q15_ONE of the smoothing
  MaxAcc,     \* sync_max_correction, in AccOne
  TickRate,   \* sync_external_ticks_per_second
  FrameRate   \* sample_rate

Q15One == 32767
Sat16(v) == Clamped(v, -32768, 32767)

\* A sample of a source, of which the memory holds the unsigned number: signed
\* of 16 or 8 bits, or unsigned of 8.
SampleQ15(kind, n) ==
  CASE kind = "s16" -> Signed(n, 16)
    [] kind = "s8"  -> Signed(n, 8) * 256
    [] kind = "u8"  -> (n - 128) * 256

\* convert_bytes_to_q15(): left and right of a frame.
FrameQ15(kind, samples) ==
  <<SampleQ15(kind, samples[1]), SampleQ15(kind, samples[Len(samples)])>>

QSatMul(a, b) == Sat16((a * b) \div 32768)

\* compute_pan_gains().
PanGains(pan) ==
  IF pan >= 0 THEN <<Q15One - pan, Q15One>> ELSE <<Q15One, Q15One + pan>>

\* compute_output_params(): an output of so many bits.
OutOffset(out) == IF out.signed THEN 0 ELSE 2 ^ (out.bits - 1)
OutMin(out) == IF out.signed THEN -(2 ^ (out.bits - 1)) ELSE 0
OutMax(out) == IF out.signed THEN 2 ^ (out.bits - 1) - 1 ELSE 2 ^ out.bits - 1

\* finalize_output().
Finalized(accum, out) ==
  Clamped(Sat16(accum \div 2 ^ out.headroom) \div 2 ^ (16 - out.bits) + OutOffset(out),
          OutMin(out), OutMax(out))

\* A channel's part of one side of the mix.
Gained(v, gain) == IF gain = Q15One THEN v ELSE QSatMul(v, gain)
Part(c, side) ==
  IF c.active /\ c.got /\ ~c.muted
  THEN Gained(Gained(FrameQ15(c.kind, c.samples)[side], c.volume), PanGains(c.pan)[side])
  ELSE 0
Accumulated(channels, side) ==
  FoldLeft(LAMBDA sum, c : sum + Part(c, side), 0, channels)

\* One frame of mixer_render().
MixedFrame(channels, out) ==
  LET l == Accumulated(channels, 1)
      r == Accumulated(channels, 2)
  IN  IF out.channels = 1 THEN <<Finalized(Cut(l + r, 2), out)>>
      ELSE <<Finalized(l, out), Finalized(r, out)>>

\* interp_linear_q15(); frac has 16 bits.
Linear(a, b, frac) == a + ((b - a) * frac) \div 65536

\* interp_cubic_q15(), between the second tap and the third.
CubicPhase(frac) == frac \div 2
Cubic(p, frac) ==
  LET t == CubicPhase(frac)
      t2 == (t * t) \div 32768
      t3 == (t2 * t) \div 32768
      a == 3 * p[2] - p[1] - 3 * p[3] + p[4]
      b == 2 * p[1] - 5 * p[2] + 4 * p[3] - p[4]
      c == p[3] - p[1]
  IN  Sat16(((a * t3) \div 32768 + (b * t2) \div 32768 + (c * t) \div 32768 + 2 * p[2]) \div 2)

\* The state of the filter: the last observation, if any, and the correction.
Unobserved == [seen |-> FALSE, frames |-> 0, ticks |-> 0, acc |-> 0]

\* The external ticks that internal frames should take.
Expected(frames) == Cut(frames * TickRate, FrameRate)
RawCorrection(drift, expected) == Cut(drift * AccOne, expected)
\* Bug: an observation taken in a burst counts like any other.
ObservedAll(s, frames, ticks) ==
  LET expected == Expected(frames - s.frames)
      drift == ticks - s.ticks - expected
      step == Cut((RawCorrection(drift, expected) - s.acc) * Smoothing, SmoothOne)
      noted == [seen |-> TRUE, frames |-> frames, ticks |-> ticks, acc |-> s.acc]
  IN  IF ~s.seen \/ frames <= s.frames \/ expected <= 0 THEN noted
      ELSE [noted EXCEPT !.acc = Clamped(s.acc + step, -MaxAcc, MaxAcc)]

\* mixer_observe_sync(): the correction moves a part of the way to what the
\* observation implies, unless that is more than a sixteenth off.
Observed(s, frames, ticks) ==
  LET expected == Expected(frames - s.frames)
      drift == ticks - s.ticks - expected
      step == Cut((RawCorrection(drift, expected) - s.acc) * Smoothing, SmoothOne)
      noted == [seen |-> TRUE, frames |-> frames, ticks |-> ticks, acc |-> s.acc]
      skipped == ~s.seen \/ frames <= s.frames \/ expected <= 0
                   \/ drift > expected \div 16 \/ drift < -(expected \div 16)
  IN  IF skipped THEN noted
      ELSE [noted EXCEPT !.acc = Clamped(s.acc + step, -MaxAcc, MaxAcc)]
=============================================================================
