------------------------------- MODULE Sounds -------------------------------
(***************************************************************************)
(* Questions to the algorithms of the sound: the arithmetic of the mixer,  *)
(* the filter of its clock, and WAV files.                                 *)
(***************************************************************************)
EXTENDS Questions, MixerMath, WavFile, CNumbers

CONSTANTS
  Samples,     \* what a 16-bit sample in memory may be, as an unsigned number
  Bytes,       \* what an 8-bit sample may be
  Gains,       \* volumes
  Pans,        \* pans
  Taps,        \* taps of the interpolators
  Fractions,   \* sixteenths of bits of a position between two taps
  Beats,       \* internal frames and external ticks between two observations
  Errors,      \* ticks the external clock is off, per Beat
  MaxBeats,    \* observations of the clock
  Rates        \* source and target rates of a resampler

(***************************************************************************)
(* The mix of two channels.                                                *)
(***************************************************************************)
Outputs ==
  {[bits |-> 16, signed |-> TRUE, channels |-> 2, headroom |-> 0],
   [bits |-> 16, signed |-> TRUE, channels |-> 1, headroom |-> 1],
   [bits |-> 8, signed |-> FALSE, channels |-> 2, headroom |-> 0],
   [bits |-> 12, signed |-> FALSE, channels |-> 1, headroom |-> 2]}
Channel(kind, samples, volume, pan, muted, got) ==
  [active |-> TRUE, kind |-> kind, samples |-> samples, volume |-> volume, pan |-> pan,
   muted |-> muted, got |-> got]
Loud == Channel("s16", <<32767, 32768>>, Q15One, 0, FALSE, TRUE)

MixQuestions ==
  [ask : {"mix"}, out : Outputs, volume : Gains, pan : Pans,
   source : ({"s16"} \X ({<<n, m>> : n \in Samples, m \in Samples} \cup {<<n>> : n \in Samples}))
              \cup ({"s8", "u8"} \X {<<n, m>> : n \in Bytes, m \in Bytes}),
   other : {Loud, [Loud EXCEPT !.muted = TRUE], [Loud EXCEPT !.pan = -16384, !.volume = 16384]}]
MixChannels ==
  <<Channel(question.source[1], question.source[2], question.volume, question.pan, FALSE, TRUE),
    question.other, [Loud EXCEPT !.got = FALSE], [Loud EXCEPT !.active = FALSE]>>

AnswerMix == Answers("mix", MixedFrame(MixChannels, question.out))

\* What a channel adds to one side, in real numbers to a step: its sample in
\* 16 bits, times its volume and its pan.
Share(c, side) ==
  LET raw == c.samples[IF side = 2 THEN Len(c.samples) ELSE 1]
      sample == CASE c.kind = "s16" -> IF raw > 32767 THEN raw - 65536 ELSE raw
                  [] c.kind = "s8" -> 256 * (IF raw > 127 THEN raw - 256 ELSE raw)
                  [] c.kind = "u8" -> 256 * (raw - 128)
      pan == IF (side = 1) = (c.pan > 0) THEN 32767 - (IF c.pan > 0 THEN c.pan ELSE -c.pan) ELSE 32767
  IN  IF ~c.active \/ ~c.got \/ c.muted THEN 0
      ELSE (((sample * c.volume) \div 32767) * pan) \div 32767
ShareOf(side) == MapThenSumSet(LAMBDA i : Share(MixChannels[i], side), DOMAIN MixChannels)

\* What comes out is the sum of the channels, each at its volume and its pan, in
\* the range of the format and to a few steps: loud channels saturate and never
\* wrap, channels cancel before they saturate, and silence is the middle of an
\* unsigned format (mixer_render, convert_bytes_to_q15, finalize_output).
MixIsFaithful ==
  Answered("mix") =>
    LET out == question.out
        Side(i) == IF out.channels = 1 THEN (ShareOf(1) + ShareOf(2)) \div 2 ELSE ShareOf(i)
        step == 2 ^ (16 - out.bits)
        Level(i) == (answer[i] - (IF out.signed THEN 0 ELSE 2 ^ (out.bits - 1))) * step
        Ideal(i) == LET v == Side(i) \div 2 ^ out.headroom
                    IN  IF v > 32767 THEN 32767 ELSE IF v < -32768 THEN -32768 ELSE v
    IN  \A i \in DOMAIN answer :
          /\ answer[i] \in OutMin(out) .. OutMax(out)
          /\ Ideal(i) - Level(i) \in -8 .. step + 8

(***************************************************************************)
(* What lies between the taps.                                             *)
(***************************************************************************)
TapQuestions == [ask : {"taps"}, taps : Taps \X Taps \X Taps \X Taps \X Taps, frac : Fractions]

AnswerTaps ==
  LET p == question.taps
  IN  Answers("taps",
        [cubic |-> Cubic(SubSeq(p, 1, 4), question.frac),
         last |-> Cubic(SubSeq(p, 1, 4), 65535), next |-> Cubic(SubSeq(p, 2, 5), 0),
         linear |-> Linear(p[2], p[3], question.frac),
         lastLine |-> Linear(p[2], p[3], 65535), nextLine |-> Linear(p[3], p[4], 0)])

\* The wave has no jump where the window moves on, is a straight line where the
\* taps are one, and lies between them, a cubic with an eighth of the way to the
\* outer ones; there is no click in a steady sound (interp_cubic_q15,
\* interp_linear_q15).
NoClicks ==
  Answered("taps") =>
    LET p == question.taps
        Close(a, b, slack) == a - b \in -slack .. slack
        Span(S) == Max(S) - Min(S)
        span == Span({p[i] : i \in 1 .. 4})
        ramp == \A i \in 1 .. 2 : p[i + 1] - p[i] = p[4] - p[3]
    IN  /\ Close(answer.next, p[3], 0) /\ Close(answer.nextLine, p[3], 0)
        /\ Close(answer.last, p[3], 4 + span \div 2048)
        /\ Close(answer.lastLine, p[3], 2 + span \div 2048)
        /\ answer.linear \in Min({p[2], p[3]}) .. Max({p[2], p[3]})
        /\ answer.cubic \in Min({p[2], p[3]}) - span \div 4 - 4 .. Max({p[2], p[3]}) + span \div 4 + 4
        /\ ramp => Close(answer.cubic, answer.linear, 4)

(***************************************************************************)
(* The clock: observations of an external clock that is off by a constant, *)
(* with a burst of jitter in some of them.                                 *)
(***************************************************************************)
Spike == 7  \* every so often an observation is taken in the middle of a burst
SyncQuestions ==
  [ask : {"sync"}, beat : Beats, error : Errors, burst : {0, 1, 2}]

AnswerSync ==
  LET n == Len(answer)
      before == IF answer = <<>> THEN Unobserved ELSE answer[n]
      ahead == IF n % Spike = 3 THEN (question.burst * Expected(question.beat)) \div 4 ELSE 0
      ticks == n * (Expected(question.beat) + question.error) + ahead
  IN  /\ question.ask = "sync" /\ ~answered
      /\ answer' = Append(answer, Observed(before, n * question.beat, ticks))
      /\ answered' = (n + 1 = MaxBeats)
      /\ UNCHANGED question

\* The correction goes to the rate error of the clocks and stays: never past it,
\* never back, never past the limit, whatever jitter the observations carry; an
\* error no clock has leaves it where it is (mixer_observe_sync).
CorrectionSettles ==
  (question.ask = "sync" /\ answer # <<>>) =>
    LET ideal == (question.error * AccOne) \div Expected(question.beat)
        heard == Abs(question.error) * 16 <= Expected(question.beat)
        goal == IF ~heard THEN 0 ELSE IF ideal > MaxAcc THEN MaxAcc ELSE IF ideal < -MaxAcc THEN -MaxAcc ELSE ideal
        acc == answer[Len(answer)].acc
        last == IF Len(answer) > 1 THEN answer[Len(answer) - 1].acc ELSE 0
    IN  /\ IF goal >= 0 THEN acc \in last .. goal ELSE acc \in goal - 1 .. last
        /\ answered => Abs(goal - acc) <= SmoothOne \div Smoothing + 1

(***************************************************************************)
(* WAV files: one made by some tool, or by the sink of this engine.        *)
(***************************************************************************)
Wave == <<32767, -32768, 5, -7, -12345, 300, 21000, -1, 32767, 32767>>

\* The numbers of the file for a sample: 8-bit ones are unsigned.
Coded(n, bits) == IF bits = 16 THEN U16(n % 65536) ELSE <<n \div 256 + 128>>
Value(n, bits) == IF bits = 16 THEN n ELSE (n \div 256) * 256
Chunk(name, body) ==
  Tag(name) \o U32(Len(body)) \o body \o (IF Len(body) % 2 = 1 THEN <<0>> ELSE <<>>)

Extras == {<<>>, Chunk("LIST", <<100, 97, 116>>), Chunk("LIST", Tag("data") \o U32(2))}
Makes ==
  [format : {1, 3}, channels : {1, 2, 3}, bits : {8, 16, 24}, extra : Extras, after : Extras,
   count : {1, 2, 5}, short : {0, 3}]
Supported(m) == m.format = 1 /\ m.channels \in {1, 2} /\ m.bits \in {8, 16}

FmtChunk(m, rate) ==
  Chunk("fmt ", U16(m.format) \o U16(m.channels) \o U32(rate) \o U32(rate * m.channels * (m.bits \div 8))
                  \o U16(m.channels * (m.bits \div 8)) \o U16(m.bits))
DataBody(m) ==
  FlattenSeq([i \in 1 .. m.count * m.channels |-> Coded(Wave[i], IF m.bits = 8 THEN 8 ELSE 16)])
Made(m, rate) ==
  Tag("RIFF") \o U32(4) \o Tag("WAVE") \o FmtChunk(m, rate) \o m.extra
    \o Chunk("data", DataBody(m)) \o m.after

Sunk(rate, count, taken) ==
  WavClose(WavWrite(WavWrite(WavOpen(rate), SubSeq(Wave, 1, 2), 1),
                    SubSeq(Wave, 3, 2 * count), taken))

WavQuestions ==
  [ask : {"wav"}, made : {m \in Makes : Supported(m) \/ (m.count = 1 /\ m.after = <<>>)},
   rates : Rates]
SinkQuestions == [ask : {"sink"}, count : 2 .. 5, lost : {0, 1}]

\* What is made of the first len bytes of a file.
Read(file, len, target) ==
  LET info == ParseHeader(file, len)
  IN  IF info.result # "ok" THEN info
      ELSE [result |-> "ok", streamable |-> Streamable(info), frames |-> FramesIn(info),
            mono |-> ToMono(file, info, 4), stereo |-> ToStereo(file, info, 4),
            at |-> ToMonoAt(file, info, 8, target)]

AnswerWav ==
  LET file == Made(question.made, question.rates[1])
  IN  Answers("wav", Read(file, Len(file) - question.made.short, question.rates[2]))
AnswerSink ==
  LET taken == question.count - 1 - question.lost
  IN  Answers("sink", LET file == Sunk(9, question.count, taken) IN Read(file, Len(file), 9))

\* The samples of a frame of the file made.
Frame(m, i) == [c \in 1 .. m.channels |-> Value(Wave[(i - 1) * m.channels + c], m.bits)]
Mean(f) == IF Len(f) = 1 THEN f[1] ELSE Cut(f[1] + f[2], 2)

\* A WAV reads back what was put into it, whatever chunks surround the data and
\* however the file is cut: the frames that are whole, in order, from either
\* side, and nothing of a format the engine cannot play; a file of the sink
\* reads back the frames the disk took (wav_parse, wav_to_mono_pcm16,
\* wav_to_stereo_pcm16, audio_sink_wav.c).
WavReadsBack ==
  /\ Answered("wav") =>
       LET m == question.made
           before == Len(Made([m EXCEPT !.count = 0, !.after = <<>>], question.rates[1]))
           room == Len(Made(m, question.rates[1])) - m.short - before
           frames == Min({room, Len(DataBody(m))}) \div (m.channels * (m.bits \div 8))
       IN  IF ~Supported(m) \/ room < 0 THEN answer.result \in {"parse", "span"}
           ELSE /\ answer.result = "ok" /\ answer.frames = frames
                /\ answer.streamable <=> (m.bits = 16 /\ m.channels = 2)
                /\ answer.mono = [i \in 1 .. Min({4, frames}) |-> Mean(Frame(m, i))]
                /\ answer.stereo = [i \in 1 .. Min({4, frames}) |->
                                      <<Frame(m, i)[1], Frame(m, i)[m.channels]>>]
  /\ Answered("sink") =>
       /\ answer.result = "ok" /\ answer.frames = question.count - question.lost
       /\ answer.stereo = [i \in 1 .. Min({4, question.count - question.lost}) |->
                             <<Wave[2 * i - 1], Wave[2 * i]>>]

\* A resampled effect is the same sound at the other rate: each frame lies on the
\* line between the two it falls between, at its own time, and there is one for
\* every moment before the last (wav_to_mono_pcm16_resample).
ResampledInTime ==
  (Answered("wav") /\ answer.result = "ok") =>
    LET m == question.made
        source == question.rates[1]
        target == question.rates[2]
        Ideal(i) == LET k == 1 + (i * source) \div target
                        part == (i * source) % target
                        a == Mean(Frame(m, k)) b == Mean(Frame(m, Min({k + 1, answer.frames})))
                    IN  a + Cut((b - a) * part, target)
        count == IF source = target THEN answer.frames
                 ELSE IF answer.frames < 2 THEN 0
                 ELSE Cardinality({i \in 0 .. 40 : (i + 1) * source <= (answer.frames - 1) * target})
    IN  /\ Len(answer.at) = Min({8, count})
        /\ \A i \in DOMAIN answer.at : Abs(answer.at[i] - Ideal(i - 1)) <= 65536 \div 512

\* The mixer's arithmetic keeps the sound what it is: its level in the mix, its
\* course between the taps, and its rate against the other clock (audio_mixer.c).
SoundIsFaithful == MixIsFaithful /\ NoClicks /\ CorrectionSettles

\* A WAV is the same sound when it has been read, at its own rate and resampled
\* (audio_wav_read.c, audio_sink_wav.c, hx421_wav.c).
FilesReadBack == WavReadsBack /\ ResampledInTime

AskSounds ==
  \/ question \in MixQuestions
  \/ question \in TapQuestions
  \/ question \in SyncQuestions
  \/ question \in WavQuestions
  \/ question \in SinkQuestions
=============================================================================
