------------------------------ MODULE Spectrum ------------------------------
(***************************************************************************)
(* The band meter: audio/audio_fft.c, which captures a window of the mix   *)
(* as it is rendered and sorts the bins of its spectrum into bands, and    *)
(* the transform of audio/audio_fft_kernel.c. The operations are those of  *)
(* the code on the numbers of the code; the window is smaller.             *)
(***************************************************************************)
EXTENDS Integers, Sequences, FiniteSetsExt, SequencesExt, CNumbers

CONSTANTS
  Window,      \* AUDIO_FFT_SIZE (256), a power of two
  BandCount,   \* AUDIO_FFT_BANDS (16)
  SpanOctaves, \* log2 of the last bin, in 65536ths, as audio_fft_init has it
  Stages       \* <<2, 4, ..., Window>>

WindowPlaces == 0 .. Window - 1

\* qsin(), qcos(): a polynomial of a quarter turn, 32768 to the turn.
QSin(turn) ==
  LET quarter == (turn \div 8192) % 4
      x == turn % 8192
      t == 4 * Least(IF quarter \in {1, 3} THEN 8192 - x ELSE x, 8191)
      t2 == (t * t) \div 32768
      t3 == (t2 * t) \div 32768
      t5 == (t3 * t2) \div 32768
      s == Clamped((51472 * t - 21073 * t3 + 2382 * t5) \div 32768, -32767, 32767)
  IN  IF quarter >= 2 THEN -s ELSE s
QCos(turn) == QSin(turn + 8192)

\* build_tables().
Hann == [i \in WindowPlaces |->
           Clamped(16384 - QCos((i * 32768) \div (Window - 1)) \div 2, 0, 32767)]
TwiddleRe == [k \in WindowPlaces |-> QCos((k * 32768) \div Window)]
TwiddleIm == [k \in WindowPlaces |-> -QSin((k * 32768) \div Window)]

\* bitrev(): the bits of a place, read from the other end.
Bitrev(place) ==
  FoldLeft(LAMBDA r, len : 2 * r + ((place \div (len \div 2)) % 2), 0, Stages)

\* One run of butterflies, r a sequence of complex numbers, halved as it goes.
Product(z, tw) == [re |-> (z.re * TwiddleRe[tw] - z.im * TwiddleIm[tw]) \div 32768,
                   im |-> (z.re * TwiddleIm[tw] + z.im * TwiddleRe[tw]) \div 32768]
HalfSum(z, v) == [re |-> (z.re + v.re) \div 2, im |-> (z.im + v.im) \div 2]
HalfDifference(z, v) == [re |-> (z.re - v.re) \div 2, im |-> (z.im - v.im) \div 2]
Butterflies(r) ==
  LET half == Len(r) \div 2
      v == [k \in 1 .. half |-> Product(r[half + k], (k - 1) * (Window \div Len(r)))]
  IN  [k \in 1 .. half |-> HalfSum(r[k], v[k])] \o [k \in 1 .. half |-> HalfDifference(r[k], v[k])]

\* A stage: the runs of len, one after the other.
Stage(z, len) ==
  FoldLeft(LAMBDA done, n : done \o Butterflies(SubSeq(z, n * len + 1, (n + 1) * len)),
           <<>>, [n \in 1 .. Window \div len |-> n - 1])

\* audio_fft_kernel_mag(): the squared magnitudes of the lower half of the bins.
KernelMag(in) ==
  LET loaded == [j \in 1 .. Window |->
                   [re |-> (in[Bitrev(j - 1)] * Hann[Bitrev(j - 1)]) \div 32768, im |-> 0]]
      z == FoldLeft(Stage, loaded, Stages)
  IN  [i \in 0 .. Window \div 2 - 1 |-> z[i + 1].re * z[i + 1].re + z[i + 1].im * z[i + 1].im]

\* audio_fft_init(): the edges of the bands, a table of 2^x by eighths between.
Pow2Frac == <<65536, 71468, 77936, 84990, 92682, 101070, 110218, 120194, 131072>>
Edge(b) ==
  LET e == (SpanOctaves * b) \div BandCount
      eighths == (e % 65536) * 8
      low == Pow2Frac[eighths \div 65536 + 1]
      high == Pow2Frac[eighths \div 65536 + 2]
      p2 == low + ((high - low) * (eighths % 65536)) \div 65536
  IN  Clamped((2 ^ (e \div 65536) * p2) \div 65536, 1, Window \div 2 - 1)
BandBins(b) == Edge(b) .. Most(Edge(b + 1), Edge(b))

Log2(n) == Cardinality({k \in 1 .. 30 : 2 ^ k <= n})

\* audio_fft_set_enabled(): enabling forgets what was captured before.
Enabled(f) ==
  IF f.enabled THEN f
  ELSE [f EXCEPT !.enabled = TRUE, !.window = [i \in WindowPlaces |-> 0], !.pos = 0,
                 !.since = 0, !.bands = [b \in 0 .. BandCount - 1 |-> 0]]
NoMeter == [enabled |-> FALSE, window |-> [i \in WindowPlaces |-> 0], pos |-> 0, since |-> 0,
            bands |-> [b \in 0 .. BandCount - 1 |-> 0]]

\* audio_fft_capture(): the mean of both sides of each frame.
Capture(f, frames) ==
  IF ~f.enabled THEN f
  ELSE [FoldLeft(LAMBDA g, frame :
                   [g EXCEPT !.window[g.pos] = Cut(frame[1] + frame[2], 2),
                             !.pos = (@ + 1) % Window],
                 f, frames) EXCEPT !.since = @ + Len(frames)]

\* linearize(): the window from its oldest sample.
Linearize(f) == [i \in WindowPlaces |-> f.window[(f.pos + i) % Window]]

\* audio_fft_update(): once there is a whole new window; the level of a band is
\* eight times the bits of its mean.
FftUpdate(f) ==
  IF ~f.enabled \/ f.since < Window THEN f
  ELSE LET mag == KernelMag(Linearize(f))
           Mean(b) == SumFunctionOnSet(mag, BandBins(b)) \div Cardinality(BandBins(b))
       IN  [f EXCEPT !.since = 0,
                     !.bands = [b \in 0 .. BandCount - 1 |-> Least(8 * Log2(Mean(b) + 1), 255)]]
=============================================================================
