------------------------------- MODULE WavFile -------------------------------
(***************************************************************************)
(* PCM WAV files, byte by byte: what engine/audio/audio_sink_wav.c writes, *)
(* what audio_wav_read.c finds in a block of a file and makes of it, and   *)
(* the header parse of firmware/audio/hx421_wav.c.  A file is a sequence   *)
(* of numbers below 256.                                                   *)
(***************************************************************************)
EXTENDS Integers, Sequences, SequencesExt, CNumbers

CONSTANT PhaseOne  \* a source frame in the phase of the resampler, 2^32 in the code

Tag(name) ==
  CASE name = "RIFF" -> <<82, 73, 70, 70>>
    [] name = "WAVE" -> <<87, 65, 86, 69>>
    [] name = "fmt " -> <<102, 109, 116, 32>>
    [] name = "data" -> <<100, 97, 116, 97>>
    [] name = "LIST" -> <<76, 73, 83, 84>>

U16(n) == <<n % 256, (n \div 256) % 256>>
U32(n) == U16(n % 65536) \o U16(n \div 65536)
Byte(file, at) == file[at + 1]
Word16(file, at) == Byte(file, at) + 256 * Byte(file, at + 1)
Word32(file, at) == Word16(file, at) + 65536 * Word16(file, at + 2)
TagAt(file, at) == SubSeq(file, at + 1, at + 4)

(***************************************************************************)
(* The writer: write_header() with sizes that are patched on close.        *)
(***************************************************************************)
SinkChannels == 2
SinkBytes == 2
WriteHeader(rate, bytes) ==
  Tag("RIFF") \o U32(36 + bytes) \o Tag("WAVE") \o Tag("fmt ") \o U32(16) \o U16(1)
    \o U16(SinkChannels) \o U32(rate) \o U32(rate * SinkChannels * SinkBytes)
    \o U16(SinkChannels * SinkBytes) \o U16(8 * SinkBytes) \o Tag("data") \o U32(bytes)

Patched(file, at, n) == [i \in DOMAIN file |-> IF i \in at + 1 .. at + 4 THEN U32(n)[i - at] ELSE file[i]]

\* wav_open(), wav_write() of one block after the other, of which the disk may
\* take only some frames, and wav_close().
WavOpen(rate) == [file |-> WriteHeader(rate, 0), written |-> 0]
WavWrite(w, samples, taken) ==
  [file |-> w.file \o FlattenSeq([i \in 1 .. taken * SinkChannels |-> U16(samples[i] % 65536)]),
   written |-> w.written + taken]
WavClose(w) ==
  LET bytes == w.written * SinkChannels * SinkBytes
  IN  Patched(Patched(w.file, 4, 36 + bytes), 40, bytes)

(***************************************************************************)
(* The parser.                                                             *)
(***************************************************************************)
NoInfo == [fmt |-> FALSE, data |-> FALSE, format |-> 0, channels |-> 0, rate |-> 0,
           bits |-> 0, off |-> 0, bytes |-> 0]

\* One chunk of wav_parse(): its size is cut to what the block holds.
Chunked(file, len, pos, info) ==
  LET size == Word32(file, pos + 4)
      use == Least(size, len - (pos + 8))
      body == pos + 8
  IN  IF TagAt(file, pos) = Tag("fmt ") /\ use >= 16
      THEN [info EXCEPT !.fmt = TRUE, !.format = Word16(file, body),
                        !.channels = Word16(file, body + 2), !.rate = Word32(file, body + 4),
                        !.bits = Word16(file, body + 14)]
      ELSE IF TagAt(file, pos) = Tag("data")
      THEN [info EXCEPT !.data = TRUE, !.off = body, !.bytes = use]
      ELSE info

\* Bug: a chunk of an odd size is not padded.
NextChunkUnpadded(file, pos) == pos + 8 + Word32(file, pos + 4)
\* Chunks begin at even places.
NextChunk(file, pos) == pos + 8 + Word32(file, pos + 4) + (Word32(file, pos + 4) % 2)

\* Where the chunks of the first len bytes begin.
ChunkPlaces(file, len) ==
  LET place[i \in 0 .. len \div 8] ==
        IF i = 0 THEN 12
        ELSE LET last == place[i - 1] IN IF last + 8 > len THEN len ELSE NextChunk(file, last)
  IN  SelectSeq([i \in 1 .. len \div 8 |-> place[i - 1]], LAMBDA pos : pos + 8 <= len)

\* wav_parse().
WavParse(file, len) ==
  LET Refused(why) == [result |-> why]
      info == FoldLeft(LAMBDA found, pos : Chunked(file, len, pos, found), NoInfo,
                       ChunkPlaces(file, len))
  IN  IF len < 12 THEN Refused("small")
      ELSE IF TagAt(file, 0) # Tag("RIFF") \/ TagAt(file, 8) # Tag("WAVE") THEN Refused("magic")
      ELSE IF ~info.fmt THEN Refused("no_data")
      ELSE IF info.format # 1 THEN Refused("not_pcm")
      ELSE IF ~info.data THEN Refused("no_data")
      ELSE IF info.channels \notin 1 .. 2 \/ info.bits \notin {8, 16} THEN Refused("unsupported")
      ELSE [result |-> "ok", channels |-> info.channels, bits |-> info.bits,
            rate |-> info.rate, off |-> info.off, bytes |-> info.bytes]

\* hx421_wav_parse_header(), hx421_wav_is_streamable().
ParseHeader(file, len) ==
  LET info == WavParse(file, len)
  IN  IF info.result = "ok" THEN info
      ELSE [result |-> IF info.result = "no_data" THEN "span" ELSE "parse"]
Streamable(info) == info.bits = 16 /\ info.channels = 2

(***************************************************************************)
(* The frames of a parsed file.                                            *)
(***************************************************************************)
BytesPerFrame(info) == info.channels * (info.bits \div 8)
FramesIn(info) == info.bytes \div BytesPerFrame(info)

\* The sample of a channel in a frame, from 0; 8-bit samples are unsigned.
SampleAt(file, info, frame, channel) ==
  LET at == info.off + frame * BytesPerFrame(info) + channel * (info.bits \div 8)
  IN  IF info.bits = 16 THEN Signed(Word16(file, at), 16) ELSE (Byte(file, at) - 128) * 256

\* The two channels as one, divided as C divides.
Downmixed(file, info, frame) ==
  LET sum == IF info.channels = 2
             THEN SampleAt(file, info, frame, 0) + SampleAt(file, info, frame, 1)
             ELSE SampleAt(file, info, frame, 0)
  IN  Cut(sum, info.channels)

\* wav_to_mono_pcm16(), wav_to_stereo_pcm16().
ToMono(file, info, max) ==
  [i \in 1 .. Least(FramesIn(info), max) |-> Downmixed(file, info, i - 1)]
ToStereo(file, info, max) ==
  [i \in 1 .. Least(FramesIn(info), max) |->
     <<SampleAt(file, info, i - 1, 0), SampleAt(file, info, i - 1, info.channels - 1)>>]

\* wav_to_mono_pcm16_resample().
ResampleStep(source, target) == (source * PhaseOne) \div target
Producible(frames, source, target) == ((frames - 1) * target) \div source
ToMonoAt(file, info, max, target) ==
  LET frames == FramesIn(info)
      step == ResampleStep(info.rate, target)
      Lerp(phase) ==
        LET at == phase \div PhaseOne
            a == Downmixed(file, info, Least(at, frames - 1))
            b == Downmixed(file, info, at + 1)
        IN  IF at + 1 >= frames THEN a
            ELSE a + ((b - a) * (phase % PhaseOne)) \div PhaseOne
  IN  IF info.rate = target THEN ToMono(file, info, max)
      ELSE IF frames < 2 THEN <<>>
      ELSE [i \in 1 .. Least(Producible(frames, info.rate, target), max) |-> Lerp((i - 1) * step)]
=============================================================================
