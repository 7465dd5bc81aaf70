---------------------------- MODULE FmvTransport ----------------------------
(***************************************************************************)
(* The film transport of runtime/hx421_runtime.c: a read-ahead thread that *)
(* decodes units of the file into a FIFO, and the console's thread, which  *)
(* takes a frame per cycle of bands at the SNES's FRAME_DONE strobe, stages *)
(* it band by band into the hidden picture, and obeys the pads.            *)
(*                                                                         *)
(* The threads share volatile request words and two atomic counters and    *)
(* take no lock, so every load and store of a shared word is a step.  A    *)
(* decoded frame is its number: how many units were decoded before it.     *)
(***************************************************************************)
EXTENDS Integers

CONSTANTS
  Frames,      \* fmv_nframes
  Lead,        \* g_fmv_lead
  Depth,       \* FMV_FIFO_MAX
  Bands,       \* subframe bands per frame (4)
  Preroll,     \* g_fmv_preroll
  Rates,       \* strides the pads can ask for: 1 and the scrubs
  Jump,        \* frames the jump button skips (75)
  MaxSeeks,    \* bound: seeks asked for
  MaxDecoded   \* bound: units decoded

\* Lead is clamped to the FIFO.
ASSUME FmvAssumption ==
  /\ Frames \in Nat \ {0} /\ Lead \in Nat \ {0} /\ Bands \in Nat \ {0}
  /\ Preroll \in Nat /\ Jump \in Nat /\ Rates \subseteq Int /\ 1 \in Rates
  /\ MaxSeeks \in Nat /\ MaxDecoded \in Nat
  /\ Depth \in Nat /\ Lead <= Depth

VARIABLES
  film,        \* the console's thread: [state, rate], g_fmv_state and g_fmv_rate
  seekReq,     \* g_fmv_seek_req
  flushReq,    \* g_fmv_flush_req
  resync,      \* g_fmv_resync
  avStarted,   \* g_fmv_av_started
  w, r,        \* fmv_fifo_w, fmv_fifo_r
  fifo,        \* fmv_fifo
  reader,      \* the read-ahead thread: [pc, cur, want, apush]
  snes,        \* the console's thread: [pc, w, r], what its pop has loaded
  band, need,  \* g_fmv_band, g_fmv_need_decode
  preroll,     \* g_fmv_preroll
  picture,     \* the frame the bands are staged from
  staged,      \* the frame the band published last is of
  hidden,      \* the hidden picture: the frame each band is of
  shown,       \* the picture on the screen
  asked,       \* history: seeks asked for
  undone,      \* history: flushes a pop undid whose frames are still queued
  dropped      \* history: frames of the FIFO below this one were flushed

requests == <<seekReq, flushReq, resync, avStarted>>
queue == <<w, r, fifo>>
screen == <<band, need, preroll, picture, staged, hidden, shown>>
history == <<asked, undone, dropped>>
vars == <<film, requests, queue, reader, snes, screen, history>>

None == -1

Init ==
  /\ film = [state |-> "playing", rate |-> 1]
  /\ seekReq = None /\ flushReq = FALSE /\ resync = FALSE /\ avStarted = FALSE
  /\ w = 0 /\ r = 0 /\ fifo = [i \in 0 .. Depth - 1 |-> None]
  /\ reader = [pc |-> "flush", cur |-> 0, want |-> None, apush |-> 0]
  /\ snes = [pc |-> "kick", w |-> 0, r |-> 0]
  /\ band = 0 /\ need = TRUE /\ preroll = Preroll
  /\ picture = None /\ staged = None
  /\ hidden = [b \in 0 .. Bands - 1 |-> None] /\ shown = hidden
  /\ asked = 0 /\ undone = 0 /\ dropped = 0

(***************************************************************************)
(* The read-ahead thread: fmv_reader_fn().                                 *)
(***************************************************************************)
ReaderAt(pc) == reader.pc = pc
ReaderTo(pc) == reader' = [reader EXCEPT !.pc = pc]

\* The flush request is tested, and cleared ...
TestFlush ==
  /\ ReaderAt("flush")
  /\ ReaderTo(IF flushReq THEN "drop" ELSE "audio")
  /\ flushReq' = FALSE
  /\ UNCHANGED <<film, seekReq, resync, avStarted, queue, snes, screen, history>>

\* The console's thread has loaded the read counter and will store it.
Popping == snes.pc \in {"copy", "store"}

\* A flush in the middle of a pop is undone by the pop's store, one at any other
\* time empties the queue.
FlushNoted ==
  /\ undone' = IF Popping THEN undone + 1 ELSE 0
  /\ dropped' = w

\* Bug: one frame too many.
DropOneMore ==
  /\ ReaderAt("drop")
  /\ r' = w + 1
  /\ reader' = [reader EXCEPT !.pc = "audio", !.apush = w]
  /\ FlushNoted
  /\ UNCHANGED <<film, requests, w, fifo, snes, screen, asked>>

\* ... and then what is queued is dropped, by moving the READ counter.
Drop ==
  /\ ReaderAt("drop")
  /\ r' = w
  /\ reader' = [reader EXCEPT !.pc = "audio", !.apush = w]
  /\ FlushNoted
  /\ UNCHANGED <<film, requests, w, fifo, snes, screen, asked>>

\* A scrub that ended flushes the audio ring (AudioRing's Reset); frames that
\* are popped already are not pushed any more.
TestResync ==
  /\ ReaderAt("audio")
  /\ resync' = FALSE
  /\ reader' = [reader EXCEPT !.pc = IF avStarted THEN "push" ELSE "lead",
                              !.apush = IF avStarted /\ @ < r THEN r ELSE @]
  /\ UNCHANGED <<film, seekReq, flushReq, avStarted, queue, snes, screen, history>>

\* The audio of every frame decoded since goes to the ring, or, while
\* scrubbing, nowhere.
PushAudio ==
  /\ ReaderAt("push")
  /\ reader' = IF reader.apush < w THEN [reader EXCEPT !.apush = @ + 1]
               ELSE [reader EXCEPT !.pc = "lead"]
  /\ UNCHANGED <<film, requests, queue, snes, screen, history>>

\* Enough is decoded ahead, as the unsigned counters have it.
HasLead == r > w \/ w - r >= Lead

\* The frames that flushes left have been shown by the time another is wanted,
\* unless the counter is about to be stored, or a frame was torn since.
CaughtUp == ~Popping /\ picture < r

TestLead ==
  LET enough == HasLead \/ w = MaxDecoded IN
  /\ ReaderAt("lead")
  /\ ReaderTo(IF enough THEN "flush" ELSE "seek")
  /\ undone' = IF ~enough /\ CaughtUp THEN 0 ELSE undone
  /\ UNCHANGED <<film, requests, queue, snes, screen, asked, dropped>>

\* fmv_read_next_unit(): the seek request is read ...
LoadSeek ==
  /\ ReaderAt("seek")
  /\ reader' = [reader EXCEPT !.pc = IF seekReq = None THEN "decode" ELSE "clear",
                              !.want = seekReq]
  /\ UNCHANGED <<film, requests, queue, snes, screen, history>>

\* ... and then cleared, whatever it is by now.
ClearSeek ==
  /\ ReaderAt("clear")
  /\ seekReq' = None
  /\ reader' = [reader EXCEPT !.pc = "decode", !.want = None,
                              !.cur = IF reader.want >= Frames THEN 0 ELSE reader.want]
  /\ UNCHANGED <<film, flushReq, resync, avStarted, queue, snes, screen, history>>

\* The frame a stride on, around both ends.
Stride(frame) == (frame + film.rate) % Frames

\* The unit at cur is read and decoded into the slot, a file that is too short
\* is started over, and cur moves on by the stride.
Decode ==
  /\ ReaderAt("decode")
  /\ \E from \in {reader.cur, 0} :
       reader' = [reader EXCEPT !.pc = "flush", !.cur = Stride(from)]
  /\ fifo' = [fifo EXCEPT ![w % Depth] = w]
  /\ w' = w + 1
  /\ UNCHANGED <<film, requests, r, snes, screen, history>>

\* Not even the first unit can be read.
DecodeFails ==
  /\ ReaderAt("decode")
  /\ reader' = [reader EXCEPT !.pc = "flush", !.cur = 0]
  /\ UNCHANGED <<film, requests, queue, snes, screen, history>>

Reader ==
  \/ TestFlush \/ Drop \/ TestResync \/ PushAudio \/ TestLead
  \/ LoadSeek \/ ClearSeek \/ Decode \/ DecodeFails

(***************************************************************************)
(* The console's thread: the strobe handler and the producer it calls.     *)
(***************************************************************************)
SnesAt(pc) == snes.pc = pc
SnesTo(pc) == snes' = [snes EXCEPT !.pc = pc]

\* Bug: a frame that was missed is taken at whatever band comes next.
WantsFrameAtAnyBand(b, needed) ==
  b \in 0 .. Bands - 1 /\ needed /\ preroll = 0 /\ film.state = "playing"

\* The producer takes a frame at the first band of a cycle, once; not in the
\* preroll, and not while the film is held.
WantsFrame(b, needed) == b = 0 /\ needed /\ preroll = 0 /\ film.state = "playing"

\* hx421_step() stages the first band once.
Kick ==
  /\ SnesAt("kick")
  /\ SnesTo(IF WantsFrame(band, need) THEN "pop" ELSE "stage")
  /\ UNCHANGED <<film, requests, queue, reader, screen, history>>

\* hx421_cart_read() of FRAME_DONE: the band that was staged is in the hidden
\* picture by now, and the last one flips it onto the screen.
FrameDone ==
  LET filled == [hidden EXCEPT ![band] = staged]
      next == (band + 1) % Bands
      needed == need \/ next = 0
  IN  /\ SnesAt("idle")
      /\ avStarted' = TRUE
      /\ band' = next /\ need' = needed
      /\ hidden' = filled /\ shown' = IF next = 0 THEN filled ELSE shown
      /\ SnesTo(IF WantsFrame(next, needed) THEN "pop" ELSE "stage")
      /\ UNCHANGED <<film, seekReq, flushReq, resync, queue, reader,
                     preroll, picture, staged, history>>

\* fmv_advance_frame() loads the write counter ...
LoadWrite ==
  /\ SnesAt("pop")
  /\ snes' = [snes EXCEPT !.pc = "load", !.w = w]
  /\ UNCHANGED <<film, requests, queue, reader, screen, history>>

\* Bug: the slot is given back before it is copied.
LoadReadFreeing ==
  /\ SnesAt("load")
  /\ snes' = [snes EXCEPT !.pc = IF r >= snes.w THEN "stage" ELSE "copy", !.r = r]
  /\ r' = IF r >= snes.w THEN r ELSE r + 1
  /\ UNCHANGED <<film, requests, w, fifo, reader, screen, history>>

\* ... and the read counter; an empty FIFO holds the picture.
LoadRead ==
  /\ SnesAt("load")
  /\ snes' = [snes EXCEPT !.pc = IF r >= snes.w THEN "stage" ELSE "copy", !.r = r]
  /\ UNCHANGED <<film, requests, queue, reader, screen, history>>

\* The frame is copied out of its slot ...
Copy ==
  /\ SnesAt("copy")
  /\ SnesTo("store")
  /\ picture' = fifo[snes.r % Depth]
  /\ UNCHANGED <<film, requests, queue, reader, band, need, preroll, staged,
                 hidden, shown, history>>

\* Bug: the frame stays in the FIFO.
StoreReadUnmoved ==
  /\ SnesAt("store")
  /\ r' = snes.r
  /\ need' = FALSE
  /\ SnesTo("stage")
  /\ UNCHANGED <<film, requests, w, fifo, reader, band, preroll, picture, staged,
                 hidden, shown, history>>

\* ... and the slot given back, by the read counter as it was loaded.
StoreRead ==
  /\ SnesAt("store")
  /\ r' = snes.r + 1
  /\ need' = FALSE
  /\ SnesTo("stage")
  /\ UNCHANGED <<film, requests, w, fifo, reader, band, preroll, picture, staged,
                 hidden, shown, history>>

\* The band is staged and published; the preroll runs down.
Stage ==
  /\ SnesAt("stage")
  /\ snes' = [pc |-> "idle", w |-> 0, r |-> 0]
  /\ staged' = picture
  /\ preroll' = IF preroll > 0 THEN preroll - 1 ELSE 0
  /\ UNCHANGED <<film, requests, queue, reader, band, need, picture, hidden,
                 shown, history>>

\* fmv_seek_to(): the target first, and the flush in RequestFlush.
SeekTo(frame) ==
  /\ asked < MaxSeeks /\ asked' = asked + 1
  /\ seekReq' = frame
  /\ SnesTo("request")
  /\ UNCHANGED <<flushReq, resync, avStarted, queue, reader, screen, undone, dropped>>

RequestFlush ==
  /\ SnesAt("request")
  /\ flushReq' = TRUE
  /\ SnesTo("idle")
  /\ UNCHANGED <<film, seekReq, resync, avStarted, queue, reader, screen, history>>

(***************************************************************************)
(* The pads: hx_mailbox_doorbell().                                        *)
(***************************************************************************)
Toggle ==
  /\ SnesAt("idle")
  /\ film' = [film EXCEPT !.state = IF @ = "playing" THEN "paused" ELSE "playing"]
  /\ UNCHANGED <<requests, queue, reader, snes, screen, history>>

Rewind ==
  /\ SnesAt("idle")
  /\ film' = [film EXCEPT !.state = "playing"]
  /\ SeekTo(0)

Stop ==
  /\ SnesAt("idle")
  /\ film' = [film EXCEPT !.state = "stopped"]
  /\ SeekTo(0)

JumpAhead ==
  /\ SnesAt("idle")
  /\ SeekTo(IF reader.cur + Jump >= Frames THEN 0 ELSE reader.cur + Jump)
  /\ UNCHANGED film

\* fmv_set_rate(): the end of a scrub asks for the audio to start anew.
SetRate ==
  /\ SnesAt("idle")
  /\ \E rate \in Rates \ {film.rate} :
       /\ film' = [film EXCEPT !.rate = rate]
       /\ resync' = (resync \/ rate = 1)
  /\ UNCHANGED <<seekReq, flushReq, avStarted, queue, reader, snes, screen, history>>

Pads == Toggle \/ Rewind \/ Stop \/ JumpAhead \/ SetRate

Snes ==
  \/ Kick \/ FrameDone \/ LoadWrite \/ LoadRead \/ Copy \/ StoreRead \/ Stage
  \/ RequestFlush

Next == Reader \/ Snes \/ Pads

\* Both threads run, and a file that can be read at times is read in the end.
Fairness == WF_vars(Reader) /\ WF_vars(Snes) /\ SF_vars(Decode)

Spec == Init /\ [][Next]_vars /\ Fairness
-----------------------------------------------------------------------------
(***************************************************************************)
(* Properties.                                                             *)
(***************************************************************************)
FrameType == Nat \cup {None}
ReaderType ==
  [pc : {"flush", "drop", "audio", "push", "lead", "seek", "clear", "decode"},
   cur : 0 .. Frames - 1, want : FrameType, apush : Nat]
SnesType ==
  [pc : {"kick", "idle", "pop", "load", "copy", "store", "stage", "request"},
   w : Nat, r : Nat]
PictureType == [0 .. Bands - 1 -> FrameType]

\* Types, and the film's bounds.
TypeOK ==
  /\ film \in [state : {"playing", "paused", "stopped"}, rate : Rates]
  /\ seekReq \in FrameType
  /\ flushReq \in BOOLEAN /\ resync \in BOOLEAN /\ avStarted \in BOOLEAN
  /\ w \in Nat /\ r \in Nat /\ fifo \in [0 .. Depth - 1 -> FrameType]
  /\ reader \in ReaderType /\ snes \in SnesType
  /\ band \in 0 .. Bands - 1 /\ need \in BOOLEAN /\ preroll \in 0 .. Preroll
  /\ picture \in FrameType /\ staged \in FrameType
  /\ hidden \in PictureType /\ shown \in PictureType
  /\ asked \in 0 .. MaxSeeks /\ undone \in Nat /\ dropped \in Nat

\* The unsigned distance of the counters never goes below zero, which would
\* stall the reader for good, and a flush that a pop undoes, which brings
\* dropped frames back, adds at most one lead to it.
QueueBounded == r <= w /\ w - r <= (undone + 1) * Lead

\* The FIFO has room for what the flushes undone have left in it and a lead: for
\* eleven in a row with the default lead of 4 in 48 slots, for none with a lead
\* over 24.  Past that the reader may lap the pop.
HasRoom == (undone + 1) * Lead <= Depth

\* The reader decodes into the slot that is being copied.
Torn == SnesAt("copy") /\ ReaderAt("decode") /\ snes.r % Depth = w % Depth

\* "copy it OUT of the FIFO (freeing the slot so the worker can reuse it
\* race-free)" (hx421_runtime.c, fmv_advance_frame): with room in the FIFO, no
\* slot is torn, however often the film was sought before.
NoTornFrame == HasRoom => ~Torn

\* The lock-free FIFO holds: its two counters and the slots behind them never
\* come into conflict, though both threads store the read counter.
FifoHolds == QueueBounded /\ NoTornFrame

\* All bands of the picture on the screen are of one frame ("all four quarters
\* come from the same frame"), through underruns, pauses and seeks.
WholeFrames == \A b, c \in 0 .. Bands - 1 : shown[b] = shown[c]

\* With room in the FIFO, a frame that is taken is the one the read counter
\* names, and was decoded after the one before: none is taken twice, and none
\* from a slot that the reader has used again.
NoFrameTwice ==
  [][Copy /\ HasRoom => picture' = snes.r /\ picture' > picture]_vars

\* A film that is left to play at its own rate plays on, picture and sound, to
\* the last unit the bound lets it decode.
FilmPlaysOn ==
  <>[](film = [state |-> "playing", rate |-> 1])
    => <>(r = MaxDecoded /\ reader.apush = MaxDecoded)

\* The same without the condition, which does not hold.
NeverTorn == ~Torn

\* "drop it here, on the producer side, so the consumer simply sees an empty
\* FIFO and holds its last frame rather than displaying frames from the old
\* position" (hx421_runtime.c, fmv_reader_fn): dropped frames stay dropped.
DroppedStayDropped == snes.pc \notin {"copy", "store"} => r >= dropped
=============================================================================
