----------------------------- MODULE AudioRing ------------------------------
(***************************************************************************)
(* The push-fed PCM ring of engine/audio/audio_ring_stream.c: one producer *)
(* thread (the FMV decoder), one consumer thread (the audio service), two  *)
(* free-running u32 cursors and no lock.  A push or a read is cut where    *)
(* the other thread can see it: it loads the other side's cursor, copies   *)
(* frame by frame, and publishes its own cursor.                           *)
(*                                                                         *)
(* Each cursor is written by one thread only, with release, and loaded by  *)
(* the other with acquire, so the copy is ordered before the publication   *)
(* and the model can interleave the steps.  A frame is the number, modulo  *)
(* FrameIds, the producer gave it; the diagnostic counters are left out.   *)
(***************************************************************************)
EXTENDS Integers, Sequences

CONSTANTS
  Capacity,    \* AUDIO_RING_STREAM_FRAMES, a power of two
  Word,        \* 2^32: the cursors wrap there, a multiple of Capacity
  MaxBatch,    \* bound: frames asked for by one push or one read
  FrameIds     \* bound: frames are numbered modulo this

ASSUME RingAssumption ==
  /\ Capacity \in Nat \ {0} /\ Word \in Nat /\ Word > Capacity
  /\ Word % Capacity = 0
  /\ MaxBatch \in Nat \ {0} /\ FrameIds \in Nat \ {0}

VARIABLES
  buf,        \* the ring's slots
  w, r,       \* the cursors
  eof,        \* the producer announced the end
  push,       \* producer's locals: n frames accepted, i copied
  read,       \* consumer's locals: frames to take, frames copied
  nextFrame,  \* number of the next frame the producer is given
  last,       \* frames the last finished read delivered
  ended       \* a read told the music player that the stream is over

vars == <<buf, w, r, eof, push, read, nextFrame, last, ended>>

Frames == 0 .. FrameIds - 1
Cursors == 0 .. Word - 1

\* u32 arithmetic on cursors, and RS_MASK.
Distance(a, b) == IF a >= b THEN a - b ELSE a - b + Word
Advance(a, n) == IF a + n < Word THEN a + n ELSE a + n - Word
Slot(c) == c % Capacity

Fill == Distance(w, r)
Least(a, b) == IF a <= b THEN a ELSE b

Idle == [pc |-> "idle", n |-> 0, i |-> 0, asked |-> 0]
NotReading == [pc |-> "idle", take |-> 0, got |-> <<>>, asked |-> 0]

Init ==
  /\ buf = [s \in 0 .. Capacity - 1 |-> 0]
  /\ w = 0 /\ r = 0 /\ eof = FALSE
  /\ push = Idle /\ read = NotReading
  /\ nextFrame = 0 /\ last = <<>> /\ ended = FALSE

(***************************************************************************)
(* Producer: audio_ring_stream_push() and _set_eof().                      *)
(***************************************************************************)

\* Bug: the room is taken to be the whole ring.
PushStartAnyRoom(asked) ==
  /\ push.pc = "idle" /\ ~eof
  /\ push' = [pc |-> "copy", n |-> Least(asked, Capacity), i |-> 0,
              asked |-> asked]
  /\ UNCHANGED <<buf, w, r, eof, read, nextFrame, last, ended>>

\* Loads both cursors; what does not fit is dropped from the batch's tail.
PushStart(asked) ==
  /\ push.pc = "idle" /\ ~eof
  /\ push' = [pc |-> "copy", n |-> Least(asked, Capacity - Fill), i |-> 0,
              asked |-> asked]
  /\ UNCHANGED <<buf, w, r, eof, read, nextFrame, last, ended>>

PushFrame ==
  /\ push.pc = "copy" /\ push.i < push.n
  /\ buf' = [buf EXCEPT ![Slot(Advance(w, push.i))] = (nextFrame + push.i) % FrameIds]
  /\ push' = [push EXCEPT !.i = @ + 1]
  /\ UNCHANGED <<w, r, eof, read, nextFrame, last, ended>>

\* Bug: the cursor is published before the frames are written.
PushPublishEarly ==
  /\ push.pc = "copy"
  /\ w' = Advance(w, push.n)
  /\ nextFrame' = (nextFrame + push.asked) % FrameIds
  /\ push' = Idle
  /\ UNCHANGED <<buf, r, eof, read, last, ended>>

PushPublish ==
  /\ push.pc = "copy" /\ push.i = push.n
  /\ w' = Advance(w, push.n)
  /\ nextFrame' = (nextFrame + push.asked) % FrameIds
  /\ push' = Idle
  /\ UNCHANGED <<buf, r, eof, read, last, ended>>

SetEof ==
  /\ push.pc = "idle" /\ ~eof
  /\ eof' = TRUE
  /\ UNCHANGED <<buf, w, r, push, read, nextFrame, last, ended>>

(***************************************************************************)
(* Consumer: audio_ring_stream_read().                                     *)
(***************************************************************************)

ReadStart(asked) ==
  /\ read.pc = "idle" /\ ~ended
  /\ read' = [pc |-> "copy", take |-> Least(asked, Fill), got |-> <<>>,
              asked |-> asked]
  /\ UNCHANGED <<buf, w, r, eof, push, nextFrame, last, ended>>

ReadFrame ==
  /\ read.pc = "copy" /\ Len(read.got) < read.take
  /\ read' = [read EXCEPT !.got = Append(@, buf[Slot(Advance(r, Len(@)))])]
  /\ UNCHANGED <<buf, w, r, eof, push, nextFrame, last, ended>>

\* Publishes the cursor; a full read is over, a short one looks at eof next.
ReadPublish ==
  /\ read.pc = "copy" /\ Len(read.got) = read.take
  /\ r' = Advance(r, read.take)
  /\ last' = read.got
  /\ read' = IF read.take < read.asked THEN [read EXCEPT !.pc = "short"]
             ELSE NotReading
  /\ UNCHANGED <<buf, w, eof, push, nextFrame, ended>>

\* A short read pads with silence and claims the whole request, unless the
\* end was announced: then it returns short and the music player stops.
ReadShort ==
  /\ read.pc = "short"
  /\ ended' = eof
  /\ read' = NotReading
  /\ UNCHANGED <<buf, w, r, eof, push, nextFrame, last>>

\* audio_ring_stream_reset(), serialized with both threads by the runtime's
\* audio lock (hx421_runtime.c:2613-2623).
Reset ==
  /\ push.pc = "idle" /\ read.pc = "idle"
  /\ w' = 0 /\ r' = 0 /\ eof' = FALSE /\ ended' = FALSE
  /\ UNCHANGED <<buf, push, read, nextFrame, last>>

Next ==
  \/ \E n \in 1 .. MaxBatch : PushStart(n) \/ ReadStart(n)
  \/ PushFrame \/ PushPublish \/ SetEof
  \/ ReadFrame \/ ReadPublish \/ ReadShort
  \/ Reset

Spec == Init /\ [][Next]_vars
-----------------------------------------------------------------------------
(***************************************************************************)
(* Properties.                                                             *)
(***************************************************************************)

\* Types of the ring, the cursors and the two threads' locals.
TypeOK ==
  /\ buf \in [0 .. Capacity - 1 -> Frames]
  /\ w \in Cursors /\ r \in Cursors /\ eof \in BOOLEAN /\ ended \in BOOLEAN
  /\ push \in [pc : {"idle", "copy"}, n : 0 .. Capacity, i : 0 .. Capacity,
               asked : 0 .. MaxBatch]
  /\ read.pc \in {"idle", "copy", "short"}
  /\ read.take \in 0 .. Capacity /\ read.asked \in 0 .. MaxBatch
  /\ read.got \in Seq(Frames) /\ last \in Seq(Frames)
  /\ nextFrame \in Frames

\* Slots a thread is about to touch: the rest of its copy.
Writing == {Slot(Advance(w, j)) : j \in push.i .. push.n - 1}
Reading == IF read.pc = "copy"
           THEN {Slot(Advance(r, j)) : j \in Len(read.got) .. read.take - 1}
           ELSE {}

\* The two copies never meet: no frame is overwritten while it is read, and
\* none is read before it is whole, across the wrap of either cursor and
\* however old the cursor the other thread loaded is.
NoSlotShared == Writing \cap Reading = {}

\* A copy in flight stays within the room, or the frames, its thread saw when
\* it started, so the fill never reaches past the ring, where it would read as
\* its own wrap.
WithinCapacity ==
  /\ Fill + push.n <= Capacity
  /\ read.pc = "copy" => read.take <= Fill

\* The two threads keep apart, and the fill never reads as its own wrap.
SlotsApart == NoSlotShared /\ WithinCapacity

\* The queue the ring holds: what is published and not yet consumed.
Contents == [i \in 1 .. Fill |-> buf[Slot(Advance(r, i - 1))]]

Queue == INSTANCE AudioQueue WITH queue <- Contents, next <- nextFrame

\* Frame by frame copies between two threads behave as one bounded queue:
\* every accepted frame is delivered once, whole and in order, and only the
\* tail of a batch that does not fit is ever lost.
ImplementsQueue == Queue!Spec

\* "At eof it returns only what remains (< requested -> music_player ends the
\* segment)" (audio_ring_stream.h:91-92): when the player is told the stream
\* is over, nothing accepted is left behind in the ring.
EndedMeansDrained == ended => Fill = 0
=============================================================================
