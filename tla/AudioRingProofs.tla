-------------------------- MODULE AudioRingProofs ---------------------------
(***************************************************************************)
(* Proofs about the ring for any capacity, cursor width and batch size.    *)
(***************************************************************************)
EXTENDS AudioRing, SequenceTheorems, TLAPS

-----------------------------------------------------------------------------
(* Arithmetic of the masked cursors.                                       *)

\* A nonzero multiple of Capacity is at least Capacity.
LEMMA MultipleIsLarge ==
  ASSUME NEW m \in Int, NEW e \in Int, e = Capacity * m, e > 0
  PROVE  e >= Capacity
<1>1. Capacity \in Nat /\ Capacity > 0
  BY RingAssumption
<1>2. m >= 1
  BY <1>1
<1> QED
  BY <1>1, <1>2

\* Cursors less than a ring apart are in different slots.
LEMMA NearSlotsDiffer ==
  ASSUME NEW a \in Nat, NEW b \in Nat, a < b, b < a + Capacity
  PROVE  Slot(a) # Slot(b)
<1>1. Capacity \in Nat /\ Capacity > 0
  BY RingAssumption
<1>2. a = Capacity * (a \div Capacity) + (a % Capacity) /\ a \div Capacity \in Int
  BY <1>1
<1>3. b = Capacity * (b \div Capacity) + (b % Capacity) /\ b \div Capacity \in Int
  BY <1>1
<1>4. SUFFICES ASSUME a % Capacity = b % Capacity PROVE FALSE
  BY DEF Slot
<1> DEFINE m == b \div Capacity - a \div Capacity
           e == b - a
<1>5. e = Capacity * m /\ m \in Int /\ e \in Int /\ e > 0 /\ ~(e >= Capacity)
  BY <1>1, <1>2, <1>3, <1>4
<1> HIDE DEF m, e
<1> QED
  BY <1>5, MultipleIsLarge

\* Wrapping a cursor does not move it to another slot.
LEMMA WrapKeepsSlot ==
  ASSUME NEW a \in Nat, a >= Word
  PROVE  Slot(a - Word) = Slot(a)
<1>1. Capacity \in Nat /\ Capacity > 0 /\ Word \in Nat
  BY RingAssumption
<1>2. PICK q \in Int : Word = Capacity * q
  <2>1. Word = Capacity * (Word \div Capacity) + (Word % Capacity)
        /\ Word \div Capacity \in Int
    BY <1>1
  <2>2. Word = Capacity * (Word \div Capacity)
    BY <2>1, <1>1, RingAssumption
  <2> QED
    BY <2>1, <2>2
<1> DEFINE b == a - Word
<1>3. a = Capacity * (a \div Capacity) + (a % Capacity) /\ a \div Capacity \in Int
      /\ a % Capacity \in 0 .. Capacity - 1
  BY <1>1
<1>4. b = Capacity * (b \div Capacity) + (b % Capacity) /\ b \div Capacity \in Int
      /\ b % Capacity \in 0 .. Capacity - 1
  BY <1>1
<1> DEFINE up == (a % Capacity) - (b % Capacity)
           m == (b \div Capacity) + q - (a \div Capacity)
<1>5. up = Capacity * m /\ up \in Int /\ m \in Int /\ up < Capacity /\ -up < Capacity
  BY <1>1, <1>2, <1>3, <1>4
<1>6. -up = Capacity * (-m) /\ -m \in Int /\ -up \in Int
  BY <1>1, <1>5
<1>7. a % Capacity \in Int /\ b % Capacity \in Int
  BY <1>3, <1>4
<1>8. up = 0
  <2> HIDE DEF up, m
  <2>1. ~(up > 0)
    BY <1>1, <1>5, MultipleIsLarge
  <2>2. ~(-up > 0)
    <3> DEFINE down == -up
               n == -m
    <3>1. down = Capacity * n /\ n \in Int /\ down \in Int /\ down < Capacity
      BY <1>5, <1>6
    <3> HIDE DEF down, n
    <3>2. ~(down > 0)
      BY <1>1, <3>1, MultipleIsLarge
    <3> QED
      BY <3>2 DEF down
  <2> QED
    BY <1>5, <2>1, <2>2
<1> QED
  BY <1>7, <1>8 DEF Slot

\* The k-th and the l-th slot from a cursor differ for k < l < Capacity, also
\* when the cursor wraps in between.
LEMMA WindowSlotsDiffer ==
  ASSUME NEW c \in Cursors, NEW k \in Nat, NEW l \in Nat, k < l, l < Capacity
  PROVE  Slot(Advance(c, k)) # Slot(Advance(c, l))
<1>1. Capacity \in Nat /\ Word \in Nat /\ Capacity < Word /\ c \in Nat /\ c < Word
  BY RingAssumption DEF Cursors
<1>2. Slot(c + k) # Slot(c + l)
  BY <1>1, NearSlotsDiffer
<1>3. ASSUME NEW j \in Nat PROVE Slot(Advance(c, j)) = Slot(c + j)
  <2>1. CASE c + j < Word
    BY <2>1 DEF Advance
  <2>2. CASE ~(c + j < Word)
    <3>1. c + j \in Nat /\ c + j >= Word
      BY <1>1, <2>2
    <3>2. Slot((c + j) - Word) = Slot(c + j)
      BY <3>1, WrapKeepsSlot
    <3> QED
      BY <1>1, <2>2, <3>2 DEF Advance
  <2> QED
    BY <2>1, <2>2
<1> QED
  BY <1>2, <1>3

-----------------------------------------------------------------------------
(* The invariant.                                                          *)

CursorType ==
  /\ w \in Cursors /\ r \in Cursors
  /\ push \in [pc : {"idle", "copy"}, n : Nat, i : Nat, asked : Nat]
  /\ push.i <= push.n /\ (push.pc = "idle" => push.n = 0)
  /\ read \in [pc : {"idle", "copy", "short"}, take : Nat, got : Seq(Frames),
               asked : Nat]
  /\ buf \in [0 .. Capacity - 1 -> Frames] /\ nextFrame \in Frames

IInv == CursorType /\ WithinCapacity

\* The fill of a ring is a number of frames.
LEMMA FillType ==
  ASSUME w \in Cursors, r \in Cursors PROVE Fill \in 0 .. Word - 1
BY RingAssumption DEF Fill, Distance, Cursors

\* The ring starts in the invariant.
LEMMA InitInv ==
  ASSUME Init PROVE IInv
<1>1. 0 \in Frames /\ 0 \in Cursors /\ <<>> \in Seq(Frames)
  BY RingAssumption DEF Frames, Cursors
<1> QED
  BY <1>1, RingAssumption DEF Init, IInv, CursorType, WithinCapacity, Idle,
                              NotReading, Fill, Distance

\* A cursor names a slot of the ring.
LEMMA SlotType ==
  ASSUME NEW c \in Cursors PROVE Slot(c) \in 0 .. Capacity - 1
BY RingAssumption DEF Slot, Cursors

\* Publishing n frames moves w and the fill forward by n.
LEMMA PublishFill ==
  ASSUME w \in Cursors, r \in Cursors, NEW n \in Nat, Fill + n <= Capacity
  PROVE  Advance(w, n) \in Cursors /\ Distance(Advance(w, n), r) = Fill + n
BY RingAssumption DEF Fill, Distance, Advance, Cursors

\* Consuming n frames moves r forward and the fill back by n.
LEMMA ConsumeFill ==
  ASSUME w \in Cursors, r \in Cursors, NEW n \in Nat, n <= Fill
  PROVE  Advance(r, n) \in Cursors /\ Distance(w, Advance(r, n)) = Fill - n
BY RingAssumption DEF Fill, Distance, Advance, Cursors

\* Every step of the producer, the consumer or the reset keeps it.
LEMMA StepInv ==
  ASSUME IInv, [Next]_vars PROVE IInv'
<1>0. /\ CursorType /\ Fill \in 0 .. Word - 1 /\ Fill + push.n <= Capacity
      /\ (read.pc = "copy" => read.take <= Fill)
      /\ Capacity \in Nat /\ Capacity < Word /\ Word \in Nat /\ Capacity > 0
  BY FillType, RingAssumption DEF IInv, CursorType, WithinCapacity
<1>1. ASSUME NEW asked \in 1 .. MaxBatch, PushStart(asked) PROVE IInv'
  <2>1. /\ w' = w /\ r' = r /\ read' = read /\ Fill' = Fill
        /\ buf' = buf /\ nextFrame' = nextFrame
        /\ push' = [pc |-> "copy", n |-> Least(asked, Capacity - Fill), i |-> 0,
                    asked |-> asked]
    BY <1>1 DEF PushStart, Fill
  <2>2. /\ Least(asked, Capacity - Fill) \in Nat /\ asked \in Nat
        /\ Fill + Least(asked, Capacity - Fill) <= Capacity
    <3>1. push.n \in Nat
      BY <1>0 DEF CursorType
    <3> QED
      BY <1>0, <3>1, RingAssumption DEF Least
  <2> QED
    BY <1>0, <2>1, <2>2 DEF IInv, CursorType, WithinCapacity
<1>2. ASSUME PushFrame PROVE IInv'
  <2>1. /\ w' = w /\ r' = r /\ read' = read /\ Fill' = Fill
        /\ nextFrame' = nextFrame
        /\ push' = [push EXCEPT !.i = @ + 1] /\ push.i < push.n /\ push.pc = "copy"
        /\ buf' = [buf EXCEPT ![Slot(Advance(w, push.i))] =
                      (nextFrame + push.i) % FrameIds]
    BY <1>2 DEF PushFrame, Fill
  <2>2. push.i \in Nat /\ nextFrame \in Nat
    BY <1>0 DEF CursorType, Frames
  <2>3. (nextFrame + push.i) % FrameIds \in Frames
    <3> DEFINE x == nextFrame + push.i
    <3>1. x \in Nat
      BY <2>2
    <3> HIDE DEF x
    <3>2. x % FrameIds \in Frames
      BY <3>1, RingAssumption DEF Frames
    <3> QED
      BY <3>2 DEF x
  <2>4. buf' \in [0 .. Capacity - 1 -> Frames]
    BY <1>0, <2>1, <2>3 DEF CursorType
  <2>5. /\ push' \in [pc : {"idle", "copy"}, n : Nat, i : Nat, asked : Nat]
        /\ push'.pc = "copy" /\ push'.n = push.n /\ push'.i <= push'.n
    <3> DEFINE j == push.i + 1
    <3>1. push' = [push EXCEPT !.i = j]
      BY <2>1
    <3>2. j \in Nat /\ j <= push.n
      BY <1>0, <2>1, <2>2 DEF CursorType
    <3> HIDE DEF j
    <3>3. push' \in [pc : {"idle", "copy"}, n : Nat, i : Nat, asked : Nat]
      BY <1>0, <3>1, <3>2, Zenon DEF CursorType
    <3>4. push'.pc = push.pc /\ push'.n = push.n /\ push'.i = j
      BY <1>0, <3>1 DEF CursorType
    <3> QED
      BY <2>1, <3>2, <3>3, <3>4
  <2>6. WithinCapacity'
    BY <1>0, <2>1, <2>5 DEF WithinCapacity
  <2>7. CursorType'
    BY <1>0, <2>1, <2>4, <2>5 DEF CursorType
  <2> QED
    BY <2>6, <2>7 DEF IInv
<1>3. ASSUME PushPublish PROVE IInv'
  <2>1. /\ w' = Advance(w, push.n) /\ r' = r /\ read' = read /\ push' = Idle
        /\ buf' = buf /\ nextFrame' = (nextFrame + push.asked) % FrameIds
    BY <1>3 DEF PushPublish
  <2>2. w' \in Cursors /\ Fill' = Fill + push.n
    <3>1. push.n \in Nat /\ w \in Cursors /\ r \in Cursors
      BY <1>0 DEF CursorType
    <3> QED
      BY <1>0, <2>1, <3>1, PublishFill DEF Fill
  <2>3. nextFrame' \in Frames
    <3> DEFINE x == nextFrame + push.asked
    <3>1. x \in Nat
      BY <1>0 DEF CursorType, Frames
    <3> HIDE DEF x
    <3>2. x % FrameIds \in Frames
      BY <3>1, RingAssumption DEF Frames
    <3> QED
      BY <2>1, <3>2 DEF x
  <2>4. /\ push' \in [pc : {"idle", "copy"}, n : Nat, i : Nat, asked : Nat]
        /\ push'.n = 0 /\ push'.i = 0 /\ push.n \in Nat
    BY <1>0, <2>1 DEF Idle, CursorType
  <2> QED
    BY <1>0, <2>1, <2>2, <2>3, <2>4 DEF IInv, CursorType, WithinCapacity
<1>4. ASSUME SetEof PROVE IInv'
  BY <1>0, <1>4 DEF SetEof, IInv, CursorType, WithinCapacity, Fill
<1>5. ASSUME NEW asked \in 1 .. MaxBatch, ReadStart(asked) PROVE IInv'
  <2>1. /\ w' = w /\ r' = r /\ push' = push /\ Fill' = Fill
        /\ buf' = buf /\ nextFrame' = nextFrame
        /\ read' = [pc |-> "copy", take |-> Least(asked, Fill), got |-> <<>>,
                    asked |-> asked]
    BY <1>5 DEF ReadStart, Fill
  <2>2. Least(asked, Fill) \in Nat /\ Least(asked, Fill) <= Fill /\ asked \in Nat
    BY <1>0, RingAssumption DEF Least
  <2>3. <<>> \in Seq(Frames)
    OBVIOUS
  <2>4. /\ read' \in [pc : {"idle", "copy", "short"}, take : Nat,
                      got : Seq(Frames), asked : Nat]
        /\ read'.take <= Fill
    BY <2>1, <2>2, <2>3
  <2> QED
    BY <1>0, <2>1, <2>4 DEF IInv, CursorType, WithinCapacity
<1>6. ASSUME ReadFrame PROVE IInv'
  <2>1. /\ w' = w /\ r' = r /\ push' = push /\ Fill' = Fill
        /\ buf' = buf /\ nextFrame' = nextFrame
        /\ read' = [read EXCEPT !.got =
                      Append(@, buf[Slot(Advance(r, Len(read.got)))])]
    BY <1>6 DEF ReadFrame, Fill
  <2>2. buf[Slot(Advance(r, Len(read.got)))] \in Frames
    <3>1. Len(read.got) \in Nat /\ Len(read.got) <= Fill
      BY <1>0, <1>6 DEF CursorType, ReadFrame
    <3>2. Advance(r, Len(read.got)) \in Cursors
      BY <1>0, <3>1, ConsumeFill DEF CursorType
    <3>3. Slot(Advance(r, Len(read.got))) \in 0 .. Capacity - 1
      BY <1>0, <3>2, SlotType
    <3> QED
      BY <1>0, <3>3 DEF CursorType
  <2>3. read' \in [pc : {"idle", "copy", "short"}, take : Nat, got : Seq(Frames),
                   asked : Nat]
        /\ read'.pc = read.pc /\ read'.take = read.take
    <3> DEFINE got == Append(read.got, buf[Slot(Advance(r, Len(read.got)))])
    <3>1. /\ read.got \in Seq(Frames) /\ read.take \in Nat /\ read.asked \in Nat
          /\ read.pc \in {"idle", "copy", "short"}
      BY <1>0 DEF CursorType
    <3>2. got \in Seq(Frames)
      BY <2>2, <3>1
    <3>3. read = [pc |-> read.pc, take |-> read.take, got |-> read.got,
                  asked |-> read.asked]
      BY <1>0 DEF CursorType
    <3>4. read' = [pc |-> read.pc, take |-> read.take, got |-> got,
                   asked |-> read.asked]
      BY <2>1, <3>3
    <3> HIDE DEF got
    <3> QED
      BY <3>1, <3>2, <3>4
  <2> QED
    BY <1>0, <2>1, <2>3 DEF IInv, CursorType, WithinCapacity
<1>7. ASSUME ReadPublish PROVE IInv'
  <2>1. /\ r' = Advance(r, read.take) /\ w' = w /\ push' = push
        /\ buf' = buf /\ nextFrame' = nextFrame /\ read.pc = "copy"
        /\ read' = [read EXCEPT !.pc = "short"] \/ read' = NotReading
    BY <1>7 DEF ReadPublish
  <2>2. r' \in Cursors /\ Fill' = Fill - read.take /\ read.take \in Nat
    <3>1. read.take \in Nat /\ w \in Cursors /\ r \in Cursors
      BY <1>0 DEF CursorType
    <3> QED
      BY <1>0, <2>1, <3>1, ConsumeFill DEF Fill
  <2>3. <<>> \in Seq(Frames)
    OBVIOUS
  <2>4. read' \in [pc : {"idle", "copy", "short"}, take : Nat, got : Seq(Frames),
                   asked : Nat]
        /\ read'.pc # "copy"
    <3>1. CASE read' = [read EXCEPT !.pc = "short"]
      <4>1. read \in [pc : {"idle", "copy", "short"}, take : Nat,
                      got : Seq(Frames), asked : Nat]
        BY <1>0 DEF CursorType
      <4>2. read' = [pc |-> "short", take |-> read.take, got |-> read.got,
                     asked |-> read.asked]
        BY <3>1, <4>1
      <4> QED
        BY <4>1, <4>2
    <3>2. CASE read' = NotReading
      BY <2>3, <3>2 DEF NotReading
    <3> QED
      BY <2>1, <3>1, <3>2
  <2>5. push.n \in Nat
    BY <1>0 DEF CursorType
  <2> QED
    BY <1>0, <2>1, <2>2, <2>4, <2>5 DEF IInv, CursorType, WithinCapacity
<1>8. ASSUME ReadShort PROVE IInv'
  <2>1. <<>> \in Seq(Frames)
    OBVIOUS
  <2> QED
    BY <1>0, <1>8, <2>1 DEF ReadShort, IInv, CursorType, WithinCapacity, Fill,
                            NotReading
<1>9. ASSUME Reset PROVE IInv'
  <2>1. /\ w' = 0 /\ r' = 0 /\ push' = push /\ read' = read /\ buf' = buf
        /\ nextFrame' = nextFrame /\ push.pc = "idle" /\ read.pc = "idle"
    BY <1>9 DEF Reset
  <2>2. 0 \in Cursors /\ Fill' = 0
    BY <1>0, <2>1 DEF Cursors, Fill, Distance
  <2> QED
    BY <1>0, <2>1, <2>2 DEF IInv, CursorType, WithinCapacity
<1>10. ASSUME UNCHANGED vars PROVE IInv'
  BY <1>0, <1>10 DEF vars, IInv, CursorType, WithinCapacity, Fill
<1> QED
  BY <1>1, <1>2, <1>3, <1>4, <1>5, <1>6, <1>7, <1>8, <1>9, <1>10 DEF Next

\* Moving from w is moving on from r past the frames in the ring.
LEMMA WriteWindow ==
  ASSUME w \in Cursors, r \in Cursors, Fill < Capacity, NEW j \in Nat,
         Fill + j < Capacity
  PROVE  Advance(w, j) = Advance(r, Fill + j)
BY RingAssumption DEF Fill, Distance, Advance, Cursors

\* Two sides at the same slot would need a full ring being pushed into.
LEMMA InvNoSlotShared ==
  ASSUME IInv PROVE NoSlotShared
<1>0. /\ CursorType /\ Fill \in 0 .. Word - 1 /\ Fill + push.n <= Capacity
      /\ (read.pc = "copy" => read.take <= Fill)
      /\ Capacity \in Nat /\ Capacity < Word /\ Word \in Nat /\ Capacity > 0
  BY FillType, RingAssumption DEF IInv, CursorType, WithinCapacity
<1>1. SUFFICES ASSUME read.pc = "copy",
                      NEW j \in push.i .. push.n - 1,
                      NEW k \in Len(read.got) .. read.take - 1
               PROVE  Slot(Advance(w, j)) # Slot(Advance(r, k))
  BY DEF NoSlotShared, Writing, Reading
<1>2. /\ j \in Nat /\ k \in Nat /\ k < Fill /\ Fill + j < Capacity /\ Fill < Capacity
      /\ Fill + j \in Nat /\ k < Fill + j /\ w \in Cursors /\ r \in Cursors
  BY <1>0, <1>1 DEF CursorType
<1>3. Advance(w, j) = Advance(r, Fill + j)
  BY <1>2, WriteWindow
<1>4. Slot(Advance(r, k)) # Slot(Advance(r, Fill + j))
  BY <1>2, WindowSlotsDiffer
<1> QED
  BY <1>3, <1>4

-----------------------------------------------------------------------------
(* The theorems.                                                           *)

\* The invariant of the ring holds in every reachable state.
THEOREM Invariance == Spec => []IInv
<1>1. Init => IInv
  BY InitInv
<1>2. IInv /\ [Next]_vars => IInv'
  BY StepInv
<1> QED
  BY <1>1, <1>2, PTL DEF Spec

\* However the two threads interleave and wherever the cursors wrap, a push
\* in flight fits in the room left and a read in flight in the fill.
THEOREM FillBounded == Spec => []WithinCapacity
<1>1. IInv => WithinCapacity
  BY DEF IInv
<1> QED
  BY <1>1, Invariance, PTL

\* The producer never writes a slot the consumer is still to read.
THEOREM NoTornFrame == Spec => []NoSlotShared
<1>1. IInv => NoSlotShared
  BY InvNoSlotShared
<1> QED
  BY <1>1, Invariance, PTL

\* The two threads never meet in a slot, and the ring never overfills.
THEOREM ThreadsKeepApart == Spec => []SlotsApart
<1>1. NoSlotShared /\ WithinCapacity => SlotsApart
  BY DEF SlotsApart
<1> QED
  BY <1>1, NoTornFrame, FillBounded, PTL

-----------------------------------------------------------------------------
(* The copies in flight.                                                   *)

\* The i frames a push has copied are the next ones of the stream, in the slots
\* behind the published ones; what a read has copied is what the ring holds first.
CopiesRight ==
  /\ eof \in BOOLEAN /\ ended \in BOOLEAN /\ last \in Seq(Frames)
  /\ push.asked \in 0 .. MaxBatch /\ read.asked \in 0 .. MaxBatch
  /\ read.take \in 0 .. Capacity
  /\ push.pc = "copy" =>
       /\ ~eof /\ push.asked # 0 /\ push.n <= push.asked
       /\ \A j \in 0 .. push.i - 1 :
            buf[Slot(Advance(w, j))] = (nextFrame + j) % FrameIds
  /\ read.pc = "copy" =>
       /\ Len(read.got) <= read.take
       /\ \A k \in 1 .. Len(read.got) : read.got[k] = buf[Slot(Advance(r, k - 1))]

PInv == IInv /\ CopiesRight

\* The numbers of the ring.
LEMMA RingNumbers ==
  ASSUME IInv
  PROVE  /\ Capacity \in Nat /\ 0 < Capacity /\ Word \in Nat /\ Capacity < Word
         /\ FrameIds \in Nat /\ 0 < FrameIds /\ MaxBatch \in Nat
         /\ w \in Cursors /\ r \in Cursors /\ Fill \in Nat /\ Fill <= Capacity
         /\ push.n \in Nat /\ push.i \in Nat /\ push.i <= push.n
         /\ push.asked \in Nat /\ read.take \in Nat /\ read.got \in Seq(Frames)
         /\ Fill + push.n <= Capacity /\ (read.pc = "copy" => read.take <= Fill)
         /\ buf \in [0 .. Capacity - 1 -> Frames] /\ nextFrame \in Nat
<1>1. CursorType /\ WithinCapacity /\ Fill \in 0 .. Word - 1
  BY FillType DEF IInv, CursorType
<1> QED
  BY <1>1, RingAssumption DEF CursorType, WithinCapacity, Frames

\* A frame number is a frame.
LEMMA FrameNumber ==
  ASSUME NEW x \in Nat
  PROVE  x % FrameIds \in Frames
BY RingAssumption DEF Frames

\* The slots that are read lie apart from the slot that is written.
LEMMA WrittenApart ==
  ASSUME IInv, NEW j \in Nat, j < push.n, NEW k \in Nat, k < Fill
  PROVE  Slot(Advance(w, j)) # Slot(Advance(r, k))
<1>a. /\ Fill \in Nat /\ push.n \in Nat /\ Fill + push.n <= Capacity
      /\ Capacity \in Nat /\ w \in Cursors /\ r \in Cursors
  BY RingNumbers
<1>1. Fill + j < Capacity /\ Fill < Capacity /\ Fill + j \in Nat /\ k < Fill + j
  BY <1>a
<1>2. Advance(w, j) = Advance(r, Fill + j)
  BY <1>1, RingNumbers, WriteWindow
<1>3. Slot(Advance(r, k)) # Slot(Advance(r, Fill + j))
  BY <1>1, RingNumbers, WindowSlotsDiffer
<1> QED
  BY <1>2, <1>3

\* The ring starts with nothing under way.
LEMMA InitCopies ==
  ASSUME Init PROVE CopiesRight
<1>1. <<>> \in Seq(Frames)
  OBVIOUS
<1>2. /\ push.pc = "idle" /\ push.asked = 0 /\ read.pc = "idle" /\ read.asked = 0
      /\ read.take = 0 /\ eof = FALSE /\ ended = FALSE /\ last = <<>>
  BY DEF Init, Idle, NotReading
<1>3. 0 \in 0 .. MaxBatch /\ 0 \in 0 .. Capacity
  BY RingAssumption
<1> QED
  BY <1>1, <1>2, <1>3 DEF CopiesRight

\* Every step keeps the copies right.
LEMMA StepCopies ==
  ASSUME IInv, CopiesRight, [Next]_vars PROVE CopiesRight'
<1>0. /\ eof \in BOOLEAN /\ ended \in BOOLEAN /\ last \in Seq(Frames)
      /\ push.asked \in 0 .. MaxBatch /\ read.asked \in 0 .. MaxBatch
      /\ read.take \in 0 .. Capacity
      /\ push \in [pc : {"idle", "copy"}, n : Nat, i : Nat, asked : Nat]
      /\ read \in [pc : {"idle", "copy", "short"}, take : Nat, got : Seq(Frames),
                   asked : Nat]
  BY DEF CopiesRight, IInv, CursorType
<1> DEFINE Pushed ==
             push.pc = "copy" =>
               /\ ~eof /\ push.asked # 0 /\ push.n <= push.asked
               /\ \A j \in 0 .. push.i - 1 :
                    buf[Slot(Advance(w, j))] = (nextFrame + j) % FrameIds
           Got ==
             read.pc = "copy" =>
               /\ Len(read.got) <= read.take
               /\ \A k \in 1 .. Len(read.got) :
                    read.got[k] = buf[Slot(Advance(r, k - 1))]
           Shapes ==
             /\ eof \in BOOLEAN /\ ended \in BOOLEAN /\ last \in Seq(Frames)
             /\ push.asked \in 0 .. MaxBatch /\ read.asked \in 0 .. MaxBatch
             /\ read.take \in 0 .. Capacity
<1>a. Pushed /\ Got /\ Shapes
  BY DEF CopiesRight
<1>b. Pushed' /\ Got' /\ Shapes' => CopiesRight'
  BY DEF CopiesRight
<1>1. ASSUME NEW asked \in 1 .. MaxBatch, PushStart(asked) PROVE CopiesRight'
  <2>1. /\ ~eof /\ UNCHANGED <<buf, w, r, eof, read, nextFrame, last, ended>>
        /\ push'.pc = "copy" /\ push'.n = Least(asked, Capacity - Fill)
        /\ push'.i = 0 /\ push'.asked = asked
    BY <1>1 DEF PushStart
  <2>2. Least(asked, Capacity - Fill) <= asked
    BY RingNumbers DEF Least
  <2>3. asked \in 0 .. MaxBatch /\ asked # 0
    BY RingNumbers
  <2>4. Pushed'
    BY <2>1, <2>2, <2>3
  <2>5. Got' /\ Shapes'
    BY <1>a, <2>1, <2>3
  <2> QED
    BY <1>b, <2>4, <2>5
<1>2. ASSUME PushFrame PROVE CopiesRight'
  <2> DEFINE i == push.i
             s == Slot(Advance(w, i))
             v == (nextFrame + i) % FrameIds
  <2>1. /\ push.pc = "copy" /\ i < push.n /\ buf' = [buf EXCEPT ![s] = v]
        /\ push' = [push EXCEPT !.i = i + 1]
        /\ UNCHANGED <<w, r, eof, read, nextFrame, last, ended>>
    BY <1>2 DEF PushFrame
  <2>2. /\ push'.pc = "copy" /\ push'.n = push.n /\ push'.asked = push.asked
        /\ push'.i = i + 1
    BY <1>0, <2>1
  <2>3. Advance(w, i) \in Cursors /\ s \in 0 .. Capacity - 1
    <3>1. Fill + i <= Capacity
      BY <2>1, RingNumbers
    <3>2. Advance(w, i) \in Cursors
      BY <3>1, RingNumbers, PublishFill
    <3> QED
      BY <3>2, SlotType
  <2>4. buf'[s] = v /\ \A c \in 0 .. Capacity - 1 : c # s => buf'[c] = buf[c]
    BY <2>1, <2>3, RingNumbers
  <2>5. ASSUME NEW j \in 0 .. i
        PROVE  buf'[Slot(Advance(w, j))] = (nextFrame + j) % FrameIds
    <3>1. CASE j = i
      BY <2>4, <3>1
    <3>2. CASE j # i
      <4>1. j \in Nat /\ i \in Nat /\ j < i /\ i < Capacity /\ Fill + j <= Capacity
        BY <2>1, <3>2, RingNumbers
      <4>2. Slot(Advance(w, j)) # s
        BY <4>1, RingNumbers, WindowSlotsDiffer
      <4>3. Advance(w, j) \in Cursors
        BY <4>1, RingNumbers, PublishFill
      <4>4. Slot(Advance(w, j)) \in 0 .. Capacity - 1
        BY <4>3, SlotType
      <4>5. j \in 0 .. push.i - 1
        BY <4>1
      <4> QED
        BY <1>a, <2>1, <2>4, <4>2, <4>4, <4>5
    <3> QED
      BY <3>1, <3>2
  <2>6. Pushed'
    <3>1. (i + 1) - 1 = i
      BY RingNumbers
    <3>2. \A j \in 0 .. push'.i - 1 :
            buf'[Slot(Advance(w', j))] = (nextFrame' + j) % FrameIds
      BY <2>1, <2>2, <2>5, <3>1
    <3> QED
      BY <1>a, <2>1, <2>2, <3>2
  <2>7. ASSUME read.pc = "copy", NEW k \in 1 .. Len(read.got)
        PROVE  read.got[k] = buf'[Slot(Advance(r, k - 1))]
    <3>1. k - 1 \in Nat /\ k - 1 < Fill
      BY <1>a, <2>7, RingNumbers
    <3>2. Slot(Advance(r, k - 1)) # s
      BY <2>1, <3>1, RingNumbers, WrittenApart
    <3>3. Advance(r, k - 1) \in Cursors
      BY <3>1, RingNumbers, ConsumeFill
    <3>4. Slot(Advance(r, k - 1)) \in 0 .. Capacity - 1
      BY <3>3, SlotType
    <3> QED
      BY <1>a, <2>4, <2>7, <3>2, <3>4
  <2>8. Got'
    BY <1>a, <2>1, <2>7
  <2>9. Shapes'
    BY <1>a, <2>1, <2>2
  <2> QED
    BY <1>b, <2>6, <2>8, <2>9
<1>3. ASSUME PushPublish PROVE CopiesRight'
  <2>1. push'.pc = "idle" /\ push'.asked = 0 /\ UNCHANGED <<buf, r, eof, read, last, ended>>
    BY <1>3 DEF PushPublish, Idle
  <2>2. 0 \in 0 .. MaxBatch
    BY RingNumbers
  <2> QED
    BY <1>a, <1>b, <2>1, <2>2
<1>4. ASSUME SetEof PROVE CopiesRight'
  BY <1>4, <1>a, <1>b DEF SetEof
<1>5. ASSUME NEW asked \in 1 .. MaxBatch, ReadStart(asked) PROVE CopiesRight'
  <2>1. /\ UNCHANGED <<buf, w, r, eof, push, nextFrame, last, ended>>
        /\ read'.take = Least(asked, Fill) /\ read'.got = <<>> /\ read'.asked = asked
    BY <1>5 DEF ReadStart
  <2>2. Least(asked, Fill) \in 0 .. Capacity
    BY RingNumbers DEF Least
  <2>3. asked \in 0 .. MaxBatch
    BY RingNumbers
  <2>4. Len(<<>>) = 0
    OBVIOUS
  <2>5. Got'
    BY <2>1, <2>2, <2>4
  <2>6. Pushed' /\ Shapes'
    BY <1>a, <2>1, <2>2, <2>3
  <2> QED
    BY <1>b, <2>5, <2>6
<1>6. ASSUME ReadFrame PROVE CopiesRight'
  <2> DEFINE n == Len(read.got)
             f == buf[Slot(Advance(r, n))]
  <2>1. /\ read.pc = "copy" /\ n < read.take
        /\ read' = [read EXCEPT !.got = Append(read.got, f)]
        /\ UNCHANGED <<buf, w, r, eof, push, nextFrame, last, ended>>
    BY <1>6 DEF ReadFrame
  <2>2. /\ read'.pc = read.pc /\ read'.take = read.take /\ read'.asked = read.asked
        /\ read'.got = Append(read.got, f)
    BY <1>0, <2>1
  <2>3. f \in Frames /\ n \in Nat
    <3>1. n \in Nat /\ n <= Fill
      BY <2>1, RingNumbers
    <3>2. Advance(r, n) \in Cursors
      BY <3>1, RingNumbers, ConsumeFill
    <3>3. Slot(Advance(r, n)) \in 0 .. Capacity - 1
      BY <3>2, SlotType
    <3> QED
      BY <3>1, <3>3, RingNumbers
  <2>4. /\ Len(read'.got) = n + 1 /\ read'.got[n + 1] = f
        /\ \A k \in 1 .. n : read'.got[k] = read.got[k]
    BY <2>2, <2>3, RingNumbers, AppendProperties
  <2> HIDE DEF f
  <2>5. ASSUME NEW k \in 1 .. n + 1
        PROVE  read'.got[k] = buf[Slot(Advance(r, k - 1))]
    <3>1. CASE k = n + 1
      <4>1. k - 1 = n
        BY <2>3, <3>1
      <4> QED
        BY <2>4, <3>1, <4>1 DEF f
    <3>2. CASE k # n + 1
      <4>1. k \in 1 .. n
        BY <2>3, <3>2
      <4> QED
        BY <1>a, <2>1, <2>4, <4>1
    <3> QED
      BY <3>1, <3>2
  <2>6. Got'
    <3>1. n + 1 <= read.take
      BY <2>1, <2>3, RingNumbers
    <3> QED
      BY <2>1, <2>2, <2>4, <2>5, <3>1
  <2>7. Pushed' /\ Shapes'
    BY <1>a, <2>1, <2>2
  <2> QED
    BY <1>b, <2>6, <2>7
<1>7. ASSUME ReadPublish PROVE CopiesRight'
  <2>1. /\ last' = read.got /\ UNCHANGED <<buf, w, eof, push, nextFrame, ended>>
        /\ read' = [read EXCEPT !.pc = "short"] \/ read' = NotReading
    BY <1>7 DEF ReadPublish
  <2>2. /\ read'.pc # "copy" /\ read'.asked \in 0 .. MaxBatch
        /\ read'.take \in 0 .. Capacity
    <3>1. CASE read' = [read EXCEPT !.pc = "short"]
      BY <1>0, <3>1
    <3>2. CASE read' = NotReading
      <4>1. 0 \in 0 .. MaxBatch /\ 0 \in 0 .. Capacity
        BY RingNumbers
      <4> QED
        BY <3>2, <4>1 DEF NotReading
    <3> QED
      BY <2>1, <3>1, <3>2
  <2>3. last' \in Seq(Frames)
    BY <2>1, RingNumbers
  <2> QED
    BY <1>a, <1>b, <2>1, <2>2, <2>3
<1>8. ASSUME ReadShort PROVE CopiesRight'
  <2>1. /\ ended' = eof /\ UNCHANGED <<buf, w, r, eof, push, nextFrame, last>>
        /\ read'.pc = "idle" /\ read'.asked = 0 /\ read'.take = 0
    BY <1>8 DEF ReadShort, NotReading
  <2>2. 0 \in 0 .. MaxBatch /\ 0 \in 0 .. Capacity
    BY RingNumbers
  <2> QED
    BY <1>a, <1>b, <2>1, <2>2
<1>9. ASSUME Reset PROVE CopiesRight'
  <2>1. /\ push.pc = "idle" /\ read.pc = "idle" /\ eof' = FALSE /\ ended' = FALSE
        /\ UNCHANGED <<buf, push, read, nextFrame, last>>
    BY <1>9 DEF Reset
  <2> QED
    BY <1>a, <1>b, <2>1
<1>10. ASSUME UNCHANGED vars PROVE CopiesRight'
  BY <1>10, <1>a, <1>b DEF vars
<1> QED
  BY <1>1, <1>2, <1>3, <1>4, <1>5, <1>6, <1>7, <1>8, <1>9, <1>10 DEF Next

\* The ring and its copies keep in order.
THEOREM CopiesInvariance == Spec => []PInv
<1>1. Init => PInv
  BY InitInv, InitCopies DEF PInv
<1>2. PInv /\ [Next]_vars => PInv'
  BY StepInv, StepCopies DEF PInv
<1> QED
  BY <1>1, <1>2, PTL DEF Spec

\* Ring, cursors and the locals of both threads keep their types.
THEOREM TypeCorrect == Spec => []TypeOK
<1>1. PInv => TypeOK
  <2> SUFFICES ASSUME PInv PROVE TypeOK
    OBVIOUS
  <2>1. IInv /\ CopiesRight /\ CursorType
    BY DEF PInv, IInv
  <2>2. push.n \in 0 .. Capacity /\ push.i \in 0 .. Capacity
    BY <2>1, RingNumbers
  <2> QED
    BY <2>1, <2>2 DEF TypeOK, CursorType, CopiesRight
<1> QED
  BY <1>1, CopiesInvariance, PTL

-----------------------------------------------------------------------------
(* The ring implements the queue.                                          *)

\* n frames of a ring b, from cursor c on.
Window(b, c, n) == [i \in 1 .. n |-> b[Slot(Advance(c, i - 1))]]

\* A window is a sequence of frames.
LEMMA WindowIs ==
  ASSUME NEW b \in [0 .. Capacity - 1 -> Frames], NEW c \in Cursors,
         NEW n \in Nat, n <= Capacity
  PROVE  /\ Window(b, c, n) \in Seq(Frames) /\ Len(Window(b, c, n)) = n
         /\ \A i \in 1 .. n : Window(b, c, n)[i] = b[Slot(Advance(c, i - 1))]
<1>1. ASSUME NEW i \in 1 .. n PROVE b[Slot(Advance(c, i - 1))] \in Frames
  <2>1. Advance(c, i - 1) \in Cursors
    BY RingAssumption DEF Advance, Cursors
  <2> QED
    BY <2>1, SlotType
<1> DEFINE q == Window(b, c, n)
<1>2. q \in [1 .. n -> Frames]
  BY <1>1 DEF Window
<1>3. q \in Seq(Frames) /\ Len(q) = n
  BY <1>2
<1> QED
  BY <1>3 DEF Window

\* A window is equal to another sequence if its elements are.
LEMMA WindowEquals ==
  ASSUME NEW b \in [0 .. Capacity - 1 -> Frames], NEW c \in Cursors,
         NEW n \in Nat, n <= Capacity, NEW q \in Seq(Frames), Len(q) = n,
         \A i \in 1 .. n : q[i] = b[Slot(Advance(c, i - 1))]
  PROVE  Window(b, c, n) = q
<1>1. /\ Window(b, c, n) \in Seq(Frames) /\ Len(Window(b, c, n)) = n
      /\ \A i \in 1 .. n : Window(b, c, n)[i] = b[Slot(Advance(c, i - 1))]
  BY WindowIs
<1> QED
  BY <1>1, SeqEqual

\* Consuming moves the window on.
LEMMA AdvanceTwice ==
  ASSUME NEW c \in Cursors, NEW m \in Nat, NEW n \in Nat, m + n <= Capacity
  PROVE  Advance(Advance(c, m), n) = Advance(c, m + n)
BY RingAssumption DEF Advance, Cursors

\* A batch is a sequence of frames, numbered on from the next one.
LEMMA BatchIs ==
  ASSUME NEW n \in Nat, nextFrame \in Nat
  PROVE  /\ Queue!Batch(n) \in Seq(Frames) /\ Len(Queue!Batch(n)) = n
         /\ \A i \in 1 .. n : Queue!Batch(n)[i] = ((nextFrame + i) - 1) % FrameIds
<1>1. ASSUME NEW i \in 1 .. n PROVE ((nextFrame + i) - 1) % FrameIds \in Frames
  <2> DEFINE x == (nextFrame + i) - 1
  <2>1. x \in Nat
    OBVIOUS
  <2> HIDE DEF x
  <2>2. x % FrameIds \in Frames
    BY <2>1, FrameNumber
  <2> QED
    BY <2>2 DEF x
<1> DEFINE q == Queue!Batch(n)
<1>2. q = [i \in 1 .. n |-> ((nextFrame + i) - 1) % FrameIds]
  BY DEF Queue!Batch
<1>3. q \in [1 .. n -> Frames]
  BY <1>1, <1>2
<1>4. q \in Seq(Frames) /\ Len(q) = n
  BY <1>3
<1> QED
  BY <1>2, <1>4

\* Publishing a push appends the frames that were copied.
LEMMA PublishAppends ==
  ASSUME PInv, push.pc = "copy", push.i = push.n
  PROVE  Window(buf, r, Fill + push.n) = Window(buf, r, Fill) \o Queue!Batch(push.n)
<1> DEFINE n == push.n
           a == Window(buf, r, Fill)
           b == Queue!Batch(n)
<1>0. IInv /\ CopiesRight
  BY DEF PInv
<1>1. /\ Capacity \in Nat /\ Fill \in Nat /\ n \in Nat /\ Fill + n <= Capacity
      /\ Fill <= Capacity
      /\ w \in Cursors /\ r \in Cursors /\ nextFrame \in Nat
      /\ buf \in [0 .. Capacity - 1 -> Frames]
  BY <1>0, RingNumbers
<1>2. /\ a \in Seq(Frames) /\ Len(a) = Fill
      /\ \A i \in 1 .. Fill : a[i] = buf[Slot(Advance(r, i - 1))]
  BY <1>1, WindowIs
<1>3. /\ b \in Seq(Frames) /\ Len(b) = n
      /\ \A i \in 1 .. n : b[i] = ((nextFrame + i) - 1) % FrameIds
  BY <1>1, BatchIs
<1>4. \A j \in 0 .. n - 1 : buf[Slot(Advance(w, j))] = (nextFrame + j) % FrameIds
  BY <1>0 DEF CopiesRight
<1> HIDE DEF a, b, n
<1>5. /\ a \o b \in Seq(Frames) /\ Len(a \o b) = Fill + n
      /\ \A i \in 1 .. Fill + n : (a \o b)[i] = IF i <= Fill THEN a[i] ELSE b[i - Fill]
  BY <1>2, <1>3, ConcatProperties
<1>6. ASSUME NEW i \in 1 .. Fill + n
      PROVE  (a \o b)[i] = buf[Slot(Advance(r, i - 1))]
  <2>1. CASE i <= Fill
    <3>1. i \in 1 .. Fill
      BY <1>1, <2>1
    <3> QED
      BY <1>2, <1>5, <2>1, <3>1
  <2>2. CASE ~(i <= Fill)
    <3>1. PICK j \in 0 .. n - 1 : i - Fill = j + 1 /\ i - 1 = Fill + j
      <4>1. (i - Fill) - 1 \in 0 .. n - 1
        BY <1>1, <2>2
      <4> QED
        BY <1>1, <4>1
    <3>2. (a \o b)[i] = b[j + 1]
      BY <1>5, <2>2, <3>1
    <3>3. b[j + 1] = (nextFrame + j) % FrameIds
      <4>1. j + 1 \in 1 .. n /\ (nextFrame + (j + 1)) - 1 = nextFrame + j
        BY <1>1
      <4> QED
        BY <1>3, <4>1
    <3>4. Advance(w, j) = Advance(r, Fill + j)
      <4>1. Fill < Capacity /\ Fill + j < Capacity /\ j \in Nat
        BY <1>1
      <4> QED
        BY <1>1, <4>1, WriteWindow
    <3> QED
      BY <1>4, <3>1, <3>2, <3>3, <3>4
  <2> QED
    BY <2>1, <2>2
<1>7. Fill + n \in Nat
  BY <1>1
<1>8. Window(buf, r, Fill + n) = a \o b
  BY <1>1, <1>5, <1>6, <1>7, WindowEquals
<1> QED
  BY <1>8 DEF a, b, n

\* A read that is done has copied the oldest frames, and publishing it leaves the
\* others.
LEMMA ReadTakes ==
  ASSUME PInv, read.pc = "copy", Len(read.got) = read.take
  PROVE  /\ read.got = SubSeq(Window(buf, r, Fill), 1, read.take)
         /\ Window(buf, Advance(r, read.take), Fill - read.take) =
              SubSeq(Window(buf, r, Fill), read.take + 1, Len(Window(buf, r, Fill)))
<1> DEFINE n == read.take
           a == Window(buf, r, Fill)
           front == SubSeq(a, 1, n)
           back == SubSeq(a, n + 1, Fill)
<1>0. IInv /\ CopiesRight
  BY DEF PInv
<1>1. /\ Capacity \in Nat /\ Fill \in Nat /\ Fill <= Capacity /\ n \in Nat /\ n <= Fill
      /\ r \in Cursors /\ w \in Cursors /\ buf \in [0 .. Capacity - 1 -> Frames]
      /\ read.got \in Seq(Frames)
  BY <1>0, RingNumbers
<1>2. /\ a \in Seq(Frames) /\ Len(a) = Fill
      /\ \A i \in 1 .. Fill : a[i] = buf[Slot(Advance(r, i - 1))]
  BY <1>1, WindowIs
<1>3. \A k \in 1 .. n : read.got[k] = buf[Slot(Advance(r, k - 1))]
  BY <1>0 DEF CopiesRight
<1>4. \A i \in 1 .. Fill : a[i] \in Frames
  BY <1>2, ElementOfSeq
<1> HIDE DEF a, n
<1>5. front \in Seq(Frames) /\ Len(front) = n /\ \A i \in 1 .. n : front[i] = a[i]
  <2>1. \A i \in 1 .. n : a[i] \in Frames
    BY <1>1, <1>4
  <2>2. /\ front \in Seq(Frames) /\ Len(front) = IF 1 <= n THEN (n - 1) + 1 ELSE 0
        /\ \A i \in 1 .. (n - 1) + 1 : front[i] = a[(1 + i) - 1]
    BY <1>1, <2>1, SubSeqProperties
  <2> HIDE DEF front
  <2>3. Len(front) = n
    BY <1>1, <2>2
  <2>4. ASSUME NEW i \in 1 .. n PROVE front[i] = a[i]
    <3>1. i \in 1 .. (n - 1) + 1 /\ (1 + i) - 1 = i
      BY <1>1
    <3> QED
      BY <2>2, <3>1
  <2> QED
    BY <2>2, <2>3, <2>4
<1>6. /\ back \in Seq(Frames) /\ Len(back) = Fill - n
      /\ \A i \in 1 .. Fill - n : back[i] = a[n + i]
  <2>1. \A i \in n + 1 .. Fill : a[i] \in Frames
    BY <1>1, <1>4
  <2>2. n + 1 \in Int /\ Fill \in Int
    BY <1>1
  <2>3. /\ back \in Seq(Frames)
        /\ Len(back) = IF n + 1 <= Fill THEN (Fill - (n + 1)) + 1 ELSE 0
        /\ \A i \in 1 .. (Fill - (n + 1)) + 1 : back[i] = a[((n + 1) + i) - 1]
    BY <2>1, <2>2, SubSeqProperties
  <2> HIDE DEF back
  <2>4. Len(back) = Fill - n
    BY <1>1, <2>3
  <2>5. ASSUME NEW i \in 1 .. Fill - n PROVE back[i] = a[n + i]
    <3>1. i \in 1 .. (Fill - (n + 1)) + 1 /\ ((n + 1) + i) - 1 = n + i
      BY <1>1
    <3> QED
      BY <2>3, <3>1
  <2> QED
    BY <2>3, <2>4, <2>5
<1> HIDE DEF front, back
<1>7. read.got = front
  <2>1. \A i \in 1 .. n : a[i] = buf[Slot(Advance(r, i - 1))]
    BY <1>1, <1>2
  <2>2. Len(read.got) = n
    BY DEF n
  <2> QED
    BY <1>1, <1>3, <1>5, <2>1, <2>2, SeqEqual
<1>8. Window(buf, Advance(r, n), Fill - n) = back
  <2>1. Advance(r, n) \in Cursors
    BY <1>1, ConsumeFill
  <2>2. ASSUME NEW i \in 1 .. Fill - n
        PROVE  back[i] = buf[Slot(Advance(Advance(r, n), i - 1))]
    <3>1. i - 1 \in Nat /\ n + (i - 1) <= Capacity /\ n + i \in 1 .. Fill
          /\ (n + i) - 1 = n + (i - 1)
      BY <1>1
    <3>2. Advance(Advance(r, n), i - 1) = Advance(r, (n + i) - 1)
      BY <1>1, <3>1, AdvanceTwice
    <3> QED
      BY <1>2, <1>6, <3>1, <3>2
  <2>3. Fill - n \in Nat /\ Fill - n <= Capacity
    BY <1>1
  <2> QED
    BY <1>1, <1>6, <2>1, <2>2, <2>3, WindowEquals
<1> QED
  BY <1>2, <1>7, <1>8 DEF front, back, a, n

\* A frame that is copied into the ring is not among those it holds.
LEMMA CopyApart ==
  ASSUME PInv, PushFrame
  PROVE  Contents' = Contents
<1>0. IInv /\ CopiesRight
  BY DEF PInv
<1> DEFINE s == Slot(Advance(w, push.i))
           v == (nextFrame + push.i) % FrameIds
<1>1. /\ push.i < push.n /\ buf' = [buf EXCEPT ![s] = v] /\ w' = w /\ r' = r
  BY DEF PushFrame
<1>2. Fill' = Fill
  BY <1>1 DEF Fill
<1>3. ASSUME NEW i \in 1 .. Fill
      PROVE  buf'[Slot(Advance(r, i - 1))] = buf[Slot(Advance(r, i - 1))]
  <2>1. i - 1 \in Nat /\ i - 1 < Fill /\ push.i \in Nat
    BY <1>0, RingNumbers
  <2>2. Slot(Advance(r, i - 1)) # s
    BY <1>0, <1>1, <2>1, WrittenApart
  <2>3. Advance(r, i - 1) \in Cursors
    BY <1>0, <2>1, RingNumbers, ConsumeFill
  <2>4. Slot(Advance(r, i - 1)) \in 0 .. Capacity - 1
    BY <2>3, SlotType
  <2> HIDE DEF s, v
  <2> QED
    BY <1>0, <1>1, <2>2, <2>4, RingNumbers
<1> HIDE DEF s, v
<1> QED
  BY <1>1, <1>2, <1>3 DEF Contents

\* The contents are the window of the fill, now and after a step.
LEMMA ContentsAreWindow ==
  Contents = Window(buf, r, Fill) /\ Contents' = Window(buf', r', Fill')
BY DEF Contents, Window, Slot, Advance

\* The empty ring is the empty queue.
LEMMA InitMapped == Init => Queue!Init
<1> SUFFICES ASSUME Init PROVE Queue!Init
  OBVIOUS
<1>1. Fill = 0
  BY DEF Init, Fill, Distance
<1>2. Contents = <<>>
  BY <1>1 DEF Contents
<1> QED
  BY <1>2 DEF Init, Queue!Init

\* Every step is a step of the queue or leaves it as it is.
LEMMA StepMapped ==
  ASSUME PInv, [Next]_vars PROVE [Queue!Next]_Queue!queueVars
<1>0. /\ IInv /\ CopiesRight /\ Capacity \in Nat /\ Fill \in Nat
      /\ w \in Cursors /\ r \in Cursors
  BY RingNumbers DEF PInv
<1>s. ASSUME Contents' = Contents, UNCHANGED <<nextFrame, last, eof>>
      PROVE  [Queue!Next]_Queue!queueVars
  BY <1>s DEF Queue!queueVars
<1>t. ASSUME UNCHANGED <<buf, w, r>> PROVE Contents' = Contents
  <2>1. Fill' = Fill
    BY <1>t DEF Fill
  <2> QED
    BY <1>t, <2>1 DEF Contents
<1>1. CASE \E n \in 1 .. MaxBatch : PushStart(n) \/ ReadStart(n)
  <2>1. UNCHANGED <<buf, w, r, eof, nextFrame, last>>
    BY <1>1 DEF PushStart, ReadStart
  <2> QED
    BY <1>s, <1>t, <2>1
<1>2. CASE PushFrame
  <2>1. UNCHANGED <<eof, nextFrame, last>>
    BY <1>2 DEF PushFrame
  <2> QED
    BY <1>2, <1>s, <2>1, CopyApart
<1>3. CASE PushPublish
  <2> DEFINE n == push.n
             asked == push.asked
  <2>1. /\ push.pc = "copy" /\ push.i = n /\ w' = Advance(w, n)
        /\ nextFrame' = (nextFrame + asked) % FrameIds
        /\ UNCHANGED <<buf, r, eof, last>>
    BY <1>3 DEF PushPublish
  <2>2. /\ ~eof /\ asked \in 1 .. MaxBatch /\ n \in 0 .. asked /\ n \in Nat
        /\ Fill + n <= Capacity
    <3>1. ~eof /\ asked # 0 /\ n <= asked /\ asked \in 0 .. MaxBatch
      BY <1>0, <2>1 DEF CopiesRight
    <3>2. n \in Nat /\ MaxBatch \in Nat /\ Fill + n <= Capacity
      BY <1>0, RingNumbers
    <3> QED
      BY <3>1, <3>2
  <2>3. Fill' = Fill + n
    BY <1>0, <2>1, <2>2, PublishFill DEF Fill
  <2>4. Contents' = Contents \o Queue!Batch(n)
    BY <2>1, <2>3, PublishAppends, ContentsAreWindow
  <2>5. Len(Contents) = Fill
    <3>1. buf \in [0 .. Capacity - 1 -> Frames] /\ Fill <= Capacity
      BY <1>0, RingNumbers
    <3> QED
      BY <1>0, <3>1, WindowIs, ContentsAreWindow
  <2> HIDE DEF n, asked
  <2>6. Queue!Put(asked)
    BY <2>1, <2>2, <2>4, <2>5 DEF Queue!Put
  <2> QED
    BY <2>2, <2>6 DEF Queue!Next
<1>4. CASE SetEof
  <2>1. eof' = TRUE /\ UNCHANGED <<buf, w, r, nextFrame, last>>
    BY <1>4 DEF SetEof
  <2> QED
    BY <1>t, <2>1 DEF Queue!Announce, Queue!Next
<1>5. CASE ReadFrame
  <2>1. UNCHANGED <<buf, w, r, eof, nextFrame, last>>
    BY <1>5 DEF ReadFrame
  <2> QED
    BY <1>s, <1>t, <2>1
<1>6. CASE ReadPublish
  <2> DEFINE n == read.take
  <2>1. /\ read.pc = "copy" /\ Len(read.got) = n /\ r' = Advance(r, n)
        /\ last' = read.got /\ UNCHANGED <<buf, w, eof, nextFrame>>
    BY <1>6 DEF ReadPublish
  <2>2. n \in Nat /\ n <= Fill
    BY <1>0, <2>1, RingNumbers
  <2>3. Fill' = Fill - n
    BY <1>0, <2>1, <2>2, ConsumeFill DEF Fill
  <2>4. /\ last' = SubSeq(Contents, 1, n)
        /\ Contents' = SubSeq(Contents, n + 1, Len(Contents))
    BY <2>1, <2>3, ReadTakes, ContentsAreWindow
  <2>5. n \in 0 .. Len(Contents)
    <3>1. buf \in [0 .. Capacity - 1 -> Frames] /\ Fill <= Capacity
      BY <1>0, RingNumbers
    <3>2. Len(Contents) = Fill
      BY <1>0, <3>1, WindowIs, ContentsAreWindow
    <3> QED
      BY <1>0, <2>2, <3>2
  <2> HIDE DEF n
  <2>6. Queue!Get
    BY <2>1, <2>4, <2>5 DEF Queue!Get
  <2> QED
    BY <2>6 DEF Queue!Next
<1>7. CASE ReadShort
  <2>1. UNCHANGED <<buf, w, r, eof, nextFrame, last>>
    BY <1>7 DEF ReadShort
  <2> QED
    BY <1>s, <1>t, <2>1
<1>8. CASE Reset
  <2>1. w' = 0 /\ r' = 0 /\ eof' = FALSE /\ UNCHANGED <<nextFrame, last>>
    BY <1>8 DEF Reset
  <2>2. Fill' = 0
    BY <2>1 DEF Fill, Distance
  <2>3. Contents' = <<>>
    BY <2>2 DEF Contents
  <2> QED
    BY <2>1, <2>3 DEF Queue!Restart, Queue!Next
<1>9. CASE UNCHANGED vars
  <2>1. UNCHANGED <<buf, w, r, eof, nextFrame, last>>
    BY <1>9 DEF vars
  <2> QED
    BY <1>s, <1>t, <2>1
<1> QED
  BY <1>1, <1>2, <1>3, <1>4, <1>5, <1>6, <1>7, <1>8, <1>9 DEF Next

\* Two threads that copy frame by frame, with cursors that wrap and no lock,
\* behave as one bounded queue: a push is one append of what fits, a read takes
\* the oldest frames, and nothing accepted is lost, doubled or torn.
THEOREM Refinement == Spec => ImplementsQueue
<1>1. PInv /\ [Next]_vars => [Queue!Next]_Queue!queueVars
  BY StepMapped
<1> QED
  BY <1>1, InitMapped, CopiesInvariance, PTL DEF Spec, ImplementsQueue, Queue!Spec

=============================================================================
