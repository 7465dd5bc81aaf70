------------------------- MODULE FmvTransportProofs -------------------------
(***************************************************************************)
(* Proofs about the film transport for any FIFO, lead, number of bands and *)
(* of seeks; that no slot is torn, under the condition the property names. *)
(***************************************************************************)
EXTENDS FmvTransport, TLAPS

-----------------------------------------------------------------------------
(* Slots of the FIFO.                                                      *)

\* A nonzero multiple of Depth is at least Depth.
LEMMA MultipleIsLarge ==
  ASSUME NEW m \in Int, NEW e \in Int, e = Depth * m, e > 0, Depth > 0
  PROVE  e >= Depth
<1>1. Depth \in Nat
  BY FmvAssumption
<1>2. m >= 1
  BY <1>1
<1> QED
  BY <1>1, <1>2

\* The film, its bands and the strides.
LEMMA FilmConstants ==
  /\ Frames \in Nat /\ Frames > 0 /\ Bands \in Nat /\ Bands > 0 /\ Preroll \in Nat
  /\ Jump \in Nat /\ Lead \in Nat /\ Lead > 0 /\ MaxSeeks \in Nat
  /\ 1 \in Rates /\ \A rate \in Rates : rate \in Int
<1>1. \A rate \in Rates : rate \in Int
  BY ZenonT(20), FmvAssumption DEF FmvAssumption
<1> QED
  BY <1>1, FmvAssumption

\* The FIFO has at least one slot.
LEMMA DepthPositive == Depth \in Nat /\ Depth > 0
BY FmvAssumption

\* Frames less than a FIFO apart have slots of their own.
LEMMA NearSlotsDiffer ==
  ASSUME NEW a \in Nat, NEW b \in Nat, a < b, b < a + Depth
  PROVE  a % Depth # b % Depth
<1>1. Depth \in Nat /\ Depth > 0
  BY DepthPositive
<1>2. a = Depth * (a \div Depth) + (a % Depth) /\ a \div Depth \in Int
  BY <1>1
<1>3. b = Depth * (b \div Depth) + (b % Depth) /\ b \div Depth \in Int
  BY <1>1
<1>4. SUFFICES ASSUME a % Depth = b % Depth PROVE FALSE
  OBVIOUS
<1> DEFINE m == b \div Depth - a \div Depth
           e == b - a
<1>5. e = Depth * m /\ m \in Int /\ e \in Int /\ e > 0 /\ ~(e >= Depth)
  BY <1>1, <1>2, <1>3, <1>4
<1> HIDE DEF m, e
<1> QED
  BY <1>1, <1>5, MultipleIsLarge

-----------------------------------------------------------------------------
(* The inductive invariant.                                                *)

Count(b) == IF b THEN 1 ELSE 0

\* What the flushes undone may have added to the distance of the counters.
Slack == undone * Lead

\* The unit the reader has decided to decode.
Coming == Count(reader.pc \in {"seek", "clear", "decode"})

\* The counters, and the read counter as the console's thread has loaded it.
Counters ==
  /\ r <= w /\ w + Coming - r <= Slack + Lead
  /\ SnesAt("load") => snes.w <= w
  /\ Popping => /\ snes.r <= r /\ r - snes.r <= Slack
                /\ snes.r < w /\ w + Coming - snes.r <= Slack + Lead

\* The slots hold the last Depth frames, and as long as there is room the
\* picture is older than what is taken next.
FramesInOrder ==
  /\ \A k \in Nat : k < w /\ w <= k + Depth => fifo[k % Depth] = k
  /\ picture < w /\ \A i \in 0 .. Depth - 1 : fifo[i] < w
  /\ HasRoom => /\ ~Popping => picture < r
                /\ SnesAt("copy") => picture < snes.r
                /\ SnesAt("store") => picture = snes.r

\* The bands that are in the hidden picture are of the frame being staged.
BandsOfPicture ==
  /\ \A b \in 0 .. Bands - 1 : b < band => hidden[b] = picture
  /\ snes.pc \in {"idle", "request"} => staged = picture
  /\ snes.pc \in {"kick", "pop", "load", "copy", "store"} => band = 0
  /\ WholeFrames

WantIsAsked == ReaderAt("clear") => reader.want # None

IInv ==
  /\ TypeOK /\ WantIsAsked /\ Counters /\ FramesInOrder /\ BandsOfPicture

\* The flushes undone, taken one by one, cost a lead each.
LEMMA SlackType ==
  ASSUME TypeOK PROVE Slack \in Nat /\ (undone + 1) * Lead = Slack + Lead
<1>1. undone \in Nat /\ Lead \in Nat
  BY FmvAssumption DEF TypeOK
<1>2. undone * Lead \in Nat
  BY <1>1
<1>3. (undone + 1) * Lead = undone * Lead + Lead
  BY <1>1
<1> QED
  BY <1>2, <1>3 DEF Slack

\* There is room for them and for a lead, or for none at all.
LEMMA RoomIs ==
  ASSUME TypeOK PROVE HasRoom <=> Slack + Lead <= Depth
BY SlackType DEF HasRoom

\* A frame's slot is a slot.
LEMMA SlotType ==
  ASSUME NEW k \in Nat PROVE k % Depth \in 0 .. Depth - 1
BY DepthPositive

\* A stride stays in the film.
LEMMA StrideType ==
  ASSUME TypeOK, NEW frame \in 0 .. Frames - 1 PROVE Stride(frame) \in 0 .. Frames - 1
<1>1. film.rate \in Int /\ Frames \in Nat /\ Frames > 0
  <2>1. film.rate \in Rates
    BY DEF TypeOK
  <2> QED
    BY <2>1, FilmConstants
<1>2. frame + film.rate \in Int
  BY <1>1
<1> QED
  BY <1>1, <1>2 DEF Stride

-----------------------------------------------------------------------------
(* The initial states.                                                     *)

LEMMA InitInv ==
  ASSUME Init PROVE IInv
<1>1. TypeOK /\ WantIsAsked
  <2>1. film.rate \in Rates /\ 0 \in 0 .. MaxSeeks /\ 0 \in 0 .. Bands - 1
        /\ 0 \in 0 .. Frames - 1 /\ Preroll \in 0 .. Preroll
    BY FilmConstants DEF Init
  <2>2. None \in FrameType
    BY DEF FrameType
  <2> QED
    BY <2>1, <2>2, FilmConstants DEF Init, TypeOK, ReaderType, SnesType,
       PictureType, FrameType, None, WantIsAsked, ReaderAt
<1>3. Counters
  <2>1. Coming = 0 /\ Slack = 0
    BY FmvAssumption DEF Init, Coming, Count, Slack
  <2> QED
    BY <2>1, FmvAssumption DEF Init, Counters, SnesAt, Popping
<1>4. FramesInOrder
  BY DEF Init, FramesInOrder, Popping, SnesAt, None
<1>5. BandsOfPicture
  BY FmvAssumption DEF Init, BandsOfPicture, WholeFrames
<1> QED
  BY <1>1, <1>3, <1>4, <1>5 DEF IInv

\* Every step keeps the types.
LEMMA TypeStep ==
  ASSUME IInv, [Next]_vars PROVE TypeOK' /\ WantIsAsked'
<1>0. TypeOK /\ WantIsAsked
  BY DEF IInv
<1>1. Nat \subseteq FrameType
  BY DEF FrameType
<1>3. CASE TestFlush
  <2>1. reader' \in ReaderType /\ (reader'.pc = "clear" => reader'.want # None)
    BY <1>3, <1>0, <1>1, FilmConstants DEF TestFlush, ReaderAt, ReaderTo,
       TypeOK, ReaderType, WantIsAsked
  <2> QED
    BY <1>3, <1>0, <2>1 DEF requests, queue, screen, history, TestFlush, TypeOK,
       WantIsAsked, ReaderAt
<1>4. CASE Drop
  <2>1. reader' \in ReaderType /\ (reader'.pc = "clear" => reader'.want # None)
    BY <1>4, <1>0, <1>1, FilmConstants DEF Drop, ReaderAt, ReaderTo, TypeOK,
       ReaderType, WantIsAsked
  <2> QED
    BY <1>4, <1>0, <2>1 DEF requests, queue, screen, history, Drop, FlushNoted,
       TypeOK, WantIsAsked, ReaderAt
<1>5. CASE TestResync
  <2>1. reader' \in ReaderType /\ (reader'.pc = "clear" => reader'.want # None)
    BY <1>5, <1>0, <1>1, FilmConstants DEF TestResync, ReaderAt, ReaderTo,
       TypeOK, ReaderType, WantIsAsked
  <2> QED
    BY <1>5, <1>0, <2>1 DEF requests, queue, screen, history, TestResync,
       TypeOK, WantIsAsked, ReaderAt
<1>6. CASE PushAudio
  <2>1. reader.apush < w => reader' = [reader EXCEPT !.apush = @ + 1]
    BY <1>6 DEF PushAudio
  <2>2. ~(reader.apush < w) => reader' = [reader EXCEPT !.pc = "lead"]
    BY <1>6 DEF PushAudio
  <2>3. reader.pc = "push"
    BY <1>6 DEF PushAudio, ReaderAt
  <2>4. reader' \in ReaderType /\ (reader'.pc = "clear" => reader'.want # None)
    BY <1>0, <2>1, <2>2, <2>3 DEF TypeOK, ReaderType
  <2> QED
    BY <1>6, <1>0, <2>4 DEF requests, queue, screen, history, PushAudio, TypeOK,
       WantIsAsked, ReaderAt
<1>7. CASE TestLead
  <2>1. reader' \in ReaderType /\ (reader'.pc = "clear" => reader'.want # None)
    BY <1>7, <1>0, <1>1, FilmConstants DEF TestLead, ReaderAt, ReaderTo, TypeOK,
       ReaderType, WantIsAsked
  <2> QED
    BY <1>7, <1>0, <2>1 DEF requests, queue, screen, history, TestLead, TypeOK,
       WantIsAsked, ReaderAt
<1>8. CASE LoadSeek
  <2>1. reader' \in ReaderType /\ (reader'.pc = "clear" => reader'.want # None)
    BY <1>8, <1>0, <1>1, FilmConstants DEF LoadSeek, ReaderAt, ReaderTo, TypeOK,
       ReaderType, WantIsAsked
  <2> QED
    BY <1>8, <1>0, <2>1 DEF requests, queue, screen, history, LoadSeek, TypeOK,
       WantIsAsked, ReaderAt
<1>9. CASE ClearSeek
  <2>1. reader.want \in Nat
    BY <1>9, <1>0 DEF ClearSeek, TypeOK, ReaderType, FrameType, WantIsAsked
  <2>2. None \in FrameType
    BY <1>1 DEF FrameType
  <2>3. reader'.cur = IF reader.want >= Frames THEN 0 ELSE reader.want
    BY <1>9, <1>0 DEF ClearSeek, TypeOK, ReaderType
  <2>4. reader'.cur \in 0 .. Frames - 1
    BY <2>1, <2>3, FilmConstants
  <2>5. reader' = [reader EXCEPT !.pc = "decode", !.want = None, !.cur = reader'.cur]
    BY <1>9, <1>0 DEF ClearSeek, TypeOK, ReaderType
  <2>6. reader' \in ReaderType /\ reader'.pc = "decode"
    BY <1>0, <2>2, <2>4, <2>5 DEF TypeOK, ReaderType
  <2> QED
    BY <1>9, <1>0, <2>2, <2>6 DEF requests, queue, screen, history, ClearSeek,
       TypeOK, WantIsAsked, ReaderAt
<1>10. CASE Decode
  <2>1. 0 \in 0 .. Frames - 1 /\ reader.cur \in 0 .. Frames - 1
    BY <1>0, FilmConstants DEF TypeOK, ReaderType
  <2>2. \A from \in {reader.cur, 0} : Stride(from) \in 0 .. Frames - 1
    BY <1>0, <2>1, StrideType DEF TypeOK
  <2>3. reader' \in ReaderType /\ reader'.pc = "flush"
    BY <1>10, <1>0, <2>2 DEF Decode, TypeOK, ReaderType
  <2>4. w \in FrameType /\ w % Depth \in 0 .. Depth - 1
    BY <1>0, <1>1, SlotType DEF TypeOK
  <2>5. fifo' \in [0 .. Depth - 1 -> FrameType] /\ w' \in Nat
    BY <1>10, <1>0, <2>4 DEF Decode, TypeOK
  <2> QED
    BY <1>10, <1>0, <2>3, <2>5 DEF requests, queue, screen, history, Decode,
       TypeOK, WantIsAsked, ReaderAt
<1>11. CASE DecodeFails
  <2>1. 0 \in 0 .. Frames - 1
    BY FilmConstants
  <2>2. reader' \in ReaderType /\ (reader'.pc = "clear" => reader'.want # None)
    BY <1>11, <1>0, <2>1 DEF DecodeFails, ReaderAt, TypeOK, ReaderType
  <2> QED
    BY <1>11, <1>0, <2>2 DEF requests, queue, screen, history, DecodeFails,
       TypeOK, WantIsAsked, ReaderAt
<1>12. CASE Kick
  <2>1. snes' \in SnesType
    BY <1>12, <1>0, FilmConstants DEF Kick, SnesAt, SnesTo, TypeOK, SnesType
  <2> QED
    BY <1>12, <1>0, <1>1, <2>1, FilmConstants DEF requests, queue, screen,
       history, Kick, TypeOK, WantIsAsked, ReaderAt
<1>13. CASE FrameDone
  <2>1. snes' \in SnesType
    BY <1>13, <1>0 DEF FrameDone, SnesAt, SnesTo, TypeOK, SnesType
  <2>2. band' \in 0 .. Bands - 1 /\ need' \in BOOLEAN
    BY <1>13, <1>0, FilmConstants DEF FrameDone, TypeOK
  <2>3. hidden' \in PictureType /\ shown' \in PictureType
    BY <1>13, <1>0 DEF FrameDone, TypeOK, PictureType
  <2> QED
    BY <1>13, <1>0, <2>1, <2>2, <2>3 DEF requests, queue, screen, history,
       FrameDone, TypeOK, WantIsAsked, ReaderAt
<1>14. CASE LoadWrite
  <2>1. snes' \in SnesType
    BY <1>14, <1>0, FilmConstants DEF LoadWrite, SnesAt, SnesTo, TypeOK,
       SnesType
  <2> QED
    BY <1>14, <1>0, <1>1, <2>1, FilmConstants DEF requests, queue, screen,
       history, LoadWrite, TypeOK, WantIsAsked, ReaderAt
<1>15. CASE LoadRead
  <2>1. snes' \in SnesType
    BY <1>15, <1>0, FilmConstants DEF LoadRead, SnesAt, SnesTo, TypeOK, SnesType
  <2> QED
    BY <1>15, <1>0, <1>1, <2>1, FilmConstants DEF requests, queue, screen,
       history, LoadRead, TypeOK, WantIsAsked, ReaderAt
<1>16. CASE Copy
  <2>1. snes' \in SnesType
    BY <1>16, <1>0 DEF Copy, SnesAt, SnesTo, TypeOK, SnesType
  <2>2. snes.r % Depth \in 0 .. Depth - 1
    BY <1>0, SlotType DEF TypeOK, SnesType
  <2>3. picture' \in FrameType
    BY <1>16, <1>0, <2>2 DEF Copy, TypeOK
  <2> QED
    BY <1>16, <1>0, <2>1, <2>3 DEF requests, queue, screen, history, Copy,
       TypeOK, WantIsAsked, ReaderAt
<1>17. CASE StoreRead
  <2>1. snes' \in SnesType
    BY <1>17, <1>0 DEF StoreRead, SnesAt, SnesTo, TypeOK, SnesType
  <2>2. r' \in Nat
    BY <1>17, <1>0 DEF StoreRead, TypeOK, SnesType
  <2> QED
    BY <1>17, <1>0, <2>1, <2>2 DEF requests, queue, screen, history, StoreRead,
       TypeOK, WantIsAsked, ReaderAt
<1>18. CASE Stage
  <2>1. snes' \in SnesType
    BY <1>18, <1>0, FilmConstants DEF Stage, SnesAt, SnesTo, TypeOK, SnesType
  <2> QED
    BY <1>18, <1>0, <1>1, <2>1, FilmConstants DEF requests, queue, screen,
       history, Stage, TypeOK, WantIsAsked, ReaderAt
<1>19. CASE RequestFlush
  <2>1. snes' \in SnesType
    BY <1>19, <1>0, FilmConstants DEF RequestFlush, SnesAt, SnesTo, TypeOK,
       SnesType
  <2> QED
    BY <1>19, <1>0, <1>1, <2>1, FilmConstants DEF requests, queue, screen,
       history, RequestFlush, TypeOK, WantIsAsked, ReaderAt
<1>20. CASE Toggle
  BY <1>20, <1>0, FilmConstants DEF requests, queue, screen, history, Toggle,
     SnesAt, SnesTo, TypeOK, WantIsAsked, ReaderAt
<1>21. CASE Rewind
  <2>1. snes' \in SnesType
    BY <1>21, <1>0, FilmConstants DEF Rewind, SeekTo, SnesAt, SnesTo, TypeOK,
       SnesType
  <2>2. seekReq' \in FrameType
    BY <1>21, <1>1 DEF Rewind, SeekTo
  <2>3. asked \in 0 .. MaxSeeks /\ asked < MaxSeeks /\ asked' = asked + 1
    BY <1>21, <1>0 DEF Rewind, SeekTo, TypeOK
  <2>4. asked' \in 0 .. MaxSeeks
    BY <2>3, FilmConstants
  <2>5. film' \in [state : {"playing", "paused", "stopped"}, rate : Rates]
    BY <1>21, <1>0 DEF Rewind, TypeOK
  <2> QED
    BY <1>21, <1>0, <2>1, <2>2, <2>4, <2>5 DEF requests, queue, screen, history,
       Rewind, SeekTo, TypeOK, WantIsAsked, ReaderAt
<1>22. CASE Stop
  <2>1. snes' \in SnesType
    BY <1>22, <1>0, FilmConstants DEF Stop, SeekTo, SnesAt, SnesTo, TypeOK,
       SnesType
  <2>2. seekReq' \in FrameType
    BY <1>22, <1>1 DEF Stop, SeekTo
  <2>3. asked \in 0 .. MaxSeeks /\ asked < MaxSeeks /\ asked' = asked + 1
    BY <1>22, <1>0 DEF Stop, SeekTo, TypeOK
  <2>4. asked' \in 0 .. MaxSeeks
    BY <2>3, FilmConstants
  <2>5. film' \in [state : {"playing", "paused", "stopped"}, rate : Rates]
    BY <1>22, <1>0 DEF Stop, TypeOK
  <2> QED
    BY <1>22, <1>0, <2>1, <2>2, <2>4, <2>5 DEF requests, queue, screen, history,
       Stop, SeekTo, TypeOK, WantIsAsked, ReaderAt
<1>23. CASE JumpAhead
  <2>1. snes' \in SnesType
    BY <1>23, <1>0, FilmConstants DEF JumpAhead, SeekTo, SnesAt, SnesTo, TypeOK,
       SnesType
  <2>2. seekReq' \in FrameType
    BY <1>23, <1>0, <1>1, FilmConstants DEF JumpAhead, SeekTo, TypeOK,
       ReaderType
  <2>3. asked' \in 0 .. MaxSeeks
    BY <1>23, <1>0, FilmConstants DEF JumpAhead, SeekTo, TypeOK
  <2> QED
    BY <1>23, <1>0, <2>1, <2>2, <2>3 DEF requests, queue, screen, history,
       JumpAhead, SeekTo, TypeOK, WantIsAsked, ReaderAt
<1>24. CASE SetRate
  BY <1>24, <1>0, FilmConstants DEF requests, queue, screen, history, SetRate,
     SnesAt, SnesTo, TypeOK, WantIsAsked, ReaderAt
<1>25. CASE UNCHANGED vars
  BY <1>25, <1>0, FilmConstants DEF vars, requests, queue, screen, history,
     TypeOK, WantIsAsked, ReaderAt
<1> QED
  BY <1>3, <1>4, <1>5, <1>6, <1>7, <1>8, <1>9, <1>10, <1>11, <1>12, <1>13,
     <1>14, <1>15, <1>16, <1>17, <1>18, <1>19, <1>20, <1>21, <1>22, <1>23,
     <1>24, <1>25 DEF Next, Reader, Snes, Pads

\* Every step keeps the distance of the counters.
LEMMA CountersStep ==
  ASSUME IInv, [Next]_vars PROVE Counters'
<1>0. Counters
  BY DEF IInv
<1>1. w \in Nat /\ r \in Nat /\ snes.w \in Nat /\ snes.r \in Nat /\ Lead \in Nat
      /\ reader \in ReaderType /\ snes \in SnesType
  BY FilmConstants DEF IInv, TypeOK, SnesType
<1>2. Slack \in Nat
  BY SlackType DEF IInv
<1>3. undone' = undone => Slack' = Slack
  BY DEF Slack
<1>5. CASE TestFlush
  BY <1>5, <1>0, <1>1, <1>2, <1>3 DEF requests, queue, screen, history,
     TestFlush, ReaderAt, ReaderTo, Counters, Popping, Coming, Count, SnesAt,
     ReaderType, SnesType
<1>6. CASE Drop
  <2>1. Slack' = IF Popping THEN Slack + Lead ELSE 0
    BY <1>6, <1>1, SlackType DEF IInv, Drop, FlushNoted, Slack
  <2> QED
    BY <1>6, <1>0, <1>1, <1>2, <2>1 DEF Drop, Counters, Popping, Coming, Count,
       ReaderAt, SnesAt, ReaderType, SnesType
<1>7. CASE TestResync
  BY <1>7, <1>0, <1>1, <1>2, <1>3 DEF requests, queue, screen, history,
     TestResync, ReaderAt, ReaderTo, Counters, Popping, Coming, Count, SnesAt,
     ReaderType, SnesType
<1>8. CASE PushAudio
  BY <1>8, <1>0, <1>1, <1>2, <1>3 DEF requests, queue, screen, history,
     PushAudio, ReaderAt, ReaderTo, Counters, Popping, Coming, Count, SnesAt,
     ReaderType, SnesType
<1>9. CASE TestLead
  <2>1. w' = w /\ r' = r /\ snes' = snes /\ Coming = 0
    BY <1>9 DEF TestLead, queue, Coming, Count, ReaderAt
  <2>2. CASE HasLead \/ w = MaxDecoded
    <3>1. Slack' = Slack /\ Coming' = 0
      BY <1>9, <1>1, <2>2 DEF TestLead, ReaderTo, Slack, Coming, Count, ReaderType
    <3> QED
      BY <1>0, <2>1, <3>1 DEF Counters, Popping, SnesAt
  <2>3. CASE ~(HasLead \/ w = MaxDecoded)
    <3>1. Coming' = 1 /\ r <= w /\ w + 1 - r <= Lead
      BY <1>9, <1>1, <2>3 DEF TestLead, ReaderTo, HasLead, Coming, Count, ReaderType
    <3>2. Slack' = IF CaughtUp THEN 0 ELSE Slack
      BY <1>9, <1>1, <2>3 DEF TestLead, Slack
    <3>3. CASE CaughtUp
      BY <1>0, <1>1, <2>1, <3>1, <3>2, <3>3 DEF Counters, CaughtUp, Popping, SnesAt
    <3>4. CASE ~CaughtUp
      BY <1>0, <1>1, <1>2, <2>1, <3>1, <3>2, <3>4 DEF Counters, Popping, SnesAt
    <3> QED
      BY <3>3, <3>4
  <2> QED
    BY <2>2, <2>3
<1>10. CASE LoadSeek
  BY <1>10, <1>0, <1>1, <1>2, <1>3 DEF requests, queue, screen, history,
     LoadSeek, ReaderAt, ReaderTo, Counters, Popping, Coming, Count, SnesAt,
     ReaderType, SnesType
<1>11. CASE ClearSeek
  BY <1>11, <1>0, <1>1, <1>2, <1>3 DEF requests, queue, screen, history,
     ClearSeek, ReaderAt, ReaderTo, Counters, Popping, Coming, Count, SnesAt,
     ReaderType, SnesType
<1>12. CASE Decode
  BY <1>12, <1>0, <1>1, <1>2, <1>3 DEF requests, queue, screen, history, Decode,
     ReaderAt, ReaderTo, Counters, Popping, Coming, Count, SnesAt, ReaderType,
     SnesType
<1>13. CASE DecodeFails
  BY <1>13, <1>0, <1>1, <1>2, <1>3 DEF requests, queue, screen, history,
     DecodeFails, ReaderAt, ReaderTo, Counters, Popping, Coming, Count, SnesAt,
     ReaderType, SnesType
<1>14. CASE Kick
  BY <1>14, <1>0, <1>1, <1>2, <1>3 DEF requests, queue, screen, history, Kick,
     SnesAt, SnesTo, Counters, Popping, Coming, Count, ReaderAt, ReaderType,
     SnesType
<1>15. CASE FrameDone
  BY <1>15, <1>0, <1>1, <1>2, <1>3 DEF requests, queue, screen, history,
     FrameDone, SnesAt, SnesTo, Counters, Popping, Coming, Count, ReaderAt,
     ReaderType, SnesType
<1>16. CASE LoadWrite
  BY <1>16, <1>0, <1>1, <1>2, <1>3 DEF requests, queue, screen, history,
     LoadWrite, SnesAt, SnesTo, Counters, Popping, Coming, Count, ReaderAt,
     ReaderType, SnesType
<1>17. CASE LoadRead
  BY <1>17, <1>0, <1>1, <1>2, <1>3 DEF requests, queue, screen, history,
     LoadRead, SnesAt, SnesTo, Counters, Popping, Coming, Count, ReaderAt,
     ReaderType, SnesType
<1>18. CASE Copy
  BY <1>18, <1>0, <1>1, <1>2, <1>3 DEF requests, queue, screen, history, Copy,
     SnesAt, SnesTo, Counters, Popping, Coming, Count, ReaderAt, ReaderType,
     SnesType
<1>19. CASE StoreRead
  BY <1>19, <1>0, <1>1, <1>2, <1>3 DEF requests, queue, screen, history,
     StoreRead, SnesAt, SnesTo, Counters, Popping, Coming, Count, ReaderAt,
     ReaderType, SnesType
<1>20. CASE Stage
  BY <1>20, <1>0, <1>1, <1>2, <1>3 DEF requests, queue, screen, history, Stage,
     SnesAt, SnesTo, Counters, Popping, Coming, Count, ReaderAt, ReaderType,
     SnesType
<1>21. CASE RequestFlush
  BY <1>21, <1>0, <1>1, <1>2, <1>3 DEF requests, queue, screen, history,
     RequestFlush, SnesAt, SnesTo, Counters, Popping, Coming, Count, ReaderAt,
     ReaderType, SnesType
<1>22. CASE Toggle
  BY <1>22, <1>0, <1>1, <1>2, <1>3 DEF requests, queue, screen, history, Toggle,
     SnesAt, SnesTo, Counters, Popping, Coming, Count, ReaderAt, ReaderType,
     SnesType
<1>23. CASE Rewind
  BY <1>23, <1>0, <1>1, <1>2, <1>3 DEF requests, queue, screen, history, Rewind,
     SeekTo, SnesAt, SnesTo, Counters, Popping, Coming, Count, ReaderAt,
     ReaderType, SnesType
<1>24. CASE Stop
  BY <1>24, <1>0, <1>1, <1>2, <1>3 DEF requests, queue, screen, history, Stop,
     SeekTo, SnesAt, SnesTo, Counters, Popping, Coming, Count, ReaderAt,
     ReaderType, SnesType
<1>25. CASE JumpAhead
  BY <1>25, <1>0, <1>1, <1>2, <1>3 DEF requests, queue, screen, history,
     JumpAhead, SeekTo, SnesAt, SnesTo, Counters, Popping, Coming, Count,
     ReaderAt, ReaderType, SnesType
<1>26. CASE SetRate
  BY <1>26, <1>0, <1>1, <1>2, <1>3 DEF requests, queue, screen, history,
     SetRate, SnesAt, SnesTo, Counters, Popping, Coming, Count, ReaderAt,
     ReaderType, SnesType
<1>27. CASE UNCHANGED vars
  BY <1>27, <1>0, <1>1, <1>2, <1>3 DEF vars, requests, queue, screen, history,
     Counters, Popping, Coming, Count, ReaderAt, SnesAt, ReaderType, SnesType
<1> QED
  BY <1>5, <1>6, <1>7, <1>8, <1>9, <1>10, <1>11, <1>12, <1>13, <1>14, <1>15,
     <1>16, <1>17, <1>18, <1>19, <1>20, <1>21, <1>22, <1>23, <1>24, <1>25,
     <1>26, <1>27 DEF Next, Reader, Snes, Pads

\* Every step keeps the frames in order.
LEMMA FramesStep ==
  ASSUME IInv, [Next]_vars PROVE FramesInOrder'
<1>0. FramesInOrder
  BY DEF IInv
<1>1. w \in Nat /\ r \in Nat /\ snes.w \in Nat /\ snes.r \in Nat /\ snes \in SnesType
  BY DEF IInv, TypeOK, SnesType
<1>2. Slack \in Nat /\ Lead \in Nat /\ Depth \in Nat
  BY SlackType, FilmConstants, DepthPositive DEF IInv
<1>3. picture \in Int /\ r <= w
  BY DEF IInv, TypeOK, FrameType, None, Counters
<1>4. undone' = undone => (HasRoom' <=> HasRoom)
  BY DEF HasRoom
<1>5. CASE TestFlush
  BY <1>5, <1>0, <1>1, <1>3, <1>4 DEF requests, queue, screen, history, TestFlush, ReaderAt,
     ReaderTo, FramesInOrder, Popping, SnesAt, SnesType
<1>6. CASE Drop
  <2>1. CASE Popping
    <3>1. HasRoom' => HasRoom
      <4>1. (undone + 1 + 1) * Lead = (undone + 1) * Lead + Lead
            /\ (undone + 1) * Lead \in Nat
        BY SlackType, FilmConstants DEF IInv, TypeOK
      <4> QED
        BY <1>6, <1>2, <2>1, <4>1 DEF Drop, FlushNoted, HasRoom
    <3> QED
      BY <1>6, <1>0, <2>1, <3>1 DEF Drop, screen, FramesInOrder, Popping, SnesAt
  <2>2. CASE ~Popping
    BY <1>6, <1>0, <2>2 DEF Drop, screen, FramesInOrder, Popping, SnesAt
  <2> QED
    BY <2>1, <2>2
<1>7. CASE TestResync
  BY <1>7, <1>0, <1>1, <1>3, <1>4 DEF requests, queue, screen, history, TestResync,
     ReaderAt, ReaderTo, FramesInOrder, Popping, SnesAt, SnesType
<1>8. CASE PushAudio
  BY <1>8, <1>0, <1>1, <1>3, <1>4 DEF requests, queue, screen, history, PushAudio, ReaderAt,
     ReaderTo, FramesInOrder, Popping, SnesAt, SnesType
<1>9. CASE TestLead
  <2>1. UNCHANGED <<queue, snes, screen>> /\ (undone' = undone \/ CaughtUp)
    BY <1>9 DEF TestLead
  <2>2. CASE undone' = undone
    BY <1>0, <1>4, <2>1, <2>2 DEF queue, screen, FramesInOrder, Popping, SnesAt
  <2>3. CASE CaughtUp
    BY <1>0, <2>1, <2>3 DEF queue, screen, FramesInOrder, CaughtUp, Popping, SnesAt
  <2> QED
    BY <2>1, <2>2, <2>3
<1>10. CASE LoadSeek
  BY <1>10, <1>0, <1>1, <1>3, <1>4 DEF requests, queue, screen, history, LoadSeek, ReaderAt,
     ReaderTo, FramesInOrder, Popping, SnesAt, SnesType
<1>11. CASE ClearSeek
  BY <1>11, <1>0, <1>1, <1>3, <1>4 DEF requests, queue, screen, history, ClearSeek,
     ReaderAt, ReaderTo, FramesInOrder, Popping, SnesAt, SnesType
<1>12. CASE Decode
  <2>1. ASSUME NEW k \in Nat, k < w', w' <= k + Depth PROVE fifo'[k % Depth] = k
    <3>1. w % Depth \in 0 .. Depth - 1 /\ k % Depth \in 0 .. Depth - 1
          /\ fifo \in [0 .. Depth - 1 -> FrameType]
      BY <1>1, SlotType DEF IInv, TypeOK
    <3>2. CASE k = w
      BY <1>12, <3>1, <3>2 DEF Decode
    <3>3. CASE k # w
      <4>1. k < w /\ w <= k + Depth /\ w < k + Depth
        BY <1>12, <1>1, <2>1, <3>3, DepthPositive DEF Decode
      <4>2. w % Depth # k % Depth
        BY <1>1, <4>1, NearSlotsDiffer
      <4> QED
        BY <1>12, <1>0, <3>1, <4>1, <4>2 DEF Decode, FramesInOrder
    <3> QED
      BY <3>2, <3>3
  <2>2. \A i \in 0 .. Depth - 1 : fifo'[i] < w'
    <3>1. \A i \in 0 .. Depth - 1 : fifo[i] \in Int /\ fifo[i] < w
      BY <1>0 DEF IInv, TypeOK, FramesInOrder, FrameType, None
    <3>2. w' = w + 1 /\ \A i \in 0 .. Depth - 1 : fifo'[i] \in {w, fifo[i]}
      BY <1>12 DEF Decode, IInv, TypeOK
    <3> QED
      BY <1>1, <3>1, <3>2
  <2>3. w' = w + 1 /\ UNCHANGED <<r, snes, screen, history>>
    BY <1>12 DEF Decode
  <2>4. picture < w'
    BY <1>0, <1>1, <1>3, <2>3 DEF FramesInOrder
  <2> QED
    BY <1>0, <1>4, <2>1, <2>2, <2>3, <2>4 DEF FramesInOrder, Popping, SnesAt, screen,
       history
<1>13. CASE DecodeFails
  BY <1>13, <1>0, <1>1, <1>3, <1>4 DEF requests, queue, screen, history, DecodeFails,
     ReaderAt, ReaderTo, FramesInOrder, Popping, SnesAt, SnesType
<1>14. CASE Kick
  BY <1>14, <1>0, <1>1, <1>3, <1>4 DEF requests, queue, screen, history, Kick, SnesAt,
     SnesTo, FramesInOrder, Popping, SnesType
<1>15. CASE FrameDone
  BY <1>15, <1>0, <1>1, <1>3, <1>4 DEF requests, queue, screen, history, FrameDone, SnesAt,
     SnesTo, FramesInOrder, Popping, SnesType
<1>16. CASE LoadWrite
  BY <1>16, <1>0, <1>1, <1>3, <1>4 DEF requests, queue, screen, history, LoadWrite, SnesAt,
     SnesTo, FramesInOrder, Popping, SnesType
<1>17. CASE LoadRead
  BY <1>17, <1>0, <1>1, <1>3, <1>4 DEF requests, queue, screen, history, LoadRead, SnesAt,
     SnesTo, FramesInOrder, Popping, SnesType
<1>18. CASE Copy
  <2>1. HasRoom => fifo[snes.r % Depth] = snes.r
    <3>1. HasRoom => snes.r < w /\ w <= snes.r + Depth
      BY <1>18, <1>1, <1>2, RoomIs DEF IInv, Copy, SnesAt, Counters, Popping, Coming,
         Count
    <3> QED
      BY <1>0, <1>1, <3>1 DEF FramesInOrder
  <2>2. picture' = fifo[snes.r % Depth] /\ snes'.pc = "store" /\ snes'.r = snes.r
        /\ UNCHANGED <<queue, undone>>
    BY <1>18, <1>1 DEF Copy, SnesTo, SnesType, history
  <2>3. picture' < w
    BY <1>0, <1>1, <2>2, SlotType DEF FramesInOrder
  <2> QED
    BY <1>0, <1>4, <2>1, <2>2, <2>3 DEF queue, FramesInOrder, Popping, SnesAt
<1>19. CASE StoreRead
  BY <1>19, <1>0, <1>1, <1>3, <1>4 DEF requests, queue, screen, history, StoreRead, SnesAt,
     SnesTo, FramesInOrder, Popping, SnesType
<1>20. CASE Stage
  BY <1>20, <1>0, <1>1, <1>3, <1>4 DEF requests, queue, screen, history, Stage, SnesAt,
     SnesTo, FramesInOrder, Popping, SnesType
<1>21. CASE RequestFlush
  BY <1>21, <1>0, <1>1, <1>3, <1>4 DEF requests, queue, screen, history, RequestFlush,
     SnesAt, SnesTo, FramesInOrder, Popping, SnesType
<1>22. CASE Toggle
  BY <1>22, <1>0, <1>1, <1>3, <1>4 DEF requests, queue, screen, history, Toggle, SnesAt,
     SnesTo, FramesInOrder, Popping, SnesType
<1>23. CASE Rewind
  BY <1>23, <1>0, <1>1, <1>3, <1>4 DEF requests, queue, screen, history, Rewind, SeekTo,
     SnesAt, SnesTo, FramesInOrder, Popping, SnesType
<1>24. CASE Stop
  BY <1>24, <1>0, <1>1, <1>3, <1>4 DEF requests, queue, screen, history, Stop, SeekTo,
     SnesAt, SnesTo, FramesInOrder, Popping, SnesType
<1>25. CASE JumpAhead
  BY <1>25, <1>0, <1>1, <1>3, <1>4 DEF requests, queue, screen, history, JumpAhead, SeekTo,
     SnesAt, SnesTo, FramesInOrder, Popping, SnesType
<1>26. CASE SetRate
  BY <1>26, <1>0, <1>1, <1>3, <1>4 DEF requests, queue, screen, history, SetRate, SnesAt,
     SnesTo, FramesInOrder, Popping, SnesType
<1>27. CASE UNCHANGED vars
  BY <1>27, <1>0, <1>1, <1>3, <1>4 DEF vars, requests, queue, screen, history,
     FramesInOrder, Popping, SnesAt, SnesType
<1> QED
  BY <1>5, <1>6, <1>7, <1>8, <1>9, <1>10, <1>11, <1>12, <1>13, <1>14, <1>15,
     <1>16, <1>17, <1>18, <1>19, <1>20, <1>21, <1>22, <1>23, <1>24, <1>25,
     <1>26, <1>27 DEF Next, Reader, Snes, Pads

\* Every step keeps the bands of one frame.
LEMMA BandsStep ==
  ASSUME IInv, [Next]_vars PROVE BandsOfPicture'
<1>0. BandsOfPicture
  BY DEF IInv
<1>1. band \in 0 .. Bands - 1 /\ hidden \in PictureType /\ snes \in SnesType
  BY DEF IInv, TypeOK
<1>3. CASE TestFlush
  BY <1>3, <1>0, <1>1, FilmConstants DEF requests, queue, screen, history,
     TestFlush, ReaderAt, ReaderTo, BandsOfPicture, WholeFrames, WantsFrame,
     SnesAt, SnesType
<1>4. CASE Drop
  BY <1>4, <1>0, <1>1, FilmConstants DEF requests, queue, screen, history, Drop,
     ReaderAt, ReaderTo, BandsOfPicture, WholeFrames, WantsFrame, SnesAt,
     SnesType
<1>5. CASE TestResync
  BY <1>5, <1>0, <1>1, FilmConstants DEF requests, queue, screen, history,
     TestResync, ReaderAt, ReaderTo, BandsOfPicture, WholeFrames, WantsFrame,
     SnesAt, SnesType
<1>6. CASE PushAudio
  BY <1>6, <1>0, <1>1, FilmConstants DEF requests, queue, screen, history,
     PushAudio, ReaderAt, ReaderTo, BandsOfPicture, WholeFrames, WantsFrame,
     SnesAt, SnesType
<1>7. CASE TestLead
  BY <1>7, <1>0, <1>1, FilmConstants DEF requests, queue, screen, history,
     TestLead, HasLead, ReaderAt, ReaderTo, BandsOfPicture, WholeFrames,
     WantsFrame, SnesAt, SnesType
<1>8. CASE LoadSeek
  BY <1>8, <1>0, <1>1, FilmConstants DEF requests, queue, screen, history,
     LoadSeek, ReaderAt, ReaderTo, BandsOfPicture, WholeFrames, WantsFrame,
     SnesAt, SnesType
<1>9. CASE ClearSeek
  BY <1>9, <1>0, <1>1, FilmConstants DEF requests, queue, screen, history,
     ClearSeek, ReaderAt, ReaderTo, BandsOfPicture, WholeFrames, WantsFrame,
     SnesAt, SnesType
<1>10. CASE Decode
  BY <1>10, <1>0, <1>1, FilmConstants DEF requests, queue, screen, history,
     Decode, ReaderAt, ReaderTo, BandsOfPicture, WholeFrames, WantsFrame,
     SnesAt, SnesType
<1>11. CASE DecodeFails
  BY <1>11, <1>0, <1>1, FilmConstants DEF requests, queue, screen, history,
     DecodeFails, ReaderAt, ReaderTo, BandsOfPicture, WholeFrames, WantsFrame,
     SnesAt, SnesType
<1>12. CASE Kick
  BY <1>12, <1>0, <1>1, FilmConstants DEF requests, queue, screen, history,
     Kick, SnesAt, SnesTo, BandsOfPicture, WholeFrames, WantsFrame, SnesType
<1>13. CASE FrameDone
  <2> DEFINE filled == [hidden EXCEPT ![band] = staged]
             next == (band + 1) % Bands
  <2>1. staged = picture /\ band \in 0 .. Bands - 1 /\ hidden \in PictureType
    BY <1>13, <1>0, <1>1 DEF FrameDone, SnesAt, BandsOfPicture
  <2>2. \A b \in 0 .. Bands - 1 : b <= band => filled[b] = picture
    BY <1>0, <1>1, <2>1 DEF BandsOfPicture, PictureType
  <2>3. next \in 0 .. Bands - 1 /\ (next # 0 => next = band + 1)
        /\ (next = 0 => band = Bands - 1)
    <3>1. CASE band = Bands - 1
      BY <3>1, FilmConstants
    <3>2. CASE band # Bands - 1
      <4>1. band + 1 \in 0 .. Bands - 1 /\ band + 1 # 0
        BY <2>1, <3>2, FilmConstants
      <4>2. next = band + 1
        BY <4>1, FilmConstants
      <4> QED
        BY <4>1, <4>2
    <3> QED
      BY <3>1, <3>2
  <2>4. band' = next /\ hidden' = filled /\ picture' = picture
        /\ shown' = IF next = 0 THEN filled ELSE shown
    BY <1>13 DEF FrameDone
  <2>5. snes'.pc \in {"pop", "stage"} /\ (snes'.pc = "pop" => next = 0)
    BY <1>13, <1>1 DEF FrameDone, SnesTo, WantsFrame, SnesType
  <2> HIDE DEF filled, next
  <2>6. \A b \in 0 .. Bands - 1 : b < band' => hidden'[b] = picture'
    BY <2>1, <2>2, <2>3, <2>4
  <2>7. WholeFrames'
    BY <1>0, <2>1, <2>2, <2>3, <2>4 DEF BandsOfPicture, WholeFrames
  <2> QED
    BY <2>4, <2>5, <2>6, <2>7 DEF BandsOfPicture
<1>14. CASE LoadWrite
  BY <1>14, <1>0, <1>1, FilmConstants DEF requests, queue, screen, history,
     LoadWrite, SnesAt, SnesTo, BandsOfPicture, WholeFrames, WantsFrame,
     SnesType
<1>15. CASE LoadRead
  BY <1>15, <1>0, <1>1, FilmConstants DEF requests, queue, screen, history,
     LoadRead, SnesAt, SnesTo, BandsOfPicture, WholeFrames, WantsFrame, SnesType
<1>16. CASE Copy
  BY <1>16, <1>0, <1>1, FilmConstants DEF requests, queue, screen, history,
     Copy, SnesAt, SnesTo, BandsOfPicture, WholeFrames, WantsFrame, SnesType
<1>17. CASE StoreRead
  BY <1>17, <1>0, <1>1, FilmConstants DEF requests, queue, screen, history,
     StoreRead, SnesAt, SnesTo, BandsOfPicture, WholeFrames, WantsFrame,
     SnesType
<1>18. CASE Stage
  BY <1>18, <1>0, <1>1, FilmConstants DEF requests, queue, screen, history,
     Stage, SnesAt, SnesTo, BandsOfPicture, WholeFrames, WantsFrame, SnesType
<1>19. CASE RequestFlush
  BY <1>19, <1>0, <1>1, FilmConstants DEF requests, queue, screen, history,
     RequestFlush, SnesAt, SnesTo, BandsOfPicture, WholeFrames, WantsFrame,
     SnesType
<1>20. CASE Toggle
  BY <1>20, <1>0, <1>1, FilmConstants DEF requests, queue, screen, history,
     Toggle, SnesAt, SnesTo, BandsOfPicture, WholeFrames, WantsFrame, SnesType
<1>21. CASE Rewind
  BY <1>21, <1>0, <1>1, FilmConstants DEF requests, queue, screen, history,
     Rewind, SeekTo, SnesAt, SnesTo, BandsOfPicture, WholeFrames, WantsFrame,
     SnesType
<1>22. CASE Stop
  BY <1>22, <1>0, <1>1, FilmConstants DEF requests, queue, screen, history,
     Stop, SeekTo, SnesAt, SnesTo, BandsOfPicture, WholeFrames, WantsFrame,
     SnesType
<1>23. CASE JumpAhead
  BY <1>23, <1>0, <1>1, FilmConstants DEF requests, queue, screen, history,
     JumpAhead, SeekTo, SnesAt, SnesTo, BandsOfPicture, WholeFrames, WantsFrame,
     SnesType
<1>24. CASE SetRate
  BY <1>24, <1>0, <1>1, FilmConstants DEF requests, queue, screen, history,
     SetRate, SnesAt, SnesTo, BandsOfPicture, WholeFrames, WantsFrame, SnesType
<1>25. CASE UNCHANGED vars
  BY <1>25, <1>0, <1>1, FilmConstants DEF vars, requests, queue, screen,
     history, BandsOfPicture, WholeFrames, WantsFrame, SnesAt, SnesType
<1> QED
  BY <1>3, <1>4, <1>5, <1>6, <1>7, <1>8, <1>9, <1>10, <1>11, <1>12, <1>13,
     <1>14, <1>15, <1>16, <1>17, <1>18, <1>19, <1>20, <1>21, <1>22, <1>23,
     <1>24, <1>25 DEF Next, Reader, Snes, Pads

-----------------------------------------------------------------------------
(* The theorems.                                                           *)

\* The invariant holds in every reachable state.
THEOREM Invariance == Spec => []IInv
<1>1. Init => IInv
  BY InitInv
<1>2. IInv /\ [Next]_vars => IInv'
  <2> SUFFICES ASSUME IInv, [Next]_vars PROVE IInv'
    OBVIOUS
  <2>1. TypeOK' /\ WantIsAsked'
    BY TypeStep
  <2>3. Counters'
    BY CountersStep
  <2>4. FramesInOrder'
    BY FramesStep
  <2>5. BandsOfPicture'
    BY BandsStep
  <2> QED
    BY <2>1, <2>3, <2>4, <2>5 DEF IInv
<1> QED
  BY <1>1, <1>2, PTL DEF Spec

\* Every variable keeps its type, and the film its bounds.
THEOREM TypeCorrect == Spec => []TypeOK
<1>1. IInv => TypeOK
  BY DEF IInv
<1> QED
  BY <1>1, Invariance, PTL

\* The counters never cross, and what is decoded ahead is one lead and at most
\* one more for every flush in a row that a pop undid.
THEOREM ReadAheadBounded == Spec => []QueueBounded
<1>1. IInv => QueueBounded
  <2> SUFFICES ASSUME IInv PROVE QueueBounded
    OBVIOUS
  <2>1. TypeOK /\ Counters
    BY DEF IInv
  <2>2. Coming \in {0, 1} /\ w \in Nat /\ r \in Nat /\ Lead \in Nat
    BY <2>1, FilmConstants DEF Coming, Count, TypeOK
  <2>3. Slack \in Nat /\ (undone + 1) * Lead = Slack + Lead
    BY <2>1, SlackType
  <2>4. r <= w /\ w - r <= Slack + Lead
    BY <2>1, <2>2, <2>3 DEF Counters
  <2> QED
    BY <2>3, <2>4 DEF QueueBounded
<1> QED
  BY <1>1, Invariance, PTL

\* With room in the FIFO for what undone flushes have left, the slot that is being
\* copied is never the one being decoded into, after any number of seeks.
THEOREM NoFrameTorn == Spec => []NoTornFrame
<1>1. IInv => NoTornFrame
  <2> SUFFICES ASSUME IInv, HasRoom, SnesAt("copy"), ReaderAt("decode")
               PROVE  snes.r % Depth # w % Depth
    BY DEF NoTornFrame, Torn
  <2>1. TypeOK /\ Counters
    BY DEF IInv
  <2>2. w \in Nat /\ snes.r \in Nat /\ Lead \in Nat /\ Slack \in Nat /\ Depth \in Nat
    BY <2>1, SlackType, FilmConstants, DepthPositive DEF TypeOK, SnesType
  <2>3. Coming = 1
    BY DEF Coming, Count, ReaderAt
  <2>4. snes.r < w /\ w + 1 - snes.r <= Slack + Lead
    BY <2>1, <2>3 DEF Counters, Popping, SnesAt
  <2>5. w < snes.r + Depth
    BY <2>1, <2>2, <2>4, RoomIs
  <2> QED
    BY <2>2, <2>4, <2>5, NearSlotsDiffer
<1> QED
  BY <1>1, Invariance, PTL

\* The picture on the screen is of one frame.
THEOREM FramesWhole == Spec => []WholeFrames
<1>1. IInv => WholeFrames
  BY DEF IInv, BandsOfPicture
<1> QED
  BY <1>1, Invariance, PTL

\* With that room, every frame that is taken is the one the read counter names,
\* and a later one than the frame before it.
THEOREM FramesTakenOnce == Spec => NoFrameTwice
<1>1. IInv /\ [Next]_vars
        => [Copy /\ HasRoom => picture' = snes.r /\ picture' > picture]_vars
  <2> SUFFICES ASSUME IInv, Copy, HasRoom PROVE picture' = snes.r /\ picture' > picture
    OBVIOUS
  <2>1. TypeOK /\ Counters /\ FramesInOrder
    BY DEF IInv
  <2>2. w \in Nat /\ snes.r \in Nat /\ Lead \in Nat /\ Slack \in Nat /\ Depth \in Nat
        /\ picture \in Int
    BY <2>1, SlackType, FilmConstants, DepthPositive DEF TypeOK, SnesType, FrameType, None
  <2>3. snes.r < w /\ w <= snes.r + Depth
    BY <2>1, <2>2, RoomIs DEF Copy, SnesAt, Counters, Popping, Coming, Count
  <2>4. picture < snes.r
    BY <2>1 DEF Copy, SnesAt, FramesInOrder
  <2>5. fifo[snes.r % Depth] = snes.r
    BY <2>1, <2>2, <2>3 DEF FramesInOrder
  <2> QED
    BY <2>2, <2>4, <2>5 DEF Copy
<1> QED
  BY <1>1, Invariance, PTL DEF Spec, NoFrameTwice

\* The FIFO between the threads of the film needs no lock.
THEOREM FifoIsSafe == Spec => []FifoHolds
<1>1. QueueBounded /\ NoTornFrame => FifoHolds
  BY DEF FifoHolds
<1> QED
  BY <1>1, ReadAheadBounded, NoFrameTorn, PTL
=============================================================================
