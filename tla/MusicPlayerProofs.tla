------------------------- MODULE MusicPlayerProofs --------------------------
(***************************************************************************)
(* Proofs about the music player, for any configuration and any sizes of   *)
(* the streaming buffer and the mixer channel.                             *)
(***************************************************************************)
EXTENDS MusicPlayer, SequenceTheorems, TLAPS

-----------------------------------------------------------------------------
(* Types of the operators the actions are built from.                      *)

\* The smaller of two sizes is a size and exceeds neither.
LEMMA SmallerType ==
  ASSUME NEW a \in Nat, NEW b \in Nat
  PROVE  Smaller(a, b) \in Nat /\ Smaller(a, b) <= a /\ Smaller(a, b) <= b
BY DEF Smaller

\* What a configuration consists of.
LEMMA ConfigType ==
  ASSUME cfg \in Configs
  PROVE  /\ cfg.head \in Nat /\ cfg.intro \in Nat /\ cfg.loop \in Nat /\ cfg.fill \in Nat
         /\ cfg.intro + cfg.loop > 0
BY MusicAssumption

\* An empty queue fits everywhere.
LEMMA EmptyFits ==
  ASSUME NEW s, s = <<>>
  PROVE  s \in Seq(FrameSet) /\ Len(s) = 0 /\ Len(s) <= ChannelSize
<1>1. Len(<<>>) = 0 /\ <<>> \in Seq(FrameSet)
  OBVIOUS
<1>2. ChannelSize \in Nat
  BY MusicAssumption
<1> QED
  BY <1>1, <1>2

\* A stretch of a segment is a sequence of frames of the length asked for.
LEMMA FramesType ==
  ASSUME NEW seg \in Segments \cup {"none"}, NEW from \in Nat, NEW count \in Nat
  PROVE  Frames(seg, from, count) \in Seq(FrameSet) /\ Len(Frames(seg, from, count)) = count
<1> DEFINE s == [i \in 1 .. count |-> Frame(seg, from + i - 1)]
<1>1. ASSUME NEW i \in 1 .. count PROVE Frame(seg, from + i - 1) \in FrameSet
  BY DEF Frame, FrameSet
<1>2. s \in [1 .. count -> FrameSet]
  BY <1>1
<1> HIDE DEF s
<1>3. s \in Seq(FrameSet)
  BY <1>2
<1>4. Len(s) = count
  BY <1>2, <1>3
<1> QED
  BY <1>3, <1>4 DEF Frames, s

\* A head buffer is played out as frames, or as what it held before.
LEMMA PinnedHeadType ==
  ASSUME NEW seg \in Segments \cup {"none"}, NEW from \in Nat, NEW count \in Nat
  PROVE  /\ PinnedHead(seg, from, count) \in Seq(FrameSet)
         /\ Len(PinnedHead(seg, from, count)) = count
<1> DEFINE s == [i \in 1 .. count |->
                   IF from + i - 1 < Length(seg) THEN Frame(seg, from + i - 1)
                   ELSE Garbage]
<1>1. ASSUME NEW i \in 1 .. count PROVE s[i] \in FrameSet
  BY DEF Frame, Garbage, FrameSet
<1>2. s \in [1 .. count -> FrameSet]
  BY <1>1
<1> HIDE DEF s
<1>3. s \in Seq(FrameSet)
  BY <1>2
<1>4. Len(s) = count
  BY <1>2, <1>3
<1> QED
  BY <1>3, <1>4 DEF PinnedHead, s

\* A stream provides no more than it is asked for.
LEMMA StreamType ==
  ASSUME cfg \in Configs, NEW seg \in Segments \cup {"none"}, NEW offset \in Nat,
         NEW count \in Nat
  PROVE  Stream(seg, offset, count) \in Seq(FrameSet) /\ Len(Stream(seg, offset, count)) <= count
<1>1. Length(seg) \in Nat
  BY ConfigType DEF Length
<1>2. CASE offset >= Length(seg)
  <2>1. Stream(seg, offset, count) = <<>>
    BY <1>2 DEF Stream
  <2>2. <<>> \in Seq(FrameSet) /\ Len(<<>>) = 0
    OBVIOUS
  <2> QED
    BY <2>1, <2>2
<1>3. CASE ~(offset >= Length(seg))
  <2> DEFINE k == Smaller(count, Length(seg) - offset)
  <2>1. Length(seg) - offset \in Nat
    BY <1>1, <1>3
  <2>2. k \in Nat /\ k <= count
    BY <2>1, SmallerType
  <2>3. Stream(seg, offset, count) = Frames(seg, offset, k)
    BY <1>3 DEF Stream
  <2> HIDE DEF k
  <2> QED
    BY <2>2, <2>3, FramesType
<1> QED
  BY <1>2, <1>3

\* The mixer channel never holds more than its ring, nor more than it held
\* and was given.
LEMMA QueuedType ==
  ASSUME NEW queue \in Seq(FrameSet), NEW frames \in Seq(FrameSet)
  PROVE  /\ Queued(queue, frames) \in Seq(FrameSet)
         /\ Len(Queued(queue, frames)) <= ChannelSize
         /\ Len(Queued(queue, frames)) <= Len(queue) + Len(frames)
<1> DEFINE all == queue \o frames
           n == Len(all)
           k == Smaller(n, ChannelSize)
<1>1. all \in Seq(FrameSet) /\ n = Len(queue) + Len(frames) /\ n \in Nat
  OBVIOUS
<1>2. k \in Nat /\ k <= n /\ k <= ChannelSize
  BY <1>1, SmallerType, MusicAssumption
<1>3. Queued(queue, frames) = SubSeq(all, n - k + 1, n)
  BY DEF Queued
<1> HIDE DEF all, n, k
<1>4. n - k + 1 \in 1 .. n + 1
  BY <1>1, <1>2
<1>5. n = Len(all)
  BY DEF n
<1>6. SubSeq(all, n - k + 1, n) \in Seq(FrameSet)
      /\ Len(SubSeq(all, n - k + 1, n)) = IF n - k + 1 <= n THEN n - (n - k + 1) + 1 ELSE 0
  BY <1>1, <1>4, <1>5, SubSeqProperties
<1>7. (IF n - k + 1 <= n THEN n - (n - k + 1) + 1 ELSE 0) <= k
  BY <1>1, <1>2
<1> QED
  BY <1>1, <1>2, <1>3, <1>6, <1>7

\* What is left of a sequence after its first n frames.
LEMMA RestType ==
  ASSUME NEW s \in Seq(FrameSet), NEW n \in 0 .. Len(s)
  PROVE  /\ SubSeq(s, n + 1, Len(s)) \in Seq(FrameSet)
         /\ Len(SubSeq(s, n + 1, Len(s))) <= Len(s)
         /\ SubSeq(s, 1, n) \in Seq(FrameSet)
         /\ Len(SubSeq(s, 1, n)) = n
<1>1. Len(s) \in Nat
  OBVIOUS
<1>2. n + 1 \in 1 .. Len(s) + 1 /\ n \in 0 .. Len(s) /\ 1 \in 1 .. Len(s) + 1 /\ 1 \in 1 .. n + 1
  BY <1>1
<1>3. /\ SubSeq(s, n + 1, Len(s)) \in Seq(FrameSet)
      /\ Len(SubSeq(s, n + 1, Len(s))) =
           IF n + 1 <= Len(s) THEN Len(s) - (n + 1) + 1 ELSE 0
  BY <1>1, <1>2, SubSeqProperties
<1>4. /\ SubSeq(s, 1, n) \in Seq(FrameSet)
      /\ Len(SubSeq(s, 1, n)) = IF 1 <= n THEN n - 1 + 1 ELSE 0
  BY <1>1, <1>2, SubSeqProperties
<1> QED
  BY <1>1, <1>2, <1>3, <1>4
-----------------------------------------------------------------------------
(* One pass of music_update()'s loop.                                      *)

\* A segment is entered with its whole head to play and nothing staged.
LEMMA EnteringType ==
  ASSUME cfg \in Configs, NEW seg \in Segments \cup {"none"}
  PROVE  Entering(seg) \in PlayerType /\ Entering(seg).segment = seg
<1>1. <<>> \in Seq(FrameSet) /\ Len(<<>>) = 0
  OBVIOUS
<1> QED
  BY <1>1, ConfigType, MusicAssumption DEF Entering, PlayerType

\* A refill respects the streaming buffer's size.
LEMMA RefillType ==
  ASSUME cfg \in Configs, NEW p \in PlayerType
  PROVE  Refill(p) \in PlayerType /\ Refill(p).segment = p.segment
<1> DEFINE offset == p.offset + p.pinned + Len(p.staged)
           room == BufferSize - Len(p.staged)
           more == Stream(p.segment, offset, room)
           staged == p.staged \o more
<1>1. /\ p.segment \in Segments \cup {"none"} /\ p.offset \in Nat
      /\ p.staged \in Seq(FrameSet) /\ p.pinned \in 0 .. cfg.head
      /\ Len(p.staged) <= BufferSize
      /\ p \in [segment : Segments \cup {"none"}, offset : Nat,
                staged : Seq(FrameSet), pinned : 0 .. cfg.head]
  BY DEF PlayerType
<1>2. offset \in Nat /\ room \in Nat
  BY <1>1, ConfigType, MusicAssumption
<1>3. more \in Seq(FrameSet) /\ Len(more) <= room
  BY <1>1, <1>2, StreamType
<1>4. staged \in Seq(FrameSet) /\ Len(staged) <= BufferSize
  <2> HIDE DEF more, offset
  <2> QED
    BY <1>1, <1>3, MusicAssumption
<1>5. Refill(p) = [p EXCEPT !.staged = staged]
  BY DEF Refill
<1> HIDE DEF staged
<1> QED
  BY <1>1, <1>4, <1>5 DEF PlayerType

\* A pump hands over no more than its target, and keeps the rest.
LEMMA PumpType ==
  ASSUME cfg \in Configs, NEW p \in PlayerType, NEW target \in Nat
  PROVE  /\ Pumped(p, target) \in PlayerType
         /\ Pumped(p, target).segment = p.segment
         /\ Handed(p, target) \in Seq(FrameSet)
         /\ Len(Handed(p, target)) <= target
<1> DEFINE h == FromHead(p, target)
           n == FromStaged(p, target)
           from == cfg.head - p.pinned
           head == PinnedHead(p.segment, from, h)
           front == SubSeq(p.staged, 1, n)
           rest == SubSeq(p.staged, n + 1, Len(p.staged))
<1>1. /\ p.segment \in Segments \cup {"none"} /\ p.offset \in Nat
      /\ p.staged \in Seq(FrameSet) /\ p.pinned \in 0 .. cfg.head
      /\ Len(p.staged) <= BufferSize /\ Len(p.staged) \in Nat
      /\ p \in [segment : Segments \cup {"none"}, offset : Nat,
                staged : Seq(FrameSet), pinned : 0 .. cfg.head]
  BY DEF PlayerType
<1>2. h \in Nat /\ h <= p.pinned /\ h <= target /\ from \in Nat
  <2>1. p.pinned \in Nat /\ cfg.head \in Nat /\ p.pinned <= cfg.head
    BY <1>1, ConfigType
  <2>2. h = Smaller(p.pinned, target)
    BY DEF FromHead
  <2>3. Smaller(p.pinned, target) \in Nat /\ Smaller(p.pinned, target) <= p.pinned
        /\ Smaller(p.pinned, target) <= target
    BY <2>1, SmallerType
  <2> HIDE DEF h
  <2> QED
    BY <2>1, <2>2, <2>3
<1>3. n \in 0 .. Len(p.staged) /\ h + n <= target
  <2> DEFINE left == target - h
  <2>0. n = Smaller(Len(p.staged), left)
    BY DEF FromStaged
  <2> HIDE DEF h, n
  <2>1. left \in Nat
    BY <1>2
  <2> HIDE DEF left
  <2>2. Smaller(Len(p.staged), left) \in Nat
        /\ Smaller(Len(p.staged), left) <= Len(p.staged)
        /\ Smaller(Len(p.staged), left) <= left
    BY <1>1, <2>1, SmallerType
  <2>3. n \in Nat /\ n <= Len(p.staged) /\ n <= left
    BY <2>0, <2>2
  <2> QED
    BY <1>1, <1>2, <2>3 DEF left
<1> HIDE DEF h, n, from
<1>4. head \in Seq(FrameSet) /\ Len(head) = h
  BY <1>1, <1>2, PinnedHeadType
<1>5. /\ front \in Seq(FrameSet) /\ Len(front) = n
      /\ rest \in Seq(FrameSet) /\ Len(rest) <= Len(p.staged)
  BY <1>1, <1>3, RestType
<1>6. Handed(p, target) = head \o front
  BY DEF Handed, h, n, from
<1>7. Pumped(p, target) = [p EXCEPT !.pinned = p.pinned - h, !.offset = p.offset + n,
                                    !.staged = rest]
  BY DEF Pumped, h, n
<1> HIDE DEF head, front, rest
<1>8. head \o front \in Seq(FrameSet) /\ Len(head \o front) <= target
  BY <1>2, <1>3, <1>4, <1>5
<1>9. /\ p.pinned - h \in 0 .. cfg.head /\ p.offset + n \in Nat
      /\ Len(rest) <= BufferSize
  BY <1>1, <1>2, <1>3, <1>5, ConfigType, MusicAssumption
<1> QED
  BY <1>1, <1>5, <1>6, <1>7, <1>8, <1>9 DEF PlayerType

\* So does a whole pass.
LEMMA PassType ==
  ASSUME cfg \in Configs, NEW p \in PlayerType, NEW target \in Nat
  PROVE  /\ Pass(p, target).player \in PlayerType
         /\ Pass(p, target).player.segment = p.segment
         /\ Pass(p, target).frames \in Seq(FrameSet)
         /\ Len(Pass(p, target).frames) <= target
<1> DEFINE r == IF Len(p.staged) < BufferSize \div 2 THEN Refill(p) ELSE p
<1>1. r \in PlayerType /\ r.segment = p.segment
  BY RefillType
<1>2. Pass(p, target).player = Pumped(r, target)
      /\ Pass(p, target).frames = Handed(r, target)
  BY DEF Pass
<1> HIDE DEF r
<1> QED
  BY <1>1, <1>2, PumpType

\* The target fits below the cap on top of what is queued.
LEMMA TargetType ==
  ASSUME TypeOK
  PROVE  /\ Target \in Nat /\ Cap \in Nat /\ Len(channel) \in Nat
         /\ Target > 0 => Len(channel) + Target <= Cap
<1>1. Len(channel) \in Nat /\ ChannelSize \in Nat /\ BufferSize \in Nat /\ cfg.fill \in Nat
  BY ConfigType, MusicAssumption DEF TypeOK
<1>2. Cap \in Nat
  BY <1>1, SmallerType DEF Cap
<1>3. CASE Cap > Len(channel)
  <2>1. Cap - Len(channel) \in Nat
    BY <1>1, <1>2, <1>3
  <2>2. Target = Smaller(Cap - Len(channel), BufferSize)
    BY <1>3 DEF Target
  <2> DEFINE room == Cap - Len(channel)
  <2> HIDE DEF room
  <2>3. room \in Nat /\ Target = Smaller(room, BufferSize)
    BY <2>1, <2>2 DEF room
  <2>4. Target \in Nat /\ Target <= room
    BY <1>1, <2>3, SmallerType
  <2> QED
    BY <1>1, <1>2, <2>4 DEF room
<1>4. CASE ~(Cap > Len(channel))
  BY <1>1, <1>2, <1>4 DEF Target
<1> QED
  BY <1>3, <1>4
-----------------------------------------------------------------------------
(* The steps.                                                              *)

\* An update keeps the types, the player's segment and the fill cap.
LEMMA UpdateInv ==
  ASSUME IInv, Update
  PROVE  IInv' /\ (Len(channel') > Len(channel) => Len(channel') <= Cap \/ entered')
<1> DEFINE first == Pass(player, Target)
<1>1. /\ cfg' = cfg /\ cfg \in Configs /\ player \in PlayerType /\ state \in Segments
      /\ player.segment = state /\ Target > 0
      /\ channel \in Seq(FrameSet) /\ pushed \in Seq(FrameSet) /\ before \in FrameSet
      /\ active \in BOOLEAN
      /\ before' = LastFrame(before, pushed)
  BY DEF IInv, TypeOK, SegmentKept, Update
<1>2. Target \in Nat /\ Cap \in Nat /\ Len(channel) \in Nat
      /\ Len(channel) + Target <= Cap
  BY <1>1, TargetType DEF IInv
<1>3. /\ first.player \in PlayerType /\ first.player.segment = state
      /\ first.frames \in Seq(FrameSet) /\ Len(first.frames) <= Target
  BY <1>1, <1>2, PassType
<1>4. before' \in FrameSet
  <2>1. ASSUME pushed # <<>> PROVE pushed[Len(pushed)] \in FrameSet
    <3>1. Len(pushed) \in 1 .. Len(pushed)
      BY <1>1, <2>1
    <3> QED
      BY <1>1, <3>1
  <2> QED
    BY <1>1, <2>1 DEF LastFrame
<1>5. PlayerType' = PlayerType
  BY <1>1 DEF PlayerType
<1>6. CASE /\ ~first.over
           /\ player' = first.player /\ pushed' = first.frames
           /\ channel' = Queued(channel, first.frames)
           /\ entered' = FALSE
           /\ UNCHANGED <<state, active>>
  <2> HIDE DEF first
  <2>1. /\ channel' \in Seq(FrameSet) /\ Len(channel') <= ChannelSize
        /\ Len(channel') <= Len(channel) + Len(first.frames)
    BY <1>1, <1>3, <1>6, QueuedType
  <2>2. Len(channel') <= Cap
    <3>1. Len(first.frames) \in Nat /\ Len(channel') \in Nat
      BY <1>3, <2>1
    <3> QED
      BY <1>2, <1>3, <2>1, <3>1
  <2>3. TypeOK'
    BY <1>1, <1>3, <1>4, <1>5, <1>6, <2>1 DEF TypeOK
  <2>4. SegmentKept'
    BY <1>1, <1>3, <1>6 DEF SegmentKept, Segments
  <2> QED
    BY <2>2, <2>3, <2>4 DEF IInv
<1>7. CASE AfterEnd(first)
  <2> DEFINE second == Pass(Entering("loop"), Target)
             frames == first.frames \o second.frames
  <2>1. "loop" \in Segments
    BY DEF Segments
  <2>2. Entering("loop") \in PlayerType /\ Entering("loop").segment = "loop"
    BY <1>1, <2>1, EnteringType
  <2>3. /\ second.player \in PlayerType /\ second.player.segment = "loop"
        /\ second.frames \in Seq(FrameSet)
    BY <1>1, <1>2, <2>2, PassType
  <2>4. /\ player' = IF second.over THEN Entering("loop") ELSE second.player
        /\ pushed' = frames /\ channel' = Queued(channel, frames)
        /\ state' = "loop" /\ entered' = TRUE /\ active' = active
    BY <1>7 DEF AfterEnd
  <2> HIDE DEF first, second
  <2>5. frames \in Seq(FrameSet)
    BY <1>3, <2>3
  <2> HIDE DEF frames
  <2>6. channel' \in Seq(FrameSet) /\ Len(channel') <= ChannelSize
    BY <1>1, <2>4, <2>5, QueuedType
  <2>7. player' \in PlayerType /\ player'.segment = "loop"
    BY <2>2, <2>3, <2>4
  <2>8. TypeOK'
    BY <1>1, <1>4, <1>5, <2>1, <2>4, <2>5, <2>6, <2>7 DEF TypeOK
  <2>9. SegmentKept'
    BY <2>4, <2>7 DEF SegmentKept, Segments
  <2> QED
    BY <2>4, <2>8, <2>9 DEF IInv
<1>8. CASE Silence
  <2>1. /\ state' = "stopped" /\ player' = Entering("none") /\ channel' = <<>>
        /\ active' = FALSE /\ pushed' = <<>> /\ entered' = FALSE
    BY <1>8 DEF Silence
  <2>2. player' \in PlayerType
    BY <1>1, <2>1, EnteringType
  <2>3. <<>> \in Seq(FrameSet) /\ Len(<<>>) = 0
    OBVIOUS
  <2>4. TypeOK'
    <3>1. channel' \in Seq(FrameSet) /\ Len(channel') <= ChannelSize
      BY <2>1, EmptyFits
    <3>2. pushed' \in Seq(FrameSet)
      BY <2>1, EmptyFits
    <3>3. active' \in BOOLEAN /\ entered' \in BOOLEAN
          /\ state' \in {"stopped", "paused"} \cup Segments
      BY <2>1
    <3> QED
      BY <1>1, <1>4, <1>5, <2>2, <3>1, <3>2, <3>3 DEF TypeOK
  <2>5. SegmentKept'
    BY <2>1 DEF SegmentKept, Segments
  <2> QED
    BY <1>2, <2>1, <2>3, <2>4, <2>5 DEF IInv
<1> QED
  BY <1>6, <1>7, <1>8 DEF Update

\* Every other step keeps the types and segment, and queues nothing.
LEMMA ControlInv ==
  ASSUME IInv, Play \/ Stop \/ Pause \/ Resume \/ Render \/ UNCHANGED vars
  PROVE  IInv' /\ ~(Len(channel') > Len(channel))
<1>1. /\ cfg' = cfg /\ cfg \in Configs /\ player \in PlayerType
      /\ channel \in Seq(FrameSet) /\ pushed \in Seq(FrameSet) /\ before \in FrameSet
      /\ Len(channel) <= ChannelSize /\ Len(channel) \in Nat
      /\ active \in BOOLEAN /\ entered \in BOOLEAN
      /\ ChannelSize \in Nat
  BY MusicAssumption DEF IInv, TypeOK, Play, Stop, Pause, Resume, Render, vars
<1>2. PlayerType' = PlayerType
  BY <1>1 DEF PlayerType
<1>3. <<>> \in Seq(FrameSet) /\ Len(<<>>) = 0 /\ Garbage \in FrameSet
  BY DEF Garbage, FrameSet
<1>4. CASE Play
  <2>1. First \in Segments
    BY DEF First, Segments
  <2>2. Entering(First) \in PlayerType /\ Entering(First).segment = First
    BY <1>1, <2>1, EnteringType
  <2>3. /\ state' = First /\ player' = Entering(First) /\ channel' = <<>>
        /\ active' = TRUE /\ before' = Garbage /\ pushed' = <<>> /\ entered' = FALSE
    BY <1>4 DEF Play
  <2>4. TypeOK'
    <3>1. channel' \in Seq(FrameSet) /\ Len(channel') <= ChannelSize
      BY <2>3, EmptyFits
    <3>2. pushed' \in Seq(FrameSet)
      BY <2>3, EmptyFits
    <3>3. active' \in BOOLEAN /\ entered' \in BOOLEAN
          /\ state' \in {"stopped", "paused"} \cup Segments
          /\ before' \in FrameSet /\ player' \in PlayerType
      BY <1>3, <2>1, <2>2, <2>3
    <3> QED
      BY <1>1, <1>2, <3>1, <3>2, <3>3 DEF TypeOK
  <2>5. SegmentKept'
    BY <2>1, <2>2, <2>3 DEF SegmentKept, Segments
  <2> QED
    BY <1>1, <1>3, <2>3, <2>4, <2>5 DEF IInv
<1>5. CASE Stop
  <2>1. /\ state' = "stopped" /\ player' = Entering("none") /\ channel' = <<>>
        /\ active' = FALSE /\ pushed' = <<>> /\ entered' = FALSE /\ before' = Garbage
    BY <1>5 DEF Stop, Silence
  <2>2. player' \in PlayerType
    BY <1>1, <2>1, EnteringType
  <2>3. TypeOK'
    <3>1. channel' \in Seq(FrameSet) /\ Len(channel') <= ChannelSize
      BY <2>1, EmptyFits
    <3>2. pushed' \in Seq(FrameSet)
      BY <2>1, EmptyFits
    <3>3. active' \in BOOLEAN /\ entered' \in BOOLEAN
          /\ state' \in {"stopped", "paused"} \cup Segments
          /\ before' \in FrameSet
      BY <1>3, <2>1
    <3> QED
      BY <1>1, <1>2, <2>2, <3>1, <3>2, <3>3 DEF TypeOK
  <2>4. SegmentKept'
    BY <2>1 DEF SegmentKept, Segments
  <2> QED
    BY <1>1, <1>3, <2>1, <2>3, <2>4 DEF IInv
<1>6. CASE Pause
  <2>1. /\ state \in Segments /\ state' = "paused" /\ active' = FALSE
        /\ UNCHANGED <<cfg, player, channel, before, pushed, entered>>
    BY <1>6 DEF Pause
  <2>2. TypeOK'
    BY <1>1, <1>2, <2>1 DEF TypeOK
  <2>3. SegmentKept'
    BY <2>1 DEF IInv, SegmentKept, Segments
  <2> QED
    BY <1>1, <2>1, <2>2, <2>3 DEF IInv
<1>7. CASE Resume
  <2>1. /\ state = "paused" /\ state' = player.segment /\ active' = TRUE
        /\ UNCHANGED <<cfg, player, channel, before, pushed, entered>>
    BY <1>7 DEF Resume
  <2>2. player.segment \in Segments
    BY <2>1 DEF IInv, SegmentKept
  <2>3. TypeOK'
    BY <1>1, <1>2, <2>1, <2>2 DEF TypeOK
  <2>4. SegmentKept'
    BY <2>1, <2>2 DEF SegmentKept, Segments
  <2> QED
    BY <1>1, <2>1, <2>3, <2>4 DEF IInv
<1>8. CASE Render
  <2>1. UNCHANGED <<cfg, state, player, active, before, pushed, entered>>
    BY <1>8 DEF Render
  <2>2. PICK n \in 1 .. Smaller(MaxRender, Len(channel)) :
          channel' = SubSeq(channel, n + 1, Len(channel))
    BY <1>8 DEF Render
  <2>3. Smaller(MaxRender, Len(channel)) \in Nat
        /\ Smaller(MaxRender, Len(channel)) <= Len(channel)
    BY <1>1, SmallerType, MusicAssumption
  <2>4. n \in 0 .. Len(channel)
    BY <1>1, <2>2, <2>3
  <2>5. channel' \in Seq(FrameSet) /\ Len(channel') <= Len(channel)
    BY <1>1, <2>2, <2>4, RestType
  <2>6. TypeOK'
    <3>1. Len(channel') \in Nat
      BY <2>5
    <3>2. Len(channel') <= ChannelSize
      BY <1>1, <2>5, <3>1
    <3>3. state' \in {"stopped", "paused"} \cup Segments
      BY <2>1 DEF IInv, TypeOK
    <3> QED
      BY <1>1, <1>2, <2>1, <2>5, <3>2, <3>3 DEF TypeOK
  <2>7. SegmentKept'
    BY <2>1 DEF IInv, SegmentKept
  <2>8. ~(Len(channel') > Len(channel))
    <3>1. Len(channel') \in Nat
      BY <2>5
    <3> QED
      BY <1>1, <2>5, <3>1
  <2> QED
    BY <2>6, <2>7, <2>8 DEF IInv
<1>9. CASE UNCHANGED vars
  BY <1>1, <1>2, <1>9 DEF vars, IInv, TypeOK, SegmentKept
<1> QED
  BY <1>4, <1>5, <1>6, <1>7, <1>8, <1>9

\* The player starts stopped, with nothing staged or queued.
LEMMA InitInv == Init => IInv
<1>1. SUFFICES ASSUME Init PROVE IInv
  OBVIOUS
<1>2. Entering("none") \in PlayerType
  BY <1>1, EnteringType DEF Init
<1>3. <<>> \in Seq(FrameSet) /\ Len(<<>>) = 0 /\ Garbage \in FrameSet
  BY DEF Garbage, FrameSet
<1>4. channel \in Seq(FrameSet) /\ Len(channel) <= ChannelSize
  BY <1>1, EmptyFits DEF Init
<1>5. pushed \in Seq(FrameSet)
  BY <1>1, EmptyFits DEF Init
<1>6. TypeOK
  <2>1. /\ active \in BOOLEAN /\ entered \in BOOLEAN /\ cfg \in Configs
        /\ state \in {"stopped", "paused"} \cup Segments
        /\ before \in FrameSet /\ player \in PlayerType
    BY <1>1, <1>2, <1>3 DEF Init
  <2> QED
    BY <1>4, <1>5, <2>1 DEF TypeOK
<1>7. SegmentKept
  BY <1>1 DEF Init, SegmentKept, Segments
<1> QED
  BY <1>6, <1>7 DEF IInv

-----------------------------------------------------------------------------
(* The score: what the invariant adds to keep every frame in its place.    *)

\* A frame of the score, or the silence before the first one.
Scored(f) == f.seg \in Segments /\ f.n \in 0 .. Length(f.seg) - 1
Heard(f) == f = Garbage \/ Scored(f)

\* g may come after f: it follows, or with heads is one that came before.
Linked(f, g) ==
  \/ f = Garbage
  \/ Follows(f, g)
  \/ cfg.head > 0 /\ g.seg = f.seg /\ g.n <= f.n

\* Frames s, handed over after t.
InOrder(t, s) ==
  /\ Heard(t)
  /\ \A i \in 1 .. Len(s) : Scored(s[i]) /\ Linked(IF i = 1 THEN t ELSE s[i - 1], s[i])

\* What player p has ahead of it when t was the last frame handed over: t, at
\* place 0, the rest of the head, and the staged frames.
Count(p) == p.pinned + Len(p.staged)
Ahead(t, p, i) ==
  IF i = 0 THEN t
  ELSE IF i <= p.pinned THEN Frame(p.segment, cfg.head - p.pinned + i - 1)
  ELSE p.staged[i - p.pinned]

\* Where the next refill reads.
Cursor(p) == p.offset + Count(p)

\* The segment has ended at t, or nothing was played at all, and p is at the
\* start of the next one.
AtStart(t, p) ==
  /\ Count(p) = 0 /\ Cursor(p) = 0
  /\ t = Garbage \/ (p.segment = "loop" /\ t.n = Length(t.seg) - 1)

\* The last frame ahead is the one before the cursor, or with heads a later
\* one: the refill after a head was played goes back by what it played.
UpToCursor(t, p) ==
  LET z == Ahead(t, p, Count(p))
  IN  /\ z.seg = p.segment /\ z.n + 1 >= Cursor(p)
      /\ cfg.head = 0 => z.n + 1 = Cursor(p)

OnScore(t, p) ==
  /\ p.segment \in Segments /\ Length(p.segment) > 0 /\ cfg.head <= Length(p.segment)
  /\ Heard(t)
  /\ \A i \in 1 .. Len(p.staged) :
       p.staged[i].seg = p.segment /\ p.staged[i].n \in 0 .. Length(p.segment) - 1
  /\ \A i \in 1 .. Count(p) : Linked(Ahead(t, p, i - 1), Ahead(t, p, i))
  /\ AtStart(t, p) \/ UpToCursor(t, p)

\* What was handed over is in order, and so is what comes next.
Score ==
  /\ InOrder(before, pushed)
  /\ player.segment # "none" => OnScore(LastFrame(before, pushed), player)

SInv == IInv /\ (HeadsFit => Score)

-----------------------------------------------------------------------------
(* Frames in order.                                                        *)

\* The places of a concatenation.
LEMMA Concatenated ==
  ASSUME NEW s \in Seq(FrameSet), NEW u \in Seq(FrameSet)
  PROVE  /\ s \o u \in Seq(FrameSet) /\ Len(s \o u) = Len(s) + Len(u)
         /\ \A i \in 1 .. Len(s) : (s \o u)[i] = s[i]
         /\ \A i \in Len(s) + 1 .. Len(s) + Len(u) : (s \o u)[i] = u[i - Len(s)]
OBVIOUS

\* Segments have lengths.
LEMMA LengthType ==
  ASSUME cfg \in Configs, NEW seg
  PROVE  Length(seg) \in Nat
BY ConfigType DEF Length

\* A frame is known by its segment and its offset, and silence is no frame.
LEMMA FrameFields ==
  /\ \A seg, n : Frame(seg, n).seg = seg /\ Frame(seg, n).n = n
  /\ Garbage.seg = "none" /\ Garbage.n = 0
  /\ \A f \in FrameSet : f = Frame(f.seg, f.n)
BY DEF Frame, Garbage, FrameSet

\* The next frame of a segment may come, and with heads an earlier one.
LEMMA NextLinked ==
  ASSUME NEW f \in FrameSet, NEW n \in Nat,
         n = f.n + 1 \/ (cfg.head > 0 /\ n <= f.n)
  PROVE  Linked(f, Frame(f.seg, n))
BY FrameFields DEF Linked, Follows

\* The last of frames handed over in order was a frame of the score.
LEMMA LastHeard ==
  ASSUME NEW t, NEW s \in Seq(FrameSet), InOrder(t, s)
  PROVE  /\ Heard(LastFrame(t, s))
         /\ s # <<>> => Scored(LastFrame(t, s))
<1>1. CASE s = <<>>
  BY <1>1 DEF LastFrame, InOrder
<1>2. CASE s # <<>>
  <2>1. Len(s) \in 1 .. Len(s)
    BY <1>2
  <2> QED
    BY <1>2, <2>1 DEF LastFrame, InOrder, Heard
<1> QED
  BY <1>1, <1>2

\* Frames in order, and more in order after the last of them.
LEMMA Joined ==
  ASSUME NEW t, NEW s \in Seq(FrameSet), NEW u \in Seq(FrameSet),
         InOrder(t, s), InOrder(LastFrame(t, s), u)
  PROVE  /\ InOrder(t, s \o u)
         /\ LastFrame(t, s \o u) = LastFrame(LastFrame(t, s), u)
<1> DEFINE w == s \o u
<1>1. /\ w \in Seq(FrameSet) /\ Len(w) = Len(s) + Len(u)
      /\ \A i \in 1 .. Len(s) : w[i] = s[i]
      /\ \A i \in Len(s) + 1 .. Len(s) + Len(u) : w[i] = u[i - Len(s)]
  BY Concatenated
<1>2. Len(s) \in Nat /\ Len(u) \in Nat
  OBVIOUS
<1>3. /\ s = <<>> <=> Len(s) = 0
      /\ u = <<>> <=> Len(u) = 0
      /\ w = <<>> <=> Len(w) = 0
  BY <1>1, EmptySeq
<1> HIDE DEF w
<1>4. ASSUME NEW i \in 1 .. Len(w)
      PROVE  Scored(w[i]) /\ Linked(IF i = 1 THEN t ELSE w[i - 1], w[i])
  <2>1. CASE i <= Len(s)
    <3>1. i \in 1 .. Len(s) /\ (i # 1 => i - 1 \in 1 .. Len(s))
      BY <1>1, <1>2, <2>1
    <3>2. w[i] = s[i] /\ (i # 1 => w[i - 1] = s[i - 1])
      BY <1>1, <3>1
    <3> QED
      BY <3>1, <3>2 DEF InOrder
  <2>2. CASE i = Len(s) + 1
    <3>1. 1 \in 1 .. Len(u) /\ i \in Len(s) + 1 .. Len(s) + Len(u) /\ i - Len(s) = 1
      BY <1>1, <1>2, <2>2
    <3>2. w[i] = u[1]
      BY <1>1, <3>1
    <3>3. (IF i = 1 THEN t ELSE w[i - 1]) = LastFrame(t, s)
      <4>1. CASE i = 1
        BY <1>2, <1>3, <2>2, <4>1 DEF LastFrame
      <4>2. CASE i # 1
        <5>1. i - 1 = Len(s) /\ Len(s) \in 1 .. Len(s) /\ Len(s) # 0
          BY <1>2, <2>2, <4>2
        <5> QED
          BY <1>1, <1>3, <4>2, <5>1 DEF LastFrame
      <4> QED
        BY <4>1, <4>2
    <3>4. Scored(u[1]) /\ Linked(LastFrame(t, s), u[1])
      BY <3>1 DEF InOrder
    <3> QED
      BY <3>2, <3>3, <3>4
  <2>3. CASE i > Len(s) + 1
    <3> DEFINE j == i - Len(s)
    <3>1. /\ j \in 1 .. Len(u) /\ j # 1 /\ i # 1 /\ (i - 1) - Len(s) = j - 1
          /\ i \in Len(s) + 1 .. Len(s) + Len(u)
          /\ i - 1 \in Len(s) + 1 .. Len(s) + Len(u)
      BY <1>1, <1>2, <2>3
    <3>2. w[i] = u[j] /\ w[i - 1] = u[j - 1]
      BY <1>1, <3>1
    <3> HIDE DEF j
    <3>3. Scored(u[j]) /\ Linked(u[j - 1], u[j])
      BY <3>1 DEF InOrder
    <3> QED
      BY <3>1, <3>2, <3>3
  <2> QED
    BY <1>1, <1>2, <2>1, <2>2, <2>3
<1>5. InOrder(t, w)
  BY <1>4 DEF InOrder
<1>6. LastFrame(t, w) = LastFrame(LastFrame(t, s), u)
  <2>1. CASE Len(u) = 0
    <3>1. CASE Len(s) = 0
      BY <1>1, <1>2, <1>3, <2>1, <3>1 DEF LastFrame
    <3>2. CASE Len(s) # 0
      <4>1. Len(w) = Len(s) /\ Len(s) \in 1 .. Len(s) /\ Len(w) # 0
        BY <1>1, <1>2, <2>1, <3>2
      <4>2. w[Len(s)] = s[Len(s)]
        BY <1>1, <4>1
      <4> QED
        BY <1>3, <2>1, <3>2, <4>1, <4>2 DEF LastFrame
    <3> QED
      BY <3>1, <3>2
  <2>2. CASE Len(u) # 0
    <3>1. /\ Len(w) \in Len(s) + 1 .. Len(s) + Len(u) /\ Len(w) - Len(s) = Len(u)
          /\ Len(w) # 0
      BY <1>1, <1>2, <2>2
    <3>2. w[Len(w)] = u[Len(u)]
      BY <1>1, <3>1
    <3> QED
      BY <1>3, <2>2, <3>1, <3>2 DEF LastFrame
  <2> QED
    BY <2>1, <2>2
<1> QED
  BY <1>5, <1>6 DEF w

\* What a stream provides: the frames from the offset on, as many as asked
\* for or up to the end of the segment.
LEMMA StreamFrames ==
  ASSUME cfg \in Configs, NEW seg \in Segments, NEW offset \in Nat, NEW count \in Nat
  PROVE  LET s == Stream(seg, offset, count)
         IN  /\ s \in Seq(FrameSet) /\ Len(s) \in 0 .. count
             /\ \A i \in 1 .. Len(s) :
                  s[i] = Frame(seg, offset + i - 1) /\ offset + i - 1 < Length(seg)
             /\ Len(s) = 0 => count = 0 \/ offset >= Length(seg)
<1> DEFINE s == Stream(seg, offset, count)
<1>1. Length(seg) \in Nat
  BY LengthType
<1>2. s \in Seq(FrameSet) /\ Len(s) <= count /\ Len(s) \in Nat
  BY StreamType
<1>3. CASE offset >= Length(seg)
  <2>1. s = <<>>
    BY <1>3 DEF Stream
  <2>2. Len(s) = 0
    BY <2>1
  <2> HIDE DEF s
  <2> QED
    BY <1>2, <1>3, <2>2 DEF s
<1>4. CASE ~(offset >= Length(seg))
  <2> DEFINE k == Smaller(count, Length(seg) - offset)
  <2>1. Length(seg) - offset \in Nat /\ Length(seg) - offset > 0
    BY <1>1, <1>4
  <2>2. k \in Nat /\ k <= count /\ k <= Length(seg) - offset /\ (k = 0 => count = 0)
    <3>1. k \in Nat /\ k <= count /\ k <= Length(seg) - offset
      BY <2>1, SmallerType
    <3>2. k = 0 => count = 0
      BY <2>1 DEF Smaller
    <3> QED
      BY <3>1, <3>2
  <2>3. s = Frames(seg, offset, k)
    BY <1>4 DEF Stream
  <2> HIDE DEF k, s
  <2>4. Len(s) = k
    BY <2>2, <2>3, FramesType
  <2>5. \A i \in 1 .. k : s[i] = Frame(seg, offset + i - 1)
    BY <2>3 DEF Frames
  <2>6. \A i \in 1 .. k : offset + i - 1 < Length(seg)
    BY <1>1, <2>2
  <2>7. /\ Len(s) \in 0 .. count
        /\ \A i \in 1 .. Len(s) :
             s[i] = Frame(seg, offset + i - 1) /\ offset + i - 1 < Length(seg)
        /\ Len(s) = 0 => count = 0 \/ offset >= Length(seg)
    <3>1. Len(s) \in 0 .. count
      BY <2>2, <2>4
    <3>2. \A i \in 1 .. Len(s) :
            s[i] = Frame(seg, offset + i - 1) /\ offset + i - 1 < Length(seg)
      BY <2>4, <2>5, <2>6
    <3>3. Len(s) = 0 => count = 0
      BY <2>2, <2>4
    <3> QED
      BY <3>1, <3>2, <3>3
  <2> QED
    BY <1>2, <2>7 DEF s
<1> QED
  BY <1>3, <1>4
-----------------------------------------------------------------------------
(* What lies ahead of a player.                                            *)

\* A segment is entered in order: after silence, or the loop after an end.
LEMMA EnteringOnScore ==
  ASSUME cfg \in Configs, NEW seg \in Segments, NEW t \in FrameSet, Heard(t),
         Length(seg) > 0, cfg.head <= Length(seg),
         t = Garbage \/ (seg = "loop" /\ t.n = Length(t.seg) - 1)
  PROVE  OnScore(t, Entering(seg))
<1> DEFINE p == Entering(seg)
<1>1. /\ p.segment = seg /\ p.offset = 0 /\ p.staged = <<>> /\ p.pinned = cfg.head
      /\ Len(p.staged) = 0
  BY DEF Entering, Segments
<1>2. cfg.head \in Nat /\ Length(seg) \in Nat
  BY ConfigType, LengthType
<1> HIDE DEF p
<1>3. Count(p) = cfg.head /\ Cursor(p) = cfg.head
  BY <1>1, <1>2 DEF Count, Cursor
<1>4. \A i \in 1 .. cfg.head : Ahead(t, p, i) = Frame(seg, i - 1)
  BY <1>1, <1>2 DEF Ahead
<1>5. Ahead(t, p, 0) = t
  BY DEF Ahead
<1>6. ASSUME NEW i \in 1 .. Count(p) PROVE Linked(Ahead(t, p, i - 1), Ahead(t, p, i))
  <2>1. i \in 1 .. cfg.head /\ Ahead(t, p, i) = Frame(seg, i - 1)
    BY <1>3, <1>4
  <2>2. CASE i = 1
    BY <1>5, <2>1, <2>2 DEF Linked, Follows
  <2>3. CASE i # 1
    <3>1. i - 1 \in 1 .. cfg.head /\ (i - 1) - 1 \in Nat /\ (i - 1) - 1 + 1 = i - 1
      BY <1>2, <2>1, <2>3
    <3>2. Ahead(t, p, i - 1) = Frame(seg, (i - 1) - 1)
      BY <1>4, <3>1
    <3> QED
      BY <2>1, <3>1, <3>2, FrameFields DEF Linked, Follows
  <2> QED
    BY <2>2, <2>3
<1>7. AtStart(t, p) \/ UpToCursor(t, p)
  <2>1. CASE cfg.head = 0
    BY <1>1, <1>3, <2>1 DEF AtStart
  <2>2. CASE cfg.head # 0
    <3>1. cfg.head \in 1 .. cfg.head
      BY <1>2, <2>2
    <3>2. Ahead(t, p, Count(p)) = Frame(seg, cfg.head - 1)
      BY <1>3, <1>4, <3>1
    <3> QED
      BY <1>1, <1>2, <1>3, <2>2, <3>2, FrameFields DEF UpToCursor
  <2> QED
    BY <2>1, <2>2
<1>8. OnScore(t, p)
  BY <1>1, <1>6, <1>7 DEF OnScore
<1> QED
  BY <1>8 DEF p
\* What comes next at the cursor is in order after what is ahead already.
LEMMA CursorLinked ==
  ASSUME cfg \in Configs, NEW p \in PlayerType, NEW t \in FrameSet, OnScore(t, p),
         Ahead(t, p, Count(p)) \in FrameSet
  PROVE  Linked(Ahead(t, p, Count(p)), Frame(p.segment, Cursor(p)))
<1> DEFINE z == Ahead(t, p, Count(p))
           c == Cursor(p)
<1>1. c \in Nat
  BY DEF PlayerType, Cursor, Count
<1>2. CASE AtStart(t, p)
  <2>1. z = t /\ c = 0
    BY <1>2 DEF AtStart, Ahead
  <2> HIDE DEF z, c
  <2>2. Linked(z, Frame(p.segment, c))
    BY <1>2, <2>1 DEF AtStart, Linked, Follows
  <2> QED
    BY <2>2 DEF z, c
<1>3. CASE UpToCursor(t, p)
  <2>1. z.seg = p.segment /\ z.n + 1 >= c /\ (cfg.head = 0 => z.n + 1 = c)
    BY <1>3 DEF UpToCursor
  <2>2. z \in FrameSet
    OBVIOUS
  <2>3. z.n \in Nat /\ cfg.head \in Nat
    BY <2>2, ConfigType DEF FrameSet
  <2> HIDE DEF z, c
  <2>4. c = z.n + 1 \/ (cfg.head > 0 /\ c <= z.n)
    BY <1>1, <2>1, <2>3
  <2>5. Linked(z, Frame(p.segment, c))
    BY <1>1, <2>1, <2>2, <2>4, NextLinked
  <2> QED
    BY <2>5 DEF z, c
<1> QED
  BY <1>2, <1>3 DEF OnScore

\* Everything ahead is a frame of the player's segment.
LEMMA AheadScored ==
  ASSUME cfg \in Configs, NEW p \in PlayerType, NEW t \in FrameSet, OnScore(t, p),
         NEW i \in 1 .. Count(p)
  PROVE  /\ Ahead(t, p, i) \in FrameSet /\ Scored(Ahead(t, p, i))
         /\ Ahead(t, p, i).seg = p.segment
<1>1. /\ p.pinned \in 0 .. cfg.head /\ p.staged \in Seq(FrameSet) /\ Len(p.staged) \in Nat
      /\ p.segment \in Segments
      /\ cfg.head \in Nat /\ Length(p.segment) \in Nat /\ cfg.head <= Length(p.segment)
  BY ConfigType, LengthType DEF PlayerType, OnScore
<1>2. CASE i <= p.pinned
  <2> DEFINE n == cfg.head - p.pinned + i - 1
  <2>1. n \in 0 .. Length(p.segment) - 1
    BY <1>1, <1>2
  <2>2. Ahead(t, p, i) = Frame(p.segment, n)
    BY <1>2 DEF Ahead
  <2> HIDE DEF n
  <2> QED
    BY <1>1, <2>1, <2>2, FrameFields DEF Scored, Frame, FrameSet
<1>3. CASE ~(i <= p.pinned)
  <2> DEFINE j == i - p.pinned
  <2>1. j \in 1 .. Len(p.staged)
    BY <1>1, <1>3 DEF Count
  <2>2. Ahead(t, p, i) = p.staged[j]
    BY <1>1, <1>3 DEF Ahead
  <2> HIDE DEF j
  <2>3. p.staged[j].seg = p.segment /\ p.staged[j].n \in 0 .. Length(p.segment) - 1
    BY <2>1 DEF OnScore
  <2>4. p.staged[j] \in FrameSet
    BY <1>1, <2>1
  <2> QED
    BY <1>1, <2>2, <2>3, <2>4 DEF Scored
<1> QED
  BY <1>2, <1>3

\* What is at a place ahead, the last one handed over included, is a frame.
LEMMA AheadType ==
  ASSUME cfg \in Configs, NEW p \in PlayerType, NEW t \in FrameSet, OnScore(t, p),
         NEW i \in 0 .. Count(p)
  PROVE  Ahead(t, p, i) \in FrameSet /\ Heard(Ahead(t, p, i))
<1>1. CASE i = 0
  BY <1>1 DEF Ahead, OnScore
<1>2. CASE i # 0
  <2>1. i \in 1 .. Count(p)
    BY <1>2 DEF Count, PlayerType
  <2> QED
    BY <2>1, AheadScored DEF Heard
<1> QED
  BY <1>1, <1>2

\* A refill adds what comes next, and nothing only at the end of the segment.
LEMMA RefillOnScore ==
  ASSUME cfg \in Configs, NEW p \in PlayerType, NEW t \in FrameSet, OnScore(t, p),
         Len(p.staged) < BufferSize
  PROVE  /\ OnScore(t, Refill(p))
         /\ Len(Refill(p).staged) = Len(p.staged) =>
              Refill(p) = p /\ Cursor(p) >= Length(p.segment)
<1> DEFINE r == Refill(p)
           c == p.offset + p.pinned + Len(p.staged)
           room == BufferSize - Len(p.staged)
           more == Stream(p.segment, c, room)
           staged == p.staged \o more
<1>1. /\ p.segment \in Segments /\ p.offset \in Nat /\ p.pinned \in Nat
      /\ p.staged \in Seq(FrameSet) /\ Len(p.staged) \in Nat
      /\ Length(p.segment) \in Nat
      /\ p \in [segment : Segments \cup {"none"}, offset : Nat,
                staged : Seq(FrameSet), pinned : 0 .. cfg.head]
  BY ConfigType, LengthType DEF PlayerType, OnScore
<1>2. c \in Nat /\ room \in Nat /\ room > 0 /\ c = Cursor(p)
      /\ Count(p) = p.pinned + Len(p.staged) /\ Count(p) \in Nat
  BY <1>1, MusicAssumption DEF Cursor, Count
<1>3. r = [p EXCEPT !.staged = staged]
  BY DEF Refill
<1> HIDE DEF c, room
<1>4. /\ more \in Seq(FrameSet) /\ Len(more) \in 0 .. room
      /\ \A i \in 1 .. Len(more) :
           more[i] = Frame(p.segment, c + i - 1) /\ c + i - 1 < Length(p.segment)
      /\ Len(more) = 0 => c >= Length(p.segment)
  BY <1>1, <1>2, StreamFrames
<1> HIDE DEF more
<1>5. /\ staged \in Seq(FrameSet) /\ Len(staged) = Len(p.staged) + Len(more)
      /\ \A i \in 1 .. Len(p.staged) : staged[i] = p.staged[i]
      /\ \A i \in Len(p.staged) + 1 .. Len(p.staged) + Len(more) :
           staged[i] = more[i - Len(p.staged)]
  BY <1>1, <1>4, Concatenated
<1> HIDE DEF r
<1>6. Len(more) = 0 => r = p
  <2>1. ASSUME Len(more) = 0 PROVE staged = p.staged
    <3>1. more = <<>>
      BY <1>4, <2>1, EmptySeq
    <3> QED
      BY <1>1, <3>1, ConcatEmptySeq
  <2> HIDE DEF staged
  <2>2. ASSUME staged = p.staged PROVE [p EXCEPT !.staged = staged] = p
    BY <1>1, <2>2
  <2> QED
    BY <1>3, <2>1, <2>2
<1> HIDE DEF staged
<1>7. /\ r.segment = p.segment /\ r.offset = p.offset /\ r.pinned = p.pinned
      /\ r.staged = staged
  BY <1>1, <1>3
<1> DEFINE m == Count(p)
           k == Len(more)
<1>8. Count(r) = m + k /\ Cursor(r) = c + k /\ k \in Nat
  <2>1. Count(r) = r.pinned + Len(r.staged) /\ Cursor(r) = r.offset + Count(r)
    BY DEF Count, Cursor
  <2>2. c = p.offset + m /\ m = p.pinned + Len(p.staged) /\ k \in Nat
    BY <1>2, <1>4 DEF Cursor
  <2>3. r.pinned = p.pinned /\ r.offset = p.offset /\ Len(r.staged) = Len(p.staged) + k
    BY <1>5, <1>7
  <2> HIDE DEF m, k
  <2> QED
    BY <1>1, <2>1, <2>2, <2>3
<1>9. \A i \in 0 .. m : Ahead(t, r, i) = Ahead(t, p, i)
  BY <1>1, <1>2, <1>5, <1>7 DEF Ahead
<1>10. \A i \in m + 1 .. m + k : Ahead(t, r, i) = Frame(p.segment, c + (i - m) - 1)
  <2> TAKE i \in m + 1 .. m + k
  <2>1. /\ i # 0 /\ ~(i <= p.pinned) /\ i - m \in 1 .. k
        /\ i - p.pinned \in Len(p.staged) + 1 .. Len(p.staged) + k
        /\ (i - p.pinned) - Len(p.staged) = i - m
    <3> DEFINE h == p.pinned
               n == Len(p.staged)
    <3>1. h \in Nat /\ n \in Nat /\ m = h + n /\ k \in Nat
      BY <1>1, <1>2, <1>8
    <3> HIDE DEF h, n, m, k
    <3>2. /\ i # 0 /\ ~(i <= h) /\ i - m \in 1 .. k /\ i - h \in n + 1 .. n + k
          /\ (i - h) - n = i - m
      BY <3>1
    <3> QED
      BY <3>2 DEF h, n
  <2>2. Ahead(t, r, i) = staged[i - p.pinned]
    BY <1>7, <2>1 DEF Ahead
  <2>3. staged[i - p.pinned] = more[i - m]
    BY <1>5, <2>1
  <2> QED
    BY <1>4, <2>1, <2>2, <2>3
<1>11. m \in Nat /\ m \in 0 .. m
  BY <1>2
<1> HIDE DEF m, k
<1>12. ASSUME NEW i \in 1 .. Count(r) PROVE Linked(Ahead(t, r, i - 1), Ahead(t, r, i))
  <2>1. CASE i <= m
    <3>1. i \in 0 .. m /\ i - 1 \in 0 .. m /\ i \in 1 .. m
      BY <1>8, <1>11, <2>1
    <3> QED
      BY <1>9, <3>1 DEF OnScore, m
  <2>2. CASE i = m + 1
    <3>1. i \in m + 1 .. m + k /\ i - 1 = m /\ c + (i - m) - 1 = c
      BY <1>2, <1>8, <1>11, <2>2
    <3>2. Ahead(t, r, i) = Frame(p.segment, c) /\ Ahead(t, r, i - 1) = Ahead(t, p, m)
      BY <1>9, <1>10, <1>11, <3>1
    <3> QED
      BY <1>2, <1>11, <3>2, CursorLinked, AheadType DEF m
  <2>3. CASE i > m + 1
    <3> DEFINE n == c + (i - m) - 2
    <3>1. /\ i \in m + 1 .. m + k /\ i - 1 \in m + 1 .. m + k
          /\ c + ((i - 1) - m) - 1 = n /\ c + (i - m) - 1 = n + 1 /\ n \in Nat
      BY <1>2, <1>8, <1>11, <2>3
    <3>2. Ahead(t, r, i) = Frame(p.segment, n + 1) /\ Ahead(t, r, i - 1) = Frame(p.segment, n)
      BY <1>10, <3>1
    <3> HIDE DEF n
    <3> QED
      BY <3>1, <3>2, FrameFields DEF Linked, Follows
  <2> QED
    BY <1>8, <1>11, <2>1, <2>2, <2>3
<1>13. ASSUME NEW i \in 1 .. Len(r.staged)
       PROVE  r.staged[i].seg = p.segment /\ r.staged[i].n \in 0 .. Length(p.segment) - 1
  <2>1. CASE i <= Len(p.staged)
    <3>1. i \in 1 .. Len(p.staged)
      BY <1>1, <1>7, <2>1
    <3> QED
      BY <1>5, <1>7, <3>1 DEF OnScore
  <2>2. CASE i > Len(p.staged)
    <3> DEFINE j == i - Len(p.staged)
    <3>1. i \in Len(p.staged) + 1 .. Len(p.staged) + Len(more) /\ j \in 1 .. Len(more)
      BY <1>1, <1>4, <1>5, <1>7, <2>2
    <3>2. r.staged[i] = more[j]
      BY <1>5, <1>7, <3>1
    <3> HIDE DEF j
    <3>3. more[j] = Frame(p.segment, c + j - 1) /\ c + j - 1 < Length(p.segment)
          /\ c + j - 1 \in Nat
      BY <1>2, <1>4, <3>1
    <3> QED
      BY <1>1, <3>2, <3>3, FrameFields
  <2> QED
    BY <1>1, <1>4, <1>5, <1>7, <2>1, <2>2
<1>14. AtStart(t, r) \/ UpToCursor(t, r)
  <2>1. CASE k = 0
    BY <1>6, <2>1 DEF OnScore, k
  <2>2. CASE k # 0
    <3>1. m + k \in m + 1 .. m + k /\ c + ((m + k) - m) - 1 = c + k - 1
      BY <1>2, <1>8, <1>11, <2>2
    <3>2. Ahead(t, r, Count(r)) = Frame(p.segment, c + k - 1)
      BY <1>8, <1>10, <3>1
    <3>3. (c + k - 1) + 1 = c + k
      BY <1>2, <1>8
    <3> QED
      BY <1>2, <1>7, <1>8, <3>2, <3>3, FrameFields DEF UpToCursor
  <2> QED
    BY <2>1, <2>2
<1>15. OnScore(t, r)
  BY <1>7, <1>12, <1>13, <1>14 DEF OnScore
<1>16. Len(r.staged) = Len(p.staged) => r = p /\ Cursor(p) >= Length(p.segment)
  <2>1. Len(r.staged) = Len(p.staged) => Len(more) = 0
    BY <1>1, <1>4, <1>5, <1>7
  <2> QED
    BY <1>2, <1>4, <1>6, <2>1
<1> QED
  BY <1>15, <1>16 DEF r
\* A pump hands over the frames next ahead, and the rest stays ahead.
LEMMA PumpedAhead ==
  ASSUME cfg \in Configs, NEW p \in PlayerType, NEW t \in FrameSet, OnScore(t, p),
         NEW target \in Nat
  PROVE  LET h == Handed(p, target)
             q == Pumped(p, target)
         IN  /\ h \in Seq(FrameSet) /\ Len(h) \in 0 .. Count(p)
             /\ \A i \in 1 .. Len(h) : h[i] = Ahead(t, p, i)
             /\ LastFrame(t, h) = Ahead(t, p, Len(h))
             /\ q.segment = p.segment /\ q.staged \in Seq(FrameSet)
             /\ Count(q) = Count(p) - Len(h)
             /\ Cursor(q) \in Nat /\ Cursor(q) <= Cursor(p)
             /\ cfg.head = 0 => Cursor(q) = Cursor(p)
             /\ \A i \in 0 .. Count(q) :
                  Ahead(LastFrame(t, h), q, i) = Ahead(t, p, Len(h) + i)
             /\ \A i \in 1 .. Len(q.staged) :
                  \E j \in 1 .. Len(p.staged) : q.staged[i] = p.staged[j]
<1> DEFINE h == Handed(p, target)
           q == Pumped(p, target)
           a == FromHead(p, target)
           b == FromStaged(p, target)
           from == cfg.head - p.pinned
           head == PinnedHead(p.segment, from, a)
           front == SubSeq(p.staged, 1, b)
           rest == SubSeq(p.staged, b + 1, Len(p.staged))
<1>1. /\ p.segment \in Segments /\ p.offset \in Nat
      /\ p.staged \in Seq(FrameSet) /\ p.pinned \in Nat /\ p.pinned <= cfg.head
      /\ Len(p.staged) \in Nat /\ cfg.head \in Nat
      /\ cfg.head <= Length(p.segment) /\ Length(p.segment) \in Nat
      /\ p \in [segment : Segments \cup {"none"}, offset : Nat,
                staged : Seq(FrameSet), pinned : 0 .. cfg.head]
  BY ConfigType, LengthType DEF PlayerType, OnScore
<1> DEFINE s == p.staged
<1>0. /\ p.pinned \in Nat /\ p.offset \in Nat /\ Len(s) \in Nat /\ cfg.head \in Nat
      /\ p.pinned <= cfg.head
  BY <1>1
<1> HIDE DEF s
<1>2. a \in Nat /\ a <= p.pinned /\ a <= target /\ (a < p.pinned => a = target)
  <2>1. a \in Nat /\ a <= p.pinned /\ a <= target
    BY <1>1, SmallerType DEF FromHead
  <2>2. a < p.pinned => a = target
    BY <1>1 DEF FromHead, Smaller
  <2> QED
    BY <2>1, <2>2
<1>3. b \in 0 .. Len(p.staged) /\ (a < p.pinned => b = 0)
  <2> DEFINE left == target - a
  <2>1. b = Smaller(Len(p.staged), left)
    BY DEF FromStaged
  <2> HIDE DEF a, b
  <2>2. left \in Nat /\ (a < p.pinned => left = 0)
    BY <1>2
  <2> HIDE DEF left
  <2>3. b \in Nat /\ b <= Len(p.staged)
    BY <1>1, <2>1, <2>2, SmallerType
  <2>4. left = 0 => b = 0
    BY <1>1, <2>1 DEF Smaller
  <2> QED
    BY <1>1, <2>2, <2>3, <2>4
<1>4. from \in Nat /\ from + p.pinned = cfg.head
  BY <1>1
<1>5. h = head \o front
  BY DEF Handed
<1>6. q = [p EXCEPT !.pinned = p.pinned - a, !.offset = p.offset + b, !.staged = rest]
  BY DEF Pumped
<1> HIDE DEF a, b, from, h, q
<1>7. /\ head \in Seq(FrameSet) /\ Len(head) = a
      /\ \A i \in 1 .. a : head[i] = Frame(p.segment, from + i - 1)
  <2>1. head \in Seq(FrameSet) /\ Len(head) = a
    BY <1>1, <1>2, <1>4, PinnedHeadType
  <2>2. ASSUME NEW i \in 1 .. a PROVE head[i] = Frame(p.segment, from + i - 1)
    <3>1. from + i - 1 < Length(p.segment)
      BY <1>1, <1>2, <1>4
    <3> QED
      BY <3>1 DEF PinnedHead
  <2> QED
    BY <2>1, <2>2
<1>8. /\ front \in Seq(FrameSet) /\ Len(front) = b
      /\ \A i \in 1 .. b : front[i] = p.staged[i]
  <2>1. front \in Seq(FrameSet) /\ Len(front) = b
    BY <1>1, <1>3, RestType
  <2>2. ASSUME NEW i \in 1 .. b PROVE front[i] = p.staged[i]
    BY <1>1, <1>3
  <2> QED
    BY <2>1, <2>2
<1>9. /\ rest \in Seq(FrameSet) /\ Len(rest) = Len(p.staged) - b
      /\ \A i \in 1 .. Len(p.staged) - b : rest[i] = p.staged[b + i]
  <2>1. rest \in Seq(FrameSet)
    BY <1>1, <1>3, RestType
  <2>2. Len(rest) = Len(p.staged) - b
    BY <1>1, <1>3
  <2>3. ASSUME NEW i \in 1 .. Len(p.staged) - b PROVE rest[i] = p.staged[b + i]
    BY <1>1, <1>3
  <2> QED
    BY <2>1, <2>2, <2>3
<1> HIDE DEF head, front, rest
<1>10. /\ h \in Seq(FrameSet) /\ Len(h) = a + b
       /\ \A i \in 1 .. a : h[i] = head[i]
       /\ \A i \in a + 1 .. a + b : h[i] = front[i - a]
  BY <1>5, <1>7, <1>8, Concatenated
<1>11. /\ q.segment = p.segment /\ q.pinned = p.pinned - a /\ q.offset = p.offset + b
       /\ q.staged = rest
  BY <1>1, <1>6
<1>12. /\ Count(p) = p.pinned + Len(p.staged) /\ Count(q) = Count(p) - (a + b)
       /\ Cursor(p) = p.offset + p.pinned + Len(p.staged)
       /\ Cursor(q) = Cursor(p) - a
       /\ Cursor(p) \in Nat /\ Count(p) \in Nat /\ Count(q) \in Nat
  <2>1. /\ Count(p) = p.pinned + Len(p.staged) /\ Cursor(p) = p.offset + Count(p)
        /\ Count(q) = q.pinned + Len(q.staged) /\ Cursor(q) = q.offset + Count(q)
    BY DEF Count, Cursor
  <2>2. Len(q.staged) = Len(p.staged) - b
    BY <1>9, <1>11
  <2> DEFINE cp == Count(p)
             cq == Count(q)
             up == Cursor(p)
             uq == Cursor(q)
             n == Len(s)
             rn == Len(q.staged)
             o == p.offset
             k == p.pinned
  <2>3. /\ cp = k + n /\ up = o + cp /\ cq = (k - a) + rn /\ uq = (o + b) + cq
        /\ rn = n - b /\ k \in Nat /\ o \in Nat /\ n \in Nat
        /\ a \in Nat /\ a <= k /\ b \in 0 .. n
    BY <1>0, <1>2, <1>3, <1>11, <2>1, <2>2 DEF s
  <2> HIDE DEF cp, cq, up, uq, n, rn, o, k
  <2>4. /\ cp = k + n /\ cq = cp - (a + b) /\ up = o + k + n /\ uq = up - a
        /\ up \in Nat /\ cp \in Nat /\ cq \in Nat
    BY <2>3
  <2> QED
    BY <2>4 DEF cp, cq, up, uq, n, o, k, s
<1>13. a + b \in Nat /\ a + b <= Count(p)
  BY <1>1, <1>2, <1>3, <1>12
<1>14. \A i \in 1 .. a + b : h[i] = Ahead(t, p, i)
  <2> TAKE i \in 1 .. a + b
  <2>1. CASE i <= a
    <3>1. i \in 1 .. a /\ i <= p.pinned /\ i # 0
      BY <1>1, <1>2, <1>3, <2>1
    <3>2. h[i] = Frame(p.segment, from + i - 1)
      BY <1>7, <1>10, <3>1
    <3> QED
      BY <3>1, <3>2 DEF Ahead, from
  <2>2. CASE ~(i <= a)
    <3>1. /\ i \in a + 1 .. a + b /\ i - a \in 1 .. b /\ i # 0
          /\ a = p.pinned /\ ~(i <= p.pinned)
      BY <1>1, <1>2, <1>3, <2>2
    <3>2. h[i] = p.staged[i - a]
      BY <1>8, <1>10, <3>1
    <3> QED
      BY <3>1, <3>2 DEF Ahead
  <2> QED
    BY <2>1, <2>2
<1>15. LastFrame(t, h) = Ahead(t, p, a + b)
  <2>1. h = <<>> <=> a + b = 0
    BY <1>10, EmptySeq
  <2>2. CASE a + b = 0
    BY <2>1, <2>2 DEF LastFrame, Ahead
  <2>3. CASE a + b # 0
    <3>1. a + b \in 1 .. a + b
      BY <1>13, <2>3
    <3> QED
      BY <1>10, <1>14, <2>1, <2>3, <3>1 DEF LastFrame
  <2> QED
    BY <2>2, <2>3
<1> DEFINE l == LastFrame(t, h)
<1>16. \A i \in 0 .. Count(q) : Ahead(l, q, i) = Ahead(t, p, a + b + i)
  <2> TAKE i \in 0 .. Count(q)
  <2> HIDE DEF l
  <2>1. CASE i = 0
    <3>1. a + b + i = a + b
      BY <1>13, <2>1
    <3>2. Ahead(l, q, i) = l
      BY <2>1 DEF Ahead
    <3> QED
      BY <1>15, <3>1, <3>2 DEF l
  <2>2. CASE i # 0 /\ i <= p.pinned - a
    <3>1. /\ b = 0 /\ a + b + i = a + i /\ a + i <= p.pinned /\ a + i # 0
          /\ cfg.head - (p.pinned - a) + i - 1 = cfg.head - p.pinned + (a + i) - 1
      <4> DEFINE k == p.pinned
                 g == cfg.head
      <4>1. /\ k \in Nat /\ g \in Nat /\ a \in Nat /\ a <= k /\ (a < k => b = 0)
            /\ i \in Nat /\ i # 0 /\ i <= k - a /\ b \in Nat
        BY <1>0, <1>2, <1>3, <1>12, <2>2
      <4> HIDE DEF k, g
      <4>2. /\ b = 0 /\ a + b + i = a + i /\ a + i <= k /\ a + i # 0
            /\ g - (k - a) + i - 1 = g - k + (a + i) - 1
        BY <4>1
      <4> QED
        BY <4>2 DEF k, g
    <3>2. Ahead(l, q, i) = Frame(p.segment, cfg.head - (p.pinned - a) + i - 1)
      BY <1>11, <2>2 DEF Ahead
    <3>3. Ahead(t, p, a + i) = Frame(p.segment, cfg.head - p.pinned + (a + i) - 1)
      BY <3>1 DEF Ahead
    <3> QED
      BY <3>1, <3>2, <3>3
  <2>3. CASE i # 0 /\ ~(i <= p.pinned - a)
    <3> DEFINE j == i - (p.pinned - a)
               n == a + b + i
    <3>1. /\ n # 0 /\ ~(n <= p.pinned) /\ n - p.pinned = b + j
          /\ j \in 1 .. Len(p.staged) - b
      <4> DEFINE k == p.pinned
                 c == Len(s)
      <4>1. /\ k \in Nat /\ c \in Nat /\ a \in Nat /\ a <= k /\ b \in 0 .. c
            /\ i \in Nat /\ i # 0 /\ ~(i <= k - a) /\ i <= k + c - (a + b)
            /\ (a < k => b = 0)
        BY <1>0, <1>2, <1>3, <1>12, <2>3 DEF s
      <4> HIDE DEF k, c
      <4>2. /\ a + b + i # 0 /\ ~(a + b + i <= k)
            /\ (a + b + i) - k = b + (i - (k - a)) /\ i - (k - a) \in 1 .. c - b
        BY <4>1
      <4> QED
        BY <4>2 DEF k, c, s
    <3>2. Ahead(l, q, i) = rest[j]
      BY <1>11, <2>3 DEF Ahead
    <3>3. Ahead(t, p, n) = p.staged[n - p.pinned]
      BY <3>1 DEF Ahead
    <3> HIDE DEF j, n
    <3>4. Ahead(l, q, i) = Ahead(t, p, n)
      BY <1>9, <3>1, <3>2, <3>3
    <3> QED
      BY <3>4 DEF n
  <2> QED
    BY <2>1, <2>2, <2>3
<1>17. \A i \in 1 .. Len(q.staged) :
         \E j \in 1 .. Len(p.staged) : q.staged[i] = p.staged[j]
  <2> TAKE i \in 1 .. Len(q.staged)
  <2>1. i \in 1 .. Len(p.staged) - b
    BY <1>9, <1>11
  <2>2. q.staged[i] = p.staged[b + i] /\ b + i \in 1 .. Len(p.staged)
    BY <1>1, <1>3, <1>9, <1>11, <2>1
  <2> QED
    BY <2>2
<1>18. /\ Len(h) \in 0 .. Count(p) /\ Count(q) = Count(p) - Len(h)
       /\ Cursor(q) \in Nat /\ Cursor(q) <= Cursor(p)
       /\ cfg.head = 0 => Cursor(q) = Cursor(p)
       /\ q.staged \in Seq(FrameSet)
  <2>1. Cursor(q) \in Nat /\ Cursor(q) <= Cursor(p)
    BY <1>1, <1>2, <1>12
  <2>2. cfg.head = 0 => a = 0
    BY <1>1, <1>2
  <2> QED
    BY <1>9, <1>10, <1>11, <1>12, <1>13, <2>1, <2>2
<1>19. /\ \A i \in 1 .. Len(h) : h[i] = Ahead(t, p, i)
       /\ LastFrame(t, h) = Ahead(t, p, Len(h))
       /\ \A i \in 0 .. Count(q) :
            Ahead(LastFrame(t, h), q, i) = Ahead(t, p, Len(h) + i)
  BY <1>10, <1>14, <1>15, <1>16
<1> QED
  BY <1>10, <1>11, <1>17, <1>18, <1>19 DEF h, q

\* A pump hands over frames in order, and what stays ahead is in order.
LEMMA PumpOnScore ==
  ASSUME cfg \in Configs, NEW p \in PlayerType, NEW t \in FrameSet, OnScore(t, p),
         NEW target \in Nat
  PROVE  /\ InOrder(t, Handed(p, target))
         /\ OnScore(LastFrame(t, Handed(p, target)), Pumped(p, target))
         /\ Count(Pumped(p, target)) = 0 =>
              LastFrame(t, Handed(p, target)) = Ahead(t, p, Count(p))
<1> DEFINE h == Handed(p, target)
           q == Pumped(p, target)
           l == LastFrame(t, h)
           m == Len(h)
<1>1. /\ h \in Seq(FrameSet) /\ Len(h) \in 0 .. Count(p)
      /\ \A i \in 1 .. Len(h) : h[i] = Ahead(t, p, i)
      /\ LastFrame(t, h) = Ahead(t, p, Len(h))
      /\ q.segment = p.segment /\ q.staged \in Seq(FrameSet)
      /\ Count(q) = Count(p) - Len(h)
      /\ Cursor(q) \in Nat /\ Cursor(q) <= Cursor(p)
      /\ cfg.head = 0 => Cursor(q) = Cursor(p)
      /\ \A i \in 0 .. Count(q) :
           Ahead(LastFrame(t, h), q, i) = Ahead(t, p, Len(h) + i)
      /\ \A i \in 1 .. Len(q.staged) :
           \E j \in 1 .. Len(p.staged) : q.staged[i] = p.staged[j]
  BY PumpedAhead
<1>2. Count(p) \in Nat /\ Cursor(p) \in Nat
  BY DEF PlayerType, Count, Cursor
<1> HIDE DEF h, q, l
<1>3. m \in 0 .. Count(p) /\ Count(q) = Count(p) - m /\ Count(q) \in Nat
  BY <1>1, <1>2
<1>4. l = Ahead(t, p, m)
  BY <1>1 DEF l
<1>5. \A i \in 0 .. Count(q) : Ahead(l, q, i) = Ahead(t, p, m + i)
  BY <1>1 DEF l
<1>6. \A i \in 1 .. m : h[i] = Ahead(t, p, i)
  BY <1>1
<1> HIDE DEF m
<1>7. InOrder(t, h)
  <2>1. ASSUME NEW i \in 1 .. m
        PROVE  Scored(h[i]) /\ Linked(IF i = 1 THEN t ELSE h[i - 1], h[i])
    <3>1. i \in 1 .. Count(p) /\ (i # 1 => i - 1 \in 1 .. m) /\ 1 - 1 = 0
      BY <1>2, <1>3
    <3>2. Scored(h[i])
      BY <1>6, <3>1, AheadScored
    <3>3. (IF i = 1 THEN t ELSE h[i - 1]) = Ahead(t, p, i - 1)
      <4>1. CASE i = 1
        BY <3>1, <4>1 DEF Ahead
      <4>2. CASE i # 1
        BY <1>6, <3>1, <4>2
      <4> QED
        BY <4>1, <4>2
    <3>4. Linked(Ahead(t, p, i - 1), Ahead(t, p, i))
      BY <3>1 DEF OnScore
    <3> QED
      BY <1>6, <3>2, <3>3, <3>4
  <2>2. Heard(t)
    BY DEF OnScore
  <2> QED
    BY <2>1, <2>2 DEF InOrder, m
<1>8. ASSUME NEW i \in 1 .. Count(q) PROVE Linked(Ahead(l, q, i - 1), Ahead(l, q, i))
  <2> DEFINE j == m + i
  <2>1. i - 1 \in 0 .. Count(q) /\ i \in 0 .. Count(q) /\ j \in 1 .. Count(p)
        /\ m + (i - 1) = j - 1
    BY <1>2, <1>3
  <2>2. Ahead(l, q, i) = Ahead(t, p, j) /\ Ahead(l, q, i - 1) = Ahead(t, p, j - 1)
    BY <1>5, <2>1
  <2> HIDE DEF j
  <2> QED
    BY <2>1, <2>2 DEF OnScore
<1>9. ASSUME NEW i \in 1 .. Len(q.staged)
      PROVE  q.staged[i].seg = p.segment /\ q.staged[i].n \in 0 .. Length(p.segment) - 1
  <2>1. PICK j \in 1 .. Len(p.staged) : q.staged[i] = p.staged[j]
    BY <1>1
  <2> QED
    BY <2>1 DEF OnScore
<1>10. Ahead(l, q, Count(q)) = Ahead(t, p, Count(p))
  <2>1. Count(q) \in 0 .. Count(q) /\ m + Count(q) = Count(p)
    BY <1>2, <1>3
  <2> QED
    BY <1>5, <2>1
<1>11. AtStart(l, q) \/ UpToCursor(l, q)
  <2>1. CASE AtStart(t, p)
    <3>1. Count(p) = 0 /\ Cursor(p) = 0
      BY <2>1 DEF AtStart
    <3>2. m = 0 /\ Count(q) = 0 /\ Cursor(q) = 0
      <4> DEFINE cp == Count(p)
                 u == Cursor(q)
      <4>1. u \in Nat /\ u <= 0
        BY <1>1, <3>1
      <4>2. m \in Nat /\ m <= cp /\ cp \in Nat /\ cp <= 0
        BY <1>2, <1>3, <3>1
      <4> HIDE DEF cp, u
      <4>3. m = 0 /\ u = 0 /\ m - m = 0
        BY <4>1, <4>2
      <4>4. Count(q) = 0
        BY <1>3, <3>1, <4>3
      <4> QED
        BY <4>3, <4>4 DEF u
    <3>3. l = t
      BY <1>4, <3>2 DEF Ahead
    <3> QED
      BY <1>1, <2>1, <3>2, <3>3 DEF AtStart
  <2>2. CASE UpToCursor(t, p)
    <3> DEFINE z == Ahead(t, p, Count(p))
    <3>1. z.seg = p.segment /\ z.n + 1 >= Cursor(p) /\ (cfg.head = 0 => z.n + 1 = Cursor(p))
      BY <2>2 DEF UpToCursor
    <3>2. z.n \in Nat
      <4>1. Count(p) \in 0 .. Count(p)
        BY <1>2
      <4>2. z \in FrameSet
        BY <4>1, AheadType
      <4> QED
        BY <4>2 DEF FrameSet
    <3>3. z = Ahead(l, q, Count(q))
      BY <1>10
    <3> HIDE DEF z
    <3>4. z.n + 1 >= Cursor(q) /\ (cfg.head = 0 => z.n + 1 = Cursor(q))
      BY <1>1, <1>2, <3>1, <3>2
    <3> QED
      BY <1>1, <3>1, <3>3, <3>4 DEF UpToCursor
  <2> QED
    BY <2>1, <2>2 DEF OnScore
<1>12. Heard(l)
  BY <1>3, <1>4, AheadType
<1>13. OnScore(l, q)
  BY <1>1, <1>8, <1>9, <1>11, <1>12 DEF OnScore
<1>14. Count(q) = 0 => l = Ahead(t, p, Count(p))
  BY <1>10 DEF Ahead
<1> QED
  BY <1>7, <1>13, <1>14 DEF h, q, l
\* One pass of music_update()'s loop keeps the order; if it ends the segment,
\* the last frame handed over is the segment's last one.
LEMMA PassOnScore ==
  ASSUME cfg \in Configs, NEW p \in PlayerType, NEW t \in FrameSet, OnScore(t, p),
         NEW target \in Nat
  PROVE  LET a == Pass(p, target)
             l == LastFrame(t, a.frames)
         IN  /\ InOrder(t, a.frames)
             /\ ~a.over => OnScore(l, a.player)
             /\ a.over => l.seg = p.segment /\ l.n = Length(p.segment) - 1
<1> DEFINE refills == Len(p.staged) < BufferSize \div 2
           r == IF refills THEN Refill(p) ELSE p
           got == IF refills THEN Len(r.staged) - Len(p.staged) ELSE -1
           q == Pumped(r, target)
           h == Handed(r, target)
           over == Exhausted(r, got, q)
           a == Pass(p, target)
           l == LastFrame(t, h)
<1>1. a.player = q /\ a.frames = h /\ a.over = over
  BY DEF Pass
<1> HIDE DEF a
<1>2. Len(p.staged) \in Nat /\ Length(p.segment) \in Nat /\ BufferSize \in Nat
  BY LengthType, MusicAssumption DEF PlayerType
<1>3. refills => Len(p.staged) < BufferSize
  BY <1>2
<1>4. r \in PlayerType /\ OnScore(t, r) /\ r.segment = p.segment
  BY <1>3, RefillType, RefillOnScore
<1>5. ASSUME got = 0 PROVE r = p /\ Cursor(p) >= Length(p.segment)
  <2>1. refills
    BY <1>5
  <2>2. r = Refill(p) /\ Len(r.staged) - Len(p.staged) = 0
    BY <1>5, <2>1
  <2>3. Len(r.staged) \in Nat
    BY <1>4 DEF PlayerType
  <2> HIDE DEF r
  <2>4. Len(r.staged) = Len(p.staged)
    BY <1>2, <2>2, <2>3
  <2> QED
    BY <1>3, <2>1, <2>2, <2>4, RefillOnScore
<1> HIDE DEF r, got, refills
<1>6. /\ InOrder(t, h) /\ OnScore(l, q)
      /\ Count(q) = 0 => l = Ahead(t, r, Count(r))
  BY <1>4, PumpOnScore
<1>7. ASSUME over PROVE l.seg = p.segment /\ l.n = Length(p.segment) - 1
  <2>1. got = 0 /\ q.staged = <<>> /\ q.pinned = 0
    BY <1>7 DEF Exhausted
  <2>2. r = p /\ Cursor(p) >= Length(p.segment)
    BY <1>5, <2>1
  <2>3. Count(q) = 0
    <3> HIDE DEF q
    <3>1. Len(q.staged) = 0
      BY <2>1
    <3> QED
      BY <2>1, <3>1 DEF Count
  <2>4. l = Ahead(t, p, Count(p))
    BY <1>6, <2>2, <2>3
  <2>5. Heard(l) /\ l \in FrameSet
    <3>1. Count(p) \in 0 .. Count(p)
      BY DEF PlayerType, Count
    <3> QED
      BY <2>4, <3>1, AheadType
  <2>6. UpToCursor(t, p) /\ p.segment \in Segments
    BY <1>2, <2>2 DEF OnScore, AtStart
  <2> HIDE DEF l
  <2>7. l.seg = p.segment /\ l.n + 1 >= Cursor(p)
    BY <2>4, <2>6 DEF UpToCursor
  <2>8. Scored(l)
    BY <2>5, <2>6, <2>7, FrameFields DEF Heard, Segments
  <2>9. Cursor(p) \in Nat
    BY DEF PlayerType, Cursor, Count
  <2>10. l.n \in 0 .. Length(p.segment) - 1
    BY <2>7, <2>8 DEF Scored
  <2> QED
    BY <1>2, <2>2, <2>7, <2>9, <2>10
<1>8. /\ InOrder(t, a.frames)
      /\ ~a.over => OnScore(LastFrame(t, a.frames), a.player)
      /\ a.over => /\ LastFrame(t, a.frames).seg = p.segment
                   /\ LastFrame(t, a.frames).n = Length(p.segment) - 1
  BY <1>1, <1>6, <1>7
<1> QED
  BY <1>8 DEF a

-----------------------------------------------------------------------------
(* The score is kept by every step.                                        *)

\* What the state holds after a step, from the values it assigns.
LEMMA ScoreAfter ==
  ASSUME cfg' = cfg, NEW b, NEW s, NEW q,
         before' = b, pushed' = s, player' = q,
         InOrder(b, s), q.segment # "none" => OnScore(LastFrame(b, s), q)
  PROVE  Score'
BY DEF Score, InOrder, OnScore, LastFrame, Heard, Scored, Linked, Follows, Length, Ahead,
       Count, Cursor, AtStart, UpToCursor, Frame, Garbage, Segments

\* The last frame handed over, whatever was handed over since.
LEMMA LastType ==
  ASSUME NEW t \in FrameSet, NEW s \in Seq(FrameSet)
  PROVE  LastFrame(t, s) \in FrameSet
<1>1. ASSUME s # <<>> PROVE s[Len(s)] \in FrameSet
  <2>1. Len(s) \in 1 .. Len(s)
    BY <1>1
  <2> QED
    BY <2>1
<1> QED
  BY <1>1 DEF LastFrame

\* Handing over nothing keeps the order.
LEMMA NothingInOrder ==
  ASSUME NEW t, Heard(t)
  PROVE  InOrder(t, <<>>) /\ LastFrame(t, <<>>) = t
<1>1. Len(<<>>) = 0
  OBVIOUS
<1> QED
  BY <1>1 DEF InOrder, LastFrame

\* The loop may be entered after the end of any segment.
LEMMA LoopEntered ==
  ASSUME cfg \in Configs, HeadsFit, cfg.loop > 0, NEW t \in FrameSet, Heard(t),
         t.seg \in Segments, t.n = Length(t.seg) - 1
  PROVE  Entering("loop") \in PlayerType /\ OnScore(t, Entering("loop"))
<1>1. "loop" \in Segments /\ Length("loop") = cfg.loop
  BY DEF Segments, Length
<1>2. cfg.head <= cfg.loop
  BY DEF HeadsFit
<1> QED
  BY <1>1, <1>2, EnteringType, EnteringOnScore

\* An update keeps the score.
LEMMA ScoreUpdate ==
  ASSUME IInv, HeadsFit, Score, Update
  PROVE  Score'
<1> DEFINE t == LastFrame(before, pushed)
           first == Pass(player, Target)
<1>1. /\ cfg' = cfg /\ cfg \in Configs /\ player \in PlayerType /\ state \in Segments
      /\ player.segment = state /\ before' = t
      /\ pushed \in Seq(FrameSet) /\ before \in FrameSet
  BY DEF IInv, TypeOK, SegmentKept, Update
<1>2. Target \in Nat
  BY TargetType DEF IInv
<1>3. t \in FrameSet /\ Heard(t)
  BY <1>1, LastType, LastHeard DEF Score
<1>4. OnScore(t, player)
  BY <1>1 DEF Score, Segments
<1> HIDE DEF t
<1>5. /\ first.player \in PlayerType /\ first.player.segment = state
      /\ first.frames \in Seq(FrameSet)
  BY <1>1, <1>2, PassType
<1> DEFINE l == LastFrame(t, first.frames)
<1>6. /\ InOrder(t, first.frames)
      /\ ~first.over => OnScore(l, first.player)
      /\ first.over => l.seg = state /\ l.n = Length(state) - 1
  BY <1>1, <1>2, <1>3, <1>4, PassOnScore
<1>7. l \in FrameSet /\ Heard(l)
  <2> HIDE DEF first
  <2> QED
    BY <1>3, <1>5, <1>6, LastType, LastHeard
<1>8. CASE /\ ~first.over
           /\ player' = first.player /\ pushed' = first.frames
  <2> HIDE DEF first
  <2> QED
    BY <1>1, <1>6, <1>8, ScoreAfter
<1>9. CASE first.over /\ cfg.loop > 0 /\ AfterEnd(first)
  <2> DEFINE second == Pass(Entering("loop"), Target)
             frames == first.frames \o second.frames
             k == LastFrame(l, second.frames)
  <2>1. Entering("loop") \in PlayerType /\ OnScore(l, Entering("loop"))
    <3> HIDE DEF l, first
    <3> QED
      BY <1>1, <1>6, <1>7, <1>9, LoopEntered
  <2>2. Entering("loop").segment = "loop"
    BY DEF Entering
  <2>3. second.player \in PlayerType /\ second.frames \in Seq(FrameSet)
    BY <1>1, <1>2, <2>1, PassType
  <2>4. /\ InOrder(l, second.frames)
        /\ ~second.over => OnScore(k, second.player)
        /\ second.over => k.seg = "loop" /\ k.n = Length("loop") - 1
    <3> HIDE DEF l
    <3> QED
      BY <1>1, <1>2, <1>7, <2>1, <2>2, PassOnScore
  <2>5. /\ player' = IF second.over THEN Entering("loop") ELSE second.player
        /\ pushed' = frames
    BY <1>9 DEF AfterEnd
  <2> HIDE DEF first, second
  <2>6. InOrder(t, frames) /\ LastFrame(t, frames) = k
    BY <1>5, <1>6, <2>3, <2>4, Joined
  <2> HIDE DEF l
  <2>7. k \in FrameSet /\ Heard(k)
    BY <1>7, <2>3, <2>4, LastType, LastHeard
  <2> HIDE DEF frames, k
  <2>8. second.over => OnScore(k, Entering("loop"))
    <3>1. "loop" \in Segments
      BY DEF Segments
    <3> QED
      BY <1>1, <1>9, <2>4, <2>7, <3>1, LoopEntered
  <2>9. OnScore(k, player')
    BY <2>4, <2>5, <2>8
  <2> QED
    BY <1>1, <2>5, <2>6, <2>9, ScoreAfter
<1>10. CASE Silence
  <2>1. player' = Entering("none") /\ pushed' = <<>> /\ Entering("none").segment = "none"
    BY <1>10 DEF Silence, Entering
  <2> QED
    BY <1>1, <1>3, <2>1, NothingInOrder, ScoreAfter
<1> QED
  BY <1>8, <1>9, <1>10 DEF Update

\* Every other step keeps the score: a playback begins after silence, and
\* the mixer takes what it was handed.
LEMMA ScoreControl ==
  ASSUME IInv, HeadsFit, Score, Play \/ Stop \/ Pause \/ Resume \/ Render \/ UNCHANGED vars
  PROVE  Score'
<1>1. Garbage \in FrameSet /\ Heard(Garbage)
  BY DEF Garbage, FrameSet, Heard
<1>2. cfg' = cfg /\ cfg \in Configs
  BY DEF IInv, TypeOK, Play, Stop, Pause, Resume, Render, vars
<1>3. CASE Play
  <2>1. First \in Segments /\ Length(First) > 0 /\ cfg.head <= Length(First)
    <3>1. /\ cfg.intro \in Nat /\ cfg.loop \in Nat /\ cfg.head \in Nat
          /\ cfg.intro + cfg.loop > 0
      BY <1>2, ConfigType
    <3>2. CASE cfg.intro > 0
      BY <3>2 DEF First, Segments, Length, HeadsFit
    <3>3. CASE ~(cfg.intro > 0)
      <4>1. First = "loop" /\ Length("loop") = cfg.loop /\ "loop" \in Segments
        BY <3>3 DEF First, Length, Segments
      <4>2. cfg.loop > 0 /\ cfg.head <= cfg.loop
        BY <3>1, <3>3 DEF HeadsFit
      <4> QED
        BY <4>1, <4>2
    <3> QED
      BY <3>2, <3>3
  <2>2. OnScore(Garbage, Entering(First))
    BY <1>1, <1>2, <2>1, EnteringOnScore
  <2>3. before' = Garbage /\ pushed' = <<>> /\ player' = Entering(First)
    BY <1>3 DEF Play
  <2>4. InOrder(Garbage, <<>>) /\ LastFrame(Garbage, <<>>) = Garbage
    BY <1>1, NothingInOrder
  <2>5. OnScore(LastFrame(Garbage, <<>>), Entering(First))
    BY <2>2, <2>4
  <2> QED
    BY <1>2, <2>3, <2>4, <2>5, ScoreAfter
<1>4. CASE Stop
  <2>1. /\ before' = Garbage /\ pushed' = <<>> /\ player' = Entering("none")
        /\ Entering("none").segment = "none"
    BY <1>4 DEF Stop, Silence, Entering
  <2> QED
    BY <1>1, <1>2, <2>1, NothingInOrder, ScoreAfter
<1>5. CASE UNCHANGED <<before, pushed, player>>
  BY <1>2, <1>5, ScoreAfter DEF Score
<1> QED
  BY <1>3, <1>4, <1>5 DEF Pause, Resume, Render, vars

\* A player is created before anything was handed over.
LEMMA InitScore == Init => Score
<1>1. SUFFICES ASSUME Init PROVE Score
  OBVIOUS
<1>2. /\ before = Garbage /\ pushed = <<>> /\ player = Entering("none")
      /\ Entering("none").segment = "none"
  BY <1>1 DEF Init, Entering
<1>3. Heard(Garbage)
  BY DEF Heard
<1> QED
  BY <1>2, <1>3, NothingInOrder DEF Score

\* In order is what the score asks for.
LEMMA ScoreSuffices ==
  ASSUME IInv, HeadsFit, Score, NEW p \in Successions
  PROVE  \/ Follows(p[1], p[2])
         \/ cfg.head > 0 /\ p[2].seg = p[1].seg /\ p[2].n <= p[1].n
<1>1. /\ pushed \in Seq(FrameSet) /\ before \in FrameSet /\ Len(pushed) \in Nat
      /\ InOrder(before, pushed)
  BY DEF IInv, TypeOK, Score
<1>2. PICK i \in 1 .. Len(Delivered) - 1 : p = <<Delivered[i], Delivered[i + 1]>>
  BY DEF Successions
<1>3. \A j \in 1 .. Len(pushed) : pushed[j] # Garbage
  BY <1>1, FrameFields DEF InOrder, Scored, Segments
<1>4. CASE before = Garbage
  <2>1. i \in 1 .. Len(pushed) /\ i + 1 \in 1 .. Len(pushed) /\ i + 1 # 1 /\ (i + 1) - 1 = i
    BY <1>1, <1>2, <1>4 DEF Delivered
  <2>2. p[1] = pushed[i] /\ p[2] = pushed[i + 1]
    BY <1>2, <1>4 DEF Delivered
  <2>3. Linked(pushed[i], pushed[i + 1])
    BY <1>1, <2>1 DEF InOrder
  <2> QED
    BY <1>3, <2>1, <2>2, <2>3 DEF Linked
<1>5. CASE before # Garbage
  <2> DEFINE d == <<before>> \o pushed
  <2>1. d = Delivered
    BY <1>5 DEF Delivered
  <2>2. /\ <<before>> \in Seq(FrameSet) /\ Len(<<before>>) = 1 /\ <<before>>[1] = before
    BY <1>1
  <2>3. /\ Len(d) = 1 + Len(pushed) /\ d[1] = before
        /\ \A j \in 2 .. 1 + Len(pushed) : d[j] = pushed[j - 1]
    <3>1. /\ \A j \in 1 .. Len(<<before>>) : d[j] = <<before>>[j]
          /\ \A j \in Len(<<before>>) + 1 .. Len(<<before>>) + Len(pushed) :
               d[j] = pushed[j - Len(<<before>>)]
          /\ Len(d) = Len(<<before>>) + Len(pushed)
      BY <1>1, <2>2, Concatenated
    <3> HIDE DEF d
    <3> QED
      BY <1>1, <2>2, <3>1
  <2> HIDE DEF d
  <2>4. /\ i \in 1 .. Len(pushed) /\ i + 1 \in 2 .. 1 + Len(pushed) /\ (i + 1) - 1 = i
        /\ i # 1 => i \in 2 .. 1 + Len(pushed) /\ i - 1 \in 1 .. Len(pushed)
    BY <1>1, <1>2, <2>1, <2>3
  <2>5. p[1] = d[i] /\ p[2] = pushed[i]
    BY <1>2, <2>1, <2>3, <2>4
  <2>6. d[i] = IF i = 1 THEN before ELSE pushed[i - 1]
    BY <2>3, <2>4
  <2>7. Linked(d[i], pushed[i])
    BY <1>1, <2>4, <2>6 DEF InOrder
  <2>8. d[i] # Garbage
    BY <1>3, <1>5, <2>4, <2>6
  <2> QED
    BY <2>5, <2>7, <2>8 DEF Linked
<1> QED
  BY <1>4, <1>5
-----------------------------------------------------------------------------
(* The theorems.                                                           *)

\* The types hold throughout, and a paused player can always resume.
THEOREM Invariance == Spec => []IInv
<1>1. IInv /\ [Next]_vars => IInv'
  BY UpdateInv, ControlInv DEF Next
<1> QED
  BY <1>1, InitInv, PTL DEF Spec

\* Neither the streaming buffer nor the mixer channel ever holds more than
\* it has room for, for any configuration (music_player.c:297-333, 413-431).
THEOREM TypeCorrect == Spec => []TypeOK
<1>1. IInv => TypeOK
  BY DEF IInv
<1> QED
  BY <1>1, Invariance, PTL

\* An update that grows the channel leaves it at or below the cap, so it
\* overwrites nothing unplayed, unless it ended a segment on the way.
THEOREM LatencyCapped == Spec => FillCapped
<1>1. IInv /\ [Next]_vars =>
        [Len(channel') > Len(channel) => Len(channel') <= Cap \/ entered']_vars
  BY UpdateInv, ControlInv DEF Next
<1> QED
  BY <1>1, Invariance, PTL DEF Spec, FillCapped
\* What is handed over, and what the player has ahead of it, is in order.
THEOREM ScoreInvariance == Spec => []SInv
<1>1. Init => SInv
  BY InitInv, InitScore DEF SInv
<1>2. SInv /\ [Next]_vars => SInv'
  <2>1. SUFFICES ASSUME SInv, [Next]_vars PROVE SInv'
    OBVIOUS
  <2>2. IInv /\ IInv' /\ (HeadsFit => Score)
    BY <2>1, UpdateInv, ControlInv DEF SInv, Next
  <2>3. ASSUME HeadsFit' PROVE Score'
    <3>1. HeadsFit
      BY <2>1, <2>3 DEF HeadsFit, Next, Update, Play, Stop, Pause, Resume, Render, vars
    <3> QED
      BY <2>1, <2>2, <3>1, ScoreUpdate, ScoreControl DEF Next
  <2> QED
    BY <2>2, <2>3 DEF SInv
<1> QED
  BY <1>1, <1>2, PTL DEF Spec

\* The mixer is given the score: without heads every frame once and in order,
\* the loop after the intro and after itself; with heads that fit, frames may
\* come again but none is left out (music_player.c:256-371, 401-470).
THEOREM ScoreIsKept == Spec => []ScoreKept
<1>1. SInv => ScoreKept
  <2>1. SUFFICES ASSUME SInv PROVE ScoreKept
    OBVIOUS
  <2>2. cfg.head \in Nat /\ cfg.intro \in Nat /\ cfg.loop \in Nat
    BY <2>1, ConfigType DEF SInv, IInv, TypeOK
  <2>3. GapFreeWithoutHeads
    <3>1. SUFFICES ASSUME cfg.head = 0, NEW p \in Successions PROVE Follows(p[1], p[2])
      BY DEF GapFreeWithoutHeads, GapFree
    <3>2. HeadsFit /\ ~(cfg.head > 0)
      BY <2>2, <3>1 DEF HeadsFit
    <3> QED
      BY <2>1, <3>1, <3>2, ScoreSuffices DEF SInv
  <2>4. NoFrameSkipped
    BY <2>1, ScoreSuffices DEF SInv, NoFrameSkipped
  <2> QED
    BY <2>3, <2>4 DEF ScoreKept
<1> QED
  BY <1>1, ScoreInvariance, PTL
=============================================================================
