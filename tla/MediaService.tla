---------------------------- MODULE MediaService ----------------------------
(***************************************************************************)
(* The cartridge's media service: firmware/media/hx421_media.c over the    *)
(* ring arbiter firmware/audio/hx421_stream.c, as hx421_media_fw.c binds   *)
(* them to the SD card, the PSRAM and the FPGA mixer (hx_mixer_seq.v).     *)
(*                                                                         *)
(* The microcontroller runs one loop; `pc' is where its current call of    *)
(* hx421_media_service() is.  The mixer renders at any time, also while an *)
(* offload copies from the SD card.  Positions and sizes count stereo      *)
(* frames, which the firmware's sizes and masks are multiples of.          *)
(***************************************************************************)
EXTENDS Integers, FiniteSets

CONSTANTS
  MaxSlots,     \* HX421_STREAM_MAX
  Base, Ring,   \* per slot: psram_base and ring_size
  Prime,        \* per slot: prime_bytes
  Chunk,        \* most frames one offload copies
  Commands,     \* what the game posts: [op, slot, length, looping, prio, arg]
  MaxCommands,  \* commands one service call takes
  BootSlots     \* slots whose channel the FPGA's own boot leaves running

Slots == 0 .. MaxSlots - 1

ASSUME MediaAssumption ==
  /\ MaxSlots \in Nat /\ Chunk \in Nat \ {0} /\ MaxCommands \in Nat \ {0}
  /\ Base \in [Slots -> Nat] /\ Ring \in [Slots -> Nat] /\ Prime \in [Slots -> Nat]
  /\ \A s \in Slots : Ring[s] >= 2 * Chunk
  /\ \A s, t \in Slots : s < t => Base[s] + Ring[s] <= Base[t]
  /\ BootSlots \subseteq Slots
  /\ Commands \subseteq [op : {"play", "stop", "seek", "gain", "stop all"},
                         slot : Slots, length : Nat, looping : BOOLEAN,
                         prio : 0 .. 3, arg : Nat]

VARIABLES
  pc, polled,   \* the service call: its phase, the commands it has taken
  job,          \* the offload in progress: [slot, run]
  arb,          \* Hx421Stream: the ring arbiter's half of each slot
  slot,         \* the media service's half of each slot
  file,         \* the firmware has the slot's asset open
  mixer,        \* FPGA: each slot's channel pair, [config, pos]
  psram,        \* the frames in the rings
  ahead,        \* history: frames before the channel it has yet to play
  heard         \* history: the frame the channel played last

serviceVars == <<pc, polled, job>>
slotVars == <<arb, slot, file>>
fpgaVars == <<mixer, ahead, heard>>
vars == <<pc, polled, job, arb, slot, file, mixer, psram, ahead, heard>>

Stale == <<-1, 0>>                 \* a cell no offload of this stream filled
Silence == <<-1, 1>>               \* nothing of this stream played yet
Starved == -1                      \* the channel ran past the written frames
NoJob == [slot |-> 0, run |-> 0]

Addresses == UNION {Base[s] .. Base[s] + Ring[s] - 1 : s \in Slots}
CellsOf(s) == Base[s] .. Base[s] + Ring[s] - 1
On(s) == mixer[s].config = "stream"

Init ==
  /\ pc = "poll" /\ polled = 0 /\ job = NoJob
  /\ arb = [s \in Slots |-> [active |-> FALSE, writePos |-> 0, filePos |-> 0,
                             length |-> 0, looping |-> FALSE, primed |-> FALSE,
                             prio |-> 0]]
  /\ slot = [s \in Slots |-> [active |-> FALSE, enabled |-> FALSE]]
  /\ file = [s \in Slots |-> FALSE]
  /\ mixer = [s \in Slots |->
                [config |-> IF s \in BootSlots THEN "boot" ELSE "off", pos |-> 0]]
  /\ psram = [a \in Addresses |-> Stale]
  /\ ahead = [s \in Slots |-> Starved] /\ heard = [s \in Slots |-> Silence]

(***************************************************************************)
(* The mixer.  Both lanes of a pair move together, a frame per DAC tick.   *)
(***************************************************************************)

\* hx_mixer_seq: every active channel pops the frame at its position.
Render ==
  /\ \E s \in Slots : mixer[s].config # "off"
  /\ mixer' = [s \in Slots |->
                 IF mixer[s].config = "off" THEN mixer[s]
                 ELSE [mixer[s] EXCEPT !.pos = (@ + 1) % Ring[s]]]
  /\ ahead' = [s \in Slots |-> IF On(s) /\ ahead[s] > 0 THEN ahead[s] - 1 ELSE Starved]
  /\ heard' = [s \in Slots |-> IF On(s) /\ ahead[s] > 0
                               THEN psram[Base[s] + mixer[s].pos] ELSE Silence]
  /\ UNCHANGED <<serviceVars, slotVars, psram>>

\* fw_mixer_ctl(.., 1, ..): both lanes are configured, then the whole mixer
\* is told to prime, which rewinds EVERY active channel to its ring's start
\* and takes its first frame.  A prime that meets a busy mixer is lost
\* (hx_mixer_seq.v looks at `start' in S_IDLE only).
ChannelOn(s) ==
  \E accepted \in BOOLEAN :
    LET playing == {t \in Slots : t = s \/ On(t)}
        rewound == IF accepted THEN playing ELSE {}
        resumed == IF accepted \/ On(s) THEN {} ELSE {s}
        left(t, pos) == IF pos < arb[t].writePos THEN arb[t].writePos - pos
                        ELSE Starved
    IN  /\ mixer' = [t \in Slots |->
                       [config |-> IF t = s THEN "stream" ELSE mixer[t].config,
                        pos |-> IF accepted /\ (t = s \/ mixer[t].config # "off")
                                THEN 1 ELSE mixer[t].pos]]
        /\ ahead' = [t \in Slots |->
                       IF t \in rewound /\ arb[t].writePos > 0
                       THEN arb[t].writePos - 1
                       ELSE IF t \in rewound THEN Starved
                       ELSE IF t \in resumed THEN left(t, mixer[t].pos)
                       ELSE ahead[t]]
        /\ heard' = [t \in Slots |->
                       IF t \in rewound \cup resumed THEN Silence ELSE heard[t]]

\* fw_mixer_ctl(.., 0, ..) on the slots of T.
ChannelsOff(T) ==
  /\ mixer' = [s \in Slots |-> IF s \in T THEN [mixer[s] EXCEPT !.config = "off"]
                               ELSE mixer[s]]
  /\ ahead' = [s \in Slots |-> IF s \in T THEN Starved ELSE ahead[s]]
  /\ heard' = [s \in Slots |-> IF s \in T THEN Silence ELSE heard[s]]

(***************************************************************************)
(* Commands: hx421_media_apply().                                          *)
(***************************************************************************)

\* slot_stop() on the slots of T.
Stop(T) ==
  LET stopped == {s \in T : slot[s].active} IN
  /\ arb' = [s \in Slots |-> IF s \in stopped THEN [arb[s] EXCEPT !.active = FALSE]
                             ELSE arb[s]]
  /\ slot' = [s \in Slots |-> IF s \in stopped
                              THEN [active |-> FALSE, enabled |-> FALSE] ELSE slot[s]]
  /\ file' = [s \in Slots |-> file[s] /\ s \notin stopped]
  /\ ChannelsOff({s \in stopped : slot[s].enabled})
  /\ UNCHANGED psram

Emptied(s) == [a \in Addresses |-> IF a \in CellsOf(s) THEN Stale ELSE psram[a]]

\* cmd_play(): whatever played is stopped; an asset that cannot be opened, or
\* has no whole frame, leaves the slot stopped.
Play(c) ==
  LET s == c.slot IN
  IF c.length = 0 THEN Stop({s})
  ELSE /\ arb' = [arb EXCEPT ![s] =
                    [active |-> TRUE, writePos |-> 0, filePos |-> 0,
                     length |-> c.length, looping |-> c.looping,
                     primed |-> FALSE, prio |-> c.prio]]
       /\ slot' = [slot EXCEPT ![s] = [active |-> TRUE, enabled |-> FALSE]]
       /\ file' = [file EXCEPT ![s] = TRUE]
       /\ ChannelsOff({t \in {s} : slot[s].enabled})
       /\ psram' = Emptied(s)

\* Bug: the channel is not muted.
SeekSounding(c) ==
  LET s == c.slot IN
  /\ slot[s].active
  /\ arb' = [arb EXCEPT ![s].filePos = IF c.arg >= arb[s].length THEN 0 ELSE c.arg,
                        ![s].writePos = 0, ![s].primed = FALSE]
  /\ slot' = [slot EXCEPT ![s].enabled = FALSE]
  /\ psram' = Emptied(s)
  /\ UNCHANGED <<file, fpgaVars>>

\* cmd_seek(): the ring starts over from the new point, muted.
Seek(c) ==
  LET s == c.slot IN
  /\ slot[s].active
  /\ arb' = [arb EXCEPT ![s].filePos = IF c.arg >= arb[s].length THEN 0 ELSE c.arg,
                        ![s].writePos = 0, ![s].primed = FALSE]
  /\ slot' = [slot EXCEPT ![s].enabled = FALSE]
  /\ ChannelsOff({t \in {s} : slot[s].enabled})
  /\ psram' = Emptied(s)
  /\ UNCHANGED file

\* cmd_gain() of a sounding slot configures its channels anew, prime included.
Gain(c) ==
  /\ slot[c.slot].enabled
  /\ ChannelOn(c.slot)
  /\ UNCHANGED <<slotVars, psram>>

\* One round of the command loop.  A seek or a gain change that finds no
\* channel to act on is not worth a step.
Command(c) ==
  /\ pc = "poll" /\ polled < MaxCommands
  /\ polled' = polled + 1
  /\ \/ c.op = "play" /\ Play(c)
     \/ c.op = "stop" /\ Stop({c.slot})
     \/ c.op = "stop all" /\ Stop(Slots)
     \/ c.op = "seek" /\ Seek(c)
     \/ c.op = "gain" /\ Gain(c)
  /\ UNCHANGED <<pc, job>>

NoMoreCommands ==
  /\ pc = "poll"
  /\ pc' = "enable" /\ polled' = 0
  /\ UNCHANGED <<job, slotVars, fpgaVars, psram>>

(***************************************************************************)
(* Channels whose rings have primed are enabled, lowest slot first.        *)
(***************************************************************************)
Waiting == {s \in Slots : /\ slot[s].active /\ ~slot[s].enabled
                          /\ arb[s].active /\ arb[s].primed}

Enable ==
  /\ pc = "enable"
  /\ \E s \in Waiting :
       /\ \A t \in Waiting : s <= t
       /\ slot' = [slot EXCEPT ![s].enabled = TRUE]
       /\ ChannelOn(s)
  /\ UNCHANGED <<serviceVars, arb, file, psram>>

AllEnabled ==
  /\ pc = "enable" /\ Waiting = {}
  /\ pc' = "refill"
  /\ UNCHANGED <<polled, job, slotVars, fpgaVars, psram>>

(***************************************************************************)
(* hx421_stream_service(): one offload for the most urgent ring.           *)
(***************************************************************************)

\* What the channel has not consumed, as the two positions have it.
Fill(s) == (arb[s].writePos + Ring[s] - mixer[s].pos) % Ring[s]

\* Bug: the ring may be filled up to the read position.
TargetAll(s) == Ring[s]

\* A chunk short of the ring, so that a full ring never looks empty.
Target(s) == Ring[s] - Chunk

HasData(s) == arb[s].looping \/ arb[s].filePos < arb[s].length
Hungry == {s \in Slots : arb[s].active /\ HasData(s) /\ Fill(s) < Target(s)}
Score(s) == (Target(s) - Fill(s)) * (arb[s].prio + 1)
MostUrgent(s) ==
  /\ s \in Hungry
  /\ \A t \in Hungry : Score(t) < Score(s) \/ (Score(t) = Score(s) /\ s <= t)

Smaller(m, n) == IF m <= n THEN m ELSE n

\* What the ring, up to its target, and the source have for one offload.
Wanted(s) == Smaller(Smaller(Chunk, Target(s) - Fill(s)),
                     arb[s].length - arb[s].filePos)

\* Bug: a run goes on past the end of the ring.
RunPastRing(s) == Wanted(s)

\* A run ends at the ring's end and at the source's.
Run(s) == Smaller(Wanted(s), Ring[s] - arb[s].writePos)

StartOffload ==
  /\ pc = "refill"
  /\ \E s \in Slots : MostUrgent(s) /\ job' = [slot |-> s, run |-> Run(s)]
  /\ pc' = "offload"
  /\ UNCHANGED <<polled, slotVars, fpgaVars, psram>>

NothingToRefill ==
  /\ pc = "refill" /\ Hungry = {}
  /\ pc' = "poll"
  /\ UNCHANGED <<polled, job, slotVars, fpgaVars, psram>>

\* The cells the offload writes.
Written == LET at == Base[job.slot] + arb[job.slot].writePos
           IN  at .. at + job.run - 1

\* The head that must be in the ring before the channel may start.
Head(s) == IF Prime[s] = 0 \/ Prime[s] > Target(s) THEN Target(s) ELSE Prime[s]

\* The write position n frames on.
NextWrite(s, n) ==
  LET wp == arb[s].writePos + n IN IF wp >= Ring[s] THEN wp - Ring[s] ELSE wp

\* The bookkeeping of n frames copied; the fill that decides whether the
\* head is in is read anew.
After(s, n) ==
  LET wp == NextWrite(s, n)
      fp == arb[s].filePos + n
  IN  [arb[s] EXCEPT
         !.writePos = wp,
         !.filePos = IF fp >= arb[s].length /\ arb[s].looping THEN 0 ELSE fp,
         !.primed = @ \/ (wp + Ring[s] - mixer[s].pos) % Ring[s] >= Head(s)]

OffloadDone ==
  LET s == job.slot IN
  /\ pc = "offload"
  /\ pc' = "poll" /\ job' = NoJob
  /\ psram' = [a \in Addresses |->
                 IF a \in Written
                 THEN <<s, arb[s].filePos + a - Base[s] - arb[s].writePos>>
                 ELSE psram[a]]
  /\ arb' = [arb EXCEPT ![s] = After(s, job.run)]
  /\ ahead' = [ahead EXCEPT ![s] = IF @ = Starved THEN Starved ELSE @ + job.run]
  /\ UNCHANGED <<polled, slot, file, mixer, heard>>

\* A seek or read error; what it wrote is anything, and is written again.
OffloadFailed ==
  /\ pc = "offload"
  /\ pc' = "poll" /\ job' = NoJob
  /\ psram' = [a \in Addresses |-> IF a \in Written THEN Stale ELSE psram[a]]
  /\ UNCHANGED <<polled, slotVars, fpgaVars>>

Proceed ==
  \/ NoMoreCommands \/ Enable \/ AllEnabled
  \/ StartOffload \/ NothingToRefill \/ OffloadDone \/ OffloadFailed

Next == Render \/ Proceed \/ \E c \in Commands : Command(c)

\* The loop and the DAC never stop, and an SD card that fails at times does
\* not fail for ever.
Fairness == WF_vars(Render) /\ WF_vars(Proceed) /\ SF_vars(OffloadDone)

Spec == Init /\ [][Next]_vars /\ Fairness
-----------------------------------------------------------------------------
(***************************************************************************)
(* Properties.                                                             *)
(***************************************************************************)
CellType == ({-1} \X {0, 1}) \cup (Slots \X Nat)

\* Types, and the ranges of the positions.
TypeOK ==
  /\ pc \in {"poll", "enable", "refill", "offload"}
  /\ polled \in 0 .. MaxCommands
  /\ job \in [slot : Nat, run : 0 .. Chunk]
  /\ arb \in [Slots -> [active : BOOLEAN, writePos : Nat, filePos : Nat,
                        length : Nat, looping : BOOLEAN, primed : BOOLEAN,
                        prio : 0 .. 3]]
  /\ \A s \in Slots : /\ arb[s].writePos < Ring[s]
                      /\ arb[s].filePos <= arb[s].length
  /\ slot \in [Slots -> [active : BOOLEAN, enabled : BOOLEAN]]
  /\ file \in [Slots -> BOOLEAN]
  /\ mixer \in [Slots -> [config : {"off", "boot", "stream"}, pos : Nat]]
  /\ \A s \in Slots : mixer[s].pos < Ring[s]
  /\ psram \in [Addresses -> CellType]
  /\ ahead \in [Slots -> Nat \cup {Starved}]
  /\ heard \in [Slots -> CellType]

\* Service, arbiter, firmware and FPGA agree about every slot, whatever
\* commands came in which order: a slot has its asset open exactly while it
\* is active in both tables, sounds exactly while the service says so, and
\* sounds only once its ring has primed.
SlotsAgree ==
  \A s \in Slots :
    /\ slot[s].active = arb[s].active /\ slot[s].active = file[s]
    /\ slot[s].enabled = On(s)
    /\ slot[s].enabled => slot[s].active /\ arb[s].primed

\* Behind its write position a ring holds the frames of its own source that
\* end at the file position, in order and without a hole, across the ends of
\* ring and source: no offload strays into another slot's ring.
RingHoldsStream ==
  \A s \in Slots : arb[s].active =>
    \A k \in 1 .. Cardinality({a \in CellsOf(s) : psram[a] # Stale}) :
      psram[Base[s] + ((arb[s].writePos - k) % Ring[s])]
        = <<s, (arb[s].filePos - k) % arb[s].length>>

\* The run the offload was started with fits ring and source still.
JobFits ==
  pc = "offload" =>
    /\ job.slot \in Slots
    /\ job.run <= Ring[job.slot] - arb[job.slot].writePos
    /\ job.run <= arb[job.slot].length - arb[job.slot].filePos

\* The inductive invariant.
IInv == TypeOK /\ SlotsAgree /\ JobFits

\* "DATA INTEGRITY - the byte sequence the mixer reads out equals the source
\* WAV data in order, including looping and ring wrap" (hx421_stream_test.c):
\* from one rewind of a channel to the next, and until it starves, each frame
\* it plays is the successor of the one before.
PlaysInOrder ==
  [][\A s \in Slots :
       /\ heard[s] # Silence /\ heard'[s] # Silence
       /\ mixer'[s].pos # mixer[s].pos
       => heard'[s] = <<s, (heard[s][2] + 1) % arb[s].length>>]_vars

\* A gain change is live (hx421_media.h, HX421_MEDIA_GAIN): what plays goes on.
GainIsLive ==
  [][\A c \in Commands : c.op = "gain" /\ Command(c) =>
       \A s \in Slots : mixer'[s].pos = mixer[s].pos]_vars

\* The game leaves slot s alone.
CommandTo(s) == \E c \in Commands : /\ c.slot = s \/ c.op = "stop all"
                                    /\ Command(c)

\* A stream that was started or sought primes (hx421_media_test.c, "music did
\* not re-prime after SEEK").
StreamPrimes ==
  \A s \in Slots : <>[][~CommandTo(s)]_vars => []<>(arb[s].active => arb[s].primed)
=============================================================================
