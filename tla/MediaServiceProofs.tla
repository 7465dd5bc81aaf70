------------------------- MODULE MediaServiceProofs -------------------------
(***************************************************************************)
(* Proofs about the media service, for any number of slots, any ring and   *)
(* chunk sizes and any commands.                                           *)
(***************************************************************************)
EXTENDS MediaService, FiniteSetTheorems, TLAPS

-----------------------------------------------------------------------------
(* Types.                                                                  *)

ArbType == [active : BOOLEAN, writePos : Nat, filePos : Nat, length : Nat,
            looping : BOOLEAN, primed : BOOLEAN, prio : 0 .. 3]
SlotType == [active : BOOLEAN, enabled : BOOLEAN]
MixerType == [config : {"off", "boot", "stream"}, pos : Nat]

\* The types and ranges of the slots' tables, and of what the FPGA keeps.
TablesOK ==
  /\ arb \in [Slots -> ArbType]
  /\ \A s \in Slots : arb[s].writePos < Ring[s] /\ arb[s].filePos <= arb[s].length
  /\ slot \in [Slots -> SlotType]
  /\ file \in [Slots -> BOOLEAN]
FpgaOK ==
  /\ mixer \in [Slots -> MixerType]
  /\ \A s \in Slots : mixer[s].pos < Ring[s]
  /\ ahead \in [Slots -> Nat \cup {Starved}]
  /\ heard \in [Slots -> CellType]
PsramOK == psram \in [Addresses -> CellType]
ServiceOK ==
  /\ pc \in {"poll", "enable", "refill", "offload"}
  /\ polled \in 0 .. MaxCommands
  /\ job \in [slot : Nat, run : 0 .. Chunk]

\* The invariant consists of these parts.
LEMMA Parts ==
  IInv <=> ServiceOK /\ TablesOK /\ FpgaOK /\ PsramOK /\ SlotsAgree /\ JobFits
BY DEF IInv, TypeOK, ServiceOK, TablesOK, FpgaOK, PsramOK, ArbType, SlotType, MixerType

\* The same after a step.
LEMMA PartsNext ==
  ASSUME ServiceOK', TablesOK', FpgaOK', PsramOK', SlotsAgree', JobFits'
  PROVE  IInv'
BY DEF IInv, TypeOK, ServiceOK, TablesOK, FpgaOK, PsramOK, ArbType, SlotType, MixerType

\* The marks in a ring are cells, and rings have room for two chunks.
LEMMA Sizes ==
  /\ Stale \in CellType /\ Silence \in CellType
  /\ \A s \in Slots : Ring[s] \in Nat /\ Ring[s] >= 2 /\ Base[s] \in Nat
  /\ Chunk \in Nat /\ Chunk > 0 /\ MaxCommands \in Nat /\ MaxCommands > 0
  /\ MaxSlots \in Nat
<1>1. Stale \in {-1} \X {0, 1} /\ Silence \in {-1} \X {0, 1}
  BY DEF Stale, Silence
<1>2. Stale \in CellType /\ Silence \in CellType
  BY <1>1 DEF CellType
<1>3. ASSUME NEW s \in Slots
      PROVE  Ring[s] \in Nat /\ Ring[s] >= 2 /\ Base[s] \in Nat
  <2>1. Ring \in [Slots -> Nat] /\ Base \in [Slots -> Nat] /\ Ring[s] >= 2 * Chunk
        /\ Chunk \in Nat \ {0}
    BY MediaAssumption, Zenon
  <2> QED
    BY <2>1
<1>4. MaxSlots \in Nat /\ Chunk \in Nat \ {0} /\ MaxCommands \in Nat \ {0}
  BY MediaAssumption, Zenon
<1>5. Chunk > 0 /\ MaxCommands > 0
  BY <1>4
<1> QED
  BY <1>2, <1>3, <1>4, <1>5

\* The service starts in its invariant.
LEMMA InitInv == Init => IInv
<1> SUFFICES ASSUME Init PROVE IInv
  OBVIOUS
<1>1. ServiceOK /\ JobFits
  BY Sizes DEF Init, ServiceOK, JobFits, NoJob
<1>2. TablesOK
  BY Sizes DEF Init, TablesOK, ArbType, SlotType
<1>3. FpgaOK
  BY Sizes DEF Init, FpgaOK, MixerType, Starved
<1>4. PsramOK
  BY Sizes DEF Init, PsramOK
<1>5. SlotsAgree
  BY DEF Init, SlotsAgree, On
<1> QED
  BY <1>1, <1>2, <1>3, <1>4, <1>5, Parts

-----------------------------------------------------------------------------
(* What the mixer's operations do.                                         *)

\* A tick of the DAC moves positions within their rings and configures nothing.
LEMMA RenderFpga ==
  ASSUME FpgaOK, PsramOK, Render
  PROVE  FpgaOK' /\ \A s \in Slots : mixer'[s].config = mixer[s].config
<1>1. ASSUME NEW s \in Slots
      PROVE  /\ mixer'[s] \in MixerType /\ mixer'[s].pos < Ring[s]
             /\ mixer'[s].config = mixer[s].config
             /\ ahead'[s] \in Nat \cup {Starved}
             /\ heard'[s] \in CellType
  <2>1. mixer[s] \in MixerType /\ mixer[s].pos \in Nat /\ mixer[s].pos < Ring[s]
    BY DEF FpgaOK, MixerType
  <2>2. (mixer[s].pos + 1) % Ring[s] \in Nat /\ (mixer[s].pos + 1) % Ring[s] < Ring[s]
    BY <2>1, Sizes
  <2>3. mixer'[s] = IF mixer[s].config = "off" THEN mixer[s]
                    ELSE [mixer[s] EXCEPT !.pos = (@ + 1) % Ring[s]]
    BY DEF Render
  <2>4. Base[s] + mixer[s].pos \in Addresses
    BY <2>1, Sizes DEF Addresses
  <2>5. ahead[s] \in Nat \cup {Starved} /\ heard[s] \in CellType
    BY DEF FpgaOK
  <2>6. ahead'[s] = (IF On(s) /\ ahead[s] > 0 THEN ahead[s] - 1 ELSE Starved)
        /\ heard'[s] = (IF On(s) /\ ahead[s] > 0
                        THEN psram[Base[s] + mixer[s].pos] ELSE Silence)
    BY DEF Render
  <2>7. psram[Base[s] + mixer[s].pos] \in CellType
    BY <2>4 DEF PsramOK
  <2>8. mixer'[s] \in MixerType /\ mixer'[s].pos < Ring[s]
        /\ mixer'[s].config = mixer[s].config
    BY <2>1, <2>2, <2>3 DEF MixerType
  <2>9. ahead'[s] \in Nat \cup {Starved}
    BY <2>5, <2>6 DEF Starved
  <2> QED
    BY <2>6, <2>7, <2>8, <2>9, Sizes
<1>2. /\ mixer' = [s \in Slots |-> mixer'[s]]
      /\ ahead' = [s \in Slots |-> ahead'[s]]
      /\ heard' = [s \in Slots |-> heard'[s]]
  BY DEF Render
<1> QED
  BY <1>1, <1>2 DEF FpgaOK

\* Configuring a pair switches it to its stream, and no other pair.
LEMMA ChannelOnFpga ==
  ASSUME TablesOK, FpgaOK, NEW s \in Slots, ChannelOn(s)
  PROVE  /\ FpgaOK'
         /\ \A t \in Slots : mixer'[t].config = "stream" <=> t = s \/ On(t)
<1>1. PICK accepted \in BOOLEAN :
        /\ mixer' = [t \in Slots |->
                       [config |-> IF t = s THEN "stream" ELSE mixer[t].config,
                        pos |-> IF accepted /\ (t = s \/ mixer[t].config # "off")
                                THEN 1 ELSE mixer[t].pos]]
        /\ ahead' \in [Slots -> Nat \cup {Starved}]
        /\ heard' \in [Slots -> CellType]
  <2>1. PICK accepted \in BOOLEAN :
          LET playing == {t \in Slots : t = s \/ On(t)}
              rewound == IF accepted THEN playing ELSE {}
              resumed == IF accepted \/ On(s) THEN {} ELSE {s}
              left(t, pos) == IF pos < arb[t].writePos THEN arb[t].writePos - pos
                              ELSE Starved
          IN  /\ mixer' = [t \in Slots |->
                             [config |-> IF t = s THEN "stream" ELSE mixer[t].config,
                              pos |-> IF accepted /\ (t = s \/ mixer[t].config # "off")
                                      THEN 1 ELSE mixer[t].pos]]
              /\ ahead' = [t \in Slots |->
                             IF t \in rewound /\ arb[t].writePos > 0
                             THEN arb[t].writePos - 1
                             ELSE IF t \in rewound THEN Starved
                             ELSE IF t \in resumed THEN left(t, mixer[t].pos)
                             ELSE ahead[t]]
              /\ heard' = [t \in Slots |->
                             IF t \in rewound \cup resumed THEN Silence ELSE heard[t]]
    BY DEF ChannelOn
  <2>2. \A t \in Slots : /\ arb[t].writePos \in Nat /\ mixer[t].pos \in Nat
                         /\ ahead[t] \in Nat \cup {Starved} /\ heard[t] \in CellType
    BY DEF TablesOK, FpgaOK, ArbType, MixerType
  <2>3. ahead' \in [Slots -> Nat \cup {Starved}]
    BY <2>1, <2>2
  <2>4. heard' \in [Slots -> CellType]
    BY <2>1, <2>2, Sizes
  <2> QED
    BY <2>1, <2>3, <2>4
<1>2. \A t \in Slots : /\ mixer[t].config \in {"off", "boot", "stream"}
                       /\ mixer[t].pos \in Nat /\ mixer[t].pos < Ring[t]
  BY DEF FpgaOK, MixerType
<1>3. mixer' \in [Slots -> MixerType] /\ \A t \in Slots : mixer'[t].pos < Ring[t]
  BY <1>1, <1>2, Sizes DEF MixerType
<1>4. \A t \in Slots : mixer'[t].config = "stream" <=> t = s \/ On(t)
  BY <1>1 DEF On
<1> QED
  BY <1>1, <1>3, <1>4 DEF FpgaOK

\* Muting pairs switches those off, and no others.
LEMMA ChannelsOffFpga ==
  ASSUME FpgaOK, NEW T \in SUBSET Slots, ChannelsOff(T)
  PROVE  /\ FpgaOK'
         /\ \A s \in Slots : mixer'[s].config = "stream" <=> On(s) /\ s \notin T
<1>1. \A s \in Slots : /\ mixer[s] \in MixerType /\ mixer[s].pos < Ring[s]
                       /\ ahead[s] \in Nat \cup {Starved} /\ heard[s] \in CellType
  BY DEF FpgaOK
<1>2. \A s \in Slots :
        mixer'[s] = IF s \in T THEN [mixer[s] EXCEPT !.config = "off"] ELSE mixer[s]
  BY DEF ChannelsOff
<1>3. \A s \in Slots : /\ mixer'[s] \in MixerType /\ mixer'[s].pos < Ring[s]
                       /\ mixer'[s].config = "stream" <=> On(s) /\ s \notin T
  BY <1>1, <1>2 DEF MixerType, On
<1>4. mixer' \in [Slots -> MixerType]
  BY <1>3 DEF ChannelsOff
<1>5. ahead' \in [Slots -> Nat \cup {Starved}] /\ heard' \in [Slots -> CellType]
  BY <1>1, Sizes DEF ChannelsOff
<1> QED
  BY <1>3, <1>4, <1>5 DEF FpgaOK

-----------------------------------------------------------------------------
(* One lemma per step of the service.                                      *)

\* The mixer's ticks keep the invariant.
LEMMA RenderInv ==
  ASSUME IInv, Render PROVE IInv'
<1>1. ServiceOK /\ TablesOK /\ FpgaOK /\ PsramOK /\ SlotsAgree /\ JobFits
  BY Parts
<1>2. UNCHANGED <<pc, polled, job, arb, slot, file, psram>>
  BY DEF Render, serviceVars, slotVars
<1>3. FpgaOK' /\ \A s \in Slots : mixer'[s].config = mixer[s].config
  BY <1>1, RenderFpga
<1>4. SlotsAgree'
  BY <1>1, <1>2, <1>3 DEF SlotsAgree, On
<1>5. ServiceOK' /\ TablesOK' /\ PsramOK' /\ JobFits'
  BY <1>1, <1>2 DEF ServiceOK, TablesOK, PsramOK, JobFits
<1> QED
  BY <1>3, <1>4, <1>5, PartsNext

\* Stopping slots keeps the invariant: each is stopped everywhere.
LEMMA StopInv ==
  ASSUME IInv, NEW T \in SUBSET Slots, Stop(T)
  PROVE  TablesOK' /\ FpgaOK' /\ PsramOK' /\ SlotsAgree'
<1> DEFINE stopped == {s \in T : slot[s].active}
           muted == {s \in stopped : slot[s].enabled}
<1>1. TablesOK /\ FpgaOK /\ PsramOK /\ SlotsAgree
  BY Parts
<1>2. /\ arb' = [s \in Slots |-> IF s \in stopped THEN [arb[s] EXCEPT !.active = FALSE]
                                 ELSE arb[s]]
      /\ slot' = [s \in Slots |-> IF s \in stopped
                                  THEN [active |-> FALSE, enabled |-> FALSE]
                                  ELSE slot[s]]
      /\ file' = [s \in Slots |-> file[s] /\ s \notin stopped]
      /\ ChannelsOff(muted) /\ UNCHANGED psram
  BY DEF Stop
<1>3. /\ FpgaOK'
      /\ \A s \in Slots : mixer'[s].config = "stream" <=> On(s) /\ s \notin muted
  BY <1>1, <1>2, ChannelsOffFpga
<1>4. ASSUME NEW s \in Slots
      PROVE  /\ arb'[s] \in ArbType /\ arb'[s].writePos < Ring[s]
             /\ arb'[s].filePos <= arb'[s].length
             /\ slot'[s] \in SlotType
             /\ slot'[s].active = (slot[s].active /\ s \notin stopped)
             /\ slot'[s].enabled = (slot[s].enabled /\ s \notin stopped)
             /\ arb'[s].active = (arb[s].active /\ s \notin stopped)
             /\ arb'[s].primed = arb[s].primed
  <2>1. arb[s] \in ArbType /\ slot[s] \in SlotType
        /\ arb[s].writePos < Ring[s] /\ arb[s].filePos <= arb[s].length
    BY <1>1 DEF TablesOK
  <2>2. CASE s \in stopped
    BY <1>2, <2>1, <2>2 DEF ArbType, SlotType
  <2>3. CASE s \notin stopped
    <3>1. arb'[s] = arb[s] /\ slot'[s] = slot[s]
      BY <1>2, <2>3
    <3> QED
      BY <2>1, <2>3, <3>1 DEF ArbType, SlotType
  <2> QED
    BY <2>2, <2>3
<1>5. TablesOK'
  <2>1. /\ arb' = [s \in Slots |-> arb'[s]] /\ slot' = [s \in Slots |-> slot'[s]]
        /\ file' \in [Slots -> BOOLEAN]
    BY <1>2
  <2> QED
    BY <2>1, <1>4 DEF TablesOK
<1>6. SlotsAgree'
  <2> SUFFICES ASSUME NEW s \in Slots
               PROVE  /\ slot'[s].active = arb'[s].active
                      /\ slot'[s].active = file'[s]
                      /\ slot'[s].enabled = (mixer'[s].config = "stream")
                      /\ slot'[s].enabled => slot'[s].active /\ arb'[s].primed
    BY DEF SlotsAgree, On
  <2>1. /\ slot[s].active = arb[s].active /\ slot[s].active = file[s]
        /\ slot[s].enabled = On(s)
        /\ slot[s].enabled => slot[s].active /\ arb[s].primed
    BY <1>1 DEF SlotsAgree
  <2>2. file'[s] = (file[s] /\ s \notin stopped)
    BY <1>2
  <2>3. s \in muted <=> s \in stopped /\ slot[s].enabled
    OBVIOUS
  <2>4. (mixer'[s].config = "stream") = (On(s) /\ s \notin muted)
    BY <1>3
  <2> HIDE DEF stopped, muted
  <2>5. /\ slot'[s].active = (slot[s].active /\ s \notin stopped)
        /\ slot'[s].enabled = (slot[s].enabled /\ s \notin stopped)
        /\ arb'[s].active = (arb[s].active /\ s \notin stopped)
        /\ arb'[s].primed = arb[s].primed
    BY <1>4
  <2>6. slot'[s].active = arb'[s].active /\ slot'[s].active = file'[s]
    BY <2>1, <2>2, <2>5
  <2>7. slot'[s].enabled = (mixer'[s].config = "stream")
    BY <2>1, <2>3, <2>4, <2>5
  <2> QED
    BY <2>1, <2>5, <2>6, <2>7
<1> QED
  BY <1>1, <1>2, <1>3, <1>5, <1>6 DEF PsramOK

\* Emptying a ring leaves cells in it.
LEMMA EmptiedOK ==
  ASSUME PsramOK, NEW s \in Slots, psram' = Emptied(s) PROVE PsramOK'
BY Sizes DEF PsramOK, Emptied

\* A command is one of the instance's, in the documented ranges.
LEMMA CommandType ==
  ASSUME NEW c \in Commands
  PROVE  c.slot \in Slots /\ c.length \in Nat /\ c.looping \in BOOLEAN
         /\ c.prio \in 0 .. 3 /\ c.arg \in Nat
<1>1. c \in [op : {"play", "stop", "seek", "gain", "stop all"},
            slot : Slots, length : Nat, looping : BOOLEAN,
            prio : 0 .. 3, arg : Nat]
  BY MediaAssumption, Zenon
<1> QED
  BY <1>1

\* The two entries of one slot are written, those of the others are not.
LEMMA RestartInv ==
  ASSUME IInv, NEW s \in Slots, NEW a \in ArbType, NEW e \in SlotType,
         a.writePos = 0, a.filePos <= a.length, a.active = e.active, e.active,
         ~e.enabled,
         arb' = [arb EXCEPT ![s] = a], slot' = [slot EXCEPT ![s] = e],
         file' = [file EXCEPT ![s] = TRUE],
         ChannelsOff({t \in {s} : slot[s].enabled}), psram' = Emptied(s)
  PROVE  TablesOK' /\ FpgaOK' /\ PsramOK' /\ SlotsAgree'
<1> DEFINE muted == {t \in {s} : slot[s].enabled}
<1>1. TablesOK /\ FpgaOK /\ PsramOK /\ SlotsAgree
  BY Parts
<1>2. /\ FpgaOK'
      /\ \A t \in Slots : mixer'[t].config = "stream" <=> On(t) /\ t \notin muted
  <2>1. muted \in SUBSET Slots
    OBVIOUS
  <2> QED
    BY <1>1, <2>1, ChannelsOffFpga
<1>3. /\ arb'[s] = a /\ slot'[s] = e /\ file'[s] = TRUE
      /\ \A t \in Slots : t # s => /\ arb'[t] = arb[t] /\ slot'[t] = slot[t]
                                  /\ file'[t] = file[t]
      /\ arb' \in [Slots -> ArbType] /\ slot' \in [Slots -> SlotType]
      /\ file' \in [Slots -> BOOLEAN]
  BY <1>1 DEF TablesOK
<1>4. TablesOK'
  <2>1. \A t \in Slots : arb'[t].writePos < Ring[t] /\ arb'[t].filePos <= arb'[t].length
    BY <1>1, <1>3, Sizes DEF TablesOK
  <2> QED
    BY <1>3, <2>1 DEF TablesOK
<1>5. SlotsAgree'
  <2> SUFFICES ASSUME NEW t \in Slots
               PROVE  /\ slot'[t].active = arb'[t].active
                      /\ slot'[t].active = file'[t]
                      /\ slot'[t].enabled = (mixer'[t].config = "stream")
                      /\ slot'[t].enabled => slot'[t].active /\ arb'[t].primed
    BY DEF SlotsAgree, On
  <2>1. CASE t = s
    <3>1. slot[s].enabled = On(s)
      BY <1>1 DEF SlotsAgree
    <3>2. ~(mixer'[s].config = "stream")
      BY <1>2, <3>1
    <3>3. e.active \in BOOLEAN /\ e.enabled \in BOOLEAN
      BY DEF SlotType
    <3>4. file'[t] = TRUE /\ slot'[t] = e /\ arb'[t] = a
      BY <1>3, <2>1
    <3>5. e.active = TRUE /\ e.enabled = FALSE
      BY <3>3
    <3> QED
      BY <2>1, <3>2, <3>4, <3>5
  <2>2. CASE t # s
    <3>0. t \notin muted
      BY <2>2
    <3>1. (mixer'[t].config = "stream") = On(t)
      BY <1>2, <3>0 DEF On
    <3>2. /\ slot[t].active = arb[t].active /\ slot[t].active = file[t]
          /\ slot[t].enabled = On(t)
          /\ slot[t].enabled => slot[t].active /\ arb[t].primed
      BY <1>1 DEF SlotsAgree
    <3> QED
      BY <1>3, <2>2, <3>1, <3>2
  <2> QED
    BY <2>1, <2>2
<1>6. PsramOK'
  BY <1>1, EmptiedOK
<1> QED
  BY <1>2, <1>4, <1>5, <1>6

\* A PLAY keeps the invariant, also one whose asset is missing.
LEMMA PlayInv ==
  ASSUME IInv, NEW c \in Commands, Play(c)
  PROVE  TablesOK' /\ FpgaOK' /\ PsramOK' /\ SlotsAgree'
<1>1. c.slot \in Slots /\ c.length \in Nat /\ c.looping \in BOOLEAN /\ c.prio \in 0 .. 3
  BY CommandType
<1>2. CASE c.length = 0
  <2>1. Stop({c.slot})
    BY <1>2 DEF Play
  <2> QED
    BY <1>1, <2>1, StopInv
<1>3. CASE c.length # 0
  <2> DEFINE a == [active |-> TRUE, writePos |-> 0, filePos |-> 0,
                   length |-> c.length, looping |-> c.looping,
                   primed |-> FALSE, prio |-> c.prio]
             e == [active |-> TRUE, enabled |-> FALSE]
  <2>1. a \in ArbType /\ e \in SlotType
    BY <1>1 DEF ArbType, SlotType
  <2>2. a.writePos = 0 /\ a.filePos <= a.length /\ a.active = e.active /\ e.active
        /\ ~e.enabled
    BY <1>1
  <2>3. /\ arb' = [arb EXCEPT ![c.slot] = a] /\ slot' = [slot EXCEPT ![c.slot] = e]
        /\ file' = [file EXCEPT ![c.slot] = TRUE]
        /\ ChannelsOff({t \in {c.slot} : slot[c.slot].enabled})
        /\ psram' = Emptied(c.slot)
    BY <1>3 DEF Play
  <2> HIDE DEF a, e
  <2> QED
    BY <1>1, <2>1, <2>2, <2>3, RestartInv
<1> QED
  BY <1>2, <1>3

\* A SEEK keeps the invariant: the slot is muted and starts over.
LEMMA SeekInv ==
  ASSUME IInv, NEW c \in Commands, Seek(c)
  PROVE  TablesOK' /\ FpgaOK' /\ PsramOK' /\ SlotsAgree'
<1> DEFINE s == c.slot
           point == IF c.arg >= arb[s].length THEN 0 ELSE c.arg
           a == [arb[s] EXCEPT !.filePos = point, !.writePos = 0, !.primed = FALSE]
           e == [slot[s] EXCEPT !.enabled = FALSE]
<1>1. s \in Slots /\ c.arg \in Nat
  BY CommandType
<1>2. TablesOK /\ SlotsAgree
  BY Parts
<1>3. arb[s] \in ArbType /\ slot[s] \in SlotType /\ slot[s].active
      /\ arb[s].active = slot[s].active /\ file[s] = slot[s].active
      /\ file \in [Slots -> BOOLEAN] /\ arb \in [Slots -> ArbType]
      /\ slot \in [Slots -> SlotType]
  BY <1>1, <1>2 DEF TablesOK, SlotsAgree, Seek
<1>4. arb[s].length \in Nat /\ point \in Nat /\ point <= arb[s].length
  BY <1>1, <1>3 DEF ArbType
<1>5. a \in ArbType /\ a.writePos = 0 /\ a.filePos <= a.length
      /\ a.active = arb[s].active
  BY <1>3, <1>4 DEF ArbType
<1>6. e \in SlotType /\ e.active = slot[s].active /\ ~e.enabled
  BY <1>3 DEF SlotType
<1>7. file' = [file EXCEPT ![s] = TRUE]
  BY <1>1, <1>3 DEF Seek
<1>8. /\ arb' = [arb EXCEPT ![s] = a] /\ slot' = [slot EXCEPT ![s] = e]
      /\ ChannelsOff({t \in {s} : slot[s].enabled}) /\ psram' = Emptied(s)
  BY <1>1, <1>3 DEF Seek
<1> HIDE DEF s, a, e, point
<1> QED
  BY <1>1, <1>3, <1>5, <1>6, <1>7, <1>8, RestartInv

\* A GAIN change configures a slot that sounds already.
LEMMA GainInv ==
  ASSUME IInv, NEW c \in Commands, Gain(c)
  PROVE  TablesOK' /\ FpgaOK' /\ PsramOK' /\ SlotsAgree'
<1>1. TablesOK /\ FpgaOK /\ PsramOK /\ SlotsAgree
  BY Parts
<1>2. c.slot \in Slots /\ ChannelOn(c.slot) /\ slot[c.slot].enabled
      /\ UNCHANGED <<arb, slot, file, psram>>
  BY CommandType DEF Gain, slotVars
<1>3. FpgaOK' /\ \A t \in Slots : mixer'[t].config = "stream" <=> t = c.slot \/ On(t)
  BY <1>1, <1>2, ChannelOnFpga
<1>4. On(c.slot)
  BY <1>1, <1>2 DEF SlotsAgree
<1>5. \A t \in Slots : On(t)' = On(t)
  BY <1>3, <1>4 DEF On
<1>6. SlotsAgree'
  BY <1>1, <1>2, <1>5 DEF SlotsAgree
<1> QED
  BY <1>1, <1>2, <1>3, <1>6 DEF TablesOK, PsramOK

\* Commands keep the invariant.
LEMMA CommandInv ==
  ASSUME IInv, NEW c \in Commands, Command(c) PROVE IInv'
<1>1. ServiceOK /\ pc = "poll" /\ polled < MaxCommands /\ polled' = polled + 1
      /\ pc' = pc /\ job' = job
  BY Parts DEF Command
<1>2. ServiceOK' /\ JobFits'
  BY <1>1, Sizes DEF ServiceOK, JobFits
<1>3. TablesOK' /\ FpgaOK' /\ PsramOK' /\ SlotsAgree'
  <2>1. c.slot \in Slots
    BY CommandType
  <2>2. CASE Play(c)
    BY <2>2, PlayInv
  <2>3. CASE Stop({c.slot})
    BY <2>1, <2>3, StopInv
  <2>4. CASE Stop(Slots)
    BY <2>4, StopInv
  <2>5. CASE Seek(c)
    BY <2>5, SeekInv
  <2>6. CASE Gain(c)
    BY <2>6, GainInv
  <2> QED
    BY <2>2, <2>3, <2>4, <2>5, <2>6 DEF Command
<1> QED
  BY <1>2, <1>3, PartsNext

\* A step of the service call that touches no table.
LEMMA PhaseInv ==
  ASSUME IInv, UNCHANGED <<arb, slot, file, mixer, ahead, heard>>,
         ServiceOK', PsramOK', JobFits'
  PROVE  IInv'
<1>1. TablesOK /\ FpgaOK /\ SlotsAgree
  BY Parts
<1>2. TablesOK' /\ FpgaOK' /\ SlotsAgree'
  BY <1>1 DEF TablesOK, FpgaOK, SlotsAgree, On
<1> QED
  BY <1>2, PartsNext

\* Enabling a primed slot keeps the invariant.
LEMMA EnableInv ==
  ASSUME IInv, Enable PROVE IInv'
<1>1. ServiceOK /\ TablesOK /\ FpgaOK /\ PsramOK /\ SlotsAgree /\ JobFits
  BY Parts
<1>2. PICK s \in Waiting : slot' = [slot EXCEPT ![s].enabled = TRUE] /\ ChannelOn(s)
  BY DEF Enable
<1>3. s \in Slots /\ slot[s].active /\ arb[s].primed
  BY DEF Waiting
<1>4. UNCHANGED <<pc, polled, job, arb, file, psram>>
  BY DEF Enable, serviceVars
<1>5. FpgaOK' /\ \A t \in Slots : mixer'[t].config = "stream" <=> t = s \/ On(t)
  BY <1>1, <1>2, <1>3, ChannelOnFpga
<1>6. /\ slot' \in [Slots -> SlotType]
      /\ slot'[s].enabled = TRUE /\ slot'[s].active = slot[s].active
      /\ \A t \in Slots : t # s => slot'[t] = slot[t]
  <2>1. slot \in [Slots -> SlotType]
    BY <1>1 DEF TablesOK
  <2> QED
    BY <1>2, <1>3, <2>1 DEF SlotType
<1>7. SlotsAgree'
  <2> SUFFICES ASSUME NEW t \in Slots
               PROVE  /\ slot'[t].active = arb'[t].active
                      /\ slot'[t].active = file'[t]
                      /\ slot'[t].enabled = (mixer'[t].config = "stream")
                      /\ slot'[t].enabled => slot'[t].active /\ arb'[t].primed
    BY DEF SlotsAgree, On
  <2>1. /\ slot[t].active = arb[t].active /\ slot[t].active = file[t]
        /\ slot[t].enabled = On(t)
        /\ slot[t].enabled => slot[t].active /\ arb[t].primed
    BY <1>1 DEF SlotsAgree
  <2>2. CASE t = s
    <3>1. mixer'[s].config = "stream"
      BY <1>3, <1>5
    <3> QED
      BY <1>3, <1>4, <1>6, <2>1, <2>2, <3>1
  <2>3. CASE t # s
    <3>1. (mixer'[t].config = "stream") = On(t)
      BY <1>5, <2>3 DEF On
    <3> QED
      BY <1>4, <1>6, <2>1, <2>3, <3>1
  <2> QED
    BY <2>2, <2>3
<1>8. ServiceOK' /\ TablesOK' /\ PsramOK' /\ JobFits'
  BY <1>1, <1>4, <1>6 DEF ServiceOK, TablesOK, PsramOK, JobFits
<1> QED
  BY <1>5, <1>7, <1>8, PartsNext

\* What an offload may copy: it fits the chunk, the ring and the source.
LEMMA RunFits ==
  ASSUME IInv, NEW s \in Slots, MostUrgent(s)
  PROVE  /\ Run(s) \in 0 .. Chunk
         /\ Run(s) <= Ring[s] - arb[s].writePos
         /\ Run(s) <= arb[s].length - arb[s].filePos
<1>1. TablesOK /\ FpgaOK
  BY Parts
<1>2. /\ arb[s].writePos \in Nat /\ arb[s].filePos \in Nat /\ arb[s].length \in Nat
      /\ arb[s].writePos < Ring[s] /\ arb[s].filePos <= arb[s].length
      /\ mixer[s].pos \in Nat /\ mixer[s].pos < Ring[s]
  BY <1>1 DEF TablesOK, FpgaOK, ArbType, MixerType
<1>3. Ring[s] \in Nat /\ Ring[s] > 0 /\ Chunk \in Nat
  BY Sizes
<1>4. Fill(s) \in Nat
  BY <1>2, <1>3 DEF Fill
<1>5. Target(s) \in Int /\ Fill(s) < Target(s)
  BY <1>3 DEF Target, MostUrgent, Hungry
<1> QED
  BY <1>2, <1>3, <1>4, <1>5 DEF Run, Wanted, Smaller

\* An offload is started within its bounds.
LEMMA StartOffloadInv ==
  ASSUME IInv, StartOffload PROVE IInv'
<1>1. ServiceOK /\ PsramOK
  BY Parts
<1>2. PICK s \in Slots : MostUrgent(s) /\ job' = [slot |-> s, run |-> Run(s)]
  BY DEF StartOffload
<1>3. /\ pc' = "offload" /\ polled' = polled
      /\ UNCHANGED <<arb, slot, file, mixer, ahead, heard, psram>>
  BY DEF StartOffload, slotVars, fpgaVars
<1>4. /\ Run(s) \in 0 .. Chunk
      /\ Run(s) <= Ring[s] - arb[s].writePos
      /\ Run(s) <= arb[s].length - arb[s].filePos
  BY <1>2, RunFits
<1>5. s \in Nat
  BY Sizes DEF Slots
<1>6. ServiceOK'
  BY <1>1, <1>2, <1>3, <1>4, <1>5 DEF ServiceOK
<1>7. JobFits'
  BY <1>2, <1>3, <1>4 DEF JobFits
<1>8. PsramOK'
  BY <1>1, <1>3 DEF PsramOK
<1> QED
  BY <1>3, <1>6, <1>7, <1>8, PhaseInv

\* The bookkeeping of an offload keeps its slot's positions in range.
LEMMA AfterOK ==
  ASSUME IInv, pc = "offload", NEW s \in Slots, s = job.slot
  PROVE  /\ After(s, job.run) \in ArbType
         /\ After(s, job.run).writePos < Ring[s]
         /\ After(s, job.run).filePos <= After(s, job.run).length
         /\ After(s, job.run).active = arb[s].active
         /\ arb[s].primed => After(s, job.run).primed
<1> DEFINE n == job.run
           wp == NextWrite(s, n)
           fp == arb[s].filePos + n
           nf == IF fp >= arb[s].length /\ arb[s].looping THEN 0 ELSE fp
           pr == arb[s].primed \/ (wp + Ring[s] - mixer[s].pos) % Ring[s] >= Head(s)
<1>1. ServiceOK /\ TablesOK /\ JobFits
  BY Parts
<1>2. arb[s] \in ArbType
  BY <1>1 DEF TablesOK
<1>3. /\ arb[s].writePos \in Nat /\ arb[s].filePos \in Nat /\ arb[s].length \in Nat
      /\ arb[s].writePos < Ring[s] /\ n \in Nat
      /\ n <= Ring[s] - arb[s].writePos /\ n <= arb[s].length - arb[s].filePos
  BY <1>1, <1>2, Sizes DEF TablesOK, ServiceOK, JobFits, ArbType
<1>4. wp \in Nat /\ wp < Ring[s]
  BY <1>3, Sizes DEF NextWrite
<1>5. nf \in Nat /\ nf <= arb[s].length
  BY <1>3
<1>6. pr \in BOOLEAN /\ (arb[s].primed => pr)
  BY <1>2 DEF ArbType
<1>7. After(s, n) = [arb[s] EXCEPT !.writePos = wp, !.filePos = nf, !.primed = pr]
  BY DEF After
<1> HIDE DEF wp, nf, pr
<1> QED
  BY <1>2, <1>4, <1>5, <1>6, <1>7 DEF ArbType

\* An offload that succeeds keeps the invariant.
LEMMA OffloadDoneInv ==
  ASSUME IInv, OffloadDone PROVE IInv'
<1> DEFINE s == job.slot
<1>1. ServiceOK /\ TablesOK /\ FpgaOK /\ PsramOK /\ SlotsAgree /\ JobFits
  BY Parts
<1>2. s \in Slots /\ pc = "offload" /\ job.run \in Nat
  BY <1>1, Sizes DEF OffloadDone, JobFits, ServiceOK
<1>3. /\ arb' = [arb EXCEPT ![s] = After(s, job.run)]
      /\ ahead' = [ahead EXCEPT ![s] = IF @ = Starved THEN Starved ELSE @ + job.run]
      /\ UNCHANGED <<polled, slot, file, mixer, heard>>
  BY DEF OffloadDone
<1>4. /\ After(s, job.run) \in ArbType
      /\ After(s, job.run).writePos < Ring[s]
      /\ After(s, job.run).filePos <= After(s, job.run).length
      /\ After(s, job.run).active = arb[s].active
      /\ arb[s].primed => After(s, job.run).primed
  BY <1>2, AfterOK
<1>5. /\ arb'[s] = After(s, job.run) /\ arb' \in [Slots -> ArbType]
      /\ \A t \in Slots : t # s => arb'[t] = arb[t]
  BY <1>1, <1>2, <1>3, <1>4 DEF TablesOK
<1>6. TablesOK'
  BY <1>1, <1>2, <1>3, <1>4, <1>5 DEF TablesOK
<1>7. SlotsAgree'
  <2> SUFFICES ASSUME NEW t \in Slots
               PROVE  /\ slot[t].active = arb'[t].active
                      /\ slot[t].active = file[t]
                      /\ slot[t].enabled = On(t)
                      /\ slot[t].enabled => slot[t].active /\ arb'[t].primed
    BY <1>3 DEF SlotsAgree, On
  <2>1. /\ slot[t].active = arb[t].active
        /\ slot[t].active = file[t]
        /\ slot[t].enabled = On(t)
        /\ slot[t].enabled => slot[t].active /\ arb[t].primed
    BY <1>1 DEF SlotsAgree
  <2>2. CASE t = s
    BY <2>1, <2>2, <1>4, <1>5
  <2>3. CASE t # s
    BY <2>1, <2>3, <1>5
  <2> QED
    BY <2>2, <2>3
<1>8. FpgaOK'
  <2>1. ahead[s] \in Nat \cup {Starved}
    BY <1>1, <1>2 DEF FpgaOK
  <2>2. (IF ahead[s] = Starved THEN Starved ELSE ahead[s] + job.run)
          \in Nat \cup {Starved}
    BY <1>2, <2>1
  <2>3. ahead' \in [Slots -> Nat \cup {Starved}]
    BY <1>1, <1>3, <2>2 DEF FpgaOK
  <2> QED
    BY <1>1, <1>3, <2>3 DEF FpgaOK
<1>9. PsramOK'
  <2>1. ASSUME NEW a \in Addresses, a \in Written
        PROVE  <<s, arb[s].filePos + a - Base[s] - arb[s].writePos>> \in CellType
    <3>1. arb[s].filePos \in Nat /\ arb[s].writePos \in Nat /\ Base[s] \in Nat
      BY <1>1, <1>2, Sizes DEF TablesOK, ArbType
    <3>2. a \in Int /\ a >= Base[s] + arb[s].writePos
      BY <2>1, <1>2, <3>1 DEF Written
    <3>3. arb[s].filePos + a - Base[s] - arb[s].writePos \in Nat
      BY <3>1, <3>2
    <3> QED
      BY <1>2, <3>3 DEF CellType
  <2>2. psram' = [a \in Addresses |->
                    IF a \in Written
                    THEN <<s, arb[s].filePos + a - Base[s] - arb[s].writePos>>
                    ELSE psram[a]]
    BY DEF OffloadDone
  <2> HIDE DEF s
  <2> QED
    BY <1>1, <2>1, <2>2 DEF PsramOK
<1>10. ServiceOK' /\ JobFits'
  BY <1>1, Sizes DEF OffloadDone, ServiceOK, JobFits, NoJob
<1> QED
  BY <1>6, <1>7, <1>8, <1>9, <1>10, PartsNext

\* The other steps of the service call change no table.
LEMMA OtherPhasesInv ==
  ASSUME IInv,
         NoMoreCommands \/ AllEnabled \/ NothingToRefill \/ OffloadFailed
  PROVE  IInv'
<1>1. ServiceOK /\ PsramOK /\ JobFits
  BY Parts
<1>2. UNCHANGED <<arb, slot, file, mixer, ahead, heard>>
  BY DEF NoMoreCommands, AllEnabled, NothingToRefill, OffloadFailed,
         slotVars, fpgaVars
<1>3. ServiceOK' /\ JobFits'
  BY <1>1, Sizes DEF ServiceOK, JobFits, NoMoreCommands, AllEnabled,
                     NothingToRefill, OffloadFailed, NoJob
<1>4. PsramOK'
  <2>1. CASE NoMoreCommands \/ AllEnabled \/ NothingToRefill
    BY <1>1, <2>1 DEF PsramOK, NoMoreCommands, AllEnabled, NothingToRefill
  <2>2. CASE OffloadFailed
    BY <1>1, <2>2, Sizes DEF PsramOK, OffloadFailed
  <2> QED
    BY <2>1, <2>2
<1> QED
  BY <1>2, <1>3, <1>4, PhaseInv

-----------------------------------------------------------------------------
(* The theorems.                                                           *)

\* Every step keeps the invariant.
LEMMA StepInv == IInv /\ [Next]_vars => IInv'
<1> SUFFICES ASSUME IInv, [Next]_vars PROVE IInv'
  OBVIOUS
<1>1. CASE Render
  BY <1>1, RenderInv
<1>2. ASSUME NEW c \in Commands, Command(c) PROVE IInv'
  BY <1>2, CommandInv
<1>3. CASE Enable
  BY <1>3, EnableInv
<1>4. CASE StartOffload
  BY <1>4, StartOffloadInv
<1>5. CASE OffloadDone
  BY <1>5, OffloadDoneInv
<1>6. CASE NoMoreCommands \/ AllEnabled \/ NothingToRefill \/ OffloadFailed
  BY <1>6, OtherPhasesInv
<1>7. CASE UNCHANGED vars
  <2>1. ServiceOK /\ PsramOK /\ JobFits
    BY Parts
  <2>2. ServiceOK' /\ PsramOK' /\ JobFits'
    BY <1>7, <2>1 DEF vars, ServiceOK, PsramOK, JobFits
  <2> QED
    BY <1>7, <2>2, PhaseInv DEF vars
<1> QED
  BY <1>1, <1>2, <1>3, <1>4, <1>5, <1>6, <1>7 DEF Next, Proceed

\* The inductive invariant of the service: types, agreement, and an offload
\* in progress that fits.
THEOREM Invariance == Spec => []IInv
<1> QED
  BY InitInv, StepInv, PTL DEF Spec

\* No position ever leaves its ring or its source, whatever the command
\* stream and however slow the SD card (hx421_stream.c:116-128).
THEOREM TypeCorrect == Spec => []TypeOK
<1>1. IInv => TypeOK
  BY DEF IInv
<1> QED
  BY <1>1, Invariance, PTL

\* Service, arbiter, firmware and FPGA agree about every slot: no open file
\* is left behind, and no channel sounds that its slot does not play.
THEOREM SlotAgreement == Spec => []SlotsAgree
<1>1. IInv => SlotsAgree
  BY DEF IInv
<1> QED
  BY <1>1, Invariance, PTL

-----------------------------------------------------------------------------
(* Remainders.                                                             *)

\* A remainder is in range, and its distance is a multiple.
LEMMA Remainder ==
  ASSUME NEW a \in Int, NEW b \in Nat, b > 0
  PROVE  a % b \in 0 .. b - 1 /\ \E q \in Int : a = q * b + (a % b)
<1>1. a % b \in 0 .. b - 1
  OBVIOUS
<1> DEFINE q == a \div b
<1>2. q \in Int
  OBVIOUS
<1>3. a = b * q + (a % b)
  OBVIOUS
<1>4. b * q = q * b
  OBVIOUS
<1>5. a = q * b + (a % b)
  BY <1>3, <1>4, Zenon
<1> QED
  BY <1>1, <1>2, <1>5, Zenon

\* A multiple of b that is smaller than b is none.
LEMMA SmallMultiple ==
  ASSUME NEW q \in Int, NEW b \in Nat, q * b < b, -b < q * b
  PROVE  q = 0
<1>1. ASSUME q >= 1 PROVE FALSE
  <2>1. q * b >= b
    BY <1>1
  <2> QED
    BY <2>1
<1>2. ASSUME q <= -1 PROVE FALSE
  <2>1. q * b <= -b
    BY <1>2
  <2> QED
    BY <2>1
<1> QED
  BY <1>1, <1>2

\* What is congruent and in range is the remainder.
LEMMA RemainderIs ==
  ASSUME NEW a \in Int, NEW b \in Nat, b > 0, NEW r \in 0 .. b - 1, NEW q \in Int,
         a = q * b + r
  PROVE  a % b = r
<1>1. a % b \in 0 .. b - 1
  BY Remainder
<1>2. PICK p \in Int : a = p * b + (a % b)
  BY Remainder
<1> DEFINE d == p - q
           m == a % b
<1>3. d \in Int /\ m \in 0 .. b - 1
  BY <1>1
<1>4. d * b = r - m
  <2>1. d * b = p * b - q * b
    BY <1>2
  <2>2. p * b \in Int /\ q * b \in Int
    OBVIOUS
  <2>3. a = p * b + m
    BY <1>2, Zenon
  <2> HIDE DEF d, m
  <2> DEFINE x == p * b
             y == q * b
             z == d * b
  <2>4. z = x - y /\ x \in Int /\ y \in Int /\ a = x + m /\ a = y + r
    BY <2>1, <2>2, <2>3
  <2> HIDE DEF x, y, z
  <2>5. z = r - m
    BY <1>3, <2>4
  <2> QED
    BY <2>5 DEF z
<1> HIDE DEF d, m
<1>5. d * b < b /\ -b < d * b
  BY <1>3, <1>4
<1>6. d = 0
  BY <1>3, <1>5, SmallMultiple
<1>7. d * b = 0
  BY <1>6
<1>8. r = m
  BY <1>3, <1>4, <1>7
<1> QED
  BY <1>8 DEF m

\* Adding the divisor changes nothing.
LEMMA RemainderShift ==
  ASSUME NEW a \in Int, NEW b \in Nat, b > 0
  PROVE  (a + b) % b = a % b
<1>1. PICK q \in Int : a = q * b + (a % b)
  BY Remainder
<1>2. a % b \in 0 .. b - 1
  BY Remainder
<1> DEFINE r == a % b
<1> HIDE DEF r
<1>3. r \in 0 .. b - 1 /\ a = q * b + r
  BY <1>1, <1>2, Zenon DEF r
<1>4. q + 1 \in Int /\ (q + 1) * b = q * b + b /\ q * b \in Int
  OBVIOUS
<1>5. a + b = (q + 1) * b + r
  BY <1>3, <1>4
<1>6. (a + b) % b = r
  BY <1>3, <1>4, <1>5, RemainderIs
<1> QED
  BY <1>6 DEF r

\* Nor does taking a remainder twice.
LEMMA RemainderNext ==
  ASSUME NEW a \in Int, NEW b \in Nat, b > 0
  PROVE  ((a % b) + 1) % b = (a + 1) % b
<1>1. PICK q \in Int : a = q * b + (a % b)
  BY Remainder
<1>2. a % b \in 0 .. b - 1 /\ (a + 1) % b \in 0 .. b - 1
  BY Remainder
<1>3. PICK p \in Int : a + 1 = p * b + ((a + 1) % b)
  BY Remainder
<1> DEFINE r == a % b
           s == (a + 1) % b
           d == p - q
<1>4. r + 1 = d * b + s /\ r \in 0 .. b - 1 /\ s \in 0 .. b - 1 /\ d \in Int
  <2>1. d * b = p * b - q * b
    OBVIOUS
  <2>2. p * b \in Int /\ q * b \in Int
    OBVIOUS
  <2>3. a = q * b + r /\ a + 1 = p * b + s /\ r \in 0 .. b - 1 /\ s \in 0 .. b - 1
    BY <1>1, <1>2, <1>3, Zenon DEF r, s
  <2> HIDE DEF r, s
  <2>4. r + 1 = d * b + s
    BY <2>1, <2>2, <2>3
  <2> QED
    BY <2>3, <2>4
<1> HIDE DEF r, s, d
<1>5. (r + 1) % b = s
  BY <1>4, RemainderIs
<1> QED
  BY <1>5 DEF r, s

-----------------------------------------------------------------------------
(* The contents of the rings.                                              *)

\* The place of the k-th frame behind place w in a ring of r, and its address
\* for slot s's write position.
Place(w, r, k) == IF k <= w THEN w - k ELSE w - k + r
Behind(s, k) == Base[s] + Place(arb[s].writePos, Ring[s], k)

\* Place w moved n on, at most to the ring's end.
Moved(w, r, n) == IF w + n >= r THEN w + n - r ELSE w + n

\* The last m cells behind the write position hold the source up to the file
\* position, and no other cell of the ring was filled since the ring started.
Holds(s, m) ==
  /\ \A k \in 1 .. m :
       psram[Behind(s, k)] = <<s, (arb[s].filePos - k) % arb[s].length>>
  /\ \A k \in m + 1 .. Ring[s] : psram[Behind(s, k)] = Stale

\* Everything since the ring's start is there, and what the channel has yet
\* to play is.
RingFilled(s) ==
  \E m \in 0 .. Ring[s] :
    /\ arb[s].writePos <= m /\ ahead[s] <= m
    /\ Holds(s, m)

\* A channel that has not starved is as far behind the write position as it
\* has frames to play, which is less than a ring.
ChannelBehind(s) ==
  ahead[s] # Starved =>
    /\ On(s) /\ ahead[s] < Ring[s]
    /\ mixer[s].pos + ahead[s] \in {arb[s].writePos, arb[s].writePos + Ring[s]}

\* What it played last is the frame before those.
HeardLast(s) ==
  heard[s] # Silence =>
    /\ ahead[s] # Starved
    /\ heard[s] = <<s, (arb[s].filePos - ahead[s] - 1) % arb[s].length>>

\* The offload in progress overwrites nothing the channel has yet to play.
JobBehind ==
  pc = "offload" /\ ahead[job.slot] # Starved =>
    ahead[job.slot] + job.run < Ring[job.slot]

\* A slot that is active has a source.
HasSource(s) == arb[s].active => arb[s].length > 0

RingOK(s) ==
  /\ HasSource(s) /\ ChannelBehind(s) /\ HeardLast(s)
  /\ arb[s].active => RingFilled(s)

RInv == IInv /\ JobBehind /\ \A s \in Slots : RingOK(s)

-----------------------------------------------------------------------------
(* Places in a ring.                                                       *)

\* Every place of the ring is behind the write position, by one distance.
LEMMA Places ==
  ASSUME NEW r \in Nat, NEW w \in Nat, w < r
  PROVE  /\ \A k \in 1 .. r : Place(w, r, k) \in 0 .. r - 1
         /\ \A j, k \in 1 .. r : Place(w, r, j) = Place(w, r, k) => j = k
         /\ \A i \in 0 .. r - 1 : \E k \in 1 .. r : Place(w, r, k) = i
<1>1. \A k \in 1 .. r : Place(w, r, k) \in 0 .. r - 1
  BY DEF Place
<1>2. \A j, k \in 1 .. r : Place(w, r, j) = Place(w, r, k) => j = k
  BY DEF Place
<1>3. ASSUME NEW i \in 0 .. r - 1 PROVE \E k \in 1 .. r : Place(w, r, k) = i
  <2>1. CASE i < w
    <3>1. w - i \in 1 .. r /\ Place(w, r, w - i) = i
      BY <2>1 DEF Place
    <3> QED
      BY <3>1
  <2>2. CASE ~(i < w)
    <3>1. w - i + r \in 1 .. r /\ Place(w, r, w - i + r) = i
      BY <2>2 DEF Place
    <3> QED
      BY <3>1
  <2> QED
    BY <2>1, <2>2
<1> QED
  BY <1>1, <1>2, <1>3

\* The place is what the C code's mask makes of the difference.
LEMMA PlaceIsRemainder ==
  ASSUME NEW r \in Nat, NEW w \in Nat, w < r, NEW k \in 1 .. r
  PROVE  Place(w, r, k) = (w - k) % r
<1>1. CASE k <= w
  <2>1. w - k \in 0 .. r - 1 /\ w - k = 0 * r + (w - k) /\ 0 \in Int
    BY <1>1
  <2>2. (w - k) % r = w - k
    BY <2>1, RemainderIs
  <2> QED
    BY <1>1, <2>2 DEF Place
<1>2. CASE ~(k <= w)
  <2>1. w - k + r \in 0 .. r - 1 /\ w - k = (-1) * r + (w - k + r) /\ -1 \in Int
        /\ w - k \in Int
    BY <1>2
  <2>2. (w - k) % r = w - k + r
    BY <2>1, RemainderIs
  <2> QED
    BY <1>2, <2>2 DEF Place
<1> QED
  BY <1>1, <1>2

\* The write position moved n places on, short of the ring's end or to it:
\* the n new places are the nearest, the others are n further away.
LEMMA PlacesMoved ==
  ASSUME NEW r \in Nat, NEW w \in Nat, w < r, NEW n \in Nat, w + n <= r,
         NEW k \in 1 .. r
  PROVE  /\ Moved(w, r, n) \in Nat /\ Moved(w, r, n) < r
         /\ k <= n => Place(Moved(w, r, n), r, k) = w + n - k
         /\ k > n => Place(Moved(w, r, n), r, k) = Place(w, r, k - n)
BY DEF Place, Moved

\* The n places from the write position on are the n furthest behind it.
LEMMA PlacesAhead ==
  ASSUME NEW r \in Nat, NEW w \in Nat, w < r, NEW n \in Nat, w + n <= r,
         NEW k \in 1 .. r
  PROVE  Place(w, r, k) \in w .. w + n - 1 <=> k > r - n
BY DEF Place

-----------------------------------------------------------------------------
(* What the steps leave of a ring.                                         *)

\* The numbers of a slot.
LEMMA SlotNumbers ==
  ASSUME TablesOK, FpgaOK, NEW s \in Slots
  PROVE  /\ arb[s].writePos \in Nat /\ arb[s].filePos \in Nat /\ arb[s].length \in Nat
         /\ arb[s].active \in BOOLEAN
         /\ arb[s].writePos < Ring[s] /\ arb[s].filePos <= arb[s].length
         /\ Ring[s] \in Nat /\ Base[s] \in Nat
         /\ mixer[s].pos \in Nat /\ mixer[s].pos < Ring[s]
         /\ ahead[s] \in Nat \cup {Starved} /\ Starved = -1
BY Sizes DEF TablesOK, FpgaOK, ArbType, MixerType, Starved

\* The frames behind the write position lie in the slot's ring.
LEMMA BehindInRing ==
  ASSUME TablesOK, FpgaOK, NEW s \in Slots, NEW k \in 1 .. Ring[s]
  PROVE  /\ Behind(s, k) \in CellsOf(s) /\ Behind(s, k) \in Addresses
         /\ Behind(s, k) = Base[s] + Place(arb[s].writePos, Ring[s], k)
         /\ Place(arb[s].writePos, Ring[s], k) \in 0 .. Ring[s] - 1
<1>1. Place(arb[s].writePos, Ring[s], k) \in 0 .. Ring[s] - 1
  BY SlotNumbers, Places
<1>2. Behind(s, k) \in CellsOf(s)
  BY <1>1, SlotNumbers DEF Behind, CellsOf
<1> QED
  BY <1>1, <1>2 DEF Behind, Addresses, CellsOf

\* Rings do not overlap.
LEMMA RingsApart ==
  ASSUME NEW s \in Slots, NEW t \in Slots, s # t, NEW a \in CellsOf(s)
  PROVE  a \notin CellsOf(t)
<1>1. /\ Base[s] \in Nat /\ Ring[s] \in Nat /\ Base[t] \in Nat /\ Ring[t] \in Nat
      /\ s \in Nat /\ t \in Nat
  BY Sizes DEF Slots
<1>2. /\ s < t => Base[s] + Ring[s] <= Base[t]
      /\ t < s => Base[t] + Ring[t] <= Base[s]
  BY MediaAssumption
<1>3. s < t \/ t < s
  BY <1>1
<1> QED
  BY <1>1, <1>2, <1>3 DEF CellsOf

\* An active slot sounds only, and only a slot that is active starves not.
LEMMA PlayingIsActive ==
  ASSUME SlotsAgree, NEW s \in Slots, ChannelBehind(s), ahead[s] # Starved
  PROVE  On(s) /\ arb[s].active
BY DEF SlotsAgree, ChannelBehind

\* Its cells untouched and its positions kept, a ring holds what it held.
LEMMA HoldsKept ==
  ASSUME TablesOK, FpgaOK, NEW s \in Slots, NEW m \in Nat, Holds(s, m),
         m <= Ring[s],
         arb'[s].writePos = arb[s].writePos, arb'[s].filePos = arb[s].filePos,
         arb'[s].length = arb[s].length,
         \A a \in CellsOf(s) : psram'[a] = psram[a]
  PROVE  Holds(s, m)'
<1>1. Ring[s] \in Nat
  BY SlotNumbers
<1>2. \A k \in 1 .. Ring[s] : Behind(s, k)' = Behind(s, k)
  BY DEF Behind
<1>3. \A k \in 1 .. Ring[s] : psram'[Behind(s, k)'] = psram[Behind(s, k)]
  BY <1>2, BehindInRing
<1>4. \A k \in 1 .. m : k \in 1 .. Ring[s]
  BY <1>1
<1>5. \A k \in m + 1 .. Ring[s] : k \in 1 .. Ring[s]
  BY <1>1
<1> QED
  BY <1>3, <1>4, <1>5 DEF Holds

\* The same with what lies ahead of the channel not grown past it.
LEMMA RingFilledKept ==
  ASSUME TablesOK, FpgaOK, NEW s \in Slots, RingFilled(s),
         arb'[s].writePos = arb[s].writePos, arb'[s].filePos = arb[s].filePos,
         arb'[s].length = arb[s].length,
         \A a \in CellsOf(s) : psram'[a] = psram[a],
         ahead'[s] \in Nat \cup {Starved},
         ahead'[s] <= ahead[s] \/ ahead'[s] <= arb[s].writePos
  PROVE  RingFilled(s)'
<1>1. PICK m \in 0 .. Ring[s] : arb[s].writePos <= m /\ ahead[s] <= m /\ Holds(s, m)
  BY DEF RingFilled
<1>2. m \in Nat /\ m <= Ring[s]
  BY <1>1, SlotNumbers
<1>3. Holds(s, m)'
  BY <1>1, <1>2, HoldsKept
<1>4. ahead'[s] <= m
  BY <1>1, <1>2, SlotNumbers
<1> QED
  BY <1>1, <1>3, <1>4 DEF RingFilled

\* A slot that keeps its positions, its ring and its channel.
LEMMA SlotKept ==
  ASSUME TablesOK, FpgaOK, NEW s \in Slots, RingOK(s),
         arb'[s].writePos = arb[s].writePos, arb'[s].filePos = arb[s].filePos,
         arb'[s].length = arb[s].length, arb'[s].active => arb[s].active,
         \A a \in CellsOf(s) : psram'[a] = psram[a],
         ahead'[s] \in Nat \cup {Starved},
         ahead'[s] <= ahead[s] \/ ahead'[s] <= arb[s].writePos,
         ChannelBehind(s)', HeardLast(s)'
  PROVE  RingOK(s)'
<1>1. HasSource(s)'
  BY DEF RingOK, HasSource
<1>2. arb'[s].active => RingFilled(s)'
  <2>1. SUFFICES ASSUME arb'[s].active PROVE RingFilled(s)'
    OBVIOUS
  <2>2. RingFilled(s)
    BY <2>1 DEF RingOK
  <2> QED
    BY <2>2, RingFilledKept
<1> QED
  BY <1>1, <1>2 DEF RingOK

\* So too when nothing of it changes.
LEMMA SlotUntouched ==
  ASSUME TablesOK, FpgaOK, NEW s \in Slots, RingOK(s),
         arb'[s].writePos = arb[s].writePos, arb'[s].filePos = arb[s].filePos,
         arb'[s].length = arb[s].length, arb'[s].active => arb[s].active,
         \A a \in CellsOf(s) : psram'[a] = psram[a],
         \/ ahead'[s] = ahead[s] /\ heard'[s] = heard[s] /\ mixer'[s] = mixer[s]
         \/ ahead'[s] = Starved /\ heard'[s] = Silence
  PROVE  RingOK(s)'
<1>1. ahead[s] \in Nat \cup {Starved} /\ Starved = -1
  BY SlotNumbers
<1>2. ahead'[s] \in Nat \cup {Starved} /\ ahead'[s] <= ahead[s]
  BY <1>1
<1>3. ChannelBehind(s) /\ HeardLast(s)
  BY DEF RingOK
<1>4. ChannelBehind(s)' /\ HeardLast(s)'
  <2>1. CASE ahead'[s] = ahead[s] /\ heard'[s] = heard[s] /\ mixer'[s] = mixer[s]
    BY <1>3, <2>1 DEF ChannelBehind, HeardLast, On
  <2>2. CASE ahead'[s] = Starved /\ heard'[s] = Silence
    BY <2>2 DEF ChannelBehind, HeardLast, On, Starved, Silence
  <2> QED
    BY <2>1, <2>2
<1> QED
  BY <1>2, <1>4, SlotKept

-----------------------------------------------------------------------------
(* The mixer's steps keep the rings.                                       *)

\* What a channel that has frames to play pops is the next of its source.
LEMMA NextFrame ==
  ASSUME IInv, NEW s \in Slots, RingOK(s), ahead[s] \in Nat, ahead[s] > 0
  PROVE  psram[Base[s] + mixer[s].pos] =
           <<s, (arb[s].filePos - ahead[s]) % arb[s].length>>
<1>1. TablesOK /\ FpgaOK /\ SlotsAgree
  BY Parts
<1> DEFINE w == arb[s].writePos
           r == Ring[s]
           p == mixer[s].pos
           h == ahead[s]
<1>2. /\ w \in Nat /\ w < r /\ r \in Nat /\ p \in Nat /\ p < r /\ h \in Nat /\ h > 0
      /\ h # Starved
  BY <1>1, SlotNumbers
<1>3. h < r /\ p + h \in {w, w + r}
  BY <1>2 DEF RingOK, ChannelBehind
<1>4. RingFilled(s)
  BY <1>1, <1>2, PlayingIsActive DEF RingOK
<1>5. PICK m \in 0 .. r : h <= m /\ Holds(s, m)
  BY <1>4 DEF RingFilled
<1>6. h \in 1 .. m /\ h \in 1 .. r
  BY <1>2, <1>3, <1>5
<1>7. psram[Behind(s, h)] = <<s, (arb[s].filePos - h) % arb[s].length>>
  BY <1>5, <1>6 DEF Holds
<1>8. Behind(s, h) = Base[s] + Place(w, r, h)
  BY <1>1, <1>6, BehindInRing
<1> HIDE DEF w, r, p, h
<1>9. Place(w, r, h) = p
  BY <1>2, <1>3 DEF Place
<1> QED
  BY <1>7, <1>8, <1>9 DEF p, h

\* A tick moves a channel to the next place of its ring.
LEMMA PositionMoves ==
  ASSUME NEW r \in Nat, NEW p \in Nat, p < r
  PROVE  (p + 1) % r = IF p + 1 = r THEN 0 ELSE p + 1
<1>1. CASE p + 1 = r
  <2>1. p + 1 = 1 * r + 0 /\ 0 \in 0 .. r - 1 /\ 1 \in Int /\ p + 1 \in Int
    BY <1>1
  <2>2. (p + 1) % r = 0
    BY <2>1, RemainderIs
  <2> QED
    BY <1>1, <2>2
<1>2. CASE p + 1 # r
  <2>1. p + 1 = 0 * r + (p + 1) /\ p + 1 \in 0 .. r - 1 /\ 0 \in Int
    BY <1>2
  <2>2. (p + 1) % r = p + 1
    BY <2>1, RemainderIs
  <2> QED
    BY <1>2, <2>2
<1> QED
  BY <1>1, <1>2

\* What a tick does to one slot.
LEMMA RenderSlot ==
  ASSUME IInv, Render, NEW s \in Slots
  PROVE  /\ ahead'[s] = (IF On(s) /\ ahead[s] > 0 THEN ahead[s] - 1 ELSE Starved)
         /\ heard'[s] = (IF On(s) /\ ahead[s] > 0
                         THEN psram[Base[s] + mixer[s].pos] ELSE Silence)
         /\ On(s) => /\ mixer'[s].pos = (mixer[s].pos + 1) % Ring[s]
                     /\ On(s)'
<1>1. mixer[s] \in MixerType
  BY Parts DEF FpgaOK
<1>2. mixer'[s] = IF mixer[s].config = "off" THEN mixer[s]
                  ELSE [mixer[s] EXCEPT !.pos = (@ + 1) % Ring[s]]
  BY DEF Render
<1>3. On(s) => /\ mixer'[s].pos = (mixer[s].pos + 1) % Ring[s]
               /\ mixer'[s].config = "stream"
  BY <1>1, <1>2 DEF On, MixerType
<1> QED
  BY <1>3 DEF Render, On

\* A tick keeps every ring: the channel comes a frame nearer.
LEMMA RenderRing ==
  ASSUME IInv, Render, NEW s \in Slots, RingOK(s)
  PROVE  RingOK(s)'
<1>1. TablesOK /\ FpgaOK /\ SlotsAgree
  BY Parts
<1>2. arb' = arb /\ psram' = psram
  BY DEF Render, slotVars
<1> DEFINE w == arb[s].writePos
           r == Ring[s]
           p == mixer[s].pos
           h == ahead[s]
           q == mixer'[s].pos
           g == ahead'[s]
<1>3. /\ w \in Nat /\ w < r /\ r \in Nat /\ p \in Nat /\ p < r /\ h \in Nat \cup {Starved}
      /\ Starved = -1
  BY <1>1, SlotNumbers
<1>4. CASE On(s) /\ h > 0
  <2>1. h \in Nat /\ g = h - 1 /\ q = (p + 1) % r /\ On(s)'
        /\ heard'[s] = psram[Base[s] + mixer[s].pos]
    BY <1>3, <1>4, RenderSlot
  <2>2. q = IF p + 1 = r THEN 0 ELSE p + 1
    BY <1>3, <2>1, PositionMoves
  <2>3. h < r /\ p + h \in {w, w + r}
    BY <1>3, <1>4 DEF RingOK, ChannelBehind
  <2>4. heard'[s] = <<s, (arb[s].filePos - h) % arb[s].length>>
    BY <1>4, <2>1, NextFrame
  <2>5. arb[s].filePos \in Int
    BY <1>1, SlotNumbers
  <2>6. w = arb'[s].writePos
    BY <1>2
  <2> HIDE DEF w, r, p, h, q, g
  <2>7. g \in Nat /\ g # Starved /\ g < r /\ g <= h /\ q + g \in {w, w + r}
    BY <1>3, <1>4, <2>1, <2>2, <2>3
  <2>8. ChannelBehind(s)'
    BY <2>1, <2>6, <2>7 DEF ChannelBehind, r, q, g
  <2>9. arb[s].filePos - h = arb[s].filePos - g - 1
    BY <2>1, <2>5
  <2>10. HeardLast(s)'
    BY <1>2, <2>4, <2>7, <2>9 DEF HeardLast, g
  <2> QED
    BY <1>1, <1>2, <2>7, <2>8, <2>10, SlotKept DEF g, h
<1>5. CASE ~(On(s) /\ h > 0)
  <2>1. ahead'[s] = Starved /\ heard'[s] = Silence
    BY <1>5, RenderSlot
  <2> QED
    BY <1>1, <1>2, <2>1, SlotUntouched
<1> QED
  BY <1>4, <1>5

\* What configuring slot s's channel does to slot t: it is rewound to the
\* ring's start, or s's joins where it stands, or t goes on.
LEMMA ChannelOnSlot ==
  ASSUME NEW s \in Slots, ChannelOn(s), NEW t \in Slots
  PROVE  \/ /\ t = s \/ On(t)
            /\ mixer'[t].config = "stream" /\ mixer'[t].pos = 1 /\ heard'[t] = Silence
            /\ ahead'[t] = IF arb[t].writePos > 0 THEN arb[t].writePos - 1 ELSE Starved
         \/ /\ t = s /\ ~On(t)
            /\ mixer'[t].config = "stream" /\ mixer'[t].pos = mixer[t].pos
            /\ heard'[t] = Silence
            /\ ahead'[t] = IF mixer[t].pos < arb[t].writePos
                           THEN arb[t].writePos - mixer[t].pos ELSE Starved
         \/ /\ On(t) /\ mixer'[t].config = "stream" /\ mixer'[t].pos = mixer[t].pos
            /\ heard'[t] = heard[t] /\ ahead'[t] = ahead[t]
         \/ ~On(t) /\ heard'[t] = heard[t] /\ ahead'[t] = ahead[t]
<1>1. PICK accepted \in BOOLEAN :
        LET playing == {u \in Slots : u = s \/ On(u)}
            rewound == IF accepted THEN playing ELSE {}
            resumed == IF accepted \/ On(s) THEN {} ELSE {s}
            left(u, pos) == IF pos < arb[u].writePos THEN arb[u].writePos - pos
                            ELSE Starved
        IN  /\ mixer' = [u \in Slots |->
                           [config |-> IF u = s THEN "stream" ELSE mixer[u].config,
                            pos |-> IF accepted /\ (u = s \/ mixer[u].config # "off")
                                    THEN 1 ELSE mixer[u].pos]]
            /\ ahead' = [u \in Slots |->
                           IF u \in rewound /\ arb[u].writePos > 0
                           THEN arb[u].writePos - 1
                           ELSE IF u \in rewound THEN Starved
                           ELSE IF u \in resumed THEN left(u, mixer[u].pos)
                           ELSE ahead[u]]
            /\ heard' = [u \in Slots |->
                           IF u \in rewound \cup resumed THEN Silence ELSE heard[u]]
  BY DEF ChannelOn
<1>2. CASE accepted /\ (t = s \/ On(t))
  BY <1>1, <1>2 DEF On
<1>3. CASE accepted /\ ~(t = s \/ On(t))
  BY <1>1, <1>3 DEF On
<1>4. CASE ~accepted /\ t = s /\ ~On(t)
  BY <1>1, <1>4 DEF On
<1>5. CASE ~accepted /\ On(t)
  BY <1>1, <1>5 DEF On
<1>6. CASE ~accepted /\ t # s /\ ~On(t)
  BY <1>1, <1>6 DEF On
<1> QED
  BY <1>2, <1>3, <1>4, <1>5, <1>6

\* Enabling a channel or changing its gain keeps every ring: a channel that
\* is rewound has what the write position is ahead of the ring's start.
LEMMA ChannelOnRing ==
  ASSUME IInv, NEW s \in Slots, ChannelOn(s), arb' = arb, psram' = psram,
         NEW t \in Slots, RingOK(t)
  PROVE  RingOK(t)'
<1>1. TablesOK /\ FpgaOK /\ SlotsAgree
  BY Parts
<1> DEFINE w == arb[t].writePos
           r == Ring[t]
           p == mixer[t].pos
           g == ahead'[t]
           q == mixer'[t].pos
<1>2. /\ w \in Nat /\ w < r /\ r \in Nat /\ p \in Nat /\ p < r
      /\ ahead[t] \in Nat \cup {Starved} /\ Starved = -1
  BY <1>1, SlotNumbers
<1>3. ASSUME mixer'[t].config = "stream", heard'[t] = Silence,
             g = Starved \/ (g \in Nat /\ g <= w /\ q + g = w)
      PROVE  RingOK(t)'
  <2>1. HeardLast(t)'
    BY <1>3 DEF HeardLast
  <2>2. ChannelBehind(t)'
    <3>1. w = arb'[t].writePos
      OBVIOUS
    <3> HIDE DEF w, r, g, q, p
    <3>2. g = Starved \/ (g < r /\ q + g \in {w, w + r})
      BY <1>2, <1>3
    <3> QED
      BY <1>3, <3>1, <3>2 DEF ChannelBehind, On, w, r, g, q
  <2>3. g \in Nat \cup {Starved} /\ g <= w
    BY <1>2, <1>3
  <2> QED
    BY <1>1, <2>1, <2>2, <2>3, SlotKept
<1>4. CASE /\ mixer'[t].config = "stream" /\ q = 1 /\ heard'[t] = Silence
           /\ g = IF w > 0 THEN w - 1 ELSE Starved
  <2> HIDE DEF w, r, g, q, p
  <2>1. g = Starved \/ (g \in Nat /\ g <= w /\ q + g = w)
    BY <1>2, <1>4
  <2> QED
    BY <1>3, <1>4, <2>1
<1>5. CASE /\ mixer'[t].config = "stream" /\ q = p /\ heard'[t] = Silence
           /\ g = IF p < w THEN w - p ELSE Starved
  <2> HIDE DEF w, r, g, q, p
  <2>1. g = Starved \/ (g \in Nat /\ g <= w /\ q + g = w)
    BY <1>2, <1>5
  <2> QED
    BY <1>3, <1>5, <2>1
<1>6. CASE /\ On(t) /\ mixer'[t].config = "stream" /\ mixer'[t].pos = mixer[t].pos
           /\ heard'[t] = heard[t] /\ ahead'[t] = ahead[t]
  <2>1. ChannelBehind(t)' /\ HeardLast(t)'
    BY <1>6 DEF RingOK, ChannelBehind, HeardLast, On
  <2>2. ahead'[t] \in Nat \cup {Starved} /\ ahead'[t] <= ahead[t]
    BY <1>2, <1>6
  <2> QED
    BY <1>1, <2>1, <2>2, SlotKept
<1>7. CASE ~On(t) /\ heard'[t] = heard[t] /\ ahead'[t] = ahead[t]
  <2>1. ahead[t] = Starved /\ heard[t] = Silence
    BY <1>7 DEF RingOK, ChannelBehind, HeardLast
  <2> QED
    BY <1>1, <1>7, <2>1, SlotUntouched
<1> QED
  BY <1>4, <1>5, <1>6, <1>7, ChannelOnSlot

\* What muting the channels of T does to slot t.
LEMMA ChannelsOffSlot ==
  ASSUME NEW T \in SUBSET Slots, ChannelsOff(T), NEW t \in Slots
  PROVE  /\ t \in T => ahead'[t] = Starved /\ heard'[t] = Silence
         /\ t \notin T => /\ ahead'[t] = ahead[t] /\ heard'[t] = heard[t]
                         /\ mixer'[t] = mixer[t]
BY DEF ChannelsOff

\* Stopping slots keeps every ring.
LEMMA StopRing ==
  ASSUME IInv, NEW T \in SUBSET Slots, Stop(T), NEW t \in Slots, RingOK(t)
  PROVE  RingOK(t)'
<1> DEFINE stopped == {s \in T : slot[s].active}
           muted == {s \in stopped : slot[s].enabled}
<1>1. TablesOK /\ FpgaOK /\ SlotsAgree
  BY Parts
<1>2. /\ arb' = [s \in Slots |-> IF s \in stopped THEN [arb[s] EXCEPT !.active = FALSE]
                                 ELSE arb[s]]
      /\ ChannelsOff(muted) /\ psram' = psram
  BY DEF Stop
<1>3. muted \in SUBSET Slots
  OBVIOUS
<1>4. arb[t] \in ArbType
  BY <1>1 DEF TablesOK
<1> HIDE DEF stopped, muted
<1>5. /\ arb'[t].writePos = arb[t].writePos /\ arb'[t].filePos = arb[t].filePos
      /\ arb'[t].length = arb[t].length /\ (arb'[t].active => arb[t].active)
  BY <1>2, <1>4 DEF ArbType
<1>6. \/ ahead'[t] = ahead[t] /\ heard'[t] = heard[t] /\ mixer'[t] = mixer[t]
      \/ ahead'[t] = Starved /\ heard'[t] = Silence
  BY <1>2, <1>3, ChannelsOffSlot
<1> QED
  BY <1>1, <1>2, <1>5, <1>6, SlotUntouched

\* The rings of the other slots are left alone when slot s starts over.
LEMMA OthersKept ==
  ASSUME IInv, NEW s \in Slots, NEW a, arb' = [arb EXCEPT ![s] = a],
         ChannelsOff({u \in {s} : slot[s].enabled}), psram' = Emptied(s),
         NEW t \in Slots, t # s, RingOK(t)
  PROVE  RingOK(t)'
<1> DEFINE muted == {u \in {s} : slot[s].enabled}
<1>1. TablesOK /\ FpgaOK
  BY Parts
<1>2. muted \in SUBSET Slots
  OBVIOUS
<1>3. arb'[t] = arb[t] /\ t \notin muted
  BY <1>1 DEF TablesOK
<1>4. ahead'[t] = ahead[t] /\ heard'[t] = heard[t] /\ mixer'[t] = mixer[t]
  BY <1>2, <1>3, ChannelsOffSlot
<1>5. ASSUME NEW x \in CellsOf(t) PROVE psram'[x] = psram[x]
  <2>1. x \notin CellsOf(s)
    BY RingsApart
  <2>2. x \in Addresses
    BY DEF Addresses, CellsOf
  <2> QED
    BY <2>1, <2>2 DEF Emptied
<1> QED
  BY <1>1, <1>3, <1>4, <1>5, SlotUntouched

\* A slot that starts over has an empty ring and is silent.
LEMMA RestartRing ==
  ASSUME IInv, NEW s \in Slots, NEW a \in ArbType, a.writePos = 0, a.length > 0,
         arb' = [arb EXCEPT ![s] = a],
         ChannelsOff({t \in {s} : slot[s].enabled}), psram' = Emptied(s),
         NEW t \in Slots, RingOK(t)
  PROVE  RingOK(t)'
<1> DEFINE muted == {u \in {s} : slot[s].enabled}
<1>1. TablesOK /\ FpgaOK /\ PsramOK /\ SlotsAgree
  BY Parts
<1>2. muted \in SUBSET Slots
  OBVIOUS
<1>3. CASE t # s
  BY <1>3, OthersKept
<1>4. CASE t = s
  <2>1. arb'[s] = a
    BY <1>1 DEF TablesOK
  <2>2. ahead'[s] = Starved /\ heard'[s] = Silence
    <3>1. CASE slot[s].enabled
      <4>1. s \in muted
        BY <3>1
      <4> QED
        BY <1>2, <4>1, ChannelsOffSlot
    <3>2. CASE ~slot[s].enabled
      <4>1. s \notin muted /\ ~On(s)
        BY <1>1, <3>2 DEF SlotsAgree
      <4>2. ahead[s] = Starved /\ heard[s] = Silence
        BY <1>4, <4>1 DEF RingOK, ChannelBehind, HeardLast
      <4> QED
        BY <1>2, <4>1, <4>2, ChannelsOffSlot
    <3> QED
      BY <3>1, <3>2
  <2>3. ChannelBehind(s)' /\ HeardLast(s)'
    BY <2>2 DEF ChannelBehind, HeardLast
  <2>4. HasSource(s)'
    BY <2>1 DEF HasSource
  <2>5. Holds(s, 0)'
    <3>1. Ring[s] \in Nat /\ 0 < Ring[s] /\ Base[s] \in Nat
      BY Sizes
    <3>2. ASSUME NEW k \in 1 .. Ring[s] PROVE psram'[Behind(s, k)'] = Stale
      <4>1. Place(0, Ring[s], k) \in 0 .. Ring[s] - 1
        BY <3>1, Places
      <4>2. Behind(s, k)' = Base[s] + Place(0, Ring[s], k)
        BY <2>1 DEF Behind
      <4> DEFINE x == Base[s] + Place(0, Ring[s], k)
      <4>3. x \in CellsOf(s) /\ x \in Addresses
        BY <3>1, <4>1 DEF CellsOf, Addresses
      <4> HIDE DEF x
      <4>4. psram'[x] = Stale
        BY <4>3 DEF Emptied
      <4> QED
        BY <4>2, <4>4 DEF x
    <3>3. 0 + 1 = 1 /\ 1 .. 0 = {}
      OBVIOUS
    <3> QED
      BY <3>2, <3>3 DEF Holds
  <2>6. RingFilled(s)'
    <3>1. 0 \in 0 .. Ring[s] /\ arb'[s].writePos <= 0 /\ ahead'[s] <= 0
      BY <2>1, <2>2, Sizes DEF Starved
    <3> QED
      BY <2>5, <3>1 DEF RingFilled
  <2> QED
    BY <1>4, <2>3, <2>4, <2>6 DEF RingOK
<1> QED
  BY <1>3, <1>4

\* Commands keep every ring.
LEMMA CommandRing ==
  ASSUME IInv, NEW c \in Commands, Command(c), NEW t \in Slots, RingOK(t)
  PROVE  RingOK(t)'
<1> DEFINE s == c.slot
<1>1. s \in Slots /\ c.length \in Nat /\ c.looping \in BOOLEAN /\ c.prio \in 0 .. 3
      /\ c.arg \in Nat
  BY CommandType
<1>2. TablesOK /\ FpgaOK /\ SlotsAgree
  BY Parts
<1>3. ASSUME NEW T \in SUBSET Slots, Stop(T) PROVE RingOK(t)'
  BY <1>3, StopRing
<1>4. CASE Play(c) /\ c.length # 0
  <2> DEFINE a == [active |-> TRUE, writePos |-> 0, filePos |-> 0,
                   length |-> c.length, looping |-> c.looping,
                   primed |-> FALSE, prio |-> c.prio]
  <2>1. a \in ArbType /\ a.writePos = 0 /\ a.length > 0
    BY <1>1, <1>4 DEF ArbType
  <2>2. /\ arb' = [arb EXCEPT ![s] = a] /\ ChannelsOff({u \in {s} : slot[s].enabled})
        /\ psram' = Emptied(s)
    BY <1>4 DEF Play
  <2> HIDE DEF a, s
  <2> QED
    BY <1>1, <2>1, <2>2, RestartRing
<1>5. CASE Seek(c)
  <2> DEFINE point == IF c.arg >= arb[s].length THEN 0 ELSE c.arg
             a == [arb[s] EXCEPT !.filePos = point, !.writePos = 0, !.primed = FALSE]
  <2>1. arb[s] \in ArbType /\ arb[s].length \in Nat
    BY <1>1, <1>2 DEF TablesOK, ArbType
  <2>2. point \in Nat
    BY <1>1, <2>1
  <2>3. a \in ArbType /\ a.writePos = 0 /\ a.length = arb[s].length
    BY <2>1, <2>2 DEF ArbType
  <2>4. arb[s].active
    BY <1>1, <1>2, <1>5 DEF SlotsAgree, Seek
  <2>5. /\ arb' = [arb EXCEPT ![s] = a] /\ ChannelsOff({u \in {s} : slot[s].enabled})
        /\ psram' = Emptied(s)
    BY <1>1, <1>5 DEF Seek
  <2> HIDE DEF a, s, point
  <2>6. CASE t = s
    <3>1. a.length > 0
      BY <2>3, <2>4, <2>6 DEF RingOK, HasSource
    <3> QED
      BY <1>1, <2>3, <2>5, <3>1, RestartRing
  <2>7. CASE t # s
    BY <1>1, <1>2, <2>3, <2>5, <2>7, OthersKept
  <2> QED
    BY <2>6, <2>7
<1>6. CASE Gain(c)
  <2>1. ChannelOn(s) /\ arb' = arb /\ psram' = psram
    BY <1>6 DEF Gain, slotVars
  <2> QED
    BY <1>1, <2>1, ChannelOnRing
<1>7. CASE Play(c) /\ c.length = 0
  <2>1. Stop({s}) /\ {s} \in SUBSET Slots
    BY <1>1, <1>7 DEF Play
  <2> QED
    BY <1>3, <2>1
<1>8. CASE Stop({s})
  BY <1>1, <1>3, <1>8
<1>9. CASE Stop(Slots)
  BY <1>3, <1>9
<1> QED
  BY <1>4, <1>5, <1>6, <1>7, <1>8, <1>9 DEF Command

-----------------------------------------------------------------------------
(* The offload.                                                            *)

\* The cells an offload writes: in its slot's ring the furthest behind the
\* write position.
LEMMA WrittenCells ==
  ASSUME IInv, pc = "offload", NEW s \in Slots, s = job.slot
  PROVE  /\ \A t \in Slots : t # s => \A a \in CellsOf(t) : a \notin Written
         /\ \A k \in 1 .. Ring[s] :
              Behind(s, k) \in Written <=> k > Ring[s] - job.run
         /\ job.run \in Nat /\ arb[s].writePos + job.run <= Ring[s]
         /\ arb[s].filePos + job.run <= arb[s].length
<1>1. TablesOK /\ FpgaOK /\ ServiceOK /\ JobFits
  BY Parts
<1> DEFINE w == arb[s].writePos
           r == Ring[s]
           b == Base[s]
           n == job.run
<1>2. /\ w \in Nat /\ w < r /\ r \in Nat /\ b \in Nat
      /\ arb[s].filePos \in Nat /\ arb[s].length \in Nat
  BY <1>1, SlotNumbers
<1>3. n \in Nat
  BY <1>1, Sizes DEF ServiceOK
<1>4. n <= r - w /\ n <= arb[s].length - arb[s].filePos
  BY <1>1 DEF JobFits
<1>5. w + n <= r /\ arb[s].filePos + n <= arb[s].length
  BY <1>2, <1>3, <1>4
<1>6. Written = b + w .. b + w + n - 1
  BY DEF Written
<1>7. ASSUME NEW t \in Slots, t # s, NEW a \in CellsOf(t) PROVE a \notin Written
  <2>1. a \notin CellsOf(s)
    BY <1>7, RingsApart
  <2>2. Written \subseteq CellsOf(s)
    <3>1. CellsOf(s) = b .. b + r - 1
      BY DEF CellsOf
    <3> HIDE DEF w, r, b, n
    <3> QED
      BY <1>2, <1>3, <1>5, <1>6, <3>1
  <2> QED
    BY <2>1, <2>2
<1>8. ASSUME NEW k \in 1 .. Ring[s]
      PROVE  Behind(s, k) \in Written <=> k > Ring[s] - job.run
  <2> DEFINE p == Place(w, r, k)
  <2>1. Behind(s, k) = b + p /\ p \in 0 .. r - 1
    BY <1>1, BehindInRing
  <2>2. p \in w .. w + n - 1 <=> k > r - n
    BY <1>2, <1>3, <1>5, PlacesAhead
  <2> HIDE DEF p, w, b, r, n
  <2>3. b + p \in b + w .. b + w + n - 1 <=> p \in w .. w + n - 1
    BY <1>2, <1>3, <2>1
  <2> QED
    BY <1>6, <2>1, <2>2, <2>3 DEF r, n
<1> QED
  BY <1>3, <1>5, <1>7, <1>8

\* The offload's slot after it succeeded: its positions moved on together.
LEMMA AfterNumbers ==
  ASSUME IInv, OffloadDone, NEW s \in Slots, s = job.slot
  PROVE  /\ arb'[s].writePos = Moved(arb[s].writePos, Ring[s], job.run)
         /\ arb'[s].filePos = IF arb[s].filePos + job.run >= arb[s].length /\ arb[s].looping
                             THEN 0 ELSE arb[s].filePos + job.run
         /\ arb'[s].length = arb[s].length /\ arb'[s].active = arb[s].active
         /\ \A t \in Slots : t # s => arb'[t] = arb[t]
<1>1. TablesOK
  BY Parts
<1>2. arb \in [Slots -> ArbType] /\ arb[s] \in ArbType
  BY <1>1 DEF TablesOK
<1>3. arb' = [arb EXCEPT ![s] = After(s, job.run)]
  BY DEF OffloadDone
<1> DEFINE v == NextWrite(s, job.run)
           fp == arb[s].filePos + job.run
           nf == IF fp >= arb[s].length /\ arb[s].looping THEN 0 ELSE fp
           pr == arb[s].primed \/ (v + Ring[s] - mixer[s].pos) % Ring[s] >= Head(s)
<1>4. After(s, job.run) = [arb[s] EXCEPT !.writePos = v, !.filePos = nf, !.primed = pr]
  BY DEF After
<1>5. v = Moved(arb[s].writePos, Ring[s], job.run)
  <2>1. arb[s].writePos \in Nat /\ Ring[s] \in Nat /\ job.run \in Nat
    BY <1>1, <1>2, Sizes, WrittenCells DEF ArbType, OffloadDone
  <2> QED
    BY <2>1 DEF NextWrite, Moved
<1> HIDE DEF v, nf, pr
<1>6. /\ After(s, job.run).writePos = v /\ After(s, job.run).filePos = nf
      /\ After(s, job.run).length = arb[s].length
      /\ After(s, job.run).active = arb[s].active
  BY <1>2, <1>4 DEF ArbType
<1>7. arb'[s] = After(s, job.run) /\ \A t \in Slots : t # s => arb'[t] = arb[t]
  BY <1>2, <1>3
<1> QED
  BY <1>5, <1>6, <1>7 DEF nf

\* Numbers of frames counted back from the file position stay the same ones
\* when it moves on and starts over at the end of a loop.
LEMMA CountsKept ==
  ASSUME NEW f \in Nat, NEW l \in Nat, l > 0, NEW n \in Nat, f + n <= l,
         NEW g, g = f + n \/ (f + n >= l /\ g = 0), NEW k \in Int
  PROVE  (g - k) % l = (f + n - k) % l
<1>1. CASE f + n >= l /\ g = 0
  <2>1. f + n = l /\ g = 0
    BY <1>1
  <2>2. ((0 - k) + l) % l = (0 - k) % l
    BY RemainderShift
  <2>3. (0 - k) + l = f + n - k
    BY <2>1
  <2> QED
    BY <2>1, <2>2, <2>3
<1>2. CASE g = f + n
  BY <1>2
<1> QED
  BY <1>1, <1>2

\* A successful offload puts the source's next frames behind the write
\* position; those that were there are further behind.
LEMMA OffloadFills ==
  ASSUME IInv, OffloadDone, NEW s \in Slots, s = job.slot, RingOK(s), JobBehind,
         arb[s].active
  PROVE  RingFilled(s)'
<1>1. TablesOK /\ FpgaOK /\ SlotsAgree
  BY Parts
<1> DEFINE w == arb[s].writePos
           r == Ring[s]
           b == Base[s]
           n == job.run
           f == arb[s].filePos
           l == arb[s].length
           v == arb'[s].writePos
           g == arb'[s].filePos
           h == ahead[s]
<1>2. pc = "offload"
  BY DEF OffloadDone
<1>3. /\ w \in Nat /\ w < r /\ r \in Nat /\ b \in Nat /\ f \in Nat /\ l \in Nat
      /\ h \in Nat \cup {Starved} /\ Starved = -1
  BY <1>1, SlotNumbers
<1>4. /\ n \in Nat /\ w + n <= r /\ f + n <= l
      /\ \A k \in 1 .. r : Behind(s, k) \in Written <=> k > r - n
  BY <1>2, WrittenCells
<1>5. l > 0
  BY DEF RingOK, HasSource
<1>6. /\ v = Moved(w, r, n)
      /\ g = IF f + n >= l /\ arb[s].looping THEN 0 ELSE f + n
      /\ arb'[s].length = l
  BY AfterNumbers
<1>7. g = f + n \/ (f + n >= l /\ g = 0)
  BY <1>6
<1>8. /\ psram' = [a \in Addresses |->
                     IF a \in Written THEN <<s, f + a - b - w>> ELSE psram[a]]
      /\ ahead'[s] = IF h = Starved THEN Starved ELSE h + n
  BY <1>1 DEF OffloadDone, FpgaOK
<1>9. PICK m \in 0 .. r : w <= m /\ h <= m /\ Holds(s, m)
  BY DEF RingOK, RingFilled
<1>10. h # Starved => h + n < r
  BY <1>2 DEF JobBehind
<1>11. \A k \in 1 .. r : Behind(s, k)' = b + Place(v, r, k)
  BY DEF Behind
<1>12. \A k \in 1 .. r : Behind(s, k) = b + Place(w, r, k) /\ Behind(s, k) \in Addresses
  BY <1>1, BehindInRing
<1>13. /\ Written = b + w .. b + w + n - 1
       /\ \A a \in b .. b + r - 1 : a \in Addresses
  BY DEF Written, Addresses
<1>14. /\ \A k \in 1 .. m : psram[Behind(s, k)] = <<s, (f - k) % l>>
       /\ \A k \in m + 1 .. r : psram[Behind(s, k)] = Stale
  BY <1>9 DEF Holds
<1> HIDE DEF w, r, b, n, f, l, v, g, h
<1>15. ASSUME NEW k \in 1 .. r
       PROVE  /\ k <= n => Place(v, r, k) = w + n - k
              /\ k > n => Place(v, r, k) = Place(w, r, k - n)
  <2>1. r \in Nat /\ w \in Nat /\ w < r /\ n \in Nat /\ w + n <= r
    BY <1>3, <1>4
  <2>2. /\ k <= n => Place(Moved(w, r, n), r, k) = w + n - k
        /\ k > n => Place(Moved(w, r, n), r, k) = Place(w, r, k - n)
    BY <2>1, PlacesMoved
  <2> QED
    BY <1>6, <2>2
<1>16. PICK j \in 0 .. r : j <= m + n /\ (j < r => j = m + n)
  <2> DEFINE i == IF m + n <= r THEN m + n ELSE r
  <2>1. i \in 0 .. r /\ i <= m + n /\ (i < r => i = m + n)
    BY <1>3, <1>4, <1>9
  <2> QED
    BY <2>1
<1>17. ASSUME NEW k \in 1 .. n
       PROVE  psram'[Behind(s, k)'] = <<s, (g - k) % l>>
  <2> DEFINE a == b + (w + n - k)
  <2>1. k \in 1 .. r /\ a \in Written /\ a \in b .. b + r - 1
    BY <1>3, <1>4, <1>13
  <2>2. Behind(s, k)' = a
    <3>1. k <= n
      OBVIOUS
    <3> QED
      BY <1>11, <1>15, <2>1, <3>1
  <2>3. f + a - b - w = f + n - k /\ f + n - k \in 0 .. l - 1
    BY <1>3, <1>4
  <2>4. a \in Addresses
    BY <1>13, <2>1
  <2> HIDE DEF a
  <2>5. psram'[a] = <<s, f + a - b - w>>
    BY <1>8, <2>1, <2>4
  <2> DEFINE i == f + n - k
  <2>6. i \in 0 .. l - 1 /\ i = 0 * l + i /\ 0 \in Int /\ i \in Int
    BY <1>3, <2>3
  <2>7. i % l = i
    BY <1>3, <1>5, <2>6, RemainderIs
  <2>8. (g - k) % l = (f + n - k) % l
    BY <1>3, <1>4, <1>5, <1>7, CountsKept
  <2> QED
    BY <2>2, <2>3, <2>5, <2>7, <2>8
<1>18. ASSUME NEW k \in n + 1 .. r
       PROVE  /\ k - n \in 1 .. r
              /\ psram'[Behind(s, k)'] = psram[Behind(s, k - n)]
  <2>1. k \in 1 .. r /\ k > n /\ k - n \in 1 .. r /\ ~(k - n > r - n)
    BY <1>3, <1>4
  <2>2. Behind(s, k)' = Behind(s, k - n)
    BY <1>11, <1>12, <1>15, <2>1
  <2>3. Behind(s, k - n) \notin Written /\ Behind(s, k - n) \in Addresses
    BY <1>4, <1>12, <2>1
  <2>4. psram'[Behind(s, k - n)] = psram[Behind(s, k - n)]
    BY <1>8, <2>3
  <2> QED
    BY <2>1, <2>2, <2>4
<1>19. ASSUME NEW k \in 1 .. j
       PROVE  psram'[Behind(s, k)'] = <<s, (g - k) % l>>
  <2>1. CASE k <= n
    <3>1. k \in 1 .. n
      BY <1>16, <2>1
    <3> QED
      BY <1>17, <3>1
  <2>2. CASE ~(k <= n)
    <3>1. k \in n + 1 .. r /\ k - n \in 1 .. m /\ k \in Int /\ f - (k - n) = f + n - k
      BY <1>3, <1>4, <1>9, <1>16, <2>2
    <3>2. psram'[Behind(s, k)'] = <<s, (f - (k - n)) % l>>
      BY <1>14, <1>18, <3>1
    <3>3. (g - k) % l = (f + n - k) % l
      BY <1>3, <1>4, <1>5, <1>7, <3>1, CountsKept
    <3> QED
      BY <3>1, <3>2, <3>3
  <2> QED
    BY <2>1, <2>2
<1>20. ASSUME NEW k \in j + 1 .. r PROVE psram'[Behind(s, k)'] = Stale
  <2>1. k \in n + 1 .. r /\ k - n \in m + 1 .. r
    BY <1>3, <1>4, <1>9, <1>16
  <2> QED
    BY <1>14, <1>18, <2>1
<1>21. Holds(s, j)'
  BY <1>6, <1>19, <1>20 DEF Holds, r, g
<1>22. v <= j /\ ahead'[s] <= j
  BY <1>3, <1>4, <1>6, <1>8, <1>9, <1>10, <1>16 DEF Moved
<1> QED
  BY <1>16, <1>21, <1>22 DEF RingFilled, r, v

\* A successful offload keeps every ring.
LEMMA OffloadDoneRing ==
  ASSUME IInv, OffloadDone, JobBehind, NEW t \in Slots, RingOK(t)
  PROVE  RingOK(t)'
<1>1. TablesOK /\ FpgaOK /\ SlotsAgree /\ JobFits
  BY Parts
<1>2. PICK s \in Slots : s = job.slot /\ pc = "offload"
  BY <1>1 DEF OffloadDone, JobFits
<1>3. mixer' = mixer /\ heard' = heard
      /\ ahead' = [ahead EXCEPT ![job.slot] = IF @ = Starved THEN Starved ELSE @ + job.run]
  BY DEF OffloadDone
<1>4. CASE t # s
  <2>1. arb'[t] = arb[t]
    BY <1>2, <1>4, AfterNumbers
  <2>2. ahead'[t] = ahead[t] /\ heard'[t] = heard[t] /\ mixer'[t] = mixer[t]
    BY <1>1, <1>2, <1>3, <1>4 DEF FpgaOK
  <2>3. ASSUME NEW a \in CellsOf(t) PROVE psram'[a] = psram[a]
    <3>1. a \notin Written
      BY <1>2, <1>4, WrittenCells
    <3>2. a \in Addresses
      BY DEF Addresses, CellsOf
    <3> QED
      BY <3>1, <3>2 DEF OffloadDone
  <2> QED
    BY <1>1, <2>1, <2>2, <2>3, SlotUntouched
<1>5. CASE t = s
  <2> DEFINE w == arb[s].writePos
             r == Ring[s]
             n == job.run
             f == arb[s].filePos
             l == arb[s].length
             v == arb'[s].writePos
             g == arb'[s].filePos
             h == ahead[s]
             p == mixer[s].pos
  <2>1. /\ w \in Nat /\ w < r /\ r \in Nat /\ f \in Nat /\ l \in Nat
        /\ h \in Nat \cup {Starved} /\ Starved = -1 /\ p \in Nat /\ p < r
    BY <1>1, <1>2, SlotNumbers
  <2>2. n \in Nat /\ w + n <= r /\ f + n <= l
    BY <1>2, WrittenCells
  <2>3. /\ v = Moved(w, r, n)
        /\ g = IF f + n >= l /\ arb[s].looping THEN 0 ELSE f + n
        /\ arb'[s].length = l /\ arb'[s].active = arb[s].active
    BY <1>2, AfterNumbers
  <2>4. g = f + n \/ (f + n >= l /\ g = 0)
    BY <2>3
  <2>5. ahead'[s] = IF h = Starved THEN Starved ELSE h + n
    BY <1>1, <1>2, <1>3 DEF FpgaOK
  <2>6. HasSource(s)'
    BY <1>5, <2>3 DEF RingOK, HasSource
  <2>7. arb'[s].active => RingFilled(s)'
    BY <1>2, <1>5, <2>3, OffloadFills
  <2>8. CASE h = Starved
    <3>1. ahead'[s] = Starved /\ heard'[s] = Silence
      BY <1>3, <1>5, <2>5, <2>8 DEF RingOK, HeardLast
    <3>2. ChannelBehind(s)' /\ HeardLast(s)'
      BY <3>1 DEF ChannelBehind, HeardLast
    <3> QED
      BY <1>5, <2>6, <2>7, <3>2 DEF RingOK
  <2>9. CASE h # Starved
    <3>1. On(s) /\ arb[s].active /\ l > 0
      BY <1>1, <1>2, <1>5, <2>9, PlayingIsActive DEF RingOK, HasSource
    <3>2. h \in Nat /\ h + n < r
      BY <1>2, <2>1, <2>9 DEF JobBehind
    <3>3. p + h \in {w, w + r}
      BY <1>5, <2>9 DEF RingOK, ChannelBehind
    <3>4. On(s)' /\ mixer'[s].pos = p
      BY <1>3, <3>1 DEF On
    <3>5. heard[s] # Silence => heard[s] = <<s, (f - h - 1) % l>>
      BY <1>5, <2>9 DEF RingOK, HeardLast
    <3> HIDE DEF w, r, n, f, l, v, g, h, p
    <3>6. h + n \in Nat /\ p + (h + n) \in {v, v + r} /\ h + n # Starved
      BY <2>1, <2>2, <2>3, <3>2, <3>3 DEF Moved
    <3>7. ahead'[s] = h + n
      BY <2>5, <2>9
    <3>8. ChannelBehind(s)'
      BY <3>2, <3>4, <3>6, <3>7 DEF ChannelBehind, r, v
    <3>9. (g - (h + n + 1)) % l = (f + n - (h + n + 1)) % l
      <4> DEFINE k == h + n + 1
      <4>1. k \in Int
        BY <3>6
      <4>2. l \in Nat /\ l > 0 /\ f \in Nat /\ n \in Nat /\ f + n <= l
        BY <2>1, <2>2, <3>1
      <4> HIDE DEF k
      <4>3. (g - k) % l = (f + n - k) % l
        BY <2>4, <4>1, <4>2, CountsKept
      <4> QED
        BY <4>3 DEF k
    <3>10. g \in Nat
      BY <2>1, <2>2, <2>3
    <3>11. g - (h + n + 1) = g - (h + n) - 1 /\ f + n - (h + n + 1) = f - h - 1
      BY <2>1, <2>2, <3>2, <3>10
    <3>12. HeardLast(s)'
      BY <1>3, <2>3, <3>5, <3>6, <3>7, <3>9, <3>11 DEF HeardLast, g
    <3> QED
      BY <1>5, <2>6, <2>7, <3>8, <3>12 DEF RingOK
  <2> QED
    BY <2>8, <2>9
<1> QED
  BY <1>4, <1>5

\* A failed one costs the frames furthest behind, which have been played.
LEMMA OffloadFailedRing ==
  ASSUME IInv, OffloadFailed, JobBehind, NEW t \in Slots, RingOK(t)
  PROVE  RingOK(t)'
<1>1. TablesOK /\ FpgaOK /\ SlotsAgree /\ JobFits
  BY Parts
<1>2. PICK s \in Slots : s = job.slot /\ pc = "offload"
  BY <1>1 DEF OffloadFailed, JobFits
<1>3. /\ UNCHANGED <<arb, slot, file, mixer, ahead, heard>>
      /\ psram' = [a \in Addresses |-> IF a \in Written THEN Stale ELSE psram[a]]
  BY DEF OffloadFailed, slotVars, fpgaVars
<1>4. CASE t # s
  <2>1. ASSUME NEW a \in CellsOf(t) PROVE psram'[a] = psram[a]
    <3>1. a \notin Written
      BY <1>2, <1>4, WrittenCells
    <3>2. a \in Addresses
      BY DEF Addresses, CellsOf
    <3> QED
      BY <1>3, <3>1, <3>2
  <2> QED
    BY <1>1, <1>3, <2>1, SlotUntouched
<1>5. CASE t = s
  <2> DEFINE w == arb[s].writePos
             r == Ring[s]
             n == job.run
             h == ahead[s]
  <2>1. /\ w \in Nat /\ w < r /\ r \in Nat
        /\ h \in Nat \cup {Starved} /\ Starved = -1
    BY <1>1, <1>2, SlotNumbers
  <2>2. /\ n \in Nat /\ w + n <= r
        /\ \A k \in 1 .. r : Behind(s, k) \in Written <=> k > r - n
    BY <1>2, WrittenCells
  <2>3. h # Starved => h + n < r
    BY <1>2 DEF JobBehind
  <2>4. \A k \in 1 .. r : Behind(s, k) \in Addresses /\ Behind(s, k)' = Behind(s, k)
    BY <1>1, <1>2, <1>3, BehindInRing DEF Behind
  <2>5. HasSource(s)' /\ ChannelBehind(s)' /\ HeardLast(s)'
    BY <1>3, <1>5 DEF RingOK, HasSource, ChannelBehind, HeardLast, On
  <2>6. ASSUME arb[s].active PROVE RingFilled(s)'
    <3>1. PICK m \in 0 .. r : w <= m /\ h <= m /\ Holds(s, m)
      BY <1>5, <2>6 DEF RingOK, RingFilled
    <3>2. /\ \A k \in 1 .. m :
               psram[Behind(s, k)] = <<s, (arb[s].filePos - k) % arb[s].length>>
          /\ \A k \in m + 1 .. r : psram[Behind(s, k)] = Stale
      BY <3>1 DEF Holds
    <3> HIDE DEF w, r, n, h
    <3>3. PICK j \in 0 .. r : /\ j <= m /\ j <= r - n /\ (j < m => j = r - n)
                              /\ w <= j /\ h <= j
      <4> DEFINE i == IF m <= r - n THEN m ELSE r - n
      <4>1. /\ i \in 0 .. r /\ i <= m /\ i <= r - n /\ (i < m => i = r - n)
            /\ w <= i /\ h <= i
        BY <2>1, <2>2, <2>3, <3>1
      <4> QED
        BY <4>1
    <3>4. ASSUME NEW k \in 1 .. j
          PROVE  psram'[Behind(s, k)'] =
                   <<s, (arb'[s].filePos - k) % arb'[s].length>>
      <4>1. k \in 1 .. r /\ k \in 1 .. m /\ ~(k > r - n)
        BY <2>1, <2>2, <3>1, <3>3
      <4>2. psram'[Behind(s, k)'] = psram[Behind(s, k)]
        BY <1>3, <2>2, <2>4, <4>1
      <4> QED
        BY <1>3, <3>2, <4>1, <4>2
    <3>5. ASSUME NEW k \in j + 1 .. r PROVE psram'[Behind(s, k)'] = Stale
      <4>1. k \in 1 .. r /\ (k \in m + 1 .. r \/ k > r - n)
        BY <2>1, <2>2, <3>1, <3>3
      <4> QED
        BY <1>3, <2>2, <2>4, <3>2, <4>1
    <3>6. Holds(s, j)'
      BY <3>4, <3>5 DEF Holds, r
    <3> QED
      BY <1>3, <3>3, <3>6 DEF RingFilled, w, r, h
  <2> QED
    BY <1>3, <1>5, <2>5, <2>6 DEF RingOK
<1> QED
  BY <1>4, <1>5

\* An offload is started with a run that stays behind what is left to play.
LEMMA StartOffloadBehind ==
  ASSUME IInv, StartOffload, \A s \in Slots : RingOK(s)
  PROVE  JobBehind'
<1>1. TablesOK /\ FpgaOK
  BY Parts
<1>2. PICK s \in Slots : MostUrgent(s) /\ job' = [slot |-> s, run |-> Run(s)]
  BY DEF StartOffload
<1>3. ahead' = ahead /\ job'.slot = s /\ job'.run = Run(s)
  BY <1>2 DEF StartOffload, fpgaVars
<1>4. ASSUME ahead[s] # Starved PROVE ahead[s] + Run(s) < Ring[s]
  <2> DEFINE w == arb[s].writePos
             r == Ring[s]
             h == ahead[s]
             p == mixer[s].pos
             d == w + r - p
  <2>1. /\ w \in Nat /\ w < r /\ r \in Nat /\ h \in Nat /\ p \in Nat /\ p < r
    BY <1>1, <1>4, SlotNumbers
  <2>2. h < r /\ p + h \in {w, w + r}
    BY <1>4 DEF RingOK, ChannelBehind
  <2>3. Fill(s) = d % r
    BY DEF Fill
  <2>4. Run(s) \in Nat /\ Run(s) <= Target(s) - Fill(s)
    <3>1. /\ Run(s) \in 0 .. Chunk /\ Chunk \in Nat
      BY <1>2, RunFits, Sizes
    <3>2. /\ Fill(s) \in Int /\ Target(s) \in Int
      BY <2>1, <2>3, Sizes DEF Target
    <3>3. arb[s].length \in Nat /\ arb[s].filePos \in Nat
      BY <1>1, SlotNumbers
    <3>4. Run(s) <= Target(s) - Fill(s)
      BY <2>1, <3>1, <3>2, <3>3 DEF Run, Wanted, Smaller
    <3> QED
      BY <3>1, <3>4
  <2>5. Target(s) = r - Chunk /\ Chunk \in Nat /\ Chunk > 0
    BY Sizes DEF Target
  <2> DEFINE u == Run(s)
             x == Fill(s)
  <2>6. u \in Nat /\ u <= (r - Chunk) - x /\ x = d % r
    BY <2>3, <2>4, <2>5
  <2> HIDE DEF w, r, h, p, u, x
  <2>7. d = 0 * r + h \/ d = 1 * r + h
    BY <2>1, <2>2
  <2>8. d \in Int /\ h \in 0 .. r - 1 /\ r > 0 /\ 0 \in Int /\ 1 \in Int
    BY <2>1, <2>2
  <2> HIDE DEF d
  <2>9. d % r = h
    BY <2>1, <2>7, <2>8, RemainderIs
  <2>10. h + u < r
    BY <2>1, <2>5, <2>6, <2>9
  <2> QED
    BY <2>10 DEF h, u, r
<1> QED
  BY <1>3, <1>4 DEF JobBehind

-----------------------------------------------------------------------------
(* The rings over a whole run.                                             *)

\* At boot no slot is active and no ring holds anything.
LEMMA InitRing == Init => RInv
<1> SUFFICES ASSUME Init PROVE RInv
  OBVIOUS
<1>1. IInv
  BY InitInv
<1>2. JobBehind
  BY DEF Init, JobBehind
<1>3. ASSUME NEW s \in Slots PROVE RingOK(s)
  <2>1. ~arb[s].active /\ ahead[s] = Starved /\ heard[s] = Silence
    BY DEF Init
  <2> QED
    BY <2>1 DEF RingOK, HasSource, ChannelBehind, HeardLast
<1> QED
  BY <1>1, <1>2, <1>3 DEF RInv

\* Every step keeps every ring.
LEMMA StepRing ==
  ASSUME RInv, [Next]_vars, NEW s \in Slots
  PROVE  RingOK(s)'
<1>1. IInv /\ JobBehind /\ RingOK(s)
  BY DEF RInv
<1>2. CASE Render
  BY <1>1, <1>2, RenderRing
<1>3. ASSUME NEW c \in Commands, Command(c) PROVE RingOK(s)'
  BY <1>1, <1>3, CommandRing
<1>4. CASE Enable
  <2>1. PICK t \in Slots : ChannelOn(t)
    BY <1>4 DEF Enable, Waiting
  <2>2. arb' = arb /\ psram' = psram
    BY <1>4 DEF Enable
  <2> QED
    BY <1>1, <2>1, <2>2, ChannelOnRing
<1>5. CASE OffloadDone
  BY <1>1, <1>5, OffloadDoneRing
<1>6. CASE OffloadFailed
  BY <1>1, <1>6, OffloadFailedRing
<1>7. CASE NoMoreCommands \/ AllEnabled \/ StartOffload \/ NothingToRefill \/ UNCHANGED vars
  <2>1. UNCHANGED <<arb, psram, mixer, ahead, heard>>
    BY <1>7 DEF NoMoreCommands, AllEnabled, StartOffload, NothingToRefill, vars,
                slotVars, fpgaVars
  <2>2. TablesOK /\ FpgaOK
    BY <1>1, Parts
  <2> QED
    BY <1>1, <2>1, <2>2, SlotUntouched
<1> QED
  BY <1>2, <1>3, <1>4, <1>5, <1>6, <1>7 DEF Next, Proceed

\* Nor does a step let the offload in progress reach what is left to play:
\* while it copies, the channel only comes nearer to what is there.
LEMMA StepJob ==
  ASSUME RInv, [Next]_vars
  PROVE  JobBehind'
<1>1. IInv /\ JobBehind /\ \A s \in Slots : RingOK(s)
  BY DEF RInv
<1>2. TablesOK /\ FpgaOK /\ JobFits
  BY <1>1, Parts
<1>3. CASE Render
  <2> SUFFICES ASSUME pc' = "offload", ahead'[job'.slot] # Starved
               PROVE  ahead'[job'.slot] + job'.run < Ring[job'.slot]
    BY DEF JobBehind
  <2>1. pc = "offload" /\ job' = job
    BY <1>3 DEF Render, serviceVars
  <2>2. PICK s \in Slots : s = job.slot
    BY <1>2, <2>1 DEF JobFits
  <2>3. /\ ahead'[s] # Starved /\ ahead'[s] = ahead[s] - 1 /\ ahead[s] > 0
        /\ ahead[s] \in Nat \cup {Starved} /\ Starved = -1
        /\ Ring[s] \in Nat
    BY <1>1, <1>2, <1>3, <2>1, <2>2, RenderSlot, SlotNumbers
  <2>4. ahead[s] + job.run < Ring[s]
    BY <1>1, <2>1, <2>2, <2>3 DEF JobBehind
  <2>5. job.run \in Nat
    BY <1>1, <2>1, <2>2, WrittenCells
  <2> QED
    BY <2>1, <2>2, <2>3, <2>4, <2>5
<1>4. CASE StartOffload
  BY <1>1, <1>4, StartOffloadBehind
<1>5. CASE UNCHANGED vars
  BY <1>1, <1>5 DEF JobBehind, vars
<1>6. ASSUME NEW c \in Commands, Command(c) PROVE JobBehind'
  BY <1>6 DEF Command, JobBehind
<1>7. CASE NoMoreCommands \/ Enable \/ AllEnabled \/ NothingToRefill
           \/ OffloadDone \/ OffloadFailed
  BY <1>7 DEF NoMoreCommands, Enable, AllEnabled, NothingToRefill, OffloadDone,
              OffloadFailed, JobBehind, serviceVars
<1> QED
  BY <1>3, <1>4, <1>5, <1>6, <1>7 DEF Next, Proceed

\* The inductive invariant of the rings: behind its write position a ring
\* holds its source up to the file position, a channel is as far behind as it
\* has frames to play, and the offload in progress stays behind the channel.
THEOREM RingInvariance == Spec => []RInv
<1>1. RInv /\ [Next]_vars => RInv'
  <2> SUFFICES ASSUME RInv, [Next]_vars PROVE RInv'
    OBVIOUS
  <2>1. IInv'
    BY StepInv DEF RInv
  <2>2. JobBehind'
    BY StepJob
  <2>3. \A s \in Slots : RingOK(s)'
    BY StepRing
  <2> QED
    BY <2>1, <2>2, <2>3 DEF RInv
<1> QED
  BY <1>1, InitRing, PTL DEF Spec

\* A ring that holds m frames has m cells that are not stale.
LEMMA FilledCells ==
  ASSUME TablesOK, FpgaOK, NEW s \in Slots, NEW m \in 0 .. Ring[s], Holds(s, m)
  PROVE  Cardinality({a \in CellsOf(s) : psram[a] # Stale}) = m
<1> DEFINE filled == {a \in CellsOf(s) : psram[a] # Stale}
           w == arb[s].writePos
           r == Ring[s]
           b == Base[s]
           f == [k \in 1 .. m |-> Behind(s, k)]
<1>1. w \in Nat /\ w < r /\ r \in Nat /\ b \in Nat
  BY SlotNumbers
<1>2. m \in Nat /\ \A k \in 1 .. m : k \in 1 .. r
  BY <1>1
<1>3. ASSUME NEW k \in 1 .. m PROVE f[k] \in filled
  <2>1. psram[Behind(s, k)] # Stale
    <3>1. s # -1
      BY Sizes DEF Slots
    <3> QED
      BY <3>1 DEF Holds, Stale
  <2> QED
    BY <1>2, <2>1, BehindInRing
<1>4. ASSUME NEW j \in 1 .. m, NEW k \in 1 .. m, f[j] = f[k] PROVE j = k
  <2>1. /\ Behind(s, j) = b + Place(w, r, j) /\ Place(w, r, j) \in 0 .. r - 1
        /\ Behind(s, k) = b + Place(w, r, k) /\ Place(w, r, k) \in 0 .. r - 1
    BY <1>2, BehindInRing
  <2>2. Behind(s, j) = Behind(s, k)
    BY <1>4
  <2> DEFINE x == Place(w, r, j)
             y == Place(w, r, k)
  <2>3. b + x = b + y /\ x \in 0 .. r - 1 /\ y \in 0 .. r - 1
    BY <2>1, <2>2
  <2> HIDE DEF x, y
  <2>4. x = y
    BY <1>1, <2>3
  <2> QED
    BY <1>1, <1>2, <2>4, Places DEF x, y
<1>5. ASSUME NEW a \in filled PROVE \E k \in 1 .. m : f[k] = a
  <2>1. a \in b .. b + r - 1 /\ psram[a] # Stale
    BY DEF CellsOf
  <2>2. a - b \in 0 .. r - 1
    BY <1>1, <2>1
  <2>3. PICK k \in 1 .. r : Place(w, r, k) = a - b
    BY <1>1, <2>2, Places
  <2>4. Behind(s, k) = a
    BY <1>1, <2>1, <2>3, BehindInRing
  <2>5. ~(k \in m + 1 .. r)
    BY <2>1, <2>4 DEF Holds
  <2>6. k \in 1 .. m
    BY <1>1, <1>2, <2>5
  <2> QED
    BY <2>4, <2>6
<1> HIDE DEF filled
<1>6. f \in [1 .. m -> filled]
  BY <1>3
<1>7. f \in Bijection(1 .. m, filled)
  BY <1>4, <1>5, <1>6 DEF Bijection, Injection, Surjection, IsInjective
<1>8. ExistsBijection(1 .. m, filled)
  BY <1>7 DEF ExistsBijection
<1> QED
  BY <1>2, <1>8, FS_CountingElements DEF filled

\* Behind its write position every ring holds its own source up to the file
\* position, in order and without a hole, whatever rings and chunks there are.
THEOREM RingContents == Spec => []RingHoldsStream
<1>1. RInv => RingHoldsStream
  <2> SUFFICES ASSUME RInv, NEW s \in Slots, arb[s].active,
                      NEW k \in 1 .. Cardinality({a \in CellsOf(s) : psram[a] # Stale})
               PROVE  psram[Base[s] + ((arb[s].writePos - k) % Ring[s])]
                        = <<s, (arb[s].filePos - k) % arb[s].length>>
    BY DEF RingHoldsStream
  <2>1. TablesOK /\ FpgaOK /\ RingOK(s)
    BY Parts DEF RInv
  <2>2. PICK m \in 0 .. Ring[s] : Holds(s, m)
    BY <2>1 DEF RingOK, RingFilled
  <2>3. k \in 1 .. m
    BY <2>1, <2>2, FilledCells
  <2>4. arb[s].writePos \in Nat /\ Ring[s] \in Nat /\ arb[s].writePos < Ring[s]
    BY <2>1, SlotNumbers
  <2>5. k \in 1 .. Ring[s]
    BY <2>3, <2>4
  <2>6. Behind(s, k) = Base[s] + ((arb[s].writePos - k) % Ring[s])
    BY <2>4, <2>5, PlaceIsRemainder DEF Behind
  <2> QED
    BY <2>2, <2>3, <2>6 DEF Holds
<1> QED
  BY <1>1, RingInvariance, PTL

\* What a channel pops at a tick is the successor of what it popped before.
LEMMA NextHeard ==
  ASSUME RInv, Render, NEW s \in Slots, heard[s] # Silence, heard'[s] # Silence
  PROVE  heard'[s] = <<s, (heard[s][2] + 1) % arb[s].length>>
<1>1. IInv /\ RingOK(s) /\ TablesOK /\ FpgaOK /\ SlotsAgree
  BY Parts DEF RInv
<1> DEFINE h == ahead[s]
           l == arb[s].length
           a == arb[s].filePos - h - 1
<1>2. /\ On(s) /\ h > 0 /\ h \in Nat \cup {Starved} /\ Starved = -1
      /\ heard'[s] = psram[Base[s] + mixer[s].pos]
  BY <1>1, RenderSlot, SlotNumbers
<1>3. h \in Nat /\ arb[s].filePos \in Nat /\ l \in Nat
  BY <1>1, <1>2, SlotNumbers
<1>4. heard'[s] = <<s, (arb[s].filePos - h) % l>>
  BY <1>1, <1>2, <1>3, NextFrame
<1>5. heard[s] = <<s, a % l>>
  BY <1>1 DEF RingOK, HeardLast
<1>6. l > 0
  BY <1>1, <1>2, PlayingIsActive DEF RingOK, HasSource
<1>7. a \in Int /\ a + 1 = arb[s].filePos - h
  BY <1>3
<1>8. heard[s][2] = a % l
  BY <1>5
<1> HIDE DEF h, l, a
<1>9. ((a % l) + 1) % l = (a + 1) % l
  BY <1>3, <1>6, <1>7, RemainderNext
<1> QED
  BY <1>4, <1>7, <1>8, <1>9 DEF l

\* A channel that is rewound or joins is silent until it plays its next frame.
LEMMA RewoundIsSilent ==
  ASSUME RInv, NEW t \in Slots, ChannelOn(t), NEW s \in Slots, heard'[s] # Silence
  PROVE  mixer'[s].pos = mixer[s].pos
<1>1. CASE ~On(s) /\ heard'[s] = heard[s]
  <2>1. heard[s] = Silence
    BY <1>1 DEF RInv, RingOK, HeardLast, ChannelBehind
  <2> QED
    BY <1>1, <2>1
<1> QED
  BY <1>1, ChannelOnSlot

\* Stopping, starting and seeking move no channel.
LEMMA MutedStands ==
  ASSUME IInv, NEW T \in SUBSET Slots, ChannelsOff(T), NEW s \in Slots
  PROVE  mixer'[s].pos = mixer[s].pos
<1>1. mixer[s] \in MixerType
  BY Parts DEF FpgaOK
<1> QED
  BY <1>1 DEF ChannelsOff, MixerType

\* Commands move a channel to its ring's start or not at all.
LEMMA CommandStands ==
  ASSUME RInv, NEW c \in Commands, Command(c), NEW s \in Slots, heard'[s] # Silence
  PROVE  mixer'[s].pos = mixer[s].pos
<1>1. IInv /\ c.slot \in Slots
  BY CommandType DEF RInv
<1>2. ASSUME NEW T \in SUBSET Slots, Stop(T) PROVE mixer'[s].pos = mixer[s].pos
  <2>1. PICK U \in SUBSET Slots : ChannelsOff(U)
    BY <1>2 DEF Stop
  <2> QED
    BY <1>1, <2>1, MutedStands
<1>3. ASSUME ChannelsOff({t \in {c.slot} : slot[c.slot].enabled})
      PROVE  mixer'[s].pos = mixer[s].pos
  <2>1. {t \in {c.slot} : slot[c.slot].enabled} \in SUBSET Slots
    BY <1>1
  <2> QED
    BY <1>1, <1>3, <2>1, MutedStands
<1>4. CASE Play(c)
  <2>1. CASE c.length = 0
    BY <1>1, <1>2, <1>4, <2>1 DEF Play
  <2>2. CASE c.length # 0
    BY <1>3, <1>4, <2>2 DEF Play
  <2> QED
    BY <2>1, <2>2
<1>5. CASE Stop({c.slot}) \/ Stop(Slots)
  BY <1>1, <1>2, <1>5
<1>6. CASE Seek(c)
  BY <1>3, <1>6 DEF Seek
<1>7. CASE Gain(c)
  BY <1>1, <1>7, RewoundIsSilent DEF Gain
<1> QED
  BY <1>4, <1>5, <1>6, <1>7 DEF Command

\* What the mixer reads out is the source in order, looping and ring wrap
\* included: from one rewind of a channel to the next, and until it starves,
\* each frame it plays is the successor of the one before, whatever the
\* commands, however slow or faulty the SD card (hx421_stream_test.c).
THEOREM PlaysOn == Spec => PlaysInOrder
<1>1. ASSUME RInv, [Next]_vars, NEW s \in Slots,
             heard[s] # Silence, heard'[s] # Silence, mixer'[s].pos # mixer[s].pos
      PROVE  heard'[s] = <<s, (heard[s][2] + 1) % arb[s].length>>
  <2>1. CASE Render
    BY <1>1, <2>1, NextHeard
  <2>2. ASSUME NEW c \in Commands, Command(c) PROVE FALSE
    BY <1>1, <2>2, CommandStands
  <2>3. ~Enable
    BY <1>1, RewoundIsSilent DEF Enable, Waiting
  <2>4. ~(NoMoreCommands \/ AllEnabled \/ StartOffload \/ NothingToRefill
           \/ OffloadDone \/ OffloadFailed \/ UNCHANGED vars)
    BY <1>1 DEF NoMoreCommands, AllEnabled, StartOffload, NothingToRefill,
                OffloadDone, OffloadFailed, vars, slotVars, fpgaVars
  <2> QED
    BY <1>1, <2>1, <2>2, <2>3, <2>4 DEF Next, Proceed
<1>2. RInv /\ [Next]_vars =>
        [\A s \in Slots :
           /\ heard[s] # Silence /\ heard'[s] # Silence
           /\ mixer'[s].pos # mixer[s].pos
           => heard'[s] = <<s, (heard[s][2] + 1) % arb[s].length>>]_vars
  BY <1>1
<1> QED
  BY <1>2, RingInvariance, PTL DEF Spec, PlaysInOrder
=============================================================================
