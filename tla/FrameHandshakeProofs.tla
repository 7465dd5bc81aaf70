------------------------ MODULE FrameHandshakeProofs ------------------------
(***************************************************************************)
(* Proofs about the handshake of a frame for any picture, any split into   *)
(* bursts and any number of resets: the SNES never has a buffer written    *)
(* under it, what it shows is always one whole frame, and frames are shown *)
(* in their order.  At the end, one picture's source of its own: the       *)
(* scrolling map, whose window always holds what the screen can show and   *)
(* whose fields never carry more than a vertical blank can.                *)
(***************************************************************************)
EXTENDS FrameHandshake, ScrollMap, FiniteSetTheorems, TLAPS

-----------------------------------------------------------------------------
(* The inductive invariant.                                                *)

\* What the proof needs of the shape of the state.
Shapes ==
  /\ back \in Pictures /\ ready \in 0 .. 2
  /\ DOMAIN window = Pictures
  /\ host \in [resetting : BOOLEAN, held : Nat, resets : Nat, kicked : BOOLEAN]
  /\ kernel \in [at : {"off", "visible", "prepped", "body", "done", "blank"},
                 front : Pictures \cup {-1}, pending : BOOLEAN, slot : Nat]

\* The SNES stands still while the runtime holds it.
Off == host.resetting => kernel.at = "off"

\* A paced mode has published the buffer it would write next, and none before
\* its first burst.
Published == ready # 0 => ready = back + 1
Unkicked == ~host.kicked => ready = 0 /\ kernel.front = -1

\* A latched body is the published one, and is run before the next is latched.
Latched ==
  kernel.pending => kernel.at = "prepped" /\ kernel.front # -1 /\ ready = kernel.front + 1
Running ==
  kernel.at \in {"body", "done"} => ready = kernel.front + 1 /\ back = kernel.front

Core == Shapes /\ (Paced => Published /\ Unkicked /\ Latched /\ Running)
IInv == Core /\ Off

-----------------------------------------------------------------------------
(* Every step keeps it.                                                    *)

\* What is staged is published, and no other buffer is touched.
LEMMA ProduceStages ==
  ASSUME Shapes, NEW s, NEW b \in Pictures, Produce(s, b)
  PROVE  /\ ready' = b + 1 /\ ready' \in 0 .. 2
         /\ DOMAIN window' = Pictures
         /\ \A c \in Pictures : c # b => window'[c] = window[c]
<1> QED
  BY DEF Produce, Shapes, Pictures

LEMMA InitIInv == Init => IInv
<1> QED
  BY DEF Init, IInv, Core, Shapes, Off, Published, Unkicked, Latched, Running, Pictures

\* The kernel runs only while it is not held, and a reset stops it.
LEMMA OffKept == ASSUME Shapes, Off, Next PROVE Off'
<1>1. CASE Step
  <2>1. host'.resetting = host.resetting /\ kernel' = kernel
    BY <1>1 DEF Step, Shapes
  <2> QED
    BY <2>1 DEF Off
<1>2. CASE Snes
  <2>1. host' = host /\ kernel.at # "off"
    BY <1>2 DEF Snes, FramePrep, BlankLine, BodySlot, BodyReturn, FrameDone, Unblank, hostVars
  <2> QED
    BY <2>1 DEF Off
<1>3. CASE ResetBegin
  <2>1. kernel'.at = "off"
    BY <1>3 DEF ResetBegin
  <2> QED
    BY <2>1 DEF Off
<1>4. CASE ResetEnd
  <2>1. ~host'.resetting
    BY <1>4 DEF ResetEnd, Shapes
  <2> QED
    BY <2>1 DEF Off
<1> QED
  BY <1>1, <1>2, <1>3, <1>4 DEF Next

LEMMA StepCore == ASSUME IInv, Step PROVE Core'
<1>1. Shapes
  BY DEF IInv, Core
<1>2. Paced' = Paced /\ back' = back /\ kernel' = kernel
  BY DEF Step, Paced
<1>3. host' \in [resetting : BOOLEAN, held : Nat, resets : Nat, kicked : BOOLEAN] /\ host'.kicked
  <2> DEFINE h == IF host.resetting THEN host.held + 1 ELSE host.held
  <2>1. host' = [host EXCEPT !.kicked = TRUE, !.held = h]
    BY DEF Step
  <2>2. h \in Nat
    BY <1>1 DEF Shapes
  <2> HIDE DEF h
  <2> QED
    BY <1>1, <2>1, <2>2, Zenon DEF Shapes
<1>4. CASE Paced /\ host.kicked
  <2>1. UNCHANGED <<window, ready>>
    BY <1>4 DEF Step
  <2> QED
    BY <1>1, <1>2, <1>3, <1>4, <2>1
    DEF IInv, Core, Shapes, Published, Unkicked, Latched, Running
<1>5. CASE ~(Paced /\ host.kicked)
  <2>1. Produce(source, back)
    BY <1>5 DEF Step
  <2>2. ready' = back + 1 /\ ready' \in 0 .. 2 /\ DOMAIN window' = Pictures
    BY <1>1, <2>1, ProduceStages DEF Shapes
  <2>3. Shapes'
    BY <1>1, <1>2, <1>3, <2>2 DEF Shapes
  <2>4. ASSUME Paced PROVE (Published /\ Unkicked /\ Latched /\ Running)'
    <3>1. ready = 0 /\ kernel.front = -1
      BY <1>5, <2>4 DEF IInv, Core, Unkicked
    <3>2. ~kernel.pending /\ kernel.at \notin {"body", "done"}
      BY <1>1, <2>4, <3>1 DEF IInv, Core, Latched, Running, Shapes, Pictures
    <3> QED
      BY <1>1, <1>2, <1>3, <2>2, <3>2
      DEF Published, Unkicked, Latched, Running, Shapes
  <2> QED
    BY <1>2, <2>3, <2>4 DEF IInv, Core
<1> QED
  BY <1>4, <1>5

LEMMA FrameDoneCore == ASSUME IInv, FrameDone PROVE Core'
<1>1. Shapes
  BY DEF IInv, Core
<1>2. Paced' = Paced /\ host' = host /\ kernel.at = "done" /\ back' = Other(back)
  BY DEF FrameDone, Paced
<1>3. kernel' = [kernel EXCEPT !.at = "blank"]
  BY DEF FrameDone
<1>4. kernel'.at = "blank" /\ kernel'.front = kernel.front /\ kernel'.pending = kernel.pending
  BY <1>1, <1>3 DEF Shapes
<1>5. back' \in Pictures
  BY <1>1, <1>2 DEF Shapes, Other, Pictures
<1>6. /\ ready' \in 0 .. 2 /\ DOMAIN window' = Pictures
      /\ Paced => ready' = back' + 1
  <2>1. CASE Paced
    <3>1. Produce(Advance(source), back')
      BY <1>2, <2>1 DEF FrameDone
    <3> QED
      BY <1>1, <1>5, <3>1, ProduceStages
  <2>2. CASE ~Paced
    BY <1>1, <2>2 DEF FrameDone, Shapes
  <2> QED
    BY <2>1, <2>2
<1>7. Shapes'
  BY <1>1, <1>2, <1>3, <1>5, <1>6 DEF Shapes
<1>8. ASSUME Paced PROVE (Published /\ Unkicked /\ Latched /\ Running)'
  <2>1. ~kernel.pending
    BY <1>2, <1>8 DEF IInv, Core, Latched
  <2>2. host.kicked
    BY <1>1, <1>2, <1>8 DEF IInv, Core, Unkicked, Running, Shapes, Pictures
  <2> QED
    BY <1>2, <1>4, <1>6, <1>8, <2>1, <2>2 DEF Published, Unkicked, Latched, Running
<1> QED
  BY <1>2, <1>7, <1>8 DEF IInv, Core

\* The steps that stage nothing.
LEMMA SnesCore ==
  ASSUME IInv, FramePrep \/ BlankLine \/ BodySlot \/ BodyReturn \/ Unblank
  PROVE  Core'
<1>1. Shapes
  BY DEF IInv, Core
<1>2. /\ Paced' = Paced /\ host' = host /\ back' = back /\ ready' = ready /\ window' = window
  BY DEF FramePrep, BlankLine, BodySlot, BodyReturn, Unblank, hostVars, Paced
<1>3. CASE FramePrep
  <2>1. kernel.at = "visible"
    BY <1>3 DEF FramePrep
  <2>2. CASE ready = 0
    <3>1. kernel' = [kernel EXCEPT !.at = "prepped"]
      BY <1>3, <2>2 DEF FramePrep
    <3> QED
      BY <1>1, <1>2, <2>1, <2>2, <3>1
      DEF IInv, Core, Shapes, Published, Unkicked, Latched, Running
  <2>3. CASE ready # 0
    <3>1. kernel' = [kernel EXCEPT !.at = "prepped", !.front = ready - 1, !.pending = TRUE]
      BY <1>3, <2>3 DEF FramePrep
    <3>2. ready - 1 \in Pictures /\ ready - 1 # -1 /\ ready = (ready - 1) + 1
      BY <1>1, <2>3 DEF Shapes, Pictures
    <3>3. /\ kernel'.at = "prepped" /\ kernel'.front = ready - 1
          /\ kernel' \in [at : {"off", "visible", "prepped", "body", "done", "blank"},
                          front : Pictures \cup {-1}, pending : BOOLEAN, slot : Nat]
      BY <1>1, <3>1, <3>2 DEF Shapes
    <3>4. Paced => host.kicked
      BY <2>3 DEF IInv, Core, Unkicked
    <3>5. Shapes'
      BY <1>1, <1>2, <3>3 DEF Shapes
    <3> QED
      BY <1>2, <2>3, <3>2, <3>3, <3>4, <3>5
      DEF IInv, Core, Published, Unkicked, Latched, Running
  <2> QED
    BY <2>2, <2>3
<1>4. CASE BlankLine
  <2>1. CASE kernel.front = -1
    <3>1. kernel' = [kernel EXCEPT !.at = "blank"]
      BY <1>4, <2>1 DEF BlankLine
    <3> QED
      BY <1>1, <1>2, <2>1, <3>1 DEF IInv, Core, Shapes, Published, Unkicked, Latched, Running
  <2>2. CASE kernel.front # -1
    <3>1. kernel' = [kernel EXCEPT !.at = IF kernel.pending THEN "body" ELSE "blank",
                                   !.pending = FALSE, !.slot = 1]
      BY <1>4, <2>2 DEF BlankLine
    <3>2. /\ kernel'.at = (IF kernel.pending THEN "body" ELSE "blank")
          /\ kernel'.front = kernel.front /\ ~kernel'.pending
          /\ kernel' \in [at : {"off", "visible", "prepped", "body", "done", "blank"},
                          front : Pictures \cup {-1}, pending : BOOLEAN, slot : Nat]
      BY <1>1, <3>1 DEF Shapes
    <3>3. Paced /\ kernel.pending => ready = kernel.front + 1 /\ back = kernel.front
      BY <1>1, <2>2 DEF IInv, Core, Latched, Published, Shapes, Pictures
    <3> QED
      BY <1>1, <1>2, <3>2, <3>3 DEF IInv, Core, Shapes, Published, Unkicked, Latched, Running
  <2> QED
    BY <2>1, <2>2
<1>5. CASE BodySlot
  <2>1. kernel' = [kernel EXCEPT !.slot = @ + 1]
    BY <1>5 DEF BodySlot
  <2> QED
    BY <1>1, <1>2, <2>1 DEF IInv, Core, Shapes, Published, Unkicked, Latched, Running
<1>6. CASE BodyReturn
  <2>1. kernel' = [kernel EXCEPT !.at = "done", !.slot = 0] /\ kernel.at = "body"
    BY <1>6 DEF BodyReturn
  <2> QED
    BY <1>1, <1>2, <2>1 DEF IInv, Core, Shapes, Published, Unkicked, Latched, Running
<1>7. CASE Unblank
  <2>1. kernel' = [kernel EXCEPT !.at = "visible"] /\ kernel.at = "blank"
    BY <1>7 DEF Unblank
  <2> QED
    BY <1>1, <1>2, <2>1 DEF IInv, Core, Shapes, Published, Unkicked, Latched, Running
<1> QED
  BY <1>3, <1>4, <1>5, <1>6, <1>7

LEMMA ResetCore == ASSUME IInv, ResetBegin \/ ResetEnd PROVE Core'
<1>1. Shapes
  BY DEF IInv, Core
<1>2. Paced' = Paced /\ back' = back /\ window' = window
  BY DEF ResetBegin, ResetEnd, Paced
<1>3. CASE ResetBegin
  <2>1. /\ host' = [host EXCEPT !.resetting = TRUE, !.held = 0, !.resets = @ + 1] /\ ready' = 0
        /\ kernel' = [at |-> "off", front |-> -1, pending |-> FALSE, slot |-> 0]
    BY <1>3 DEF ResetBegin
  <2>2. kernel'.at = "off" /\ kernel'.front = -1 /\ kernel'.pending = FALSE
    BY <2>1
  <2>3. kernel' \in [at : {"off", "visible", "prepped", "body", "done", "blank"},
                     front : Pictures \cup {-1}, pending : BOOLEAN, slot : Nat]
    BY <2>1
  <2>4. host' \in [resetting : BOOLEAN, held : Nat, resets : Nat, kicked : BOOLEAN]
    <3>1. host.resets + 1 \in Nat
      BY <1>1 DEF Shapes
    <3> QED
      BY <1>1, <2>1, <3>1, Zenon DEF Shapes
  <2>5. Shapes'
    BY <1>1, <1>2, <2>1, <2>3, <2>4 DEF Shapes
  <2> QED
    BY <1>2, <2>1, <2>2, <2>5 DEF IInv, Core, Off, Published, Unkicked, Latched, Running
<1>4. CASE ResetEnd
  <2>1. /\ host' = [host EXCEPT !.resetting = FALSE] /\ ready' = ready
        /\ kernel' = [kernel EXCEPT !.at = "visible"]
    BY <1>4 DEF ResetEnd
  <2>2. host'.kicked = host.kicked
    BY <1>1, <2>1 DEF Shapes
  <2>3. kernel'.at = "visible" /\ kernel'.front = kernel.front /\ kernel'.pending = kernel.pending
    BY <1>1, <2>1 DEF Shapes
  <2>4. kernel' \in [at : {"off", "visible", "prepped", "body", "done", "blank"},
                     front : Pictures \cup {-1}, pending : BOOLEAN, slot : Nat]
    BY <1>1, <2>1 DEF Shapes
  <2>5. host' \in [resetting : BOOLEAN, held : Nat, resets : Nat, kicked : BOOLEAN]
    BY <1>1, <2>1, Zenon DEF Shapes
  <2>6. Shapes'
    BY <1>1, <1>2, <2>1, <2>4, <2>5 DEF Shapes
  <2>7. Paced => ~kernel.pending
    <3>1. kernel.at = "off"
      BY <1>4 DEF ResetEnd, IInv, Off
    <3> QED
      BY <3>1 DEF IInv, Core, Latched
  <2>8. ASSUME Paced PROVE (Published /\ Unkicked /\ Latched /\ Running)'
    <3>1. Published /\ Unkicked
      BY <2>8 DEF IInv, Core
    <3> QED
      BY <1>2, <2>1, <2>2, <2>3, <2>7, <2>8, <3>1 DEF Published, Unkicked, Latched, Running
  <2> QED
    BY <1>2, <2>6, <2>8 DEF Core
<1> QED
  BY <1>3, <1>4

LEMMA NextIInv == ASSUME IInv, [Next]_vars PROVE IInv'
<1>1. CASE Next
  <2>1. Core'
    BY <1>1, StepCore, SnesCore, FrameDoneCore, ResetCore DEF Next, Snes
  <2> QED
    BY <1>1, <2>1, OffKept DEF IInv, Core
<1>2. CASE UNCHANGED vars
  BY <1>2
  DEF IInv, Core, Shapes, Off, Published, Unkicked, Latched, Running, Paced, vars, hostVars
<1> QED
  BY <1>1, <1>2

-----------------------------------------------------------------------------
(* Theorems.                                                               *)

\* The handshake's invariant holds in every mode.
THEOREM SpecIInv == Spec => []IInv
<1>1. Init => IInv
  BY InitIInv
<1>2. IInv /\ [Next]_vars => IInv'
  BY NextIInv
<1> QED
  BY <1>1, <1>2, PTL DEF Spec

\* The buffer a body runs from is the one that was published, until its strobe is
\* answered (hx421_cart_read of FRAME_DONE, irq and frame_prep of kernel.s).
THEOREM HandshakeHolds == Spec => []HandshakeOK
<1>1. IInv => HandshakeOK
  BY DEF IInv, Core, Running, HandshakeOK
<1> QED
  BY <1>1, SpecIInv, PTL

\* A paced producer stages the first burst before anything is latched, and every
\* other into the buffer that was not the published one.
LEMMA StagesAside ==
  ASSUME IInv, [Next]_vars, NEW b \in Pictures, Paced, window'[b] # window[b]
  PROVE  b # kernel.front /\ ready # b + 1
<1>1. Shapes
  BY DEF IInv, Core
<1>2. CASE Step
  <2>1. Produce(source, back) /\ ~host.kicked
    BY <1>2 DEF Step
  <2>2. b = back
    BY <1>1, <2>1, ProduceStages DEF Shapes
  <2>3. ready = 0 /\ kernel.front = -1
    BY <2>1 DEF IInv, Core, Unkicked
  <2> QED
    BY <1>1, <2>2, <2>3 DEF Shapes, Pictures
<1>3. CASE FrameDone
  <2>1. Produce(Advance(source), Other(back))
    BY <1>3 DEF FrameDone
  <2>2. Other(back) \in Pictures
    BY <1>1 DEF Shapes, Other, Pictures
  <2>3. b = Other(back)
    BY <1>1, <2>1, <2>2, ProduceStages
  <2>4. ready = kernel.front + 1 /\ back = kernel.front
    BY <1>3 DEF IInv, Core, Running, FrameDone
  <2> QED
    BY <1>1, <2>3, <2>4 DEF Shapes, Other, Pictures
<1>4. CASE ~Step /\ ~FrameDone
  <2>1. window' = window
    BY <1>4 DEF Next, Snes, FramePrep, BlankLine, BodySlot, BodyReturn, Unblank, ResetBegin,
                ResetEnd, vars, hostVars
  <2> QED
    BY <2>1
<1> QED
  BY <1>2, <1>3, <1>4

\* The buffer the SNES has latched, or is about to, is never written
\* (hx421_step, hx421_cart_read of FRAME_DONE).
THEOREM FrontIsUntouched == Spec => FrontUntouched
<1>1. IInv /\ [Next]_vars
        => [\A b \in Pictures : Paced /\ window'[b] # window[b]
              => b # kernel.front /\ ready # b + 1]_vars
  BY StagesAside
<1> QED
  BY <1>1, SpecIInv, PTL DEF FrontUntouched, Spec
-----------------------------------------------------------------------------
(* What is sent.  A film's or a rendered frame's picture goes to video      *)
(* memory in bursts; these definitions say what a burst carries, and the    *)
(* lemmas that the emitted bodies do carry it (hx_emit_fmv_band,            *)
(* hx_emit_r3d_burst).                                                      *)

Slot == [at : SUBSET Cells, frame : FrameSet \cup {None}, show : Pictures \cup {-1}]
Sources == [frame : FrameSet, burst : Nat, bursts : Nat \ {0},
            front : Pictures, need : BOOLEAN, preroll : 0 .. Preroll]

\* A picture is sent over several fields.
Several == mode \in {"fmv", "r3d"}

\* The first tile of a rendered frame's burst i.
Start(i) == IF i = 0 THEN 0 ELSE Chr0 + (i - 1) * ChrN
RunTiles(i) == Runs[i][1] .. (Runs[i][1] + Runs[i][2] - 1)

\* The tiles of a film's first bands.
Earlier(bands) == {t \in 0 .. (Tiles - 1) : \E i \in 1 .. bands : t \in RunTiles(i)}

Last(s) == IF mode = "fmv" THEN s.burst = 3 ELSE s.burst = s.bursts - 1

\* What the bursts so far have carried to the hidden picture, and what this one does.
Before(s) ==
  IF mode = "fmv"
  THEN Map(Other(s.front), 0 .. (s.burst - 1))
         \cup Chr(Other(s.front), Earlier(s.burst))
  ELSE IF s.burst = 0 THEN {}
       ELSE Map(Other(s.front), Quarters)
              \cup Chr(Other(s.front), {t \in 0 .. (s.frame.used - 1) : t < Start(s.burst)})
Carried(s) ==
  IF mode = "fmv"
  THEN Map(Other(s.front), {s.burst}) \cup Chr(Other(s.front), RunTiles(s.burst + 1))
         \cup (IF s.burst = 3
               THEN Chr(Other(s.front), 0 .. (Contested - 1)) \cup Palette ELSE {})
  ELSE (IF s.burst = 0 THEN Map(Other(s.front), Quarters) ELSE {})
         \cup Chr(Other(s.front), Chunk(s.frame.used, s.burst))

Plain(s) == {Copy(cells, s.frame) : cells \in SUBSET Carried(s)} \cup {Show(s.front)}
Carries(b, s) ==
  /\ b \in Seq(Slot)
  /\ \A i \in DOMAIN b : \/ b[i] \in Plain(s)
                         \/ Last(s) /\ i = Len(b) /\ b[i] = Show(Other(s.front))
  /\ Last(s) => Len(b) >= 1 /\ b[Len(b)] = Show(Other(s.front))
  /\ \A c \in Carried(s) : \E i \in DOMAIN b : c \in b[i].at

-----------------------------------------------------------------------------
\* Where the slots of two sequences are in their concatenation.
LEMMA Concatenated ==
  ASSUME NEW S, NEW s \in Seq(S), NEW t \in Seq(S)
  PROVE  /\ s \o t \in Seq(S) /\ Len(s \o t) = Len(s) + Len(t)
         /\ \A i \in DOMAIN (s \o t) :
              \/ i \in DOMAIN s /\ (s \o t)[i] = s[i]
              \/ i - Len(s) \in DOMAIN t /\ (s \o t)[i] = t[i - Len(s)]
         /\ \A i \in DOMAIN s : i \in DOMAIN (s \o t) /\ (s \o t)[i] = s[i]
         /\ \A i \in DOMAIN t : i + Len(s) \in DOMAIN (s \o t) /\ (s \o t)[i + Len(s)] = t[i]
<1> QED
  OBVIOUS

\* Picture B starts at BaseB, picture A at 0, and the hidden one is the other.
LEMMA Bases ==
  ASSUME NEW p \in Pictures
  PROVE  /\ p * BaseB = (IF p = 0 THEN 0 ELSE BaseB) /\ p * BaseB \in Nat
         /\ Other(p) \in Pictures /\ Other(p) # p /\ Other(Other(p)) = p
<1> QED
  BY HandshakeAssumption DEF Pictures, Other

\* Tiles of a picture are cells, and so are quarters of its tilemap.
LEMMA ChrCells ==
  ASSUME NEW p \in Pictures, NEW T, T \subseteq 0 .. (Tiles - 1)
  PROVE  Chr(p, T) \subseteq Cells
<1> SUFFICES ASSUME NEW t \in T PROVE <<"chr", p * BaseB + t>> \in Cells
  BY DEF Chr
<1>1. p * BaseB + t \in 0 .. (BaseB + Tiles - 1)
  BY Bases, HandshakeAssumption
<1>2. <<"chr", 0 * BaseB + (p * BaseB + t)>> \in Chr(0, 0 .. (BaseB + Tiles - 1))
  BY <1>1 DEF Chr
<1>3. 0 * BaseB + (p * BaseB + t) = p * BaseB + t
  BY <1>1, HandshakeAssumption
<1> QED
  BY <1>2, <1>3 DEF Cells

LEMMA MapCells ==
  ASSUME NEW p \in Pictures, NEW Q \in SUBSET Quarters PROVE Map(p, Q) \subseteq Cells
<1> QED
  BY DEF Map, Cells, Pictures

\* The tiles of a rendered burst start where the last one ended.
LEMMA ChunkIs ==
  ASSUME NEW used \in 0 .. BaseB, NEW i \in Nat
  PROVE  /\ Start(i) \in Nat /\ Start(i + 1) = Start(i) + (IF i = 0 THEN Chr0 ELSE ChrN)
         /\ \A t \in Int : t \in Chunk(used, i) <=> Start(i) <= t /\ t < used /\ t < Start(i + 1)
         /\ Chunk(used, i) \subseteq Int
<1> DEFINE cap == IF i = 0 THEN Chr0 ELSE ChrN
<1>1. Start(i) \in Nat /\ Start(i + 1) = Start(i) + cap
  BY HandshakeAssumption DEF Start
<1>2. Min({used, Start(i) + cap}) = IF used <= Start(i) + cap THEN used ELSE Start(i) + cap
  BY <1>1, HandshakeAssumption DEF Min
<1>3. Chunk(used, i) = Start(i) .. (Min({used, Start(i) + cap}) - 1)
  BY Zenon DEF Chunk, Start
<1>4. cap \in Nat
  BY HandshakeAssumption
<1> DEFINE end == IF used <= Start(i) + cap THEN used ELSE Start(i) + cap
<1>5. Chunk(used, i) = Start(i) .. (end - 1)
  BY <1>2, <1>3
<1> HIDE DEF cap
<1>6. end \in Nat /\ \A t \in Int : t < end <=> t < used /\ t < Start(i) + cap
  BY <1>1, <1>4, HandshakeAssumption
<1> HIDE DEF end
<1>7. /\ \A t \in Int : t \in Chunk(used, i) <=> Start(i) <= t /\ t < end
      /\ Chunk(used, i) \subseteq Int
  BY <1>1, <1>5, <1>6
<1> QED
  BY <1>1, <1>6, <1>7 DEF cap

\* The last burst of a rendered frame reaches its last tile.
LEMMA LastReaches ==
  ASSUME NEW used \in 0 .. BaseB
  PROVE  Bursts(used) \in Nat \ {0} /\ used <= Start(Bursts(used))
<1>1. CASE used <= Chr0
  BY <1>1, HandshakeAssumption DEF Bursts, Start
<1>2. CASE used > Chr0
  <2> DEFINE a == used - Chr0 + ChrN - 1
             q == a \div ChrN
  <2>1. a \in Nat /\ ChrN \in Nat \ {0}
    BY <1>2, HandshakeAssumption
  <2> HIDE DEF a
  <2>2. q \in Nat /\ a < (q + 1) * ChrN
    BY <2>1
  <2>3. (q + 1) * ChrN = q * ChrN + ChrN /\ q * ChrN \in Nat
    BY <2>1, <2>2
  <2>4. Bursts(used) = 1 + q
    BY <1>2, HandshakeAssumption DEF Bursts, a
  <2> HIDE DEF q
  <2>5. Start(1 + q) = Chr0 + q * ChrN
    BY <2>2, HandshakeAssumption DEF Start
  <2>6. used - Chr0 + ChrN - 1 < q * ChrN + ChrN
    BY <2>2, <2>3 DEF a
  <2> QED
    BY <2>2, <2>3, <2>4, <2>5, <2>6, HandshakeAssumption
<1> QED
  BY <1>1, <1>2, HandshakeAssumption

-----------------------------------------------------------------------------
\* A band of a film has no contested tile, and only the last one reaches picture B.
LEMMA Bands ==
  ASSUME NEW i \in 1 .. 4
  PROVE  /\ Runs[i][1] \in Nat /\ Runs[i][2] \in Nat
         /\ RunTiles(i) \subseteq Contested .. (Tiles - 1)
         /\ i # 4 => RunTiles(i) \subseteq 0 .. (BaseB - 1)
<1>1. Runs[i] \in Nat \X Nat
  BY HandshakeAssumption
<1>2. Runs[i][1] \in Nat /\ Runs[i][2] \in Nat
  BY <1>1
<1> QED
  BY <1>2, HandshakeAssumption DEF RunTiles

\* A burst carries cells that exist.
LEMMA CarriedCells ==
  ASSUME NEW s \in Sources, Several,
         IF mode = "fmv" THEN s.burst \in 0 .. 3 ELSE s.frame.used \in 0 .. BaseB
  PROVE  Carried(s) \subseteq Cells
<1> DEFINE to == Other(s.front)
<1>1. to \in Pictures
  BY Bases DEF Sources
<1> HIDE DEF to
<1>2. CASE mode = "fmv"
  <2>1. Map(to, {s.burst}) \subseteq Cells
    BY <1>1, <1>2, MapCells DEF Quarters
  <2>2. Chr(to, RunTiles(s.burst + 1)) \subseteq Cells
    <3>1. s.burst + 1 \in 1 .. 4
      BY <1>2
    <3>2. RunTiles(s.burst + 1) \subseteq 0 .. (Tiles - 1)
      BY <3>1, Bands, HandshakeAssumption
    <3> QED
      BY <1>1, <3>2, ChrCells
  <2>3. Chr(to, 0 .. (Contested - 1)) \subseteq Cells
    <3>1. 0 .. (Contested - 1) \subseteq 0 .. (Tiles - 1)
      BY HandshakeAssumption
    <3> QED
      BY <1>1, <3>1, ChrCells
  <2>4. Palette \subseteq Cells
    BY DEF Cells
  <2> QED
    BY <1>2, <2>1, <2>2, <2>3, <2>4 DEF Carried, to
<1>3. CASE mode # "fmv"
  <2>1. Map(to, Quarters) \subseteq Cells
    BY <1>1, MapCells
  <2>2. Chunk(s.frame.used, s.burst) \subseteq 0 .. (Tiles - 1)
    <3>1. s.burst \in Nat /\ s.frame.used \in 0 .. BaseB
      BY <1>3 DEF Sources
    <3>2. Start(s.burst) \in Nat
      BY <3>1, ChunkIs
    <3>3. \A t \in Chunk(s.frame.used, s.burst) : t \in Int /\ Start(s.burst) <= t /\ t < s.frame.used
      BY <3>1, ChunkIs
    <3> QED
      BY <3>1, <3>2, <3>3, HandshakeAssumption
  <2>3. Chr(to, Chunk(s.frame.used, s.burst)) \subseteq Cells
    BY <1>1, <2>2, ChrCells
  <2> QED
    BY <1>3, <2>1, <2>3 DEF Carried, to
<1> QED
  BY <1>2, <1>3

\* The slots that copy and the one that keeps the front, as slots.
LEMMA PlainSlots ==
  ASSUME NEW s \in Sources, Carried(s) \subseteq Cells
  PROVE  /\ \A cells \in SUBSET Carried(s) : Copy(cells, s.frame) \in Slot \cap Plain(s)
         /\ Show(s.front) \in Slot \cap Plain(s)
         /\ Show(Other(s.front)) \in Slot
<1> QED
  BY Bases DEF Sources, Slot, Plain, Copy, Show

\* The body of a film band.
LEMMA FmvCarries ==
  ASSUME NEW s \in Sources, mode = "fmv", s.burst \in 0 .. 3
  PROVE  Carries(FmvBody(s), s)
<1> DEFINE to == Other(s.front)
           front == IF s.burst = 0 THEN <<Show(s.front)>> ELSE <<>>
           map == Copy(Map(to, {s.burst}), s.frame)
           chr == Copy(Chr(to, RunTiles(s.burst + 1)), s.frame)
           last == Copy(Chr(to, 0 .. (Contested - 1)), s.frame)
           pal == Copy(Palette, s.frame)
           end == IF s.burst = 3 THEN <<last, pal, Show(to)>> ELSE <<>>
           band == <<map, chr>>
           begin == front \o band
           body == begin \o end
<1>1. FmvBody(s) = body
  BY Zenon DEF FmvBody, RunTiles
<1>2. Last(s) <=> s.burst = 3
  BY DEF Last
<1>3. Carried(s) \subseteq Cells
  BY CarriedCells DEF Several
<1>4. /\ map \in Slot \cap Plain(s) /\ chr \in Slot \cap Plain(s)
      /\ Show(s.front) \in Slot \cap Plain(s) /\ Show(to) \in Slot
      /\ s.burst = 3 => last \in Slot \cap Plain(s) /\ pal \in Slot \cap Plain(s)
  <2>1. /\ Map(to, {s.burst}) \subseteq Carried(s) /\ Chr(to, RunTiles(s.burst + 1)) \subseteq Carried(s)
        /\ s.burst = 3 => Chr(to, 0 .. (Contested - 1)) \subseteq Carried(s) /\ Palette \subseteq Carried(s)
    BY DEF Carried
  <2> QED
    BY <1>3, <2>1, PlainSlots
<1>5. /\ Carried(s) \subseteq map.at \cup chr.at \cup (IF s.burst = 3 THEN last.at \cup pal.at ELSE {})
  BY DEF Carried, Copy
<1> HIDE DEF map, chr, last, pal
<1>6. front \in Seq(Slot) /\ \A i \in DOMAIN front : front[i] \in Plain(s)
  BY <1>4
<1>7. /\ band \in Seq(Slot) /\ DOMAIN band = 1 .. 2 /\ band[1] = map /\ band[2] = chr
  BY <1>4
<1>8. /\ end \in Seq(Slot)
      /\ s.burst # 3 => DOMAIN end = {} /\ Len(end) = 0
      /\ s.burst = 3 => DOMAIN end = 1 .. 3 /\ Len(end) = 3
                        /\ end[1] = last /\ end[2] = pal /\ end[3] = Show(to)
  BY <1>4
<1> HIDE DEF front, band, end, to
<1>9. /\ begin \in Seq(Slot) /\ Len(begin) \in Nat
      /\ \A i \in DOMAIN begin : begin[i] \in Plain(s)
      /\ \E i, j \in DOMAIN begin : begin[i] = map /\ begin[j] = chr
  <2>1. \A i \in DOMAIN band : band[i] \in Plain(s)
    BY <1>4, <1>7
  <2>2. 1 \in DOMAIN band /\ 2 \in DOMAIN band
    BY <1>7
  <2>3. /\ begin \in Seq(Slot)
        /\ \A i \in DOMAIN begin :
             \/ i \in DOMAIN front /\ begin[i] = front[i]
             \/ i - Len(front) \in DOMAIN band /\ begin[i] = band[i - Len(front)]
        /\ \A i \in DOMAIN band : i + Len(front) \in DOMAIN begin /\ begin[i + Len(front)] = band[i]
    BY <1>6, <1>7, Concatenated
  <2> HIDE DEF begin
  <2>4. \A i \in DOMAIN begin : begin[i] \in Plain(s)
    BY <1>6, <2>1, <2>3
  <2>5. \E i, j \in DOMAIN begin : begin[i] = map /\ begin[j] = chr
    BY <1>7, <2>2, <2>3
  <2> QED
    BY <2>3, <2>4, <2>5
<1> HIDE DEF begin
<1>10. /\ body \in Seq(Slot) /\ Len(body) = Len(begin) + Len(end)
       /\ \A i \in DOMAIN body : \/ i \in DOMAIN begin /\ body[i] = begin[i]
                                 \/ i - Len(begin) \in DOMAIN end /\ body[i] = end[i - Len(begin)]
       /\ \A i \in DOMAIN begin : i \in DOMAIN body /\ body[i] = begin[i]
       /\ \A i \in DOMAIN end : i + Len(begin) \in DOMAIN body /\ body[i + Len(begin)] = end[i]
  BY <1>8, <1>9, Concatenated
<1> HIDE DEF body
<1>11. \A i \in DOMAIN body : \/ body[i] \in Plain(s)
                              \/ s.burst = 3 /\ i = Len(body) /\ body[i] = Show(to)
  <2> SUFFICES ASSUME NEW i \in DOMAIN body, body[i] \notin Plain(s)
               PROVE  s.burst = 3 /\ i = Len(body) /\ body[i] = Show(to)
    OBVIOUS
  <2>1. i \in Nat
    BY <1>10
  <2>2. i - Len(begin) \in DOMAIN end /\ body[i] = end[i - Len(begin)]
    BY <1>9, <1>10
  <2>3. s.burst = 3
    BY <1>8, <2>2
  <2>4. i - Len(begin) = 3
    BY <1>4, <1>8, <2>2, <2>3
  <2>5. Len(begin) \in Nat /\ Len(end) = 3 /\ Len(body) = Len(begin) + Len(end)
    BY <1>8, <1>9, <1>10, <2>3
  <2>6. i = Len(body)
    BY <2>1, <2>4, <2>5
  <2> QED
    BY <1>8, <2>2, <2>3, <2>4, <2>6
<1>12. s.burst = 3 => Len(body) >= 1 /\ body[Len(body)] = Show(to)
  <2> SUFFICES ASSUME s.burst = 3 PROVE Len(body) >= 1 /\ body[Len(body)] = Show(to)
    OBVIOUS
  <2>1. 3 \in DOMAIN end /\ Len(end) = 3
    BY <1>8
  <2>3. Len(begin) \in Nat /\ Len(body) = Len(begin) + Len(end)
    BY <1>9, <1>10
  <2>2. body[3 + Len(begin)] = end[3]
    BY <1>10, <2>1
  <2>4. Len(body) = 3 + Len(begin) /\ Len(body) >= 1
    BY <2>1, <2>3
  <2> QED
    BY <1>8, <2>1, <2>2, <2>4
<1>13. \A c \in Carried(s) : \E i \in DOMAIN body : c \in body[i].at
  <2> SUFFICES ASSUME NEW c \in Carried(s) PROVE \E i \in DOMAIN body : c \in body[i].at
    OBVIOUS
  <2>1. CASE c \in map.at \cup chr.at
    BY <1>9, <1>10, <2>1
  <2>2. CASE s.burst = 3 /\ c \in last.at \cup pal.at
    <3>1. 1 \in DOMAIN end /\ 2 \in DOMAIN end
      BY <1>8, <2>2
    <3> QED
      BY <1>8, <1>10, <2>2, <3>1
  <2> QED
    BY <1>5, <2>1, <2>2
<1> QED
  BY <1>1, <1>2, <1>10, <1>11, <1>12, <1>13 DEF Carries, to

\* The body of a rendered burst.
LEMMA R3dCarries ==
  ASSUME NEW s \in Sources, mode = "r3d", s.frame.used \in 0 .. BaseB, s.burst \in Nat
  PROVE  Carries(R3dBody(s), s)
<1> DEFINE to == Other(s.front)
           chunk == Chunk(s.frame.used, s.burst)
           map == Copy(Map(to, Quarters), s.frame)
           chr == Copy(Chr(to, chunk), s.frame)
           first == IF s.burst = 0 THEN <<Show(s.front), map>> ELSE <<>>
           tiles == IF chunk # {} THEN <<chr>> ELSE <<>>
           end == IF s.burst = s.bursts - 1 THEN <<Show(to)>> ELSE <<>>
           begin == first \o tiles
           body == begin \o end
<1>1. R3dBody(s) = body
  BY Zenon DEF R3dBody
<1>2. Last(s) <=> s.burst = s.bursts - 1
  BY DEF Last
<1>3. Carried(s) \subseteq Cells
  BY CarriedCells DEF Several
<1>4. /\ chr \in Slot \cap Plain(s) /\ Show(s.front) \in Slot \cap Plain(s) /\ Show(to) \in Slot
      /\ s.burst = 0 => map \in Slot \cap Plain(s)
  <2>1. /\ Chr(to, chunk) \subseteq Carried(s)
        /\ s.burst = 0 => Map(to, Quarters) \subseteq Carried(s)
    BY DEF Carried
  <2> QED
    BY <1>3, <2>1, PlainSlots
<1>5. /\ Carried(s) \subseteq (IF s.burst = 0 THEN map.at ELSE {}) \cup chr.at
      /\ chunk = {} => chr.at = {}
  BY DEF Carried, Copy, Chr
<1> HIDE DEF map, chr, chunk
<1>6. /\ first \in Seq(Slot) /\ \A i \in DOMAIN first : first[i] \in Plain(s)
      /\ s.burst = 0 => 2 \in DOMAIN first /\ first[2] = map
  BY <1>4
<1>7. /\ tiles \in Seq(Slot) /\ \A i \in DOMAIN tiles : tiles[i] \in Plain(s)
      /\ chunk # {} => 1 \in DOMAIN tiles /\ tiles[1] = chr
  BY <1>4
<1>8. /\ end \in Seq(Slot)
      /\ s.burst # s.bursts - 1 => DOMAIN end = {}
      /\ s.burst = s.bursts - 1 => DOMAIN end = {1} /\ Len(end) = 1 /\ end[1] = Show(to)
  BY <1>4
<1> HIDE DEF first, tiles, end, to
<1>9. /\ begin \in Seq(Slot) /\ Len(begin) \in Nat
      /\ \A i \in DOMAIN begin : \/ i \in DOMAIN first /\ begin[i] = first[i]
                                 \/ i - Len(first) \in DOMAIN tiles
                                    /\ begin[i] = tiles[i - Len(first)]
      /\ \A i \in DOMAIN first : i \in DOMAIN begin /\ begin[i] = first[i]
      /\ \A i \in DOMAIN tiles : i + Len(first) \in DOMAIN begin
                                 /\ begin[i + Len(first)] = tiles[i]
  BY <1>6, <1>7, Concatenated
<1> HIDE DEF begin
<1>10. \A i \in DOMAIN begin : begin[i] \in Plain(s)
  BY <1>6, <1>7, <1>9
<1>11. /\ s.burst = 0 => \E i \in DOMAIN begin : begin[i] = map
       /\ chunk # {} => \E i \in DOMAIN begin : begin[i] = chr
  BY <1>6, <1>7, <1>9
<1>12. /\ body \in Seq(Slot) /\ Len(body) = Len(begin) + Len(end)
       /\ \A i \in DOMAIN body : \/ i \in DOMAIN begin /\ body[i] = begin[i]
                                 \/ i - Len(begin) \in DOMAIN end /\ body[i] = end[i - Len(begin)]
       /\ \A i \in DOMAIN begin : i \in DOMAIN body /\ body[i] = begin[i]
       /\ \A i \in DOMAIN end : i + Len(begin) \in DOMAIN body /\ body[i + Len(begin)] = end[i]
  BY <1>8, <1>9, Concatenated
<1> HIDE DEF body
<1>13. \A i \in DOMAIN body : \/ body[i] \in Plain(s)
                              \/ s.burst = s.bursts - 1 /\ i = Len(body) /\ body[i] = Show(to)
  <2> SUFFICES ASSUME NEW i \in DOMAIN body, body[i] \notin Plain(s)
               PROVE  s.burst = s.bursts - 1 /\ i = Len(body) /\ body[i] = Show(to)
    OBVIOUS
  <2>1. i \in Nat
    BY <1>12
  <2>2. i - Len(begin) \in DOMAIN end /\ body[i] = end[i - Len(begin)]
    BY <1>10, <1>12
  <2>3. s.burst = s.bursts - 1 /\ i - Len(begin) = 1 /\ Len(end) = 1
    BY <1>8, <2>2
  <2>4. Len(body) = Len(begin) + Len(end) /\ Len(begin) \in Nat
    BY <1>9, <1>12
  <2>5. i = Len(body)
    BY <2>1, <2>3, <2>4
  <2> QED
    BY <1>8, <2>2, <2>3, <2>5
<1>14. s.burst = s.bursts - 1 => Len(body) >= 1 /\ body[Len(body)] = Show(to)
  <2> SUFFICES ASSUME s.burst = s.bursts - 1 PROVE Len(body) >= 1 /\ body[Len(body)] = Show(to)
    OBVIOUS
  <2>1. 1 \in DOMAIN end /\ Len(end) = 1
    BY <1>8
  <2>2. Len(body) = Len(begin) + Len(end) /\ Len(begin) \in Nat
    BY <1>9, <1>12
  <2>3. body[1 + Len(begin)] = end[1]
    BY <1>12, <2>1
  <2>4. Len(body) = 1 + Len(begin) /\ Len(body) >= 1
    BY <2>1, <2>2
  <2> QED
    BY <1>8, <2>1, <2>3, <2>4
<1>15. \A c \in Carried(s) : \E i \in DOMAIN body : c \in body[i].at
  BY <1>5, <1>11, <1>12
<1> QED
  BY <1>1, <1>2, <1>12, <1>13, <1>14, <1>15 DEF Carries, to

\* What is staged carries the burst of its source.
LEMMA BodyCarries ==
  ASSUME NEW s \in Sources, Several,
         IF mode = "fmv" THEN s.burst \in 0 .. 3 ELSE s.frame.used \in 0 .. BaseB
  PROVE  Carries(Body(s), s)
<1>1. CASE mode = "fmv"
  <2>1. Body(s) = FmvBody(s)
    BY <1>1 DEF Body
  <2> QED
    BY <1>1, <2>1, FmvCarries
<1>2. CASE mode = "r3d"
  <2>1. Body(s) = R3dBody(s) /\ s.burst \in Nat
    BY <1>2 DEF Body, Sources
  <2> QED
    BY <1>2, <2>1, R3dCarries
<1> QED
  BY <1>1, <1>2 DEF Several

-----------------------------------------------------------------------------
\* The cells of different things are different.
LEMMA CellsDiffer ==
  ASSUME NEW p \in Pictures, NEW q \in Pictures, NEW Q, NEW R, NEW T, NEW U
  PROVE  /\ Map(p, Q) \cap Chr(q, T) = {} /\ Map(p, Q) \cap Palette = {}
         /\ Chr(p, T) \cap Palette = {}
         /\ p # q => Map(p, Q) \cap Map(q, R) = {}
<1> QED
  BY DEF Map, Chr, Palette

\* Tiles of the two pictures that do not reach into each other.
LEMMA TilesApart ==
  ASSUME NEW T, NEW U, T \subseteq 0 .. (BaseB + Tiles), U \subseteq 0 .. (BaseB + Tiles),
         \A t \in T, u \in U : t < BaseB + u
  PROVE  Chr(0, T) \cap Chr(1, U) = {}
<1> SUFFICES ASSUME NEW t \in T, NEW u \in U, <<"chr", 0 * BaseB + t>> = <<"chr", 1 * BaseB + u>>
             PROVE FALSE
  BY DEF Chr
<1>1. t \in Nat /\ u \in Nat /\ 0 * BaseB + t = t /\ 1 * BaseB + u = BaseB + u
  BY HandshakeAssumption
<1>2. 0 * BaseB + t = 1 * BaseB + u
  OBVIOUS
<1> QED
  BY <1>1, <1>2, HandshakeAssumption

\* The cells a shown picture is made of, by the frame its map is of.
Made(p, used) ==
  Map(p, Quarters) \cup (IF mode = "fmv" THEN Chr(p, 0 .. (Tiles - 1)) \cup Palette
                                         ELSE Chr(p, 0 .. (used - 1)))

\* Until the last burst nothing the shown picture is made of is written.
LEMMA HiddenApart ==
  ASSUME NEW s \in Sources, Several, ~Last(s), NEW used \in 0 .. BaseB,
         IF mode = "fmv" THEN s.burst \in 0 .. 3 ELSE s.frame.used \in 0 .. BaseB
  PROVE  Carried(s) \cap Made(s.front, used) = {}
<1>1. s.front \in Pictures /\ Other(s.front) \in Pictures /\ Other(s.front) # s.front
  BY Bases DEF Sources
<1> DEFINE to == Other(s.front)
           T == IF mode = "fmv" THEN RunTiles(s.burst + 1) ELSE Chunk(s.frame.used, s.burst)
           U == IF mode = "fmv" THEN 0 .. (Tiles - 1) ELSE 0 .. (used - 1)
<1>2. /\ Carried(s) \subseteq Map(to, Quarters) \cup Chr(to, T)
      /\ Made(s.front, used) \subseteq Map(s.front, Quarters) \cup Chr(s.front, U) \cup Palette
  <2>1. mode = "fmv" => {s.burst} \subseteq Quarters /\ s.burst # 3
    BY DEF Last, Quarters
  <2> QED
    BY <2>1 DEF Carried, Made, Map
<1>3. /\ T \subseteq 0 .. (BaseB - 1)
      /\ mode = "fmv" => T \subseteq Contested .. (BaseB - 1)
  <2>1. CASE mode = "fmv"
    <3>1. s.burst + 1 \in 1 .. 3
      BY <2>1 DEF Last
    <3> QED
      BY <2>1, <3>1, Bands, HandshakeAssumption
  <2>2. CASE mode # "fmv"
    <3>1. s.burst \in Nat /\ s.frame.used \in 0 .. BaseB
      BY <2>2 DEF Sources
    <3>2. Start(s.burst) \in Nat
      BY <3>1, ChunkIs
    <3>3. \A t \in Chunk(s.frame.used, s.burst) : t \in Int /\ Start(s.burst) <= t /\ t < s.frame.used
      BY <3>1, ChunkIs
    <3> QED
      BY <2>2, <3>1, <3>2, <3>3, HandshakeAssumption
  <2> QED
    BY <2>1, <2>2
<1>4. /\ U \subseteq 0 .. (Tiles - 1)
      /\ mode # "fmv" => U \subseteq 0 .. (BaseB - 1)
  BY HandshakeAssumption
<1>5. Chr(to, T) \cap Chr(s.front, U) = {}
  <2> HIDE DEF T, U
  <2>1. T \subseteq 0 .. (BaseB + Tiles) /\ U \subseteq 0 .. (BaseB + Tiles)
    BY <1>3, <1>4, HandshakeAssumption
  <2>2. CASE s.front = 0
    <3>1. to = 1
      BY <2>2 DEF Other
    <3>2. \A t \in U, u \in T : t < BaseB + u
      BY <1>3, <1>4, HandshakeAssumption
    <3> QED
      BY <2>1, <2>2, <3>1, <3>2, TilesApart
  <2>3. CASE s.front = 1
    <3>1. to = 0
      BY <2>3 DEF Other
    <3>2. \A t \in T, u \in U : t < BaseB + u
      BY <1>3, <1>4, HandshakeAssumption
    <3> QED
      BY <2>1, <2>3, <3>1, <3>2, TilesApart
  <2> QED
    BY <1>1, <2>2, <2>3 DEF Pictures
<1> HIDE DEF T, U
<1> QED
  BY <1>1, <1>2, <1>5, CellsDiffer

\* The map of the shown picture is never written.
LEMMA FrontMapApart ==
  ASSUME NEW s \in Sources, NEW q
  PROVE  <<"map", s.front, q>> \notin Carried(s)
<1>1. s.front \in Pictures /\ Other(s.front) \in Pictures /\ Other(s.front) # s.front
  BY Bases DEF Sources
<1> QED
  BY <1>1 DEF Carried, Map, Chr, Palette

\* A source in the middle of a picture.
Sound(s) ==
  /\ s \in Sources
  /\ IF mode = "fmv" THEN s.burst \in 0 .. 3
     ELSE s.bursts = Bursts(s.frame.used) /\ s.burst < s.bursts

\* A frame uses no tile of picture B when it is picture A.
LEMMA FrameTyped ==
  ASSUME NEW f \in FrameSet \cup {None} PROVE f.used \in 0 .. BaseB
<1>1. f \in FrameSet => f.used \in Costs \cup {0}
  BY DEF FrameSet
<1>2. f = None => f.used = 0
  BY DEF None
<1>3. Costs \cup {0} \subseteq 0 .. BaseB
  BY HandshakeAssumption
<1> QED
  BY <1>1, <1>2, <1>3

\* What Advance does within a picture and at its end.
LEMMA AdvanceIs ==
  ASSUME NEW s, Sound(s), Several
  PROVE  /\ Advance(s) \in Sources /\ Advance(s).frame = s.frame
         /\ Advance(s).bursts = s.bursts
         /\ Last(s) => Advance(s).burst = 0 /\ Advance(s).front = Other(s.front)
         /\ ~Last(s) => Advance(s).burst = s.burst + 1 /\ Advance(s).front = s.front
                        /\ Sound(Advance(s))
<1> DEFINE to == Other(s.front)
           a == Advance(s)
<1>1. s \in Sources /\ to \in Pictures
  BY Bases DEF Sound, Sources
<1>2. IF Last(s) THEN \/ a = [s EXCEPT !.burst = 0, !.front = to]
                      \/ a = [s EXCEPT !.burst = 0, !.front = to, !.need = TRUE]
                 ELSE a = [s EXCEPT !.burst = @ + 1] /\ Sound(a)
  <2>1. CASE mode = "fmv"
    <3>1. CASE s.burst = 3
      BY <2>1, <3>1 DEF Advance, Last
    <3>2. CASE s.burst # 3
      <4>1. a = [s EXCEPT !.burst = @ + 1]
        BY <2>1, <3>2 DEF Advance
      <4>2. s.burst + 1 \in 0 .. 3
        BY <2>1, <3>2 DEF Sound
      <4> HIDE DEF a
      <4>3. Sound(a)
        BY <1>1, <2>1, <4>1, <4>2 DEF Sound, Sources
      <4> QED
        BY <2>1, <3>2, <4>1, <4>3 DEF Last
    <3> QED
      BY <3>1, <3>2
  <2>2. CASE mode = "r3d"
    <3>1. s.burst + 1 >= s.bursts <=> Last(s)
      BY <1>1, <2>2 DEF Sound, Last, Sources
    <3>2. CASE Last(s)
      BY <2>2, <3>1, <3>2 DEF Advance
    <3>3. CASE ~Last(s)
      <4>1. a = [s EXCEPT !.burst = @ + 1]
        BY <2>2, <3>1, <3>3 DEF Advance
      <4>2. s.burst + 1 < s.bursts /\ s.burst + 1 \in Nat
        BY <1>1, <3>1, <3>3 DEF Sources
      <4> HIDE DEF a
      <4>3. Sound(a)
        BY <1>1, <2>2, <4>1, <4>2 DEF Sound, Sources
      <4> QED
        BY <3>3, <4>1, <4>3
    <3> QED
      BY <3>2, <3>3
  <2> QED
    BY <2>1, <2>2 DEF Several
<1> HIDE DEF a, to
<1>3. /\ a \in Sources /\ a.frame = s.frame /\ a.bursts = s.bursts
      /\ Last(s) => a.burst = 0 /\ a.front = to
      /\ ~Last(s) => a.burst = s.burst + 1 /\ a.front = s.front /\ Sound(a)
  <2>1. CASE Last(s)
    <3>1. CASE a = [s EXCEPT !.burst = 0, !.front = to]
      BY <1>1, <2>1, <3>1 DEF Sources
    <3>2. CASE a = [s EXCEPT !.burst = 0, !.front = to, !.need = TRUE]
      BY <1>1, <2>1, <3>2 DEF Sources
    <3> QED
      BY <1>2, <2>1, <3>1, <3>2
  <2>2. CASE ~Last(s)
    BY <1>1, <1>2, <2>2 DEF Sources, Sound
  <2> QED
    BY <2>1, <2>2
<1> QED
  BY <1>3 DEF a, to

\* A burst that was shown is one of those sent.
LEMMA BurstDone ==
  ASSUME NEW s, Sound(s), Several, ~Last(s)
  PROVE  Before(Advance(s)) \subseteq Before(s) \cup Carried(s)
<1> DEFINE a == Advance(s)
           to == Other(s.front)
<1>1. /\ s \in Sources /\ a.frame = s.frame /\ a.burst = s.burst + 1 /\ Other(a.front) = to
      /\ s.burst \in Nat
  BY AdvanceIs DEF Sound, Sources
<1> HIDE DEF a
<1>2. CASE mode = "fmv"
  <2>1. s.burst \in 0 .. 2
    BY <1>2 DEF Sound, Last
  <2>2. 0 .. (a.burst - 1) = (0 .. (s.burst - 1)) \cup {s.burst}
    BY <1>1
  <2>3. ASSUME NEW t \in Earlier(a.burst)
        PROVE  t \in Earlier(s.burst) \/ t \in RunTiles(s.burst + 1)
    <3>1. PICK i \in 1 .. a.burst : t \in RunTiles(i)
      BY <2>3 DEF Earlier
    <3>2. i \in 1 .. s.burst \/ i = s.burst + 1
      BY <1>1, <3>1
    <3>3. t \in 0 .. (Tiles - 1)
      BY <2>3 DEF Earlier
    <3>4. CASE i \in 1 .. s.burst
      BY <3>1, <3>3, <3>4 DEF Earlier
    <3>5. CASE i = s.burst + 1
      BY <3>1, <3>5
    <3> QED
      BY <3>2, <3>4, <3>5
  <2>4. /\ Before(a) = Map(to, 0 .. (a.burst - 1)) \cup Chr(to, Earlier(a.burst))
        /\ Before(s) = Map(to, 0 .. (s.burst - 1)) \cup Chr(to, Earlier(s.burst))
        /\ Map(to, {s.burst}) \cup Chr(to, RunTiles(s.burst + 1)) \subseteq Carried(s)
    BY <1>1, <1>2 DEF Before, Carried
  <2> HIDE DEF to
  <2>5. Map(to, 0 .. (a.burst - 1)) \subseteq Map(to, 0 .. (s.burst - 1)) \cup Map(to, {s.burst})
    BY <2>2 DEF Map
  <2>6. Chr(to, Earlier(a.burst)) \subseteq Chr(to, Earlier(s.burst)) \cup Chr(to, RunTiles(s.burst + 1))
    BY <2>3 DEF Chr
  <2>7. Before(a) \subseteq Before(s) \cup Carried(s)
    BY <2>4, <2>5, <2>6
  <2> QED
    BY <2>7 DEF a
<1>3. CASE mode = "r3d"
  <2>1. s.frame.used \in 0 .. BaseB
    BY <1>1, FrameTyped DEF Sources
  <2>2. Before(a) = Map(to, Quarters)
                      \cup Chr(to, {t \in 0 .. (s.frame.used - 1) : t < Start(s.burst + 1)})
    BY <1>1, <1>3 DEF Before
  <2>3. Map(to, Quarters) \subseteq Before(s) \cup Carried(s)
    BY <1>3 DEF Before, Carried
  <2>4. ASSUME NEW t \in 0 .. (s.frame.used - 1), t < Start(s.burst + 1)
        PROVE  <<"chr", to * BaseB + t>> \in Before(s) \cup Carried(s)
    <3>1. CASE t \in Chunk(s.frame.used, s.burst)
      BY <1>3, <3>1 DEF Carried, Chr
    <3>2. CASE t \notin Chunk(s.frame.used, s.burst)
      <4>1. t < Start(s.burst) /\ Start(s.burst) \in Nat
        BY <1>1, <2>1, <2>4, <3>2, ChunkIs
      <4>2. s.burst # 0
        BY <2>1, <4>1 DEF Start
      <4> QED
        BY <1>3, <2>4, <4>1, <4>2 DEF Before, Chr
    <3> QED
      BY <3>1, <3>2
  <2> QED
    BY <2>2, <2>3, <2>4 DEF Chr, a
<1> QED
  BY <1>2, <1>3 DEF Several

\* The bursts of a picture carry all it is made of.
LEMMA PictureDone ==
  ASSUME NEW s, Sound(s), Several, Last(s)
  PROVE  Made(Other(s.front), s.frame.used) \subseteq Before(s) \cup Carried(s)
<1> DEFINE to == Other(s.front)
<1>1. s \in Sources /\ s.burst \in Nat /\ s.frame.used \in 0 .. BaseB
  BY FrameTyped DEF Sound, Sources
<1>2. CASE mode = "fmv"
  <2>1. s.burst = 3
    BY <1>2 DEF Last
  <2>2. Quarters = (0 .. 2) \cup {3}
    BY DEF Quarters
  <2>3. ASSUME NEW t \in 0 .. (Tiles - 1)
        PROVE  t \in Earlier(3) \/ t \in RunTiles(4) \/ t \in 0 .. (Contested - 1)
    <3>1. CASE t < Contested
      BY <2>3, <3>1, HandshakeAssumption
    <3>2. CASE t >= Contested
      <4>1. PICK i \in 1 .. 4 : Runs[i][1] <= t /\ t < Runs[i][1] + Runs[i][2]
        BY <2>3, <3>2, HandshakeAssumption
      <4>2. t \in RunTiles(i)
        BY <2>3, <4>1, Bands DEF RunTiles
      <4>3. CASE i \in 1 .. 3
        BY <2>3, <4>2, <4>3 DEF Earlier
      <4>4. CASE i = 4
        BY <4>2, <4>4
      <4> QED
        BY <4>3, <4>4
    <3> QED
      BY <2>3, <3>1, <3>2, HandshakeAssumption
  <2>4. /\ Before(s) = Map(to, 0 .. 2) \cup Chr(to, Earlier(3))
        /\ Carried(s) = Map(to, {3}) \cup Chr(to, RunTiles(4))
                          \cup Chr(to, 0 .. (Contested - 1)) \cup Palette
    BY <1>2, <2>1 DEF Before, Carried
  <2>5. Made(to, s.frame.used) = Map(to, Quarters) \cup Chr(to, 0 .. (Tiles - 1)) \cup Palette
    BY <1>2 DEF Made
  <2> HIDE DEF to
  <2>6. Chr(to, 0 .. (Tiles - 1))
          \subseteq Chr(to, Earlier(3)) \cup Chr(to, RunTiles(4)) \cup Chr(to, 0 .. (Contested - 1))
    BY <2>3 DEF Chr
  <2>7. Map(to, Quarters) = Map(to, 0 .. 2) \cup Map(to, {3})
    BY <2>2 DEF Map
  <2>8. Made(to, s.frame.used) \subseteq Before(s) \cup Carried(s)
    BY <2>4, <2>5, <2>6, <2>7
  <2> QED
    BY <2>8 DEF to
<1>3. CASE mode = "r3d"
  <2>1. Map(to, Quarters) \subseteq Before(s) \cup Carried(s)
    BY <1>3 DEF Before, Carried
  <2>2. s.frame.used <= Start(s.burst + 1)
    <3>1. s.burst + 1 = Bursts(s.frame.used)
      BY <1>1, <1>3 DEF Sound, Last, Sources
    <3> QED
      BY <1>1, <3>1, LastReaches
  <2>3. ASSUME NEW t \in 0 .. (s.frame.used - 1)
        PROVE  <<"chr", to * BaseB + t>> \in Before(s) \cup Carried(s)
    <3>1. CASE t \in Chunk(s.frame.used, s.burst)
      BY <1>3, <3>1 DEF Carried, Chr
    <3>2. CASE t \notin Chunk(s.frame.used, s.burst)
      <4>1. Start(s.burst) \in Nat /\ Start(s.burst + 1) \in Nat
        <5>1. s.burst + 1 \in Nat
          BY <1>1
        <5> QED
          BY <1>1, <5>1, ChunkIs
      <4>2. t < Start(s.burst)
        <5>1. t \in Int /\ t < s.frame.used /\ t < Start(s.burst + 1)
          BY <1>1, <2>2, <2>3, <4>1
        <5>2. ~(Start(s.burst) <= t)
          BY <1>1, <3>2, <5>1, ChunkIs
        <5> QED
          BY <4>1, <5>1, <5>2
      <4>3. s.burst # 0
        BY <2>3, <4>2 DEF Start
      <4> QED
        BY <1>3, <2>3, <4>2, <4>3 DEF Before, Chr
    <3> QED
      BY <3>1, <3>2
  <2> QED
    BY <1>3, <2>1, <2>3 DEF Made, Chr
<1> QED
  BY <1>2, <1>3 DEF Several

-----------------------------------------------------------------------------
\* Bursts are counted within a picture.
Counted == Several => Sound(source)

\* The next frame is a frame, with the next number.
LEMMA FollowingTyped ==
  ASSUME NEW f \in FrameSet, NEW used \in Costs \cup {0}
  PROVE  Following(f, used) \in FrameSet /\ Following(f, used).n = (f.n + 1) % Frames
<1>1. f.n \in 0 .. (Frames - 1)
  BY DEF FrameSet
<1>2. (f.n + 1) % Frames \in 0 .. (Frames - 1)
  BY <1>1, HandshakeAssumption
<1> QED
  BY <1>2 DEF Following, FrameSet

\* What is staged is slots, in every mode.
LEMMA BodyTyped ==
  ASSUME mode \in Modes, NEW s \in Sources, Several => Sound(s)
  PROVE  Body(s) \in Seq(Slot)
<1>1. CASE Several
  <2>1. IF mode = "fmv" THEN s.burst \in 0 .. 3 ELSE s.frame.used \in 0 .. BaseB
    BY <1>1, FrameTyped DEF Sound, Sources
  <2> QED
    BY <1>1, <2>1, BodyCarries DEF Carries
<1>2. CASE ~Several
  <2>1. mode \in {"bars", "map"}
    BY <1>2, HandshakeAssumption DEF Several
  <2>2. \A q \in Quarters : Copy(Map(0, {q}), s.frame) \in Slot
    BY MapCells DEF Copy, Slot, Sources, Pictures
  <2>3. Show(0) \in Slot
    BY DEF Show, Slot, Pictures
  <2>4. 0 \in Quarters /\ 1 \in Quarters
    BY DEF Quarters
  <2>5. MapBody(s) \in Seq(Slot) /\ BarsBody(s) \in Seq(Slot)
    BY <2>2, <2>3, <2>4 DEF MapBody, BarsBody
  <2>6. Body(s) \in {MapBody(s), BarsBody(s)}
    BY <2>1 DEF Body
  <2> QED
    BY <2>5, <2>6
<1> QED
  BY <1>1, <1>2

\* What Produce stages: the burst of the source it was given, of the same frame
\* or, at the first burst, of the next.
LEMMA ProduceIs ==
  ASSUME mode \in Modes, NEW s \in Sources, Several /\ s.burst # 0 => Sound(s),
         NEW b \in Pictures, Produce(s, b), DOMAIN window = Pictures
  PROVE  /\ source' \in Sources /\ (Several => Sound(source'))
         /\ source'.front = s.front /\ source'.burst = s.burst
         /\ s.burst # 0 /\ Several => source'.frame = s.frame
         /\ source'.frame = s.frame \/ source'.frame.n = (s.frame.n + 1) % Frames
         /\ window'[b].body = Body(source') /\ window'[b].blank \in BOOLEAN
         /\ window'[b].body \in Seq(Slot)
<1> DEFINE n == source'
<1>1. /\ n \in Sources /\ n.front = s.front /\ n.burst = s.burst
      /\ s.burst # 0 /\ Several => n.frame = s.frame
      /\ n.frame = s.frame \/ n.frame.n = (s.frame.n + 1) % Frames
      /\ mode = "r3d" /\ s.burst = 0 => n.bursts = Bursts(n.frame.used)
      /\ mode = "r3d" /\ s.burst # 0 => n = s
  <2>1. s.frame \in FrameSet
    BY DEF Sources
  <2>2. CASE mode = "fmv" /\ FmvSource(s, n)
    <3> DEFINE f == Following(s.frame, 0)
               p == Max({0, s.preroll - 1})
    <3>1. f \in FrameSet /\ f.n = (s.frame.n + 1) % Frames
      BY <2>1, FollowingTyped
    <3>2. p \in 0 .. Preroll
      <4>1. s.preroll \in 0 .. Preroll
        BY DEF Sources
      <4> QED
        BY <4>1, HandshakeAssumption DEF Max
    <3>3. \/ s.burst = 0 /\ n = [s EXCEPT !.frame = f, !.need = FALSE]
          \/ n = [s EXCEPT !.preroll = p]
      BY <2>2 DEF FmvSource
    <3> HIDE DEF f, p, n
    <3>4. CASE s.burst = 0 /\ n = [s EXCEPT !.frame = f, !.need = FALSE]
      BY <2>2, <3>1, <3>4 DEF Sources
    <3>5. CASE n = [s EXCEPT !.preroll = p]
      BY <2>2, <3>2, <3>5 DEF Sources
    <3> QED
      BY <3>3, <3>4, <3>5
  <2>3. CASE mode = "r3d" /\ R3dSource(s, n)
    <3>1. CASE s.burst = 0
      <4>1. PICK used \in Costs : n = [s EXCEPT !.frame = Following(s.frame, used),
                                               !.bursts = Bursts(used)]
        BY <2>3, <3>1 DEF R3dSource
      <4> DEFINE f == Following(s.frame, used)
                 m == Bursts(used)
      <4>2. f \in FrameSet /\ f.n = (s.frame.n + 1) % Frames /\ f.used = used
        BY <2>1, FollowingTyped DEF Following
      <4>3. m \in Nat \ {0}
        BY LastReaches, HandshakeAssumption
      <4>4. n = [s EXCEPT !.frame = f, !.bursts = m]
        BY <4>1
      <4> HIDE DEF f, n
      <4>5. n.bursts = Bursts(n.frame.used)
        BY <4>2, <4>4 DEF Sources
      <4> HIDE DEF m
      <4> QED
        BY <2>3, <3>1, <4>2, <4>3, <4>4, <4>5 DEF Sources
    <3>2. CASE s.burst # 0
      BY <2>3, <3>2 DEF R3dSource
    <3> QED
      BY <3>1, <3>2
  <2>4. CASE mode \in {"map", "bars"} /\ n = [s EXCEPT !.frame = Following(s.frame, 0)]
    <3> DEFINE f == Following(s.frame, 0)
    <3>1. f \in FrameSet /\ f.n = (s.frame.n + 1) % Frames
      BY <2>1, FollowingTyped
    <3>2. n = [s EXCEPT !.frame = f]
      BY <2>4
    <3> HIDE DEF f, n
    <3> QED
      BY <2>4, <3>1, <3>2 DEF Sources, Several
  <2> QED
    BY <2>2, <2>3, <2>4, Zenon DEF Produce
<1>2. Several => Sound(n)
  <2>1. CASE mode = "fmv"
    BY <1>1, <2>1 DEF Sound
  <2>2. CASE mode = "r3d"
    <3>1. CASE s.burst = 0
      BY <1>1, <2>2, <3>1 DEF Sound, Sources
    <3>2. CASE s.burst # 0
      BY <1>1, <2>2, <3>2 DEF Several
    <3> QED
      BY <3>1, <3>2
  <2> QED
    BY <2>1, <2>2 DEF Several
<1>3. /\ window'[b].body = Body(n) /\ window'[b].blank \in BOOLEAN
  <2> DEFINE black == mode = "fmv" /\ s.preroll > 0
             sent == Body(n)
             w == [body |-> sent, blank |-> black]
  <2>1. window' = [window EXCEPT ![b] = w]
    BY DEF Produce
  <2>2. window'[b] = w
    BY <2>1
  <2>3. black \in BOOLEAN
    OBVIOUS
  <2> HIDE DEF black, sent
  <2>4. w.body = sent /\ w.blank \in BOOLEAN
    BY <2>3
  <2> QED
    BY <2>2, <2>4 DEF sent
<1>4. Body(n) \in Seq(Slot)
  BY <1>1, <1>2, BodyTyped
<1> QED
  BY <1>1, <1>2, <1>3, <1>4

-----------------------------------------------------------------------------
(* Types.                                                                  *)

\* The kernel runs a slot of a buffer it has latched.
InBody == kernel.at = "body" => kernel.slot >= 1 /\ kernel.front # -1
Typed ==
  /\ mode \in Modes
  /\ host \in [resetting : BOOLEAN, held : 0..Hold, resets : 0..MaxResets, kicked : BOOLEAN]
  /\ back \in Pictures /\ ready \in 0..2
  /\ DOMAIN window = Pictures
  /\ \A b \in Pictures : window[b].blank \in BOOLEAN /\ window[b].body \in Seq(Slot)
  /\ source \in Sources /\ (Several => Sound(source))
  /\ kernel \in [at : {"off", "visible", "prepped", "body", "done", "blank"},
                 front : Pictures \cup {-1}, pending : BOOLEAN, slot : Nat]
  /\ InBody
  /\ vram \in [Cells -> FrameSet \cup {None}]
  /\ shown \in [picture : Pictures \cup {-1}, black : BOOLEAN]

LEMMA SlotTyped ==
  ASSUME NEW x \in Slot
  PROVE  x.at \subseteq Cells /\ x.frame \in FrameSet \cup {None} /\ x.show \in Pictures \cup {-1}
<1> QED
  BY DEF Slot

LEMMA TypedImplies == Typed => TypeOK
<1> SUFFICES ASSUME Typed PROVE TypeOK
  OBVIOUS
<1>1. \A b \in Pictures : \A i \in DOMAIN window[b].body : window[b].body[i] \in Slot
  BY DEF Typed
<1>2. \A b \in Pictures : \A i \in DOMAIN window[b].body :
        /\ window[b].body[i].at \subseteq Cells
        /\ window[b].body[i].frame \in FrameSet \cup {None}
        /\ window[b].body[i].show \in Pictures \cup {-1}
  BY <1>1, SlotTyped
<1> QED
  BY <1>2, Zenon DEF Typed, TypeOK, Sources

\* What a step stages is typed.
LEMMA StagedTyped ==
  ASSUME Typed, NEW s \in Sources, Several /\ s.burst # 0 => Sound(s),
         NEW b \in Pictures, Produce(s, b)
  PROVE  /\ source' \in Sources /\ (Several => Sound(source'))
         /\ ready' \in 0 .. 2 /\ DOMAIN window' = Pictures
         /\ \A c \in Pictures :
              window'[c].blank \in BOOLEAN /\ window'[c].body \in Seq(Slot)
<1>1. mode \in Modes /\ DOMAIN window = Pictures
  BY DEF Typed
<1>2. /\ source' \in Sources /\ (Several => Sound(source'))
      /\ window'[b].blank \in BOOLEAN /\ window'[b].body \in Seq(Slot)
  BY <1>1, ProduceIs
<1>3. ready' = b + 1 /\ DOMAIN window' = Pictures /\ \A c \in Pictures : c # b => window'[c] = window[c]
  BY <1>1 DEF Produce
<1>4. ready' \in 0 .. 2
  BY <1>3 DEF Pictures
<1>5. ASSUME NEW c \in Pictures
      PROVE  window'[c].blank \in BOOLEAN /\ window'[c].body \in Seq(Slot)
  <2>1. CASE c = b
    BY <1>2, <2>1
  <2>2. CASE c # b
    <3>1. window'[c] = window[c]
      BY <1>3, <2>2
    <3>2. window[c].blank \in BOOLEAN /\ window[c].body \in Seq(Slot)
      BY DEF Typed
    <3> QED
      BY <3>1, <3>2
  <2> QED
    BY <2>1, <2>2
<1> QED
  BY <1>2, <1>3, <1>4, <1>5

LEMMA InitTyped == ASSUME Init PROVE Typed
<1>1. [n |-> 0, used |-> 0] \in FrameSet
  BY HandshakeAssumption DEF FrameSet
<1>2. source \in Sources
  BY <1>1, HandshakeAssumption DEF Init, Sources, Pictures
<1>3. Several => Sound(source)
  BY <1>2, HandshakeAssumption DEF Init, Sound, Bursts, Several
<1>4. DOMAIN window = Pictures /\ \A b \in Pictures : window[b].blank \in BOOLEAN /\ window[b].body \in Seq(Slot)
  <2>1. <<>> \in Seq(Slot) /\ EmptyBuffer.body = <<>> /\ EmptyBuffer.blank = FALSE
    BY DEF EmptyBuffer
  <2>2. window = [b \in Pictures |-> EmptyBuffer]
    BY DEF Init
  <2> QED
    BY <2>1, <2>2
<1>5. host \in [resetting : BOOLEAN, held : 0..Hold, resets : 0..MaxResets, kicked : BOOLEAN]
  BY HandshakeAssumption DEF Init
<1>6. kernel \in [at : {"off", "visible", "prepped", "body", "done", "blank"},
                  front : Pictures \cup {-1}, pending : BOOLEAN, slot : Nat]
  BY DEF Init
<1>7. vram \in [Cells -> FrameSet \cup {None}]
  BY DEF Init
<1>8. mode \in Modes /\ back \in Pictures /\ ready \in 0..2 /\ InBody
      /\ shown \in [picture : Pictures \cup {-1}, black : BOOLEAN]
  BY DEF Init, InBody, Pictures
<1> QED
  BY <1>2, <1>3, <1>4, <1>5, <1>6, <1>7, <1>8 DEF Typed

LEMMA StepTyped == ASSUME Typed, Step PROVE Typed'
<1>1. mode' = mode /\ back' = back /\ kernel' = kernel /\ vram' = vram /\ shown' = shown
  BY DEF Step
<1>2. host' \in [resetting : BOOLEAN, held : 0..Hold, resets : 0..MaxResets, kicked : BOOLEAN]
  <2> DEFINE h == IF host.resetting THEN host.held + 1 ELSE host.held
  <2>1. host' = [host EXCEPT !.kicked = TRUE, !.held = h]
    BY DEF Step
  <2>2. h \in 0..Hold
    <3>1. host.held \in 0..Hold /\ (host.resetting => host.held < Hold)
      BY DEF Typed, Step
    <3> QED
      BY <3>1, HandshakeAssumption
  <2>3. host \in [resetting : BOOLEAN, held : 0..Hold, resets : 0..MaxResets, kicked : BOOLEAN]
    BY DEF Typed
  <2> HIDE DEF h
  <2> QED
    BY <2>1, <2>2, <2>3, Zenon
<1>3. /\ source' \in Sources /\ (Several => Sound(source'))
      /\ ready' \in 0 .. 2 /\ DOMAIN window' = Pictures
      /\ \A b \in Pictures : window'[b].blank \in BOOLEAN /\ window'[b].body \in Seq(Slot)
  <2>1. CASE Paced /\ host.kicked
    BY <2>1 DEF Step, Typed
  <2>2. CASE ~(Paced /\ host.kicked)
    <3>1. Produce(source, back) /\ back \in Pictures /\ source \in Sources
      BY <2>2 DEF Step, Typed
    <3>2. Several => Sound(source)
      BY DEF Typed
    <3> QED
      BY <3>1, <3>2, StagedTyped
  <2> QED
    BY <2>1, <2>2
<1>4. (Several => Sound(source))'
  BY <1>1, <1>3 DEF Several, Sound
<1>5. InBody'
  BY <1>1 DEF InBody, Typed
<1> QED
  BY <1>1, <1>2, <1>3, <1>4, <1>5 DEF Typed

LEMMA FrameDoneTyped == ASSUME Typed, FrameDone PROVE Typed'
<1>1. /\ mode' = mode /\ host' = host /\ back' = Other(back) /\ back' \in Pictures
      /\ vram' = vram /\ shown' = shown
  BY Bases DEF FrameDone, Typed
<1>2. kernel' = [kernel EXCEPT !.at = "blank"]
  BY DEF FrameDone
<1>3. kernel'.at = "blank"
      /\ kernel' \in [at : {"off", "visible", "prepped", "body", "done", "blank"},
                      front : Pictures \cup {-1}, pending : BOOLEAN, slot : Nat]
  BY <1>2 DEF Typed
<1>4. /\ source' \in Sources /\ (Several => Sound(source'))
      /\ ready' \in 0 .. 2 /\ DOMAIN window' = Pictures
      /\ \A b \in Pictures : window'[b].blank \in BOOLEAN /\ window'[b].body \in Seq(Slot)
  <2>1. CASE Paced
    <3>1. Produce(Advance(source), Other(back)) /\ Other(back) \in Pictures
      BY <1>1, <2>1 DEF FrameDone
    <3>2. Advance(source) \in Sources /\ (Several /\ Advance(source).burst # 0 => Sound(Advance(source)))
      <4>1. CASE Several
        BY <4>1, AdvanceIs DEF Typed
      <4>2. CASE ~Several
        <5>1. mode \in {"map", "bars"}
          BY <4>2, HandshakeAssumption DEF Typed, Several
        <5> QED
          BY <4>2, <5>1 DEF Advance, Typed
      <4> QED
        BY <4>1, <4>2
    <3> QED
      BY <3>1, <3>2, StagedTyped
  <2>2. CASE ~Paced
    BY <2>2 DEF FrameDone, Typed
  <2> QED
    BY <2>1, <2>2
<1>5. (Several => Sound(source))'
  BY <1>1, <1>4 DEF Several, Sound
<1>6. InBody'
  BY <1>3 DEF InBody
<1> QED
  BY <1>1, <1>3, <1>4, <1>5, <1>6 DEF Typed

\* The steps that stage nothing.
LEMMA SnesTyped ==
  ASSUME Typed, FramePrep \/ BlankLine \/ BodySlot \/ BodyReturn \/ Unblank
  PROVE  Typed'
<1>1. /\ mode' = mode /\ host' = host /\ back' = back /\ ready' = ready /\ window' = window
      /\ source' = source
  BY DEF FramePrep, BlankLine, BodySlot, BodyReturn, Unblank, hostVars
<1>2. (Several => Sound(source))'
  BY <1>1 DEF Typed, Several, Sound
<1>3. /\ kernel' \in [at : {"off", "visible", "prepped", "body", "done", "blank"},
                      front : Pictures \cup {-1}, pending : BOOLEAN, slot : Nat]
      /\ InBody'
  <2>1. CASE FramePrep
    <3>1. \/ kernel' = [kernel EXCEPT !.at = "prepped"]
          \/ /\ kernel' = [kernel EXCEPT !.at = "prepped", !.front = ready - 1, !.pending = TRUE]
             /\ ready # 0
      BY <2>1 DEF FramePrep
    <3>2. ready # 0 => ready - 1 \in Pictures
      BY DEF Typed, Pictures
    <3> QED
      BY <3>1, <3>2 DEF Typed, InBody
  <2>2. CASE BlankLine
    <3>1. CASE kernel.front = -1
      BY <2>2, <3>1 DEF BlankLine, Typed, InBody
    <3>2. CASE kernel.front # -1
      <4> DEFINE at == IF kernel.pending THEN "body" ELSE "blank"
      <4>1. kernel' = [kernel EXCEPT !.at = at, !.pending = FALSE, !.slot = 1]
        BY <2>2, <3>2 DEF BlankLine
      <4>2. at \in {"body", "blank"}
        OBVIOUS
      <4> HIDE DEF at
      <4> QED
        <5>1. kernel \in [at : {"off", "visible", "prepped", "body", "done", "blank"},
                          front : Pictures \cup {-1}, pending : BOOLEAN, slot : Nat]
          BY DEF Typed
        <5>2. kernel' \in [at : {"off", "visible", "prepped", "body", "done", "blank"},
                           front : Pictures \cup {-1}, pending : BOOLEAN, slot : Nat]
          BY <4>1, <4>2, <5>1
        <5>3. kernel'.slot = 1 /\ kernel'.front = kernel.front
          BY <4>1, <5>1
        <5> QED
          BY <3>2, <5>2, <5>3 DEF InBody
    <3> QED
      BY <3>1, <3>2
  <2>3. CASE BodySlot
    <3>1. kernel' = [kernel EXCEPT !.slot = @ + 1] /\ kernel.at = "body"
      BY <2>3 DEF BodySlot
    <3> QED
      BY <3>1 DEF Typed, InBody
  <2>4. CASE BodyReturn
    BY <2>4 DEF BodyReturn, Typed, InBody
  <2>5. CASE Unblank
    BY <2>5 DEF Unblank, Typed, InBody
  <2> QED
    BY <2>1, <2>2, <2>3, <2>4, <2>5
<1>4. /\ vram' \in [Cells -> FrameSet \cup {None}]
      /\ shown' \in [picture : Pictures \cup {-1}, black : BOOLEAN]
  <2>1. CASE FramePrep \/ BodyReturn
    BY <2>1 DEF FramePrep, BodyReturn, Typed
  <2>2. CASE BlankLine
    BY <2>2 DEF BlankLine, Typed
  <2>3. CASE Unblank
    <3> DEFINE black == kernel.front # -1 /\ window[kernel.front].blank
    <3>1. black \in BOOLEAN
      BY DEF Typed
    <3>2. shown' = [shown EXCEPT !.black = black] /\ vram' = vram
      BY <2>3 DEF Unblank
    <3> HIDE DEF black
    <3> QED
      BY <3>1, <3>2 DEF Typed
  <2>4. CASE BodySlot
    <3> DEFINE slot == window[kernel.front].body[kernel.slot]
    <3>1. kernel.slot \in 1 .. Len(window[kernel.front].body) /\ kernel.front \in Pictures
      BY <2>4 DEF BodySlot, Typed, InBody
    <3>2. slot \in Slot
      BY <3>1 DEF Typed
    <3>3. /\ vram' = [c \in Cells |-> IF c \in slot.at THEN slot.frame ELSE vram[c]]
          /\ shown' = IF slot.show = -1 THEN shown ELSE [shown EXCEPT !.picture = slot.show]
      BY <2>4 DEF BodySlot
    <3> HIDE DEF slot
    <3>4. slot.frame \in FrameSet \cup {None} /\ slot.show \in Pictures \cup {-1}
      BY <3>2, SlotTyped
    <3> QED
      BY <3>3, <3>4 DEF Typed
  <2> QED
    BY <2>1, <2>2, <2>3, <2>4
<1> QED
  BY <1>1, <1>2, <1>3, <1>4 DEF Typed

LEMMA ResetTyped == ASSUME Typed, ResetBegin \/ ResetEnd PROVE Typed'
<1>1. /\ mode' = mode /\ back' = back /\ window' = window /\ source' = source
      /\ ready' \in 0..2
  BY DEF ResetBegin, ResetEnd, Typed
<1>2. (Several => Sound(source))'
  BY <1>1 DEF Typed, Several, Sound
<1>3. host' \in [resetting : BOOLEAN, held : 0..Hold, resets : 0..MaxResets, kicked : BOOLEAN]
  <2>1. CASE ResetBegin
    <3>1. host' = [host EXCEPT !.resetting = TRUE, !.held = 0, !.resets = @ + 1]
          /\ host.resets < MaxResets
      BY <2>1 DEF ResetBegin
    <3>2. host.resets + 1 \in 0..MaxResets /\ 0 \in 0..Hold
      <4>1. host.resets \in 0..MaxResets
        BY DEF Typed
      <4> QED
        BY <3>1, <4>1, HandshakeAssumption
    <3>3. host \in [resetting : BOOLEAN, held : 0..Hold, resets : 0..MaxResets, kicked : BOOLEAN]
      BY DEF Typed
    <3> QED
      BY <3>1, <3>2, <3>3, Zenon
  <2>2. CASE ResetEnd
    <3>1. host' = [host EXCEPT !.resetting = FALSE]
      BY <2>2 DEF ResetEnd
    <3>2. host \in [resetting : BOOLEAN, held : 0..Hold, resets : 0..MaxResets, kicked : BOOLEAN]
      BY DEF Typed
    <3> QED
      BY <3>1, <3>2, Zenon
  <2> QED
    BY <2>1, <2>2
<1>4. /\ kernel' \in [at : {"off", "visible", "prepped", "body", "done", "blank"},
                      front : Pictures \cup {-1}, pending : BOOLEAN, slot : Nat]
      /\ InBody'
  <2>1. CASE ResetBegin
    BY <2>1 DEF ResetBegin, InBody
  <2>2. CASE ResetEnd
    BY <2>2 DEF ResetEnd, InBody, Typed
  <2> QED
    BY <2>1, <2>2
<1>5. /\ vram' \in [Cells -> FrameSet \cup {None}]
      /\ shown' \in [picture : Pictures \cup {-1}, black : BOOLEAN]
  <2>1. CASE ResetBegin
    BY <2>1 DEF ResetBegin, Typed
  <2>2. CASE ResetEnd
    BY <2>2 DEF ResetEnd
  <2> QED
    BY <2>1, <2>2
<1> QED
  BY <1>1, <1>2, <1>3, <1>4, <1>5 DEF Typed

LEMMA NextTyped == ASSUME Typed, [Next]_vars PROVE Typed'
<1>1. CASE Next
  BY <1>1, StepTyped, FrameDoneTyped, SnesTyped, ResetTyped DEF Next, Snes
<1>2. CASE UNCHANGED vars
  BY <1>2 DEF vars, hostVars, Typed, Several, Sound, InBody
<1> QED
  BY <1>1, <1>2

-----------------------------------------------------------------------------
(* The pictures.                                                           *)

current == window[back].body

\* Nothing happened before the first burst is staged, and with nothing published
\* nothing is shown.
Begun ==
  ~host.kicked => /\ host.resetting /\ host.held = 0 /\ source.burst = 0
                  /\ shown.picture = -1 /\ \A c \in Cells : vram[c] = None
Idle ==
  ready = 0 => /\ kernel.front = -1 /\ kernel.at \notin {"body", "done"}
               /\ kernel.at # "off" => shown.picture = -1

\* The published buffer carries the burst of the source, and the kernel is in it.
Staged == Carries(current, source)
InSlots == kernel.at = "body" => kernel.slot \in 1 .. (Len(current) + 1)
Fresh == kernel.at = "off" => source.burst = 0

\* What was sent of the hidden picture is there.
Ran == {i \in DOMAIN current : kernel.at = "done" \/ (kernel.at = "body" /\ i < kernel.slot)}
Received ==
  /\ \A c \in Before(source) : vram[c] = source.frame
  /\ \A i \in Ran : \A c \in current[i].at : vram[c] = source.frame

\* The picture is flipped by the last slot of its last burst.
Flipped ==
  Last(source) /\ (kernel.at = "done" \/ (kernel.at = "body" /\ kernel.slot = Len(current) + 1))
Screen ==
  IF Flipped THEN shown.picture = Other(source.front)
             ELSE shown.picture \in {-1, source.front}

\* The front is of one frame until the last burst writes the tiles both share.
Front == vram[<<"map", source.front, 0>>]
FrontWhole ==
  ~(Last(source) /\ kernel.at \in {"body", "done"})
    => \A c \in Made(source.front, Front.used) : vram[c] = Front
Order ==
  Front \in {None, source.frame} \/ source.frame.n = (Front.n + 1) % Frames

Pictured == Staged /\ InSlots /\ Fresh /\ Received /\ Screen /\ FrontWhole /\ Order
PInv == IInv /\ Typed /\ (Several => Begun /\ Idle /\ (ready # 0 => Pictured))

-----------------------------------------------------------------------------
\* A picture is made of cells that exist, and so is what was sent of it.
LEMMA MadeCells ==
  ASSUME NEW p \in Pictures, NEW used \in 0 .. BaseB PROVE Made(p, used) \subseteq Cells
<1>1. Map(p, Quarters) \subseteq Cells /\ Palette \subseteq Cells
  BY MapCells DEF Cells
<1>2. 0 .. (used - 1) \subseteq 0 .. (Tiles - 1)
  BY HandshakeAssumption
<1>3. Chr(p, 0 .. (Tiles - 1)) \subseteq Cells /\ Chr(p, 0 .. (used - 1)) \subseteq Cells
  BY <1>2, ChrCells
<1> QED
  BY <1>1, <1>3 DEF Made

LEMMA BeforeCells == ASSUME NEW s, Sound(s), Several PROVE Before(s) \subseteq Cells
<1> DEFINE to == Other(s.front)
<1>1. to \in Pictures /\ s \in Sources /\ s.frame.used \in 0 .. BaseB
  BY Bases, FrameTyped DEF Sound, Sources
<1> HIDE DEF to
<1>2. Map(to, Quarters) \subseteq Cells
  BY <1>1, MapCells
<1>3. CASE mode = "fmv"
  <2>1. 0 .. (s.burst - 1) \subseteq Quarters
    BY <1>3 DEF Sound, Quarters
  <2>2. Map(to, 0 .. (s.burst - 1)) \subseteq Cells
    BY <1>1, <2>1, MapCells
  <2>3. Chr(to, Earlier(s.burst)) \subseteq Cells
    BY <1>1, ChrCells DEF Earlier
  <2> QED
    BY <1>3, <2>2, <2>3 DEF Before, to
<1>4. CASE mode # "fmv"
  <2> DEFINE T == {t \in 0 .. (s.frame.used - 1) : t < Start(s.burst)}
  <2>1. T \subseteq 0 .. (Tiles - 1)
    BY <1>1, HandshakeAssumption
  <2> HIDE DEF T
  <2>2. Chr(to, T) \subseteq Cells
    BY <1>1, <2>1, ChrCells
  <2> QED
    BY <1>2, <1>4, <2>2 DEF Before, to, T
<1> QED
  BY <1>3, <1>4

\* Nothing was sent before the first burst.
LEMMA NoneBefore == ASSUME NEW s \in Sources, s.burst = 0 PROVE Before(s) = {}
<1>1. Map(Other(s.front), 0 .. (0 - 1)) = {}
  BY DEF Map
<1>2. Earlier(0) = {}
  BY DEF Earlier
<1>3. Chr(Other(s.front), {}) = {}
  BY DEF Chr
<1> QED
  BY <1>1, <1>2, <1>3 DEF Before

\* What depends on the mode, in a step.
LEMMA ModeKept ==
  ASSUME mode' = mode
  PROVE  /\ Carried(source)' = Carried(source') /\ Before(source)' = Before(source')
         /\ Last(source)' <=> Last(source')
         /\ Carries(current, source)' <=> Carries(current', source')
         /\ Made(source.front, Front.used)' = Made(source'.front, Front'.used)
         /\ Several' <=> Several
<1>1. Carried(source)' = Carried(source') /\ Before(source)' = Before(source')
  BY DEF Carried, Before
<1>2. Last(source)' <=> Last(source')
  BY DEF Last
<1>3. Carries(current, source)' <=> Carries(current', source')
  BY <1>1, <1>2, Zenon DEF Carries, Plain
<1>4. Made(source.front, Front.used)' = Made(source'.front, Front'.used)
  BY DEF Made
<1> QED
  BY <1>1, <1>2, <1>3, <1>4 DEF Several

\* While the SNES does not copy, and nothing is staged, a picture stays what it is.
LEMMA Quiet ==
  ASSUME PInv, Several, ready # 0, Pictured,
         UNCHANGED <<mode, back, ready, window, source, vram>>,
         shown'.picture = shown.picture,
         Ran' = Ran, Flipped' <=> Flipped, InSlots', Fresh',
         kernel.at \in {"body", "done"} => kernel'.at \in {"body", "done"}
  PROVE  Pictured'
<1>1. /\ (Staged' <=> Carries(current', source')) /\ current' = current
      /\ Before(source)' = Before(source') /\ (Last(source)' <=> Last(source'))
      /\ Made(source.front, Front.used)' = Made(source'.front, Front'.used)
  BY ModeKept DEF Staged, current
<1>2. Staged' /\ Order'
  <2>1. source' = source /\ Front' = Front
    BY DEF Front
  <2> QED
    <3>1. Carries(current, source) /\ Order
      BY DEF Pictured, Staged
    <3>2. Carries(current', source')
      BY <1>1, <2>1, <3>1
    <3>3. Order'
      BY <2>1, <3>1 DEF Order
    <3> QED
      BY <1>1, <3>2, <3>3
<1>3. Received'
  BY <1>1 DEF Pictured, Received, current
<1>4. Screen'
  BY DEF Pictured, Screen
<1>5. FrontWhole'
  <2>1. Front' = Front /\ source' = source /\ vram' = vram
    BY DEF Front
  <2> QED
    BY <1>1, <2>1 DEF Pictured, FrontWhole
<1> QED
  BY <1>2, <1>3, <1>4, <1>5 DEF Pictured

\* A copy into the hidden picture.
LEMMA BodySlotPictured ==
  ASSUME PInv, Several, ready # 0, Pictured, BodySlot
  PROVE  Pictured'
<1> DEFINE k == kernel.slot
           x == current[k]
           to == Other(source.front)
<1>1. /\ kernel.at = "body" /\ kernel.front = back /\ k \in DOMAIN current /\ k \in 1 .. Len(current)
      /\ current \in Seq(Slot)
  <2>1. kernel.at = "body" /\ kernel.slot <= Len(window[kernel.front].body)
    BY DEF BodySlot
  <2>2. kernel.front = back
    BY <2>1 DEF PInv, IInv, Core, Running, Several, Paced
  <2>3. back \in Pictures /\ current \in Seq(Slot)
    BY DEF PInv, Typed, current
  <2>4. k \in 1 .. (Len(current) + 1)
    BY <2>1 DEF Pictured, InSlots
  <2> QED
    BY <2>1, <2>2, <2>3, <2>4 DEF current
<1>2. /\ vram' = [c \in Cells |-> IF c \in x.at THEN x.frame ELSE vram[c]]
      /\ shown' = IF x.show = -1 THEN shown ELSE [shown EXCEPT !.picture = x.show]
      /\ kernel' = [kernel EXCEPT !.slot = @ + 1]
      /\ mode' = mode /\ back' = back /\ ready' = ready /\ window' = window /\ source' = source
  BY <1>1 DEF BodySlot, current, hostVars
<1>3. kernel'.at = "body" /\ kernel'.slot = k + 1
  BY <1>1, <1>2 DEF PInv, Typed
<1>4. /\ source \in Sources /\ Sound(source) /\ back \in Pictures
  BY DEF PInv, Typed
<1>5. /\ \/ x \in Plain(source)
         \/ Last(source) /\ k = Len(current) /\ x = Show(to)
      /\ Last(source) /\ k = Len(current) => x = Show(to)
  BY <1>1 DEF Pictured, Staged, Carries
<1>6. /\ x.at \subseteq Carried(source)
      /\ x.at # {} => x.frame = source.frame
      /\ IF Last(source) /\ k = Len(current) THEN x.show = to ELSE x.show \in {-1, source.front}
  <2>1. ASSUME NEW cells \in SUBSET Carried(source), x = Copy(cells, source.frame)
        PROVE  x.at = cells /\ x.frame = source.frame /\ x.show = -1
    BY <2>1 DEF Copy
  <2>2. ASSUME NEW p, x = Show(p) PROVE x.at = {} /\ x.show = p
    BY <2>2 DEF Show
  <2>3. \/ \E cells \in SUBSET Carried(source) : x = Copy(cells, source.frame)
        \/ x = Show(source.front)
        \/ Last(source) /\ k = Len(current) /\ x = Show(to)
    BY <1>5 DEF Plain
  <2>4. Last(source) /\ k = Len(current) => x.at = {} /\ x.show = to
    BY <1>5, <2>2
  <2> HIDE DEF x, k, to
  <2> QED
    BY <2>1, <2>2, <2>3, <2>4
<1> HIDE DEF x, k
<1>7. /\ current' = current /\ Before(source)' = Before(source)
      /\ (Last(source)' <=> Last(source)) /\ (Carries(current, source)' <=> Carries(current, source))
      /\ Made(source.front, Front.used)' = Made(source.front, Front'.used)
  <2>1. current' = current /\ source' = source
    BY <1>2 DEF current
  <2> QED
    BY <1>2, <2>1, ModeKept
<1>8. /\ \A c \in Cells : c \in x.at => vram'[c] = source.frame
      /\ \A c \in Cells : c \notin x.at => vram'[c] = vram[c]
  BY <1>2, <1>6
<1>9. Carried(source) \subseteq Cells /\ Before(source) \subseteq Cells
  <2>1. IF mode = "fmv" THEN source.burst \in 0 .. 3 ELSE source.frame.used \in 0 .. BaseB
    BY <1>4, FrameTyped DEF Sound, Sources
  <2> QED
    BY <1>4, <2>1, CarriedCells, BeforeCells
<1>10. Front' = Front
  <2>1. <<"map", source.front, 0>> \notin Carried(source)
    BY <1>4, FrontMapApart
  <2>2. <<"map", source.front, 0>> \in Cells
    BY <1>4 DEF Sources, Cells, Map, Quarters, Pictures
  <2> QED
    BY <1>2, <1>6, <1>8, <2>1, <2>2 DEF Front
<1>11. Staged' /\ Order'
  BY <1>2, <1>7, <1>10 DEF Pictured, Staged, Order
<1>12. InSlots' /\ Fresh'
  BY <1>1, <1>3, <1>7 DEF InSlots, Fresh, k
<1>13. Received'
  <2>1. \A c \in Before(source) : vram'[c] = source.frame
    BY <1>8, <1>9 DEF Pictured, Received
  <2>2. ASSUME NEW i \in DOMAIN current, i < k + 1, NEW c \in current[i].at
        PROVE  vram'[c] = source.frame
    <3>1. c \in Cells
      <4>1. current[i] \in Slot
        BY <1>1
      <4> QED
        BY <2>2, <4>1, SlotTyped
    <3>2. CASE i = k
      BY <1>8, <2>2, <3>1, <3>2 DEF x
    <3>3. CASE i # k
      <4>1. i < k
        BY <1>1, <2>2, <3>3
      <4>2. vram[c] = source.frame
        BY <1>1, <2>2, <4>1 DEF Pictured, Received, Ran, k
      <4> QED
        BY <1>8, <3>1, <4>2
    <3> QED
      BY <3>2, <3>3
  <2> QED
    BY <1>2, <1>3, <1>7, <2>1, <2>2 DEF Received, Ran
<1>14. Screen'
  <2>1. Flipped' <=> Last(source) /\ k = Len(current)
    BY <1>1, <1>3, <1>7 DEF Flipped
  <2>2. ~Flipped
    BY <1>1 DEF Flipped, k
  <2>3. shown.picture \in {-1, source.front}
    BY <2>2 DEF Pictured, Screen
  <2>4. shown'.picture = IF x.show = -1 THEN shown.picture ELSE x.show
    BY <1>2 DEF PInv, Typed
  <2>5. to # -1
    BY <1>4, Bases DEF Sources, Pictures
  <2> QED
    BY <1>2, <1>6, <2>1, <2>3, <2>4, <2>5 DEF Screen
<1>15. FrontWhole'
  <2>1. CASE Last(source)
    BY <1>3, <1>7, <2>1 DEF FrontWhole
  <2>2. CASE ~Last(source)
    <3> DEFINE made == Made(source.front, Front.used)
    <3>1. Front.used \in 0 .. BaseB
      <4>1. <<"map", source.front, 0>> \in Cells
        BY <1>4 DEF Sources, Cells, Map, Quarters, Pictures
      <4>2. Front \in FrameSet \cup {None}
        BY <4>1 DEF PInv, Typed, Front
      <4> QED
        BY <4>2, FrameTyped
    <3>2. Carried(source) \cap made = {} /\ made \subseteq Cells
      <4>1. IF mode = "fmv" THEN source.burst \in 0 .. 3 ELSE source.frame.used \in 0 .. BaseB
        BY <1>4, FrameTyped DEF Sound, Sources
      <4>2. source.front \in Pictures
        BY <1>4 DEF Sources
      <4> QED
        BY <1>4, <2>2, <3>1, <4>1, <4>2, HiddenApart, MadeCells
    <3>3. \A c \in made : vram[c] = Front
      BY <2>2 DEF Pictured, FrontWhole
    <3> HIDE DEF made
    <3>4. \A c \in made : vram'[c] = Front
      BY <1>6, <1>8, <3>2, <3>3
    <3> QED
      BY <1>7, <1>10, <3>4 DEF FrontWhole, made
  <2> QED
    BY <2>1, <2>2
<1> QED
  BY <1>11, <1>12, <1>13, <1>14, <1>15 DEF Pictured

\* The burst is over: everything up to it is there, and the next is staged.
LEMMA FrameDonePictured ==
  ASSUME PInv, Several, ready # 0, Pictured, FrameDone
  PROVE  Pictured'
<1> DEFINE n == source'
           a == Advance(source)
           to == Other(source.front)
<1>1. /\ source \in Sources /\ Sound(source) /\ back \in Pictures /\ mode \in Modes
      /\ DOMAIN window = Pictures /\ kernel.at = "done" /\ back' = Other(back)
      /\ Other(back) \in Pictures /\ current \in Seq(Slot)
  BY Bases DEF PInv, Typed, FrameDone, current
<1>2. Produce(a, Other(back)) /\ mode' = mode /\ vram' = vram /\ shown' = shown
  BY DEF FrameDone, Several, Paced
<1>3. kernel'.at = "blank"
  BY DEF FrameDone, PInv, Typed
<1>4. /\ a \in Sources /\ a.frame = source.frame
      /\ Last(source) => a.burst = 0 /\ a.front = to
      /\ ~Last(source) => a.burst = source.burst + 1 /\ a.front = source.front /\ Sound(a)
  BY <1>1, AdvanceIs
<1>5. /\ n \in Sources /\ Sound(n) /\ n.front = a.front /\ n.burst = a.burst
      /\ a.burst # 0 => n.frame = a.frame
      /\ n.frame = a.frame \/ n.frame.n = (a.frame.n + 1) % Frames
      /\ current' = Body(n)
  <2>1. Several /\ a.burst # 0 => Sound(a)
    BY <1>4
  <2> HIDE DEF a
  <2> QED
    BY <1>1, <1>2, <1>4, <2>1, ProduceIs DEF current
<1> HIDE DEF n, a
<1>6. Carries(current', n)
  <2>1. IF mode = "fmv" THEN n.burst \in 0 .. 3 ELSE n.frame.used \in 0 .. BaseB
    BY <1>5, FrameTyped DEF Sound, Sources
  <2> QED
    BY <1>5, <2>1, BodyCarries
<1>7. /\ Before(source)' = Before(n) /\ (Last(source)' <=> Last(n))
      /\ Staged' /\ Made(source.front, Front.used)' = Made(n.front, Front'.used)
  BY <1>2, <1>6, ModeKept DEF Staged, n
<1>8. \A c \in Before(source) \cup Carried(source) : vram[c] = source.frame
  <2>1. ASSUME NEW c \in Carried(source) PROVE vram[c] = source.frame
    <3>1. PICK i \in DOMAIN current : c \in current[i].at
      BY DEF Pictured, Staged, Carries
    <3>2. i \in Ran
      BY <1>1, <3>1 DEF Ran
    <3> QED
      BY <3>1, <3>2 DEF Pictured, Received
  <2> QED
    BY <2>1 DEF Pictured, Received
<1>9. InSlots' /\ Fresh' /\ ~Flipped' /\ Ran' = {}
  BY <1>3 DEF InSlots, Fresh, Flipped, Ran
<1>10. Flipped <=> Last(source)
  BY <1>1 DEF Flipped
<1>11. CASE ~Last(source)
  <2>1. n.front = source.front /\ n.frame = source.frame
    <3>1. a.burst # 0
      BY <1>1, <1>4, <1>11 DEF Sources
    <3> QED
      BY <1>4, <1>5, <1>11, <3>1
  <2>2. Before(n) = Before(a)
    BY <1>4, <1>5, <2>1 DEF Before
  <2>3. Before(n) \subseteq Before(source) \cup Carried(source)
    BY <1>1, <1>11, <2>2, BurstDone DEF a
  <2>4. Received'
    BY <1>2, <1>7, <1>8, <1>9, <2>1, <2>3 DEF Received, n
  <2>5. Front' = Front
    BY <1>2, <2>1 DEF Front, n
  <2>6. Screen' /\ Order'
    BY <1>2, <1>9, <1>10, <1>11, <2>1, <2>5 DEF Pictured, Screen, Order, n
  <2>7. FrontWhole'
    <3>1. \A c \in Made(source.front, Front.used) : vram[c] = Front
      BY <1>11 DEF Pictured, FrontWhole
    <3> QED
      BY <1>2, <1>7, <2>1, <2>5, <3>1 DEF FrontWhole
  <2> QED
    BY <1>7, <1>9, <2>4, <2>6, <2>7 DEF Pictured
<1>12. CASE Last(source)
  <2>1. n.front = to /\ n.burst = 0 /\ Before(n) = {}
    BY <1>4, <1>5, <1>12, NoneBefore
  <2>2. Received'
    BY <1>7, <1>9, <2>1 DEF Received
  <2>3. \A c \in Made(to, source.frame.used) : vram[c] = source.frame
    BY <1>1, <1>8, <1>12, PictureDone
  <2>4. Front' = source.frame
    <3>1. <<"map", to, 0>> \in Made(to, source.frame.used)
      BY DEF Made, Map, Quarters
    <3> QED
      BY <1>2, <2>1, <2>3, <3>1 DEF Front, n
  <2>5. FrontWhole'
    BY <1>2, <1>7, <2>1, <2>3, <2>4 DEF FrontWhole
  <2>6. Screen'
    <3>1. shown.picture = to
      BY <1>10, <1>12 DEF Pictured, Screen
    <3> QED
      BY <1>2, <1>9, <2>1, <3>1 DEF Screen, n
  <2>7. Order'
    BY <1>4, <1>5, <2>4 DEF Order, n
  <2> QED
    BY <1>7, <1>9, <2>2, <2>5, <2>6, <2>7 DEF Pictured
<1> QED
  BY <1>11, <1>12

\* Video memory without a picture is whole.
LEMMA BlankPictured ==
  ASSUME mode' = mode, Several, NEW s \in Sources, source' = s, Sound(s), s.burst = 0,
         Carries(current', s), kernel'.at \notin {"body", "done"},
         \A c \in Cells : vram'[c] = None, shown'.picture = -1
  PROVE  Pictured'
<1>1. /\ Before(source)' = {} /\ Staged'
      /\ Made(source.front, Front.used)' = Made(s.front, Front'.used)
  BY ModeKept, NoneBefore DEF Staged
<1>2. InSlots' /\ Fresh' /\ ~Flipped' /\ Ran' = {}
  BY DEF InSlots, Fresh, Flipped, Ran
<1>3. s.front \in Pictures
  BY DEF Sources
<1>4. Front' = None
  <2>1. <<"map", s.front, 0>> \in Cells
    BY <1>3 DEF Cells, Map, Quarters, Pictures
  <2> QED
    BY <2>1 DEF Front
<1>5. FrontWhole'
  <2>1. Made(s.front, Front'.used) \subseteq Cells
    BY <1>3, <1>4, FrameTyped, MadeCells
  <2> QED
    BY <1>1, <1>4, <2>1 DEF FrontWhole
<1>6. Received' /\ Screen' /\ Order'
  BY <1>1, <1>2, <1>4 DEF Received, Screen, Order
<1> QED
  BY <1>1, <1>2, <1>5, <1>6 DEF Pictured

LEMMA InitPInv == Init => PInv
<1> SUFFICES ASSUME Init PROVE PInv
  OBVIOUS
<1>1. IInv
  BY DEF Init, IInv, Core, Shapes, Off, Published, Unkicked, Latched, Running, Pictures
<1>2. Begun /\ Idle /\ ready = 0
  BY DEF Init, Begun, Idle
<1> QED
  BY <1>1, <1>2, InitTyped DEF PInv

\* Before the first burst nothing has happened; after it that is settled.
LEMMA BegunKept == ASSUME PInv, Several, Next PROVE Begun'
<1>1. Begun /\ Off /\ host.kicked \in BOOLEAN
  BY DEF PInv, IInv, Typed
<1>2. host \in [resetting : BOOLEAN, held : 0..Hold, resets : 0..MaxResets, kicked : BOOLEAN]
  BY DEF PInv, Typed
<1>3. CASE Step
  <2>1. host'.kicked
    BY <1>2, <1>3 DEF Step
  <2> QED
    BY <2>1 DEF Begun
<1>4. CASE Snes
  <2>1. host' = host /\ kernel.at # "off"
    BY <1>4 DEF Snes, FramePrep, BlankLine, BodySlot, BodyReturn, FrameDone, Unblank, hostVars
  <2> QED
    BY <1>1, <2>1 DEF Begun, Off
<1>5. CASE ResetBegin
  <2>1. host.kicked
    BY <1>1, <1>5 DEF ResetBegin, Begun
  <2>2. host' = [host EXCEPT !.resetting = TRUE, !.held = 0, !.resets = @ + 1]
    BY <1>5 DEF ResetBegin
  <2>3. host'.kicked = host.kicked
    BY <1>2, <2>2
  <2> QED
    BY <2>1, <2>3 DEF Begun
<1>6. CASE ResetEnd
  <2>1. host.held >= Hold
    BY <1>6 DEF ResetEnd
  <2>2. host.held # 0
    BY <2>1, HandshakeAssumption
  <2>3. host.kicked
    BY <1>1, <2>2 DEF Begun
  <2>4. host'.kicked = host.kicked
    BY <1>2, <1>6 DEF ResetEnd
  <2> QED
    BY <2>3, <2>4 DEF Begun
<1> QED
  BY <1>3, <1>4, <1>5, <1>6 DEF Next

\* With nothing published the kernel latches nothing and shows nothing.
LEMMA IdleKept == ASSUME PInv, Several, Next PROVE Idle'
<1>1. Idle /\ Several /\ Paced
  BY DEF PInv, Several, Paced
<1>2. kernel \in [at : {"off", "visible", "prepped", "body", "done", "blank"},
                  front : Pictures \cup {-1}, pending : BOOLEAN, slot : Nat]
  BY DEF PInv, Typed
<1>3. CASE Step
  <2>1. CASE host.kicked
    BY <1>1, <1>3, <2>1 DEF Step, Idle
  <2>2. CASE ~host.kicked
    <3>1. ready' = back + 1 /\ back \in Pictures
      BY <1>3, <2>2 DEF Step, Produce, PInv, Typed
    <3> QED
      BY <3>1 DEF Idle, Pictures
  <2> QED
    BY <2>1, <2>2
<1>4. CASE FrameDone
  <2>1. ready' = Other(back) + 1 /\ Other(back) \in Pictures
    BY <1>1, <1>4, Bases DEF FrameDone, Produce, PInv, Typed
  <2> QED
    BY <2>1 DEF Idle, Pictures
<1>5. CASE FramePrep
  BY <1>1, <1>2, <1>5 DEF FramePrep, Idle, hostVars
<1>6. CASE BlankLine
  <2>1. ready' = ready
    BY <1>6 DEF BlankLine, hostVars
  <2>2. CASE ready = 0
    <3>1. kernel' = [kernel EXCEPT !.at = "blank"] /\ shown' = shown /\ kernel.at = "prepped"
      BY <1>1, <1>6, <2>2 DEF BlankLine, Idle
    <3> QED
      BY <1>1, <1>2, <2>2, <3>1 DEF Idle
  <2> QED
    BY <2>1, <2>2 DEF Idle
<1>7. CASE BodySlot \/ BodyReturn
  <2>1. ready' = ready /\ kernel.at = "body"
    BY <1>7 DEF BodySlot, BodyReturn, hostVars
  <2> QED
    BY <1>1, <2>1 DEF Idle
<1>8. CASE Unblank
  <2>1. /\ ready' = ready /\ kernel' = [kernel EXCEPT !.at = "visible"] /\ kernel.at = "blank"
        /\ shown'.picture = shown.picture
    BY <1>8 DEF Unblank, hostVars, PInv, Typed
  <2> QED
    BY <1>1, <1>2, <2>1 DEF Idle
<1>9. CASE ResetBegin
  BY <1>9 DEF ResetBegin, Idle
<1>10. CASE ResetEnd
  <2>1. /\ ready' = ready /\ kernel' = [kernel EXCEPT !.at = "visible"] /\ shown'.picture = -1
    BY <1>10 DEF ResetEnd
  <2> QED
    BY <1>1, <1>2, <2>1 DEF Idle
<1> QED
  BY <1>3, <1>4, <1>5, <1>6, <1>7, <1>8, <1>9, <1>10 DEF Next, Snes

\* What is published is on its way to the screen.
LEMMA PicturedKept == ASSUME PInv, Several, Next, ready' # 0 PROVE Pictured'
<1>1. /\ Begun /\ Idle /\ Off /\ (ready # 0 => Pictured)
      /\ Several /\ Paced /\ Unkicked
  BY DEF PInv, IInv, Core, Several, Paced
<1>2. kernel \in [at : {"off", "visible", "prepped", "body", "done", "blank"},
                  front : Pictures \cup {-1}, pending : BOOLEAN, slot : Nat]
  BY DEF PInv, Typed
<1>3. /\ source \in Sources /\ Sound(source) /\ back \in Pictures /\ mode \in Modes
      /\ DOMAIN window = Pictures /\ current \in Seq(Slot)
  BY DEF PInv, Typed, current
<1>4. CASE Step
  <2>1. /\ mode' = mode /\ back' = back /\ kernel' = kernel /\ vram' = vram /\ shown' = shown
    BY <1>4 DEF Step
  <2>2. CASE host.kicked
    <3>1. UNCHANGED <<mode, back, ready, window, source, vram>> /\ kernel' = kernel
      BY <1>1, <1>4, <2>2 DEF Step
    <3>2. ready # 0 /\ Pictured
      BY <1>1, <3>1
    <3>3. current' = current /\ Last(source)' = Last(source)
      BY <3>1 DEF current, Last
    <3>4. Ran' = Ran /\ (Flipped' <=> Flipped) /\ InSlots' /\ Fresh'
      BY <3>1, <3>2, <3>3 DEF Ran, Flipped, InSlots, Fresh, Pictured
    <3> QED
      BY <2>1, <3>1, <3>2, <3>4, Quiet
  <2>3. CASE ~host.kicked
    <3>1. Produce(source, back)
      BY <1>4, <2>3 DEF Step
    <3>2. /\ source.burst = 0 /\ shown.picture = -1 /\ kernel.at = "off"
          /\ \A c \in Cells : vram[c] = None
      BY <1>1, <2>3 DEF Begun, Off
    <3> DEFINE n == source'
    <3>3. n \in Sources /\ Sound(n) /\ n.burst = 0 /\ current' = Body(n)
      BY <1>1, <1>3, <2>1, <3>1, <3>2, ProduceIs DEF current
    <3>4. Carries(current', n)
      <4>1. IF mode = "fmv" THEN n.burst \in 0 .. 3 ELSE n.frame.used \in 0 .. BaseB
        BY <3>3, FrameTyped DEF Sound, Sources
      <4> HIDE DEF n
      <4> QED
        BY <1>1, <3>3, <4>1, BodyCarries
    <3> QED
      BY <1>1, <2>1, <3>2, <3>3, <3>4, BlankPictured
  <2> QED
    BY <2>2, <2>3
<1>5. CASE FrameDone
  <2>1. ready # 0
    BY <1>1, <1>5 DEF FrameDone, Idle
  <2> QED
    BY <1>1, <1>5, <2>1, FrameDonePictured
<1>6. CASE BodySlot
  <2>1. ready # 0
    BY <1>1, <1>6 DEF BodySlot, Idle
  <2> QED
    BY <1>1, <1>6, <2>1, BodySlotPictured
<1>7. CASE FramePrep \/ BlankLine \/ BodyReturn \/ Unblank
  <2>1. UNCHANGED <<mode, back, ready, window, source, vram>>
    BY <1>7 DEF FramePrep, BlankLine, BodyReturn, Unblank, hostVars
  <2>2. ready # 0 /\ Pictured
    BY <1>1, <2>1
  <2>3. current' = current /\ (Last(source)' <=> Last(source))
    BY <2>1 DEF current, Last
  <2>4. shown'.picture = shown.picture
    BY <1>7 DEF FramePrep, BlankLine, BodyReturn, Unblank, PInv, Typed
  <2>5. CASE FramePrep \/ BlankLine \/ Unblank
    <3>1. /\ kernel.at \in {"visible", "prepped", "blank"}
          /\ \/ kernel'.at \in {"visible", "prepped", "blank"}
             \/ kernel'.at = "body" /\ kernel'.slot = 1 /\ BlankLine
      <4>1. CASE FramePrep \/ Unblank
        <5>1. \/ kernel' = [kernel EXCEPT !.at = "prepped"] /\ kernel.at = "visible"
              \/ /\ kernel' = [kernel EXCEPT !.at = "prepped", !.front = ready - 1, !.pending = TRUE]
                 /\ kernel.at = "visible"
              \/ kernel' = [kernel EXCEPT !.at = "visible"] /\ kernel.at = "blank"
          BY <4>1 DEF FramePrep, Unblank
        <5>2. kernel'.at \in {"prepped", "visible"}
          BY <1>2, <5>1
        <5>3. kernel.at \in {"visible", "blank"}
          BY <5>1
        <5> QED
          BY <5>2, <5>3
      <4>2. CASE BlankLine
        <5>1. \/ kernel' = [kernel EXCEPT !.at = "blank"]
              \/ kernel' = [kernel EXCEPT !.at = "blank", !.pending = FALSE, !.slot = 1]
              \/ kernel' = [kernel EXCEPT !.at = "body", !.pending = FALSE, !.slot = 1]
          BY <4>2 DEF BlankLine
        <5>2. kernel.at = "prepped"
          BY <4>2 DEF BlankLine
        <5>3. kernel'.at = "blank" \/ (kernel'.at = "body" /\ kernel'.slot = 1)
          <6>1. CASE kernel' = [kernel EXCEPT !.at = "blank"]
            BY <1>2, <6>1
          <6>2. CASE kernel' = [kernel EXCEPT !.at = "blank", !.pending = FALSE, !.slot = 1]
            BY <1>2, <6>2
          <6>3. CASE kernel' = [kernel EXCEPT !.at = "body", !.pending = FALSE, !.slot = 1]
            BY <1>2, <6>3
          <6> QED
            BY <5>1, <6>1, <6>2, <6>3
        <5> QED
          BY <4>2, <5>2, <5>3
      <4> QED
        BY <2>5, <4>1, <4>2
    <3>2. Ran' = {} /\ Ran = {}
      BY <1>3, <2>3, <3>1 DEF Ran
    <3>3. Len(current) \in Nat /\ (Last(source) => Len(current) >= 1)
      BY <1>3, <2>2 DEF Pictured, Staged, Carries
    <3>4. ~Flipped /\ ~Flipped'
      BY <2>3, <3>1, <3>3 DEF Flipped
    <3>5. InSlots' /\ Fresh'
      BY <2>3, <3>1, <3>3 DEF InSlots, Fresh
    <3> QED
      BY <1>1, <2>1, <2>2, <2>4, <3>1, <3>2, <3>4, <3>5, Quiet
  <2>6. CASE BodyReturn
    <3>1. /\ kernel.at = "body" /\ kernel.slot = Len(window[kernel.front].body) + 1
          /\ kernel' = [kernel EXCEPT !.at = "done", !.slot = 0]
      BY <2>6 DEF BodyReturn
    <3>2. kernel.slot = Len(current) + 1 /\ kernel'.at = "done"
      BY <1>1, <1>2, <3>1 DEF PInv, IInv, Core, Running, current
    <3>3. Ran = DOMAIN current /\ Ran' = DOMAIN current
      <4>1. Len(current) \in Nat /\ DOMAIN current = 1 .. Len(current)
        BY <1>3
      <4>2. \A i \in DOMAIN current : i < kernel.slot
        BY <3>2, <4>1
      <4> QED
        BY <2>3, <3>1, <3>2, <4>2 DEF Ran
    <3>4. Flipped' <=> Flipped
      BY <2>3, <3>1, <3>2 DEF Flipped
    <3>5. InSlots' /\ Fresh'
      BY <3>2 DEF InSlots, Fresh
    <3> QED
      BY <1>1, <2>1, <2>2, <2>4, <3>2, <3>3, <3>4, <3>5, Quiet
  <2> QED
    BY <1>7, <2>5, <2>6
<1>8. CASE ResetBegin
  BY <1>8 DEF ResetBegin
<1>9. CASE ResetEnd
  <2>1. /\ mode' = mode /\ back' = back /\ window' = window /\ source' = source
        /\ kernel' = [kernel EXCEPT !.at = "visible"] /\ ready' = ready
        /\ vram' = [c \in Cells |-> None] /\ shown'.picture = -1 /\ host.resetting
    BY <1>9 DEF ResetEnd
  <2>2. ready # 0 /\ Pictured /\ kernel.at = "off"
    BY <1>1, <2>1 DEF Off
  <2>3. source.burst = 0 /\ Carries(current, source) /\ current' = current
    BY <2>1, <2>2 DEF Pictured, Fresh, Staged, current
  <2>4. kernel'.at = "visible"
    BY <1>2, <2>1
  <2> QED
    BY <1>1, <1>3, <2>1, <2>3, <2>4, BlankPictured
<1> QED
  BY <1>4, <1>5, <1>6, <1>7, <1>8, <1>9 DEF Next, Snes

LEMMA NextPInv == ASSUME PInv, [Next]_vars, IInv' PROVE PInv'
<1>1. Typed'
  BY NextTyped DEF PInv
<1>2. CASE Next
  <2>1. Several' <=> Several
    BY <1>2 DEF Next, Snes, Step, FramePrep, BlankLine, BodySlot, BodyReturn, FrameDone, Unblank,
                ResetBegin, ResetEnd, Several
  <2> QED
    BY <1>1, <1>2, <2>1, BegunKept, IdleKept, PicturedKept DEF PInv
<1>3. CASE UNCHANGED vars
  <2>1. /\ mode' = mode /\ host' = host /\ back' = back /\ ready' = ready /\ window' = window
        /\ source' = source /\ kernel' = kernel /\ vram' = vram /\ shown' = shown
    BY <1>3 DEF vars, hostVars
  <2>2. (Several' <=> Several) /\ (Begun' <=> Begun) /\ (Idle' <=> Idle)
    BY <2>1 DEF Several, Begun, Idle
  <2>3. ASSUME Several, ready # 0, Pictured PROVE Pictured'
    <3>1. current' = current /\ (Last(source)' <=> Last(source))
      BY <2>1 DEF current, Last
    <3>2. Ran' = Ran /\ (Flipped' <=> Flipped) /\ InSlots' /\ Fresh'
      BY <2>1, <2>3, <3>1 DEF Ran, Flipped, InSlots, Fresh, Pictured
    <3> QED
      BY <2>1, <2>3, <3>2, Quiet
  <2> QED
    BY <1>1, <2>1, <2>2, <2>3 DEF PInv
<1> QED
  BY <1>2, <1>3

\* A picture on screen is one frame.
LEMMA PictureWhole == PInv => NoTornPicture
<1> SUFFICES ASSUME PInv, Several, kernel.at = "visible", shown.picture # -1
             PROVE  \A c \in Referenced(shown.picture) : vram[c] = OnScreen
  BY DEF NoTornPicture, Several
<1>1. ready # 0 /\ Pictured
  BY DEF PInv, Idle
<1>2. shown.picture = source.front
  BY <1>1 DEF Pictured, Screen, Flipped
<1>3. \A c \in Made(source.front, Front.used) : vram[c] = Front
  BY <1>1 DEF Pictured, FrontWhole
<1>4. OnScreen = Front /\ Referenced(shown.picture) = Made(source.front, Front.used)
  BY <1>2 DEF OnScreen, Front, Referenced, Made
<1> QED
  BY <1>3, <1>4

\* A flip shows the frame that was shown or the next.
LEMMA FlipInOrder ==
  ASSUME PInv, PInv', [Next]_vars, Several,
         shown.picture # -1, shown'.picture # shown.picture, shown'.picture # -1
  PROVE  OnScreen = None \/ OnScreen' = OnScreen \/ OnScreen'.n = (OnScreen.n + 1) % Frames
<1>1. BodySlot
  <2>1. ~Step /\ ~FrameDone /\ ~FramePrep /\ ~BodyReturn /\ ~ResetBegin /\ ~UNCHANGED vars
    BY DEF Step, FrameDone, FramePrep, BodyReturn, ResetBegin, vars
  <2>2. ~BlankLine /\ ~Unblank
    BY DEF BlankLine, Unblank, PInv, Typed
  <2>3. ~ResetEnd
    BY DEF ResetEnd
  <2> QED
    BY <2>1, <2>2, <2>3 DEF Next, Snes
<1>2. /\ mode' = mode /\ ready' = ready /\ source' = source /\ kernel.at = "body" /\ kernel'.at = "body"
  BY <1>1 DEF BodySlot, hostVars, PInv, Typed
<1>3. ready # 0 /\ Pictured /\ Pictured'
  BY <1>2 DEF PInv, Idle, Several
<1>4. source.front \in Pictures /\ Other(source.front) \in Pictures /\ Sound(source)
  BY Bases DEF PInv, Typed, Sources
<1>5. Last(source)' <=> Last(source)
  BY <1>2 DEF Last
<1>6. ~Flipped /\ current' = current /\ current \in Seq(Slot)
  <2>1. kernel.front = back
    BY <1>2 DEF PInv, IInv, Core, Running, Several, Paced
  <2>2. kernel.slot <= Len(current)
    BY <1>1, <2>1 DEF BodySlot, current
  <2>3. current \in Seq(Slot)
    BY DEF PInv, Typed, current
  <2>4. current' = current
    BY <1>1 DEF BodySlot, current, hostVars
  <2> QED
    BY <1>2, <2>2, <2>3, <2>4 DEF Flipped
<1>7. shown.picture = source.front /\ Flipped' /\ shown'.picture = Other(source.front)
  BY <1>2, <1>3, <1>6 DEF Pictured, Screen
<1>8. Last(source) /\ kernel'.slot = Len(current) + 1
  BY <1>2, <1>5, <1>6, <1>7 DEF Flipped
<1>9. OnScreen' = source.frame
  <2> DEFINE c == <<"map", Other(source.front), 0>>
  <2>1. c \in Before(source) \cup Carried(source)
    <3>1. c \in Made(Other(source.front), source.frame.used)
      BY DEF Made, Map, Quarters
    <3> QED
      BY <1>4, <1>8, <3>1, PictureDone
  <2> HIDE DEF c
  <2>2. vram'[c] = source.frame
    <3>1. CASE c \in Before(source)
      <4>1. Before(source)' = Before(source)
        BY <1>2 DEF Before
      <4>2. \A d \in Before(source)' : vram'[d] = source'.frame
        BY <1>3 DEF Pictured, Received
      <4> QED
        BY <1>2, <3>1, <4>1, <4>2
    <3>2. CASE c \in Carried(source)
      <4>1. PICK i \in DOMAIN current : c \in current[i].at
        BY <1>3, <3>2 DEF Pictured, Staged, Carries
      <4>2. i \in Ran'
        <5>1. i \in 1 .. Len(current) /\ Len(current) \in Nat
          BY <1>6, <4>1
        <5> QED
          BY <1>2, <1>6, <1>8, <4>1, <5>1 DEF Ran
      <4>3. \A k \in Ran' : \A d \in current'[k].at : vram'[d] = source'.frame
        BY <1>3 DEF Pictured, Received
      <4> QED
        BY <1>2, <1>6, <4>1, <4>2, <4>3
    <3> QED
      BY <2>1, <3>1, <3>2
  <2> QED
    BY <1>7, <2>2 DEF OnScreen, c
<1>10. OnScreen = Front /\ Order
  BY <1>3, <1>7 DEF OnScreen, Front, Pictured
<1> QED
  BY <1>9, <1>10 DEF Order

-----------------------------------------------------------------------------
(* Theorems about what is shown.                                           *)

\* The pictures' invariant holds in every mode.
THEOREM SpecPInv == Spec => []PInv
<1>1. Init => PInv
  BY InitPInv
<1>2. PInv /\ IInv' /\ [Next]_vars => PInv'
  BY NextPInv
<1> QED
  BY <1>1, <1>2, SpecIInv, PTL DEF Spec

\* Every variable keeps its type; in particular a body's slots copy cells that
\* exist, of a frame that was taken or built.
THEOREM TypeCorrect == Spec => []TypeOK
<1>1. PInv => TypeOK
  BY TypedImplies DEF PInv
<1> QED
  BY <1>1, SpecPInv, PTL

\* A picture on screen is one frame, though it took several fields to send and
\* shares tiles with the other one (hx_emit_fmv_band sends those with the last
\* burst, hx_emit_r3d_burst has none).
THEOREM PictureIsWhole == Spec => []NoTornPicture
<1> QED
  BY PictureWhole, SpecPInv, PTL

\* Pictures are flipped in the order in which their frames were taken or built
\* (hx_produce_fmv_band, hx_produce_r3d_burst).
THEOREM FlipsInOrder == Spec => ShownInOrder
<1>1. PInv /\ PInv' /\ [Next]_vars
        => [shown.picture # -1 /\ shown'.picture # shown.picture /\ shown'.picture # -1
              => \/ mode \notin {"fmv", "r3d"}
                 \/ OnScreen = None
                 \/ OnScreen' = OnScreen
                 \/ OnScreen'.n = (OnScreen.n + 1) % Frames]_vars
  BY FlipInOrder DEF Several
<1> QED
  BY <1>1, SpecPInv, PTL DEF ShownInOrder, Spec

-----------------------------------------------------------------------------
(* The scrolling map: one of the pictures' sources, whose bodies the       *)
(* kernel runs between two calls of hx_map_stage().                        *)

\* The tiles of a tilemap are those of the map in the window at left and top.
Holds(tiles, left, top) ==
  \A x \in left .. (left + TmW - 1), y \in top .. (top + TmH - 1) :
    tiles[SlotOf(x, y)] = TileAt(x, y)

\* A tilemap after the cells of a body.
Patched(cells, tiles) ==
  [s \in Slots |-> IF s \in DOMAIN cells THEN cells[s] ELSE tiles[s]]

\* The numbers of the map.
LEMMA ScrollNumbers ==
  /\ TmW \in Nat \ {0} /\ TmH \in Nat \ {0} /\ MapW \in Nat \ {0} /\ MapH \in Nat \ {0}
  /\ ViewW \in Nat \ {0} /\ ViewH \in Nat \ {0} /\ Areas \in Nat \ {0}
  /\ RangeX \in Nat \ {0} /\ RangeY \in Nat \ {0}
  /\ LeadX \in Nat /\ LeadY \in Nat /\ MaxCols \in Nat /\ MaxRows \in Nat
  /\ JumpX \in Nat /\ JumpY \in Nat
  /\ Slower \in [Layers -> Nat \ {0}]
  /\ LeadX + ViewW <= TmW /\ LeadY + ViewH <= TmH
  /\ MaxCols <= TmW /\ MaxRows <= TmH
<1>1. {TmW, TmH, MapW, MapH, ViewW, ViewH, RangeX, RangeY, Areas} \subseteq Nat \ {0}
  BY ScrollAssumption
<1>2. {LeadX, LeadY, MaxCols, MaxRows, JumpX, JumpY, AssetBytes, BurstBytes} \subseteq Nat
  BY ScrollAssumption
<1>3. /\ TmW \in Nat \ {0} /\ TmH \in Nat \ {0} /\ MapW \in Nat \ {0} /\ MapH \in Nat \ {0}
      /\ ViewW \in Nat \ {0} /\ ViewH \in Nat \ {0} /\ Areas \in Nat \ {0}
      /\ RangeX \in Nat \ {0} /\ RangeY \in Nat \ {0}
  BY <1>1
<1>4. /\ LeadX \in Nat /\ LeadY \in Nat /\ MaxCols \in Nat /\ MaxRows \in Nat
      /\ JumpX \in Nat /\ JumpY \in Nat
  BY <1>2
<1>5. /\ Slower \in [Layers -> Nat \ {0}]
      /\ LeadX + ViewW <= TmW /\ LeadY + ViewH <= TmH
      /\ MaxCols <= TmW /\ MaxRows <= TmH
  BY ScrollAssumption
<1> QED
  BY <1>3, <1>4, <1>5

\* On a torus of n places two positions less than n apart are one if their places are.
LEMMA OnePlace ==
  ASSUME NEW n \in Nat \ {0}, NEW a \in Int, NEW b \in Int, a % n = b % n,
         a - b < n, b - a < n
  PROVE  a = b
<1>1. a = n * (a \div n) + (a % n) /\ a \div n \in Int /\ a % n \in Int
  OBVIOUS
<1>2. b = n * (b \div n) + (b % n) /\ b \div n \in Int /\ b % n \in Int
  OBVIOUS
<1> DEFINE m == (a \div n) - (b \div n)
           e == a - b
<1>3. e = n * m /\ m \in Int /\ e \in Int /\ e < n /\ -e < n
  BY <1>1, <1>2
<1> HIDE DEF m, e
<1>4. ~(m >= 1)
  <2> SUFFICES ASSUME m >= 1 PROVE n * m >= n
    BY <1>3
  <2> QED
    BY <1>3
<1>5. ~(m <= -1)
  <2> SUFFICES ASSUME m <= -1 PROVE n * m <= -n
    BY <1>3
  <2> QED
    BY <1>3
<1>6. m = 0
  BY <1>3, <1>4, <1>5
<1>7. e = 0
  BY <1>3, <1>6
<1> QED
  BY <1>7 DEF e

\* A position has a slot of the tilemap.
LEMMA SlotOfType ==
  ASSUME NEW x \in Int, NEW y \in Int
  PROVE  SlotOf(x, y) \in Slots
<1>1. x % TmW \in 0 .. (TmW - 1) /\ y % TmH \in 0 .. (TmH - 1)
  BY ScrollNumbers
<1> QED
  BY <1>1 DEF SlotOf, Slots

\* What is filled within a window is the map's, wherever it wraps: no two
\* positions of a window share a slot.
LEMMA FilledIs ==
  ASSUME NEW left \in Int, NEW top \in Int,
         NEW xs \in SUBSET (left .. (left + TmW - 1)),
         NEW ys \in SUBSET (top .. (top + TmH - 1)),
         NEW x \in left .. (left + TmW - 1), NEW y \in top .. (top + TmH - 1)
  PROVE  /\ SlotOf(x, y) \in DOMAIN Filled(xs, ys) =>
              Filled(xs, ys)[SlotOf(x, y)] = TileAt(x, y)
         /\ x \in xs /\ y \in ys => SlotOf(x, y) \in DOMAIN Filled(xs, ys)
<1> DEFINE s == SlotOf(x, y)
           D == {SlotOf(u, v) : u \in xs, v \in ys}
           F == Filled(xs, ys)
           at == CHOOSE p \in xs \X ys : SlotOf(p[1], p[2]) = s
<1>1. DOMAIN F = D
  BY DEF Filled
<1>2. s \in D => F[s] = TileAt(at[1], at[2])
  BY DEF Filled
<1>3. ASSUME s \in D PROVE at[1] = x /\ at[2] = y
  <2>1. PICK u \in xs, v \in ys : SlotOf(u, v) = s
    BY <1>3
  <2>2. <<u, v>> \in xs \X ys /\ SlotOf(<<u, v>>[1], <<u, v>>[2]) = s
    BY <2>1
  <2>3. \E p \in xs \X ys : SlotOf(p[1], p[2]) = s
    BY <2>2
  <2>4. at \in xs \X ys /\ SlotOf(at[1], at[2]) = s
    BY <2>3
  <2> HIDE DEF at
  <2>5. at[1] \in left .. (left + TmW - 1) /\ at[2] \in top .. (top + TmH - 1)
    BY <2>4
  <2>6. at[1] % TmW = x % TmW /\ at[2] % TmH = y % TmH
    BY <2>4 DEF SlotOf
  <2>7. /\ at[1] - x < TmW /\ x - at[1] < TmW /\ at[2] - y < TmH /\ y - at[2] < TmH
        /\ at[1] \in Int /\ at[2] \in Int /\ x \in Int /\ y \in Int
        /\ TmW \in Nat \ {0} /\ TmH \in Nat \ {0}
    BY <2>5, ScrollNumbers
  <2>8. at[1] = x
    BY <2>6, <2>7, OnePlace
  <2>9. at[2] = y
    BY <2>6, <2>7, OnePlace
  <2> QED
    BY <2>8, <2>9
<1> HIDE DEF F, at
<1>4. x \in xs /\ y \in ys => s \in D
  OBVIOUS
<1> QED
  BY <1>1, <1>2, <1>3, <1>4 DEF F

\* Columns or rows that enter a window lie in it, and the others were in the old one.
LEMMA EnteringIs ==
  ASSUME NEW n \in Nat \ {0}, NEW from \in Int, NEW to \in Int,
         Distance(to, from) <= n
  PROVE  /\ Entering(from, to, n) \in SUBSET (to .. (to + n - 1))
         /\ \A x \in to .. (to + n - 1) :
              x \notin Entering(from, to, n) => x \in from .. (from + n - 1)
<1>1. CASE to > from
  <2>1. Entering(from, to, n) = (from + n) .. (to + n - 1) /\ to - from <= n
    BY <1>1 DEF Entering, Distance
  <2> QED
    BY <1>1, <2>1
<1>2. CASE ~(to > from)
  <2>1. Entering(from, to, n) = to .. (from - 1) /\ from - to <= n
    BY <1>2 DEF Entering, Distance
  <2> QED
    BY <1>2, <2>1
<1> QED
  BY <1>1, <1>2

\* Strips turn a tilemap that holds a window into one that holds the next.
LEMMA SeamsHold ==
  ASSUME NEW l, l.left \in Int, l.top \in Int, NEW cam \in Int \X Int,
         Distance(WantLeft(cam), l.left) <= MaxCols,
         Distance(WantTop(cam), l.top) <= MaxRows,
         NEW tiles, Holds(tiles, l.left, l.top)
  PROVE  Holds(Patched(Seams(l, cam).cells, tiles),
               WantLeft(cam), WantTop(cam))
<1> DEFINE left == WantLeft(cam)
           top == WantTop(cam)
           cols == Entering(l.left, left, TmW)
           rows == Entering(l.top, top, TmH)
           xs == left .. (left + TmW - 1)
           ys == top .. (top + TmH - 1)
           columns == Filled(cols, ys)
           across == Filled(xs, rows)
           cells == Seams(l, cam).cells
<1>1. left \in Int /\ top \in Int
  BY ScrollNumbers DEF WantLeft, WantTop
<1>2. cells = [s \in DOMAIN columns \cup DOMAIN across |->
                 IF s \in DOMAIN across THEN across[s] ELSE columns[s]]
  BY DEF Seams
<1> HIDE DEF cells
<1>3. /\ cols \in SUBSET xs /\ rows \in SUBSET ys
      /\ \A x \in xs : x \notin cols => x \in l.left .. (l.left + TmW - 1)
      /\ \A y \in ys : y \notin rows => y \in l.top .. (l.top + TmH - 1)
  <2> HIDE DEF left, top
  <2>1. /\ Distance(left, l.left) \in Int /\ Distance(top, l.top) \in Int
        /\ Distance(left, l.left) <= MaxCols /\ Distance(top, l.top) <= MaxRows
    BY <1>1 DEF Distance, left, top
  <2>2. Distance(left, l.left) <= TmW /\ Distance(top, l.top) <= TmH
    BY <2>1, ScrollNumbers
  <2> QED
    BY <1>1, <2>2, ScrollNumbers, EnteringIs
<1> HIDE DEF cols, rows, left, top
<1>4. ASSUME NEW x \in xs, NEW y \in ys
      PROVE  Patched(cells, tiles)[SlotOf(x, y)] = TileAt(x, y)
  <2> DEFINE s == SlotOf(x, y)
  <2>0. xs \in SUBSET xs /\ ys \in SUBSET ys
    OBVIOUS
  <2>1. /\ s \in DOMAIN columns => columns[s] = TileAt(x, y)
        /\ x \in cols /\ y \in ys => s \in DOMAIN columns
    BY <1>1, <1>3, <2>0, FilledIs
  <2>2. /\ s \in DOMAIN across => across[s] = TileAt(x, y)
        /\ y \in rows => s \in DOMAIN across
    BY <1>1, <1>3, <2>0, FilledIs
  <2>3. s \in Slots
    BY <1>1, SlotOfType
  <2>4. x \notin cols /\ y \notin rows => tiles[s] = TileAt(x, y)
    BY <1>3 DEF Holds
  <2> HIDE DEF s, columns, across
  <2>5. /\ s \in DOMAIN cells <=> s \in DOMAIN columns \/ s \in DOMAIN across
        /\ s \in DOMAIN cells => cells[s] = TileAt(x, y)
    BY <1>2, <2>1, <2>2
  <2>6. Patched(cells, tiles)[s] = IF s \in DOMAIN cells THEN cells[s] ELSE tiles[s]
    BY <2>3 DEF Patched
  <2>7. s \notin DOMAIN cells => tiles[s] = TileAt(x, y)
    BY <2>1, <2>2, <2>4, <2>5
  <2> QED
    BY <2>5, <2>6, <2>7 DEF s
<1> QED
  BY <1>4 DEF Holds, cells, left, top

\* A refill makes any tilemap hold the window.
LEMMA SeedHolds ==
  ASSUME NEW l, NEW cam \in Int \X Int, NEW tiles
  PROVE  Holds(Patched(Seed(l, cam).cells, tiles),
               WantLeft(cam), WantTop(cam))
<1> DEFINE left == WantLeft(cam)
           top == WantTop(cam)
           xs == left .. (left + TmW - 1)
           ys == top .. (top + TmH - 1)
           cells == Seed(l, cam).cells
<1>1. left \in Int /\ top \in Int
  BY ScrollNumbers DEF WantLeft, WantTop
<1>2. cells = Filled(xs, ys)
  BY DEF Seed
<1> HIDE DEF cells, left, top
<1>3. ASSUME NEW x \in xs, NEW y \in ys
      PROVE  Patched(cells, tiles)[SlotOf(x, y)] = TileAt(x, y)
  <2> DEFINE s == SlotOf(x, y)
  <2>0. xs \in SUBSET xs /\ ys \in SUBSET ys
    OBVIOUS
  <2>1. s \in DOMAIN cells /\ cells[s] = TileAt(x, y)
    BY <1>1, <1>2, <2>0, FilledIs
  <2>2. s \in Slots
    BY <1>1, SlotOfType
  <2> HIDE DEF s
  <2>3. Patched(cells, tiles)[s] = cells[s]
    BY <2>1, <2>2 DEF Patched
  <2> QED
    BY <2>1, <2>3 DEF s
<1> QED
  BY <1>3 DEF Holds, cells, left, top

-----------------------------------------------------------------------------
(* Its invariant: a layer that is up to date has, once the body that is    *)
(* staged has run, the window its record names; a field that is not held   *)
(* black is staged for such layers only, and shown from their windows.     *)

LayerType == [cam : Int \X Int, left : Int, top : Int, seeded : BOOLEAN, want : BOOLEAN]
UpToDate(l) == l.seeded /\ ~l.want

MapTypes ==
  /\ layer \in [Layers -> LayerType] /\ master \in [x : Int, y : Int, area : Int]
  /\ staged = [ready |-> staged.ready, cells |-> staged.cells, scroll |-> staged.scroll,
               blank |-> staged.blank, bytes |-> staged.bytes, slots |-> staged.slots,
               assets |-> staged.assets]
  /\ staged.scroll \in [Layers -> Int \X Int] /\ screen.scroll \in [Layers -> Int \X Int]

MapInv ==
  /\ MapTypes
  /\ ~staged.ready => staged.cells = [i \in Layers |-> Nothing]
  /\ \A i \in Layers : UpToDate(layer[i]) =>
       Holds(Patched(staged.cells[i], tilemap[i]), layer[i].left, layer[i].top)
  /\ staged.ready /\ ~staged.blank => \A i \in Layers :
       /\ UpToDate(layer[i])
       /\ layer[i].left = WantLeft(staged.scroll[i])
       /\ layer[i].top = WantTop(staged.scroll[i])
  /\ ~screen.blank => \A i \in Layers :
       Holds(tilemap[i], WantLeft(screen.scroll[i]), WantTop(screen.scroll[i]))

\* A body without cells leaves the tilemap.
LEMMA NothingPatched ==
  ASSUME NEW tiles, NEW left \in Int, NEW top \in Int,
         Holds(Patched(Nothing, tiles), left, top)
  PROVE  Holds(tiles, left, top)
<1> SUFFICES ASSUME NEW x \in left .. (left + TmW - 1), NEW y \in top .. (top + TmH - 1)
             PROVE  tiles[SlotOf(x, y)] = TileAt(x, y)
  BY DEF Holds
<1> DEFINE s == SlotOf(x, y)
<1>1. x \in Int /\ y \in Int
  BY ScrollNumbers
<1>2. s \in Slots
  BY <1>1, SlotOfType
<1>3. Patched(Nothing, tiles)[s] = TileAt(x, y)
  BY DEF Holds
<1>4. DOMAIN Nothing = {}
  BY DEF Nothing
<1> HIDE DEF s
<1>5. Patched(Nothing, tiles)[s] = tiles[s]
  BY <1>2, <1>4 DEF Patched
<1> QED
  BY <1>3, <1>5 DEF s

\* Nor does it take anything from it.
LEMMA PatchedWithNothing ==
  ASSUME NEW tiles, NEW left \in Int, NEW top \in Int,
         Holds(tiles, left, top)
  PROVE  Holds(Patched(Nothing, tiles), left, top)
<1> SUFFICES ASSUME NEW x \in left .. (left + TmW - 1), NEW y \in top .. (top + TmH - 1)
             PROVE  Patched(Nothing, tiles)[SlotOf(x, y)] =
                      TileAt(x, y)
  BY DEF Holds
<1> DEFINE s == SlotOf(x, y)
<1>1. x \in Int /\ y \in Int
  BY ScrollNumbers
<1>2. s \in Slots
  BY <1>1, SlotOfType
<1>3. tiles[s] = TileAt(x, y)
  BY DEF Holds
<1>4. DOMAIN Nothing = {}
  BY DEF Nothing
<1> HIDE DEF s
<1>5. Patched(Nothing, tiles)[s] = tiles[s]
  BY <1>2, <1>4 DEF Patched
<1> QED
  BY <1>3, <1>5 DEF s

\* Wherever the camera goes, hx_map_layer_goto() leaves the layer up to date with
\* the window there, or asks for a refill.
LEMMA GotoIs ==
  ASSUME layer \in [Layers -> LayerType], NEW i \in Layers,
         NEW cams \in [Layers -> Int \X Int],
         UpToDate(layer[i]) => Holds(tilemap[i], layer[i].left, layer[i].top)
  PROVE  /\ Goto(i, cams).layer \in LayerType
         /\ UpToDate(Goto(i, cams).layer) =>
              /\ Goto(i, cams).layer.left = WantLeft(cams[i])
              /\ Goto(i, cams).layer.top = WantTop(cams[i])
              /\ Holds(Patched(Goto(i, cams).cells, tilemap[i]),
                       WantLeft(cams[i]), WantTop(cams[i]))
<1> DEFINE l == layer[i]
           cam == cams[i]
           left == WantLeft(cam)
           top == WantTop(cam)
           g == Goto(i, cams)
<1>1. l \in LayerType /\ cam \in Int \X Int /\ left \in Int /\ top \in Int
  BY ScrollNumbers DEF WantLeft, WantTop
<1>2. \/ ~NeedsReseed(l, cam) /\ g = Seams(l, cam)
      \/ g = Seed(l, cam)
      \/ g = Defer(l, cam)
  BY DEF Goto
<1> HIDE DEF l, cam, g
<1>3. CASE ~NeedsReseed(l, cam) /\ g = Seams(l, cam)
  <2>1. /\ l.seeded /\ ~l.want
        /\ ~(Distance(left, l.left) > MaxCols)
        /\ ~(Distance(top, l.top) > MaxRows)
    BY <1>3 DEF NeedsReseed
  <2>2. g.layer = [l EXCEPT !.cam = cam, !.left = left, !.top = top]
    BY <1>3 DEF Seams
  <2> HIDE DEF left, top
  <2>3. g.layer \in LayerType /\ g.layer.left = left /\ g.layer.top = top
    BY <1>1, <2>2 DEF LayerType
  <2>4. l.left \in Int /\ l.top \in Int
    BY <1>1 DEF LayerType
  <2>5. Distance(left, l.left) <= MaxCols /\ Distance(top, l.top) <= MaxRows
    BY <1>1, <2>1, <2>4, ScrollNumbers DEF Distance
  <2>6. Holds(tilemap[i], l.left, l.top)
    BY <2>1 DEF UpToDate, l
  <2>7. Holds(Patched(Seams(l, cam).cells, tilemap[i]), left, top)
    BY <1>1, <2>4, <2>5, <2>6, SeamsHold DEF left, top
  <2> QED
    BY <1>3, <2>3, <2>7 DEF left, top, cam, g
<1>4. CASE g = Seed(l, cam)
  <2>1. g.layer = [l EXCEPT !.cam = cam, !.left = left, !.top = top,
                            !.seeded = TRUE, !.want = FALSE]
    BY <1>4 DEF Seed
  <2>2. Holds(Patched(Seed(l, cam).cells, tilemap[i]), left, top)
    BY <1>1, SeedHolds
  <2> HIDE DEF left, top
  <2>3. g.layer \in LayerType /\ g.layer.left = left /\ g.layer.top = top
    BY <1>1, <2>1 DEF LayerType
  <2> QED
    BY <1>4, <2>2, <2>3 DEF left, top, cam, g
<1>5. CASE g = Defer(l, cam)
  <2>1. g.layer = [l EXCEPT !.cam = cam, !.want = TRUE]
    BY <1>5 DEF Defer
  <2>2. g.layer \in LayerType /\ g.layer.want = TRUE
    BY <1>1, <2>1 DEF LayerType
  <2> QED
    BY <2>2 DEF UpToDate, g
<1> QED
  BY <1>2, <1>3, <1>4, <1>5

\* A camera is at a place.
LEMMA CameraType ==
  ASSUME NEW m \in [x : Int, y : Int, area : Int], NEW i \in Layers
  PROVE  CameraOf(m, i) \in Int \X Int
<1>1. /\ m.x \in Int /\ m.y \in Int /\ m.area \in Int /\ Slower[i] \in Nat \ {0}
      /\ JumpX \in Nat /\ JumpY \in Nat /\ MapW \in Nat \ {0} /\ MapH \in Nat \ {0}
  BY ScrollNumbers
<1> DEFINE u == m.x \div Slower[i] + m.area * JumpX
           v == m.y \div Slower[i] + m.area * JumpY
<1>2. m.x \div Slower[i] \in Int /\ m.area * JumpX \in Int
      /\ m.y \div Slower[i] \in Int /\ m.area * JumpY \in Int
  BY <1>1
<1>3. u \in Int /\ v \in Int
  BY <1>2
<1>4. CameraOf(m, i) = <<u % MapW, v % MapH>>
  BY DEF CameraOf
<1> HIDE DEF u, v
<1>5. u % MapW \in Int /\ v % MapH \in Int
  BY <1>1, <1>3
<1> QED
  BY <1>4, <1>5

\* The map starts black.
LEMMA MapInitInv ==
  ASSUME MapInit PROVE MapInv
<1>1. /\ master = [x |-> 0, y |-> 0, area |-> 0]
      /\ layer = [i \in Layers |-> [cam |-> <<0, 0>>, left |-> 0, top |-> 0,
                                    seeded |-> FALSE, want |-> FALSE]]
      /\ staged = [ready |-> FALSE, cells |-> [i \in Layers |-> Nothing],
                   scroll |-> [i \in Layers |-> <<0, 0>>], blank |-> TRUE,
                   bytes |-> 0, slots |-> 0, assets |-> FALSE]
      /\ screen = [scroll |-> [i \in Layers |-> <<0, 0>>], blank |-> TRUE]
  BY DEF MapInit
<1>2. MapTypes
  BY <1>1 DEF MapTypes, LayerType
<1>3. \A i \in Layers : ~UpToDate(layer[i])
  BY <1>1 DEF UpToDate
<1>4. ~staged.ready /\ staged.cells = [i \in Layers |-> Nothing] /\ screen.blank
  BY <1>1
<1> QED
  BY <1>2, <1>3, <1>4 DEF MapInv

\* A field's moves keep the invariant.
LEMMA ProduceInv ==
  ASSUME MapInv, ProduceMap PROVE MapInv'
<1> DEFINE cams == [i \in Layers |-> CameraOf(master', i)]
           moved == [i \in Layers |-> Goto(i, cams)]
           pending == assets \/ master'.area # master.area
<1>1. /\ ~staged.ready /\ master' \in Wander(master)
      /\ Stage(cams, pending)
      /\ UNCHANGED <<tilemap, screen>>
  BY DEF ProduceMap
<1>2. master' \in [x : Int, y : Int, area : Int]
  <2>1. master.area \in Int /\ Areas \in Nat \ {0} /\ RangeX \in Nat /\ RangeY \in Nat
    BY ScrollNumbers DEF MapInv, MapTypes
  <2>2. (master.area + 1) % Areas \in Int
    BY <2>1
  <2>3. /\ 0 .. (RangeX - 1) \subseteq Int /\ 0 .. (RangeY - 1) \subseteq Int
        /\ {master.area, (master.area + 1) % Areas} \subseteq Int
    BY <2>1, <2>2
  <2> QED
    BY <1>1, <2>3 DEF Wander
<1>3. cams \in [Layers -> Int \X Int]
  BY <1>2, CameraType
<1>4. \A i \in Layers : UpToDate(layer[i]) =>
        Holds(tilemap[i], layer[i].left, layer[i].top)
  <2> SUFFICES ASSUME NEW i \in Layers, UpToDate(layer[i])
               PROVE  Holds(tilemap[i], layer[i].left, layer[i].top)
    OBVIOUS
  <2>1. staged.cells[i] = Nothing
    BY <1>1 DEF MapInv
  <2>2. Holds(Patched(staged.cells[i], tilemap[i]), layer[i].left, layer[i].top)
    BY DEF MapInv
  <2>3. layer[i].left \in Int /\ layer[i].top \in Int
    BY DEF MapInv, MapTypes, LayerType
  <2> QED
    BY <2>1, <2>2, <2>3, NothingPatched
<1>5. ASSUME NEW i \in Layers
      PROVE  /\ moved[i].layer \in LayerType
             /\ UpToDate(moved[i].layer) =>
                  /\ moved[i].layer.left = WantLeft(cams[i])
                  /\ moved[i].layer.top = WantTop(cams[i])
                  /\ Holds(Patched(moved[i].cells, tilemap[i]),
                           WantLeft(cams[i]), WantTop(cams[i]))
  <2> HIDE DEF cams
  <2>1. layer \in [Layers -> LayerType]
    BY DEF MapInv, MapTypes
  <2> QED
    BY <1>3, <1>4, <2>1, GotoIs
<1>6. /\ layer' = [i \in Layers |-> moved[i].layer]
      /\ staged' = [ready |-> TRUE, cells |-> [i \in Layers |-> moved[i].cells],
                    scroll |-> cams, blank |-> Stale(moved),
                    bytes |-> Bytes(moved, pending),
                    slots |-> StripSlots(moved), assets |-> pending]
  BY <1>1 DEF Stage
<1>7. ~Stale(moved) => \A i \in Layers : UpToDate(moved[i].layer)
  BY DEF Stale, UpToDate
<1>8. tilemap' = tilemap /\ screen' = screen
  BY <1>1
<1> HIDE DEF cams, moved, pending
<1>9. /\ staged'.ready /\ staged'.scroll = cams
      /\ ~staged'.blank => \A i \in Layers : UpToDate(moved[i].layer)
      /\ \A i \in Layers : staged'.cells[i] = moved[i].cells /\ layer'[i] = moved[i].layer
  BY <1>6, <1>7
<1>10. MapTypes'
  <2>1. layer' \in [Layers -> LayerType]
    BY <1>5, <1>6
  <2>2. screen'.scroll \in [Layers -> Int \X Int]
    BY <1>8 DEF MapInv, MapTypes
  <2>3. staged' = [ready |-> staged'.ready, cells |-> staged'.cells,
                   scroll |-> staged'.scroll, blank |-> staged'.blank,
                   bytes |-> staged'.bytes, slots |-> staged'.slots,
                   assets |-> staged'.assets]
    BY <1>6
  <2> QED
    BY <1>2, <1>3, <1>9, <2>1, <2>2, <2>3 DEF MapTypes, LayerType
<1>11. \A i \in Layers : UpToDate(layer'[i]) =>
         Holds(Patched(staged'.cells[i], tilemap'[i]), layer'[i].left, layer'[i].top)
  BY <1>5, <1>8, <1>9
<1>12. ~staged'.blank => \A i \in Layers :
         /\ UpToDate(layer'[i])
         /\ layer'[i].left = WantLeft(staged'.scroll[i])
         /\ layer'[i].top = WantTop(staged'.scroll[i])
  BY <1>5, <1>9
<1>13. ~screen'.blank => \A i \in Layers :
         Holds(tilemap'[i], WantLeft(screen'.scroll[i]),
               WantTop(screen'.scroll[i]))
  BY <1>8 DEF MapInv
<1> QED
  BY <1>9, <1>10, <1>11, <1>12, <1>13
  DEF MapInv, UpToDate, Holds, Patched, WantLeft, WantTop, SlotOf,
      TileAt, Slots

\* The body that runs in the blank brings the tilemaps up to the layers.
LEMMA FieldInv ==
  ASSUME MapInv, Field PROVE MapInv'
<1>1. /\ staged.ready
      /\ tilemap' = [i \in Layers |-> Patched(staged.cells[i], tilemap[i])]
      /\ screen' = [scroll |-> staged.scroll, blank |-> staged.blank]
      /\ staged' = [staged EXCEPT !.ready = FALSE,
                                  !.cells = [i \in Layers |-> Nothing]]
      /\ master' = master /\ layer' = layer
  BY DEF Field, Patched
<1>2. /\ staged'.ready = FALSE /\ staged'.cells = [i \in Layers |-> Nothing]
      /\ staged'.scroll = staged.scroll
      /\ staged' = [ready |-> staged'.ready, cells |-> staged'.cells,
                    scroll |-> staged'.scroll, blank |-> staged'.blank,
                    bytes |-> staged'.bytes, slots |-> staged'.slots,
                    assets |-> staged'.assets]
  BY <1>1 DEF MapInv, MapTypes
<1>3. screen'.scroll = staged.scroll /\ screen'.blank = staged.blank
  BY <1>1
<1>4. MapTypes'
  BY <1>1, <1>2, <1>3 DEF MapInv, MapTypes, LayerType
<1>5. ASSUME NEW i \in Layers, UpToDate(layer[i])
      PROVE  Holds(tilemap'[i], layer[i].left, layer[i].top)
  <2>1. tilemap'[i] = Patched(staged.cells[i], tilemap[i])
    BY <1>1
  <2> QED
    BY <1>5, <2>1 DEF MapInv
<1>6. ASSUME NEW i \in Layers, UpToDate(layer'[i])
      PROVE  Holds(Patched(staged'.cells[i], tilemap'[i]), layer'[i].left, layer'[i].top)
  <2>1. staged'.cells[i] = Nothing /\ layer'[i] = layer[i]
    BY <1>1, <1>2
  <2>2. Holds(tilemap'[i], layer[i].left, layer[i].top)
    BY <1>5, <1>6, <2>1
  <2>3. layer[i].left \in Int /\ layer[i].top \in Int
    BY DEF MapInv, MapTypes, LayerType
  <2>4. ASSUME NEW tiles, Holds(tiles, layer[i].left, layer[i].top)
        PROVE  Holds(Patched(Nothing, tiles), layer[i].left, layer[i].top)
    BY <2>3, <2>4, PatchedWithNothing
  <2> QED
    BY <2>1, <2>2, <2>4
<1>7. ~screen'.blank => \A i \in Layers :
        Holds(tilemap'[i], WantLeft(screen'.scroll[i]),
              WantTop(screen'.scroll[i]))
  <2> SUFFICES ASSUME ~screen'.blank, NEW i \in Layers
               PROVE  Holds(tilemap'[i], WantLeft(screen'.scroll[i]),
                            WantTop(screen'.scroll[i]))
    OBVIOUS
  <2>1. /\ UpToDate(layer[i])
        /\ layer[i].left = WantLeft(staged.scroll[i])
        /\ layer[i].top = WantTop(staged.scroll[i])
    BY <1>1, <1>3 DEF MapInv
  <2> QED
    BY <1>3, <1>5, <2>1
<1> QED
  BY <1>2, <1>4, <1>6, <1>7
  DEF MapInv, UpToDate, Holds, Patched, WantLeft, WantTop, SlotOf,
      TileAt, Slots

\* A map that is not held black is right wherever the screen looks.
LEMMA MapInvView ==
  ASSUME MapInv PROVE ViewIsRight
<1> SUFFICES ASSUME ~screen.blank, NEW i \in Layers,
                    NEW x \in 0 .. (ViewW - 1), NEW y \in 0 .. (ViewH - 1)
             PROVE  tilemap[i][SlotOf(screen.scroll[i][1] + x,
                                             screen.scroll[i][2] + y)] =
                      TileAt(screen.scroll[i][1] + x, screen.scroll[i][2] + y)
  BY DEF ViewIsRight
<1> DEFINE cam == screen.scroll[i]
           left == cam[1] - LeadX
           top == cam[2] - LeadY
<1>1. Holds(tilemap[i], left, top) /\ cam[1] \in Int /\ cam[2] \in Int
  BY DEF MapInv, MapTypes, WantLeft, WantTop
<1>2. /\ cam[1] + x \in left .. (left + TmW - 1)
      /\ cam[2] + y \in top .. (top + TmH - 1)
  BY <1>1, ScrollNumbers
<1> HIDE DEF left, top
<1> QED
  BY <1>1, <1>2 DEF Holds

\* Every step keeps it.
LEMMA MapInvStep == ASSUME MapInv, [MapNext]_mapVars PROVE MapInv'
<1>1. CASE ProduceMap
  BY <1>1, ProduceInv
<1>2. CASE Field
  BY <1>2, FieldInv
<1>3. CASE UNCHANGED mapVars
  <2>1. /\ master' = master /\ layer' = layer /\ assets' = assets
        /\ staged' = staged /\ tilemap' = tilemap /\ screen' = screen
    BY <1>3 DEF mapVars
  <2>2. MapTypes'
    BY <2>1, Zenon DEF MapInv, MapTypes, LayerType
  <2>3. (~staged.ready => staged.cells = [i \in Layers |-> Nothing])'
    BY <2>1, Zenon DEF MapInv
  <2>4. ASSUME NEW i \in Layers, UpToDate(layer[i])'
        PROVE  Holds(Patched(staged.cells[i], tilemap[i]), layer[i].left, layer[i].top)'
    <3>1. Holds(Patched(staged.cells[i], tilemap[i]), layer[i].left, layer[i].top)
      BY <2>1, <2>4, Zenon DEF MapInv, UpToDate
    <3> DEFINE now == Patched(staged.cells[i], tilemap[i])
    <3>2. now' = now
      BY <2>1, Zenon DEF Patched
    <3> HIDE DEF now
    <3> QED
      BY <2>1, <3>1, <3>2 DEF Holds, now
  <2>5. ASSUME (staged.ready /\ ~staged.blank)', NEW i \in Layers
        PROVE  /\ UpToDate(layer[i])'
               /\ (layer[i].left = WantLeft(staged.scroll[i]))'
               /\ (layer[i].top = WantTop(staged.scroll[i]))'
    BY <2>1, <2>5, Zenon DEF MapInv, UpToDate, WantLeft, WantTop
  <2>6. ASSUME (~screen.blank)', NEW i \in Layers
        PROVE  Holds(tilemap[i], WantLeft(screen.scroll[i]),
                     WantTop(screen.scroll[i]))'
    BY <2>1, <2>6, Zenon DEF MapInv, Holds, WantLeft, WantTop
  <2> QED
    BY <2>2, <2>3, <2>4, <2>5, <2>6, Zenon DEF MapInv
<1> QED
  BY <1>1, <1>2, <1>3 DEF MapNext

\* Wherever the camera goes and whatever is put off, every position the screen can
\* show holds the map's tile, or the field is held black (hx_map_layer_goto(),
\* hx_map_stage()): for any layers, speeds, tilemaps, maps and areas.
THEOREM ViewStaysRight == MapSpec => []ViewIsRight
<1>1. MapInit => MapInv
  BY MapInitInv
<1>2. MapInv /\ [MapNext]_mapVars => MapInv'
  BY MapInvStep
<1>3. MapInv => ViewIsRight
  BY MapInvView
<1> QED
  BY <1>1, <1>2, <1>3, PTL DEF MapSpec

-----------------------------------------------------------------------------
(* Sums over a finite set.  The recursion behind MapThenSumSet is settled   *)
(* by induction on the cardinality, and induction over Nat by pigeonhole:   *)
(* below a number left out, adding one would lose an element.               *)

\* Induction over Nat, for a set in place of a predicate.
LEMMA NatSet ==
  ASSUME NEW S \in SUBSET Nat, 0 \in S, \A n \in S : n + 1 \in S
  PROVE  S = Nat
<1> SUFFICES ASSUME NEW k \in Nat, k \notin S PROVE FALSE
  OBVIOUS
<1> DEFINE T == S \cap 0..k
           U == T \ {0}
           succ == [n \in T |-> n + 1]
<1>0. IsFiniteSet(0..k)
  BY FS_Interval
<1>1. IsFiniteSet(T)
  BY <1>0, FS_Subset, T \in SUBSET (0..k)
<1>2. 0 \in T
  OBVIOUS
<1>3. succ \in [T -> U]
  OBVIOUS
<1>4. \A x \in T, y \in T : x # y => succ[x] # succ[y]
  OBVIOUS
<1> HIDE DEF T, succ
<1>5. IsFiniteSet(U) /\ Cardinality(U) = Cardinality(T) - 1
  BY <1>1, <1>2, FS_RemoveElement
<1>6. Cardinality(U) < Cardinality(T)
  BY <1>1, <1>5, FS_CardinalityType
<1> HIDE DEF U
<1>7. \E x, y \in T : x # y /\ succ[x] = succ[y]
  BY <1>1, <1>3, <1>5, <1>6, FS_PigeonHole
<1> QED BY <1>4, <1>7

\* g is the table that MapThenSumSet sums f over the subsets of S with.
Pick(s) == CHOOSE x \in s : TRUE
SumTable(g, f, S) ==
  g = [s \in SUBSET S |-> IF s = {} THEN 0 ELSE f[Pick(s)] + g[s \ {Pick(s)}]]

\* Such a table exists, whatever is summed.
LEMMA SumExists ==
  ASSUME NEW S, IsFiniteSet(S), NEW f
  PROVE  \E g : SumTable(g, f, S)
<1> DEFINE Small(n) == {s \in SUBSET S : Cardinality(s) <= n}
           Right(g, n) == \A s \in Small(n) : g[s] = IF s = {} THEN 0 ELSE f[Pick(s)] + g[s \ {Pick(s)}]
           N == {n \in Nat : \E g : Right(g, n)}
<1>1. \A s \in SUBSET S : IsFiniteSet(s) /\ Cardinality(s) \in Nat
  BY FS_Subset, FS_CardinalityType
<1>2. \A s \in SUBSET S : s # {} => 
          /\ s \ {Pick(s)} \in SUBSET S
          /\ Cardinality(s \ {Pick(s)}) = Cardinality(s) - 1
  <2> SUFFICES ASSUME NEW s \in SUBSET S, s # {}
               PROVE Cardinality(s \ {Pick(s)}) = Cardinality(s) - 1
    OBVIOUS
  <2>1. Pick(s) \in s
    BY DEF Pick
  <2> QED
    BY <1>1, <2>1, FS_RemoveElement
<1>3. 0 \in N
  <2> DEFINE g == [s \in SUBSET S |-> 0]
  <2>1. \A s \in Small(0) : s = {}
    <3> SUFFICES ASSUME NEW s \in Small(0) PROVE s = {}
      OBVIOUS
    <3>1. Cardinality(s) = 0
      BY <1>1
    <3> QED BY <1>1, <3>1, FS_EmptySet
  <2>2. Right(g, 0)
    BY <2>1
  <2> QED BY <2>2
<1>4. ASSUME NEW n \in N PROVE n + 1 \in N
  <2>0. PICK g : Right(g, n)
    OBVIOUS
  <2> DEFINE h == [s \in SUBSET S |-> IF s = {} THEN 0 ELSE IF s \in Small(n) THEN g[s] ELSE f[Pick(s)] + g[s \ {Pick(s)}]]
  <2>1. ASSUME NEW s \in Small(n + 1), s # {}
        PROVE  s \ {Pick(s)} \in Small(n)
    BY <1>1, <1>2, <2>1
  <2>2. ASSUME NEW s \in Small(n) PROVE h[s] = g[s]
    BY <2>0, <2>2
  <2>3. ASSUME NEW s \in Small(n + 1)
        PROVE  h[s] = IF s = {} THEN 0 ELSE f[Pick(s)] + h[s \ {Pick(s)}]
    <3>1. CASE s = {}
      BY <3>1
    <3>2. CASE s # {}
      <4>1. h[s \ {Pick(s)}] = g[s \ {Pick(s)}]
        BY <2>1, <2>2, <3>2
      <4>2. h[s] = f[Pick(s)] + g[s \ {Pick(s)}]
        BY <2>0, <3>2
      <4> QED BY <3>2, <4>1, <4>2
    <3> QED BY <3>1, <3>2
  <2>4. Right(h, n + 1)
    BY <2>3
  <2>5. n + 1 \in Nat
    OBVIOUS
  <2> HIDE DEF Right, h
  <2> QED BY <2>4, <2>5
<1>5. N = Nat
  <2> HIDE DEF N
  <2>1. N \in SUBSET Nat
    BY DEF N
  <2> QED BY <1>3, <1>4, <2>1, NatSet
<1>6. Cardinality(S) \in N
  BY <1>5, FS_CardinalityType
<1>7. PICK g : Right(g, Cardinality(S))
  BY <1>6
<1>8. \A s \in SUBSET S : s \in Small(Cardinality(S))
  BY FS_Subset
<1> DEFINE h == [s \in SUBSET S |-> g[s]]
<1>9. ASSUME NEW s \in SUBSET S PROVE h[s] = IF s = {} THEN 0 ELSE f[Pick(s)] + h[s \ {Pick(s)}]
  BY <1>7, <1>8
<1>10. SumTable(h, f, S)
  BY <1>9 DEF SumTable
<1> QED BY <1>10

\* Amounts of at most B, but for one that E more is allowed.
Within(S, B, E, j) == {f \in [S -> Nat] : \A i \in S : f[i] <= B \/ (i = j /\ f[i] <= B + E)}


\* Their sum is at most as many times B, and E.
LEMMA SumBound ==
  ASSUME NEW S, IsFiniteSet(S), NEW B \in Nat, NEW E \in Nat, NEW j,
         NEW f \in Within(S, B, E, j), NEW g, SumTable(g, f, S)
  PROVE  g[S] \in Nat /\ g[S] <= B * Cardinality(S) + E
<1> DEFINE Most(s) == B * Cardinality(s) + (IF j \in s THEN E ELSE 0)
           Good(n) == \A s \in SUBSET S : Cardinality(s) = n => g[s] \in Nat /\ g[s] <= Most(s)
           N == {n \in Nat : Good(n)}
<1>1. ASSUME NEW s \in SUBSET S
      PROVE  g[s] = IF s = {} THEN 0 ELSE f[Pick(s)] + g[s \ {Pick(s)}]
  BY DEF SumTable
<1>2. \A s \in SUBSET S : IsFiniteSet(s) /\ Cardinality(s) \in Nat
  BY FS_Subset, FS_CardinalityType
<1>8. \A i \in S : f[i] \in Nat /\ (f[i] <= B \/ (i = j /\ f[i] <= B + E))
  BY DEF Within
<1>3. 0 \in N
  <2> SUFFICES ASSUME NEW s \in SUBSET S, Cardinality(s) = 0 PROVE g[s] \in Nat /\ g[s] <= Most(s)
    OBVIOUS
  <2>1. s = {}
    BY <1>2, FS_EmptySet
  <2>2. g[s] = 0
    BY <1>1, <2>1
  <2>3. Most(s) = B * 0 + 0
    BY <2>1
  <2> QED BY <2>2, <2>3
<1>4. ASSUME NEW n \in N PROVE n + 1 \in N
  <2> SUFFICES ASSUME NEW s \in SUBSET S, Cardinality(s) = n + 1 PROVE g[s] \in Nat /\ g[s] <= Most(s)
    OBVIOUS
  <2> DEFINE x == Pick(s)
             t == s \ {x}
  <2>1. s # {}
    BY <1>2, FS_EmptySet
  <2>2. x \in s
    BY <2>1 DEF Pick
  <2>3. t \in SUBSET S /\ Cardinality(t) = n
    <3>1. IsFiniteSet(s)
      BY <1>2
    <3> HIDE DEF x
    <3>2. Cardinality(t) = Cardinality(s) - 1
      BY <2>2, <3>1, FS_RemoveElement
    <3> QED BY <3>2, <1>2
  <2>4. g[s] = f[x] + g[t]
    BY <1>1, <2>1
  <2> HIDE DEF x
  <2>5. g[t] \in Nat /\ g[t] <= B * n + (IF j \in t THEN E ELSE 0)
    BY <2>3
  <2> HIDE DEF x
  <2>6. B * (n + 1) = B * n + B /\ B * n \in Nat
    OBVIOUS
  <2>7. f[x] \in Nat /\ f[x] <= (IF j = x THEN B + E ELSE B)
    BY <1>8, <2>2
  <2>8. (j \in s) <=> (j \in t \/ j = x)
    BY <2>2
  <2>9. Most(s) = (B * n + B) + (IF j \in s THEN E ELSE 0)
    BY <2>6
  <2>10. ~(j \in t /\ j = x)
    OBVIOUS
  <2> HIDE DEF t, Most
  <2> QED BY <2>4, <2>5, <2>6, <2>7, <2>8, <2>9, <2>10
<1>5. N = Nat
  <2> HIDE DEF N
  <2>1. N \in SUBSET Nat
    BY DEF N
  <2> QED BY <1>3, <1>4, <2>1, NatSet
<1>6. g[S] \in Nat /\ g[S] <= Most(S)
  BY <1>5, FS_CardinalityType
<1>7. B * Cardinality(S) \in Nat
  BY FS_CardinalityType
<1> QED BY <1>6, <1>7

\* The two sums of hx_map_stage().
SumBytes(moved, S) == MapThenSumSet(LAMBDA i : moved[i].bytes, S)
SumSlots(moved, S) == MapThenSumSet(LAMBDA i : moved[i].slots, S)

\* The first sum is read from such a table,
LEMMA BytesTable ==
  ASSUME NEW moved, NEW S, IsFiniteSet(S)
  PROVE  \E g : /\ SumTable(g, [i \in S |-> moved[i].bytes], S)
                /\ SumBytes(moved, S) = g[S]
<1> DEFINE f == [i \in S |-> moved[i].bytes]
           p(g, s) == IF s = {} THEN 0 ELSE moved[Pick(s)].bytes + g[s \ {Pick(s)}]
           q(g, s) == IF s = {} THEN 0 ELSE f[Pick(s)] + g[s \ {Pick(s)}]
           Eq(g) == g = [s \in SUBSET S |-> p(g, s)]
           iter == CHOOSE g : Eq(g)
<1>1. SumBytes(moved, S) = iter[S]
  BY Zenon DEF SumBytes, MapThenSumSet, MapThenFoldSet, Pick
<1>2. ASSUME NEW g PROVE Eq(g) <=> SumTable(g, f, S)
  <2>1. ASSUME NEW s \in SUBSET S PROVE p(g, s) = q(g, s)
    <3>1. CASE s = {}
      BY <3>1
    <3>2. CASE s # {}
      <4>1. Pick(s) \in s
        BY <3>2 DEF Pick
      <4> QED BY <3>2, <4>1
    <3> QED BY <3>1, <3>2
  <2>2. SumTable(g, f, S) <=> g = [s \in SUBSET S |-> q(g, s)]
    BY Zenon DEF SumTable
  <2> HIDE DEF p, q
  <2>3. [s \in SUBSET S |-> p(g, s)] = [s \in SUBSET S |-> q(g, s)]
    BY <2>1
  <2> QED BY <2>2, <2>3
<1>3. \E g : SumTable(g, f, S)
  BY SumExists
<1> HIDE DEF Eq, f
<1>4. Eq(iter)
  BY <1>2, <1>3
<1> QED
  BY <1>1, <1>2, <1>4 DEF f

\* and so is the second.
LEMMA SlotsTable ==
  ASSUME NEW moved, NEW S, IsFiniteSet(S)
  PROVE  \E g : /\ SumTable(g, [i \in S |-> moved[i].slots], S)
                /\ SumSlots(moved, S) = g[S]
<1> DEFINE f == [i \in S |-> moved[i].slots]
           p(g, s) == IF s = {} THEN 0 ELSE moved[Pick(s)].slots + g[s \ {Pick(s)}]
           q(g, s) == IF s = {} THEN 0 ELSE f[Pick(s)] + g[s \ {Pick(s)}]
           Eq(g) == g = [s \in SUBSET S |-> p(g, s)]
           iter == CHOOSE g : Eq(g)
<1>1. SumSlots(moved, S) = iter[S]
  BY Zenon DEF SumSlots, MapThenSumSet, MapThenFoldSet, Pick
<1>2. ASSUME NEW g PROVE Eq(g) <=> SumTable(g, f, S)
  <2>1. ASSUME NEW s \in SUBSET S PROVE p(g, s) = q(g, s)
    <3>1. CASE s = {}
      BY <3>1
    <3>2. CASE s # {}
      <4>1. Pick(s) \in s
        BY <3>2 DEF Pick
      <4> QED BY <3>2, <4>1
    <3> QED BY <3>1, <3>2
  <2>2. SumTable(g, f, S) <=> g = [s \in SUBSET S |-> q(g, s)]
    BY Zenon DEF SumTable
  <2> HIDE DEF p, q
  <2>3. [s \in SUBSET S |-> p(g, s)] = [s \in SUBSET S |-> q(g, s)]
    BY <2>1
  <2> QED BY <2>2, <2>3
<1>3. \E g : SumTable(g, f, S)
  BY SumExists
<1> HIDE DEF Eq, f
<1>4. Eq(iter)
  BY <1>2, <1>3
<1> QED
  BY <1>1, <1>2, <1>4 DEF f

-----------------------------------------------------------------------------
(* What a field of the map carries, on maps whose fields fit.              *)

\* Two places of a torus that strips suffice between, a step apart, are a step apart
\* on the map.
LEMMA StepIsNear ==
  ASSUME NEW n \in Nat \ {0}, NEW most \in Nat, most < n - 1,
         NEW u \in Int, NEW v \in Int, u - v \in {-1, 0, 1},
         Distance(u % n, v % n) <= most
  PROVE  Distance(u % n, v % n) <= 1
<1> DEFINE a == u \div n
           b == v \div n
           c == u % n
           d == v % n
           q == a - b
<1>1. /\ a \in Int /\ b \in Int /\ c \in 0 .. (n - 1) /\ d \in 0 .. (n - 1)
      /\ u = n * a + c /\ v = n * b + d
  OBVIOUS
<1> HIDE DEF a, b, c, d
<1>2. q \in Int /\ n * q = n * a - n * b
  BY <1>1
<1> HIDE DEF q
<1>3. n * q = (u - v) - (c - d) /\ n * q \in Int
  BY <1>1, <1>2
<1>4. Distance(c, d) <= most
  BY DEF c, d
<1>5. c - d <= most /\ d - c <= most
  BY <1>1, <1>4 DEF Distance
<1>6. n * q < n /\ n * q > -n
  BY <1>3, <1>5, <1>1
<1>7. q = 0
  <2>1. CASE q >= 1
    <3>1. n * q >= n
      BY <1>2, <2>1
    <3> QED
      BY <1>3, <1>6, <3>1
  <2>2. CASE q <= -1
    <3>1. n * q <= -n
      BY <1>2, <2>2
    <3> QED
      BY <1>3, <1>6, <3>1
  <2> QED
    BY <1>2, <2>1, <2>2
<1>8. n * q = 0
  BY <1>7
<1>9. Distance(c, d) <= 1
  BY <1>1, <1>3, <1>8 DEF Distance
<1> QED
  BY <1>9 DEF c, d

\* Two places a jump and a step apart are too far for strips.
LEMMA JumpIsFar ==
  ASSUME NEW n \in Nat \ {0}, NEW most \in Nat, NEW jump \in Int, Far(jump, n, most),
         NEW u \in Int, NEW v \in Int, NEW e \in {-1, 0, 1}, u - v = e + jump
  PROVE  Distance(u % n, v % n) > most
<1> DEFINE a == u \div n
           b == v \div n
           c == u % n
           d == v % n
           k == jump \div n
           r == jump % n
           q == (a - b) - k
<1>1. /\ a \in Int /\ b \in Int /\ c \in 0 .. (n - 1) /\ d \in 0 .. (n - 1)
      /\ u = n * a + c /\ v = n * b + d
      /\ k \in Int /\ r \in Int /\ jump = n * k + r
  OBVIOUS
<1>2. r \in (most + 2) .. (n - (most + 2))
  BY DEF Far
<1> HIDE DEF a, b, c, d, k, r
<1>3. q \in Int /\ n * q = (n * a - n * b) - n * k /\ n * q \in Int
  BY <1>1
<1>4. n * a \in Int /\ n * b \in Int /\ n * k \in Int
  BY <1>1
<1> HIDE DEF q
<1>5. n * q = (e + r) - (c - d)
  BY <1>1, <1>3, <1>4
<1>6. n * q < n + n /\ n * q > -n
  BY <1>1, <1>2, <1>5
<1>7. q \in {0, 1}
  <2>1. CASE q >= 2
    <3>1. n * q >= n + n
      BY <1>3, <2>1
    <3> QED
      BY <1>3, <1>6, <3>1
  <2>2. CASE q <= -1
    <3>1. n * q <= -n
      BY <1>3, <2>2
    <3> QED
      BY <1>3, <1>6, <3>1
  <2> QED
    BY <1>3, <2>1, <2>2
<1>8. n * q = 0 \/ n * q = n
  BY <1>7
<1>9. Distance(c, d) > most
  <2>1. CASE n * q = 0
    BY <1>1, <1>2, <1>5, <2>1 DEF Distance
  <2>2. CASE n * q = n
    BY <1>1, <1>2, <1>5, <2>2 DEF Distance
  <2> QED
    BY <1>8, <2>1, <2>2
<1> QED
  BY <1>9 DEF c, d

\* A slower layer never moves more than the master does.
LEMMA SlowStep ==
  ASSUME NEW a \in Nat, NEW b \in Nat, a - b \in {-1, 0, 1}, NEW s \in Nat \ {0}
  PROVE  (a \div s) - (b \div s) \in {-1, 0, 1}
<1> DEFINE p == a \div s
           q == b \div s
           c == a % s
           d == b % s
           m == p - q
<1>1. /\ p \in Int /\ q \in Int /\ c \in 0 .. (s - 1) /\ d \in 0 .. (s - 1)
      /\ a = s * p + c /\ b = s * q + d
  OBVIOUS
<1> HIDE DEF p, q, c, d
<1>2. m \in Int /\ s * m = s * p - s * q /\ s * m \in Int
  BY <1>1
<1> HIDE DEF m
<1>3. s * m = (a - b) - (c - d)
  BY <1>1, <1>2
<1>4. s * m < s + s /\ s * m > -(s + s)
  BY <1>1, <1>3
<1>5. ~(m >= 2)
  <2> SUFFICES ASSUME m >= 2 PROVE s * m >= s + s
    BY <1>2, <1>4
  <2> QED
    BY <1>2
<1>6. ~(m <= -2)
  <2> SUFFICES ASSUME m <= -2 PROVE s * m <= -(s + s)
    BY <1>2, <1>4
  <2> QED
    BY <1>2
<1>7. m \in {-1, 0, 1}
  BY <1>2, <1>5, <1>6
<1> QED
  BY <1>7 DEF m, p, q

\* As many columns or rows enter as the window moves.
LEMMA EnteringCount ==
  ASSUME NEW n \in Nat, NEW from \in Int, NEW to \in Int
  PROVE  Cardinality(Entering(from, to, n)) = Distance(to, from)
<1>1. CASE to > from
  <2>1. Entering(from, to, n) = (from + n) .. (to + n - 1)
    BY <1>1 DEF Entering
  <2>2. Cardinality((from + n) .. (to + n - 1)) = to - from
    BY <1>1, FS_Interval
  <2> QED
    BY <1>1, <2>1, <2>2 DEF Distance
<1>2. CASE ~(to > from)
  <2>1. Entering(from, to, n) = to .. (from - 1)
    BY <1>2 DEF Entering
  <2>2. Cardinality(to .. (from - 1)) = from - to
    <3> DEFINE last == from - 1
    <3>1. last \in Int
      OBVIOUS
    <3> HIDE DEF last
    <3>2. Cardinality(to .. last) = IF to > last THEN 0 ELSE (last - to) + 1
      BY <3>1, FS_Interval
    <3>3. last = from - 1
      BY DEF last
    <3> QED
      BY <1>2, <3>2, <3>3
  <2> QED
    BY <1>2, <2>1, <2>2 DEF Distance
<1> QED
  BY <1>1, <1>2

\* The master camera's places; a field moves it by at most a tile along each axis.
Places == [x : 0 .. (RangeX - 1), y : 0 .. (RangeY - 1), area : 0 .. (Areas - 1)]

LEMMA WanderIs ==
  ASSUME NEW m \in Places, NEW next \in Wander(m)
  PROVE  /\ next \in Places
         /\ next.x - m.x \in {-1, 0, 1} /\ next.y - m.y \in {-1, 0, 1}
         /\ next.area \in {m.area, (m.area + 1) % Areas}
<1>1. /\ m.x \in 0 .. (RangeX - 1) /\ m.y \in 0 .. (RangeY - 1) /\ m.area \in 0 .. (Areas - 1)
      /\ Areas \in Nat \ {0} /\ RangeX \in Nat \ {0} /\ RangeY \in Nat \ {0}
  BY ScrollNumbers DEF Places
<1>2. (m.area + 1) % Areas \in 0 .. (Areas - 1)
  BY <1>1
<1>3. next \in [x : {m.x - 1, m.x, m.x + 1} \cap 0 .. (RangeX - 1),
                y : {m.y - 1, m.y, m.y + 1} \cap 0 .. (RangeY - 1),
                area : {m.area, (m.area + 1) % Areas}]
  BY DEF Wander
<1>4. /\ next.x \in {m.x - 1, m.x, m.x + 1} /\ next.y \in {m.y - 1, m.y, m.y + 1}
      /\ next.area \in {m.area, (m.area + 1) % Areas}
  BY <1>3
<1>5. next \in Places
  BY <1>1, <1>2, <1>3 DEF Places
<1> QED
  BY <1>1, <1>4, <1>5

\* A layer's camera before it is wrapped.
ColumnOf(m, i) == m.x \div Slower[i] + m.area * JumpX
RowOf(m, i) == m.y \div Slower[i] + m.area * JumpY

\* It moves by a tile at most, and the way to the next area.
LEMMA CameraSteps ==
  ASSUME NEW m \in Places, NEW next \in Places, NEW i \in Layers,
         next.x - m.x \in {-1, 0, 1}, next.y - m.y \in {-1, 0, 1}
  PROVE  /\ ColumnOf(m, i) \in Int /\ ColumnOf(next, i) \in Int
         /\ RowOf(m, i) \in Int /\ RowOf(next, i) \in Int
         /\ \E e \in {-1, 0, 1} :
              ColumnOf(next, i) - ColumnOf(m, i) = e + (next.area - m.area) * JumpX
         /\ \E e \in {-1, 0, 1} :
              RowOf(next, i) - RowOf(m, i) = e + (next.area - m.area) * JumpY
<1>1. /\ m.x \in Nat /\ m.y \in Nat /\ m.area \in Nat
      /\ next.x \in Nat /\ next.y \in Nat /\ next.area \in Nat
      /\ Slower[i] \in Nat \ {0} /\ JumpX \in Nat /\ JumpY \in Nat
  BY ScrollNumbers DEF Places
<1> DEFINE p == m.x \div Slower[i]
           q == next.x \div Slower[i]
           f == m.y \div Slower[i]
           g == next.y \div Slower[i]
           a == m.area * JumpX
           b == next.area * JumpX
           k == m.area * JumpY
           l == next.area * JumpY
<1>2. q - p \in {-1, 0, 1} /\ g - f \in {-1, 0, 1}
  BY <1>1, SlowStep
<1>3. p \in Int /\ q \in Int /\ f \in Int /\ g \in Int
  BY <1>1
<1>4. a \in Int /\ b \in Int /\ k \in Int /\ l \in Int
  BY <1>1
<1>5. b - a = (next.area - m.area) * JumpX /\ l - k = (next.area - m.area) * JumpY
  BY <1>1
<1>6. /\ ColumnOf(m, i) = p + a /\ ColumnOf(next, i) = q + b
      /\ RowOf(m, i) = f + k /\ RowOf(next, i) = g + l
  BY DEF ColumnOf, RowOf
<1> HIDE DEF p, q, f, g, a, b, k, l
<1>7. /\ (q + b) - (p + a) = (q - p) + (next.area - m.area) * JumpX
      /\ (g + l) - (f + k) = (g - f) + (next.area - m.area) * JumpY
  BY <1>3, <1>4, <1>5
<1> QED
  BY <1>2, <1>3, <1>4, <1>6, <1>7

\* A layer that strips suffice for moved by at most a column and a row.
LEMMA StripsAreSingle ==
  ASSUME AreasFar, WrapsFar, NEW m \in Places, NEW next \in Wander(m), NEW i \in Layers,
         Distance(CameraOf(next, i)[1], CameraOf(m, i)[1]) <= MaxCols,
         Distance(CameraOf(next, i)[2], CameraOf(m, i)[2]) <= MaxRows
  PROVE  /\ Distance(CameraOf(next, i)[1], CameraOf(m, i)[1]) <= 1
         /\ Distance(CameraOf(next, i)[2], CameraOf(m, i)[2]) <= 1
<1>1. /\ next \in Places /\ next.area \in {m.area, (m.area + 1) % Areas}
      /\ next.x - m.x \in {-1, 0, 1} /\ next.y - m.y \in {-1, 0, 1}
  BY WanderIs
<1> DEFINE u == ColumnOf(m, i)
           v == ColumnOf(next, i)
           s == RowOf(m, i)
           t == RowOf(next, i)
<1>2. /\ u \in Int /\ v \in Int /\ s \in Int /\ t \in Int
      /\ \E e \in {-1, 0, 1} : v - u = e + (next.area - m.area) * JumpX
      /\ \E d \in {-1, 0, 1} : t - s = d + (next.area - m.area) * JumpY
  BY <1>1, CameraSteps
<1>7. /\ CameraOf(m, i) = <<u % MapW, s % MapH>>
      /\ CameraOf(next, i) = <<v % MapW, t % MapH>>
  BY DEF CameraOf, ColumnOf, RowOf
<1> HIDE DEF u, v, s, t
<1>3. /\ MapW \in Nat \ {0} /\ MapH \in Nat \ {0} /\ MaxCols \in Nat /\ MaxRows \in Nat
      /\ JumpX \in Nat /\ JumpY \in Nat /\ m.area \in 0 .. (Areas - 1) /\ next.area \in Int
  BY <1>1, ScrollNumbers DEF Places
<1>4. Distance(v % MapW, u % MapW) <= MaxCols /\ Distance(t % MapH, s % MapH) <= MaxRows
  BY <1>7
<1>5. CASE next.area = m.area
  <2>1. v - u \in {-1, 0, 1} /\ t - s \in {-1, 0, 1}
    <3>1. next.area - m.area = 0
      BY <1>3, <1>5
    <3>2. 0 * JumpX = 0 /\ 0 * JumpY = 0
      BY <1>3
    <3> QED
      BY <1>2, <3>1, <3>2
  <2>2. Distance(v % MapW, u % MapW) <= 1
    BY <1>2, <1>3, <1>4, <2>1, StepIsNear DEF WrapsFar
  <2>3. Distance(t % MapH, s % MapH) <= 1
    BY <1>2, <1>3, <1>4, <2>1, StepIsNear DEF WrapsFar
  <2> QED
    BY <1>7, <2>2, <2>3
<1>6. CASE next.area # m.area
  <2> DEFINE jx == (next.area - m.area) * JumpX
             jy == (next.area - m.area) * JumpY
  <2>1. jx \in Int /\ jy \in Int
    BY <1>3
  <2>2. Far(jx, MapW, MaxCols) \/ Far(jy, MapH, MaxRows)
    BY <1>1, <1>3, <1>6 DEF AreasFar
  <2>3. PICK e \in {-1, 0, 1}, d \in {-1, 0, 1} : v - u = e + jx /\ t - s = d + jy
    BY <1>2
  <2> HIDE DEF jx, jy
  <2>4. ~Far(jx, MapW, MaxCols)
    <3> SUFFICES ASSUME Far(jx, MapW, MaxCols) PROVE FALSE
      OBVIOUS
    <3>1. Distance(v % MapW, u % MapW) > MaxCols
      BY <1>2, <1>3, <2>1, <2>3, JumpIsFar
    <3>2. Distance(v % MapW, u % MapW) \in Int
      BY <1>2, <1>3 DEF Distance
    <3> QED
      BY <1>3, <1>4, <3>1, <3>2
  <2>5. ~Far(jy, MapH, MaxRows)
    <3> SUFFICES ASSUME Far(jy, MapH, MaxRows) PROVE FALSE
      OBVIOUS
    <3>1. Distance(t % MapH, s % MapH) > MaxRows
      BY <1>2, <1>3, <2>1, <2>3, JumpIsFar
    <3>2. Distance(t % MapH, s % MapH) \in Int
      BY <1>2, <1>3 DEF Distance
    <3> QED
      BY <1>3, <1>4, <3>1, <3>2
  <2> QED
    BY <2>2, <2>4, <2>5
<1> QED
  BY <1>5, <1>6

\* A column and a row.
LEMMA SeamsCarry ==
  ASSUME NEW l, l.left \in Int, l.top \in Int, NEW cam \in Int \X Int,
         Distance(WantLeft(cam), l.left) <= 1, Distance(WantTop(cam), l.top) <= 1
  PROVE  /\ Seams(l, cam).bytes \in Nat /\ Seams(l, cam).bytes <= StripBytes
         /\ Seams(l, cam).slots \in 0 .. 3
<1> DEFINE left == WantLeft(cam)
           top == WantTop(cam)
           cols == Cardinality(Entering(l.left, left, TmW))
           rows == Cardinality(Entering(l.top, top, TmH))
<1>1. /\ Seams(l, cam).bytes = 2 * TmH * cols + 2 * TmW * rows
      /\ Seams(l, cam).slots = cols + 2 * rows
  BY DEF Seams
<1>2. left \in Int /\ top \in Int /\ TmW \in Nat /\ TmH \in Nat
  BY ScrollNumbers DEF WantLeft, WantTop
<1>3. cols = Distance(left, l.left) /\ rows = Distance(top, l.top)
  <2> HIDE DEF left, top
  <2> QED
    BY <1>2, EnteringCount
<1> HIDE DEF left, top, cols, rows
<1>4. cols \in {0, 1} /\ rows \in {0, 1}
  BY <1>2, <1>3 DEF Distance, left, top
<1>5. /\ 2 * TmH * cols \in Nat /\ 2 * TmH * cols <= 2 * TmH
      /\ 2 * TmW * rows \in Nat /\ 2 * TmW * rows <= 2 * TmW
  BY <1>2, <1>4
<1> QED
  BY <1>1, <1>2, <1>4, <1>5 DEF StripBytes

\* Where the layers' windows are, besides what the tilemaps hold.
Follows ==
  /\ master \in Places
  /\ \A i \in Layers : UpToDate(layer[i]) =>
       /\ layer[i].left = WantLeft(CameraOf(master, i))
       /\ layer[i].top = WantTop(CameraOf(master, i))

\* The strips of a move are those of a column and a row at most; or the move is the
\* refill of the first layer that needs one.
LEMMA MoveCarries ==
  ASSUME AreasFar, WrapsFar, layer \in [Layers -> LayerType], Follows,
         NEW next \in Wander(master), NEW i \in Layers,
         NEW cams, cams = [j \in Layers |-> CameraOf(next, j)]
  PROVE  /\ Goto(i, cams).bytes \in Nat /\ Goto(i, cams).slots \in 0 .. 3
         /\ \/ Goto(i, cams).bytes <= StripBytes
            \/ /\ Goto(i, cams).bytes = RefillBytes
               /\ NeedsReseed(layer[i], cams[i]) /\ MayReseed(i, cams)
<1> DEFINE l == layer[i]
           cam == cams[i]
           old == CameraOf(master, i)
           g == Goto(i, cams)
<1>1. master \in Places /\ next \in Places
  BY WanderIs DEF Follows
<1>2. cam = CameraOf(next, i) /\ l \in LayerType
  OBVIOUS
<1>3. cam \in Int \X Int /\ old \in Int \X Int
  <2>1. master \in [x : Int, y : Int, area : Int] /\ next \in [x : Int, y : Int, area : Int]
    BY <1>1, ScrollNumbers DEF Places
  <2> QED
    BY <1>2, <2>1, CameraType
<1>4. /\ TmW \in Nat /\ TmH \in Nat /\ LeadX \in Nat /\ LeadY \in Nat
      /\ MaxCols \in Nat /\ MaxRows \in Nat
  BY ScrollNumbers
<1>5. \/ ~NeedsReseed(l, cam) /\ g = Seams(l, cam)
      \/ NeedsReseed(l, cam) /\ MayReseed(i, cams) /\ g = Seed(l, cam)
      \/ g = Defer(l, cam)
  BY DEF Goto
<1> HIDE DEF l, cam, old, g
<1>6. CASE ~NeedsReseed(l, cam) /\ g = Seams(l, cam)
  <2>1. /\ UpToDate(l)
        /\ ~(Distance(WantLeft(cam), l.left) > MaxCols)
        /\ ~(Distance(WantTop(cam), l.top) > MaxRows)
    BY <1>6 DEF NeedsReseed, UpToDate
  <2>2. l.left = WantLeft(old) /\ l.top = WantTop(old)
    BY <2>1 DEF Follows, l, old
  <2>3. /\ Distance(WantLeft(cam), l.left) = Distance(cam[1], old[1])
        /\ Distance(WantTop(cam), l.top) = Distance(cam[2], old[2])
    BY <1>3, <1>4, <2>2 DEF WantLeft, WantTop, Distance
  <2>4. Distance(cam[1], old[1]) \in Int /\ Distance(cam[2], old[2]) \in Int
    BY <1>3 DEF Distance
  <2>5. Distance(cam[1], old[1]) <= MaxCols /\ Distance(cam[2], old[2]) <= MaxRows
    BY <1>4, <2>1, <2>3, <2>4
  <2>6. Distance(cam[1], old[1]) <= 1 /\ Distance(cam[2], old[2]) <= 1
    BY <1>1, <1>2, <2>5, StripsAreSingle DEF old
  <2>7. l.left \in Int /\ l.top \in Int
    BY <1>2 DEF LayerType
  <2>8. g.bytes \in Nat /\ g.bytes <= StripBytes /\ g.slots \in 0 .. 3
    BY <1>3, <1>6, <2>3, <2>6, <2>7, SeamsCarry
  <2> QED
    BY <2>8 DEF g
<1>7. CASE NeedsReseed(l, cam) /\ MayReseed(i, cams) /\ g = Seed(l, cam)
  <2>1. g.bytes = 2 * TmW * TmH /\ g.slots = 2
    BY <1>7 DEF Seed
  <2>2. 2 * TmW * TmH = RefillBytes /\ RefillBytes \in Nat
    BY <1>4 DEF RefillBytes
  <2> QED
    BY <1>7, <2>1, <2>2 DEF g, l, cam
<1>8. CASE g = Defer(l, cam)
  <2>1. g.bytes = 0 /\ g.slots = 0
    BY <1>8 DEF Defer
  <2>2. StripBytes >= 0
    BY <1>4 DEF StripBytes
  <2> QED
    BY <2>1, <2>2 DEF g
<1> QED
  BY <1>5, <1>6, <1>7, <1>8

\* Two layers are never refilled in a field.
LEMMA OneRefill ==
  ASSUME NEW i \in Layers, NEW j \in Layers, NEW cams,
         NeedsReseed(layer[i], cams[i]), MayReseed(i, cams),
         NeedsReseed(layer[j], cams[j]), MayReseed(j, cams)
  PROVE  i = j
<1>1. i \in Nat /\ j \in Nat
  BY ScrollAssumption
<1>2. ~(j < i) /\ ~(i < j)
  BY Zenon DEF MayReseed
<1> QED
  BY <1>1, <1>2

\* What the layers' moves carry, and the slots they take.
LEMMA MovesCarry ==
  ASSUME AreasFar, WrapsFar, layer \in [Layers -> LayerType], Follows,
         NEW next \in Wander(master),
         NEW cams, cams = [j \in Layers |-> CameraOf(next, j)],
         NEW moved, moved = [i \in Layers |-> Goto(i, cams)]
  PROVE  LET n == Cardinality(Layers)
             bytes == SumBytes(moved, Layers)
             slots == SumSlots(moved, Layers)
         IN  /\ n \in Nat /\ bytes \in Nat /\ slots \in Nat
             /\ \/ bytes <= StripBytes * n
                \/ bytes <= RefillBytes + StripBytes * (n - 1)
             /\ slots <= 3 * n
<1> DEFINE n == Cardinality(Layers)
           bytes == SumBytes(moved, Layers)
           slots == SumSlots(moved, Layers)
           most == IF RefillBytes > StripBytes THEN RefillBytes - StripBytes ELSE 0
           refilled(i) == NeedsReseed(layer[i], cams[i]) /\ MayReseed(i, cams)
           first == CHOOSE i \in Layers : refilled(i)
           sizes == [i \in Layers |-> moved[i].bytes]
           takes == [i \in Layers |-> moved[i].slots]
<1>1. IsFiniteSet(Layers) /\ n \in Nat
  BY ScrollAssumption, FS_CardinalityType
<1>2. StripBytes \in Nat /\ RefillBytes \in Nat /\ most \in Nat
  <2>1. TmW \in Nat /\ TmH \in Nat
    BY ScrollNumbers
  <2>2. TmW * TmH \in Nat
    BY <2>1
  <2> HIDE DEF most
  <2>3. StripBytes \in Nat /\ RefillBytes \in Nat
    BY <2>1, <2>2 DEF StripBytes, RefillBytes
  <2> QED
    BY <2>3 DEF most
<1>3. ASSUME NEW i \in Layers
      PROVE  /\ moved[i].bytes \in Nat /\ moved[i].slots \in 0 .. 3
             /\ moved[i].bytes <= StripBytes \/ (moved[i].bytes = RefillBytes /\ refilled(i))
  BY MoveCarries
<1>4. ASSUME NEW i \in Layers, refilled(i) PROVE i = first
  <2>1. first \in Layers /\ refilled(first)
    BY <1>4
  <2> HIDE DEF first
  <2> QED
    BY <1>4, <2>1, OneRefill
<1> HIDE DEF refilled, first, most
<1>5. sizes \in Within(Layers, StripBytes, most, first)
  <2> SUFFICES ASSUME NEW i \in Layers
               PROVE  /\ moved[i].bytes \in Nat
                      /\ \/ moved[i].bytes <= StripBytes
                         \/ i = first /\ moved[i].bytes <= StripBytes + most
    BY DEF Within
  <2>1. RefillBytes <= StripBytes + most
    BY <1>2 DEF most
  <2> QED
    BY <1>3, <1>4, <2>1
<1>6. bytes \in Nat /\ bytes <= StripBytes * n + most
  <2>1. PICK g : SumTable(g, sizes, Layers) /\ bytes = g[Layers]
    BY <1>1, BytesTable
  <2> HIDE DEF sizes, bytes
  <2>2. g[Layers] \in Nat /\ g[Layers] <= StripBytes * Cardinality(Layers) + most
    BY <1>1, <1>2, <1>5, <2>1, SumBound
  <2> QED
    BY <2>1, <2>2
<1>7. slots \in Nat /\ slots <= 3 * n
  <2>1. PICK g : SumTable(g, takes, Layers) /\ slots = g[Layers]
    BY <1>1, SlotsTable
  <2>2. takes \in Within(Layers, 3, 0, first)
    BY <1>3 DEF Within
  <2> HIDE DEF takes, slots
  <2>3. g[Layers] \in Nat /\ g[Layers] <= 3 * n + 0
    BY <1>1, <2>1, <2>2, SumBound
  <2> QED
    BY <1>1, <2>1, <2>3
<1> HIDE DEF bytes, slots, n, sizes, takes
<1>8. StripBytes * (n - 1) = StripBytes * n - StripBytes /\ StripBytes * n \in Nat
  BY <1>1, <1>2
<1>9. \/ bytes <= StripBytes * n
      \/ bytes <= RefillBytes + StripBytes * (n - 1)
  BY <1>2, <1>6, <1>8 DEF most
<1> QED
  BY <1>1, <1>6, <1>7, <1>9 DEF bytes, slots, n

\* Staging a field that a blank can carry.
LEMMA ProduceCarries ==
  ASSUME AreasFar, WrapsFar, BlankCarries, Cardinality(Layers) <= 2,
         MapInv, Follows, ProduceMap
  PROVE  Follows' /\ BurstFits'
<1> DEFINE cams == [i \in Layers |-> CameraOf(master', i)]
           moved == [i \in Layers |-> Goto(i, cams)]
           pending == assets \/ master'.area # master.area
           n == Cardinality(Layers)
           bytes == SumBytes(moved, Layers)
           slots == SumSlots(moved, Layers)
<1>1. /\ ~staged.ready /\ master' \in Wander(master) /\ Stage(cams, pending)
      /\ UNCHANGED <<tilemap, screen>>
  BY DEF ProduceMap
<1>2. layer \in [Layers -> LayerType]
  BY DEF MapInv, MapTypes
<1>3. master' \in Places
  BY <1>1, WanderIs DEF Follows
<1>4. /\ layer' = [i \in Layers |-> moved[i].layer]
      /\ staged'.slots = slots
      /\ staged'.bytes = bytes + (IF pending THEN AssetBytes ELSE 0)
  BY <1>1 DEF Stage, Bytes, StripSlots, SumBytes, SumSlots
<1>5. /\ n \in Nat /\ bytes \in Nat /\ slots \in Nat
      /\ \/ bytes <= StripBytes * n
         \/ bytes <= RefillBytes + StripBytes * (n - 1)
      /\ slots <= 3 * n
  <2> HIDE DEF cams
  <2>1. cams = [i \in Layers |-> CameraOf(master', i)]
    BY DEF cams
  <2> QED
    BY <1>1, <1>2, <2>1, MovesCarry
<1> HIDE DEF bytes, slots, pending
<1>6. staged'.bytes <= BurstBytes
  <2>1. AssetBytes \in Nat /\ BurstBytes \in Nat
    BY ScrollAssumption
  <2>2. /\ StripBytes * n + AssetBytes <= BurstBytes
        /\ RefillBytes + StripBytes * (n - 1) + AssetBytes <= BurstBytes
    BY DEF BlankCarries
  <2>3. TmW \in Nat /\ TmH \in Nat
    BY ScrollNumbers
  <2>4. StripBytes \in Nat /\ RefillBytes \in Nat
    <3>1. TmW * TmH \in Nat
      BY <2>3
    <3> QED
      BY <2>3, <3>1 DEF StripBytes, RefillBytes
  <2> DEFINE a == StripBytes * n
             b == StripBytes * (n - 1)
  <2>5. a \in Int /\ b \in Int
    BY <1>5, <2>4
  <2> HIDE DEF a, b, n
  <2>6. /\ bytes <= a \/ bytes <= RefillBytes + b
        /\ a + AssetBytes <= BurstBytes /\ RefillBytes + b + AssetBytes <= BurstBytes
    BY <1>5, <2>2 DEF a, b, n
  <2> QED
    BY <1>4, <1>5, <2>1, <2>4, <2>5, <2>6
<1>7. BodyLength' <= 504
  <2>1. slots <= 6 /\ n <= 2
    BY <1>5
  <2> DEFINE held == IF staged'.assets THEN 46 + 36 ELSE 0
  <2>2. held \in Nat /\ held <= 82
    OBVIOUS
  <2>3. BodyLength' = 20 + 25 * n + held + 46 * slots + 1
    BY <1>4 DEF BodyLength
  <2> HIDE DEF held, n
  <2> QED
    BY <1>5, <2>1, <2>2, <2>3
<1>8. ASSUME NEW i \in Layers, UpToDate(layer'[i])
      PROVE  /\ layer'[i].left = WantLeft(CameraOf(master', i))
             /\ layer'[i].top = WantTop(CameraOf(master', i))
  <2>1. cams \in [Layers -> Int \X Int]
    <3>1. master' \in [x : Int, y : Int, area : Int]
      BY <1>3, ScrollNumbers DEF Places
    <3> QED
      BY <3>1, CameraType
  <2>2. UpToDate(layer[i]) => Holds(tilemap[i], layer[i].left, layer[i].top)
    <3> SUFFICES ASSUME UpToDate(layer[i])
                 PROVE  Holds(tilemap[i], layer[i].left, layer[i].top)
      OBVIOUS
    <3>1. Holds(Patched(staged.cells[i], tilemap[i]), layer[i].left, layer[i].top)
      BY DEF MapInv
    <3>2. staged.cells[i] = Nothing
      BY <1>1 DEF MapInv
    <3>3. layer[i].left \in Int /\ layer[i].top \in Int
      BY <1>2 DEF LayerType
    <3> QED
      BY <3>1, <3>2, <3>3, NothingPatched
  <2>3. layer'[i] = Goto(i, cams).layer /\ cams[i] = CameraOf(master', i)
    BY <1>4
  <2> HIDE DEF cams, moved
  <2>4. UpToDate(Goto(i, cams).layer) =>
          /\ Goto(i, cams).layer.left = WantLeft(cams[i])
          /\ Goto(i, cams).layer.top = WantTop(cams[i])
    BY <1>2, <2>1, <2>2, GotoIs
  <2> QED
    BY <1>8, <2>3, <2>4
<1>9. Follows'
  BY <1>3, <1>8 DEF Follows, UpToDate, WantLeft, WantTop, CameraOf
<1> QED
  BY <1>6, <1>7, <1>9 DEF BurstFits

\* The vertical blank always has the time for what a field of the map carries and the
\* body never runs into the staging area, although nothing checks either where
\* hx_map_stage() emits the body: whatever the layers' speeds and the sizes of
\* tilemaps and maps, with MAP_LAYERS layers, if a refill, an area's assets and
\* the strips of a column and a row of every other layer fit in a blank, and no
\* change of area and no wrap is short enough for strips.
THEOREM BurstAlwaysFits ==
  ASSUME AreasFar, WrapsFar, BlankCarries, Cardinality(Layers) <= 2
  PROVE  MapSpec => []BurstFits
<1> DEFINE Held == MapInv /\ Follows /\ BurstFits
<1>1. MapInit => Held
  <2> SUFFICES ASSUME MapInit PROVE Held
    OBVIOUS
  <2>1. MapInv
    BY MapInitInv
  <2>2. master \in Places
    BY ScrollNumbers DEF MapInit, Places
  <2>3. \A i \in Layers : ~UpToDate(layer[i])
    BY DEF MapInit, UpToDate
  <2>4. staged.bytes = 0 /\ staged.slots = 0 /\ staged.assets = FALSE
    BY DEF MapInit
  <2>5. Cardinality(Layers) \in Nat /\ BurstBytes \in Nat
    BY ScrollAssumption, FS_CardinalityType
  <2>6. BurstFits
    BY <2>4, <2>5 DEF BurstFits, BodyLength
  <2> QED
    BY <2>1, <2>2, <2>3, <2>6 DEF Follows
<1>2. Held /\ [MapNext]_mapVars => Held'
  <2> SUFFICES ASSUME Held, [MapNext]_mapVars PROVE Held'
    OBVIOUS
  <2>1. MapInv'
    BY MapInvStep
  <2>2. CASE ProduceMap
    BY <2>1, <2>2, ProduceCarries
  <2>3. CASE Field \/ UNCHANGED mapVars
    <3>1. /\ master' = master /\ layer' = layer
          /\ staged'.bytes = staged.bytes /\ staged'.slots = staged.slots
          /\ staged'.assets = staged.assets
      <4>1. CASE Field
        BY <4>1 DEF Field, MapInv, MapTypes
      <4>2. CASE UNCHANGED mapVars
        BY <4>2 DEF mapVars
      <4> QED
        BY <2>3, <4>1, <4>2
    <3>2. Follows'
      BY <3>1, Zenon DEF Follows, UpToDate, WantLeft, WantTop, CameraOf
    <3>3. BurstFits'
      BY <3>1, Zenon DEF BurstFits, BodyLength
    <3> QED
      BY <2>1, <3>2, <3>3
  <2> QED
    BY <2>2, <2>3 DEF MapNext
<1>3. Held => BurstFits
  OBVIOUS
<1> QED
  BY <1>1, <1>2, <1>3, PTL DEF MapSpec
=============================================================================
