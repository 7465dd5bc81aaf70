--------------------------- MODULE FrameHandshake ---------------------------
(***************************************************************************)
(* How a picture reaches the screen: runtime/hx421_runtime.c stages bursts *)
(* of a frame in two buffers of the served window, snes/kernel.s latches   *)
(* the published one at the bottom letterbox, runs its emitted DMA body    *)
(* from the window and strobes FRAME_DONE, and the strobe's handler flips  *)
(* the buffers and stages the next burst.                                  *)
(*                                                                         *)
(* Video memory is a function from cells (a tile of either picture, a      *)
(* quarter of either tilemap, the palette) to the frame the cell is of;    *)
(* the tiles of the two pictures overlap, as CHR base B lies one granule   *)
(* early.  A frame is its number, modulo Frames, and the tiles it uses.    *)
(* The SNES and the runtime interleave between any two DMA slots.          *)
(***************************************************************************)
EXTENDS Integers, Sequences, FiniteSetsExt

CONSTANTS
  Modes,        \* pictures the runtime can be started for: of "bars", "map", "fmv", "r3d"
  Frames,       \* numbers a frame can have, counted modulo this
  Tiles,        \* tiles of a film picture (781)
  BaseB,        \* the tile at which picture B starts (768)
  Runs,         \* fmv_band_run: a film band's first tile and its tiles
  Contested,    \* tiles of B that A also uses, sent last (13)
  Preroll,      \* g_fmv_preroll: bursts the film is held black
  Chr0, ChrN,   \* tiles the first and a later burst of a rendered frame carry
  Costs,        \* tiles a rendered frame can happen to use (up to 750)
  Hold,         \* ticks a reset holds the cart bus (hold_ms)
  ResetModes,   \* modes in which the console is reset while running
  MaxResets     \* bound: such resets

Chr(base, tiles) == {<<"chr", base * BaseB + t>> : t \in tiles}
Map(base, quarters) == {<<"map", base, q>> : q \in quarters}
Palette == {<<"palette">>}
Quarters == 0..3
Cells == Chr(0, 0..(BaseB + Tiles - 1)) \cup Map(0, Quarters) \cup Map(1, Quarters) \cup Palette

\* The runs with the contested tiles are the picture, only the last run reaches B,
\* and what A and B share is no more than the contested tiles.
ASSUME HandshakeAssumption ==
  /\ Modes \subseteq {"bars", "map", "fmv", "r3d"} /\ ResetModes \subseteq Modes
  /\ Frames \in Nat \ {0} /\ Hold \in Nat \ {0} /\ MaxResets \in Nat /\ Preroll \in Nat
  /\ Tiles \in Nat /\ BaseB \in Nat /\ Contested \in Nat
  /\ Contested <= Tiles /\ Contested <= BaseB /\ Tiles - BaseB <= Contested
  /\ Runs \in [1..4 -> Nat \X Nat] /\ BaseB <= Tiles
  /\ \A i \in 1..4 : Contested <= Runs[i][1] /\ Runs[i][1] + Runs[i][2] <= Tiles
  /\ \A i \in 1..3 : Runs[i][1] + Runs[i][2] <= BaseB
  /\ \A t \in Contested..(Tiles - 1) :
       \E i \in 1..4 : Runs[i][1] <= t /\ t < Runs[i][1] + Runs[i][2]
  /\ Chr0 \in Nat /\ ChrN \in Nat \ {0} /\ Costs \subseteq 0..BaseB /\ Costs # {}

VARIABLES
  mode,       \* g_fmv_mode, g_map_mode, g_r3d_mode
  host,       \* the runtime: [resetting, held, resets, kicked]
  back,       \* g_back
  ready,      \* FRAME_READY: 0, or the published buffer and one
  window,     \* the buffers: [body, blank], the slots and a field held black
  source,     \* the frame being sent: [frame, burst, bursts, front, need, preroll]
  kernel,     \* the SNES: [at, front, pending, slot]
  vram,       \* video memory
  shown       \* the picture BG1SC and BG12NBA select, and if the field is black

hostVars == <<host, back, ready, window, source>>
vars == <<mode, hostVars, kernel, vram, shown>>

Pictures == {0, 1}
None == [n |-> -1, used |-> 0]
FrameSet == [n : 0..(Frames - 1), used : Costs \cup {0}]
Other(b) == 1 - b
EmptyBuffer == [body |-> <<>>, blank |-> FALSE]
Paced == mode # "bars"

Init ==
  /\ mode \in Modes
  /\ host = [resetting |-> TRUE, held |-> 0, resets |-> 0, kicked |-> FALSE]
  /\ back = 0 /\ ready = 0
  /\ window = [b \in Pictures |-> EmptyBuffer]
  /\ source = [frame |-> [n |-> 0, used |-> 0], burst |-> 0, bursts |-> 1,
               front |-> 0, need |-> TRUE, preroll |-> Preroll]
  /\ kernel = [at |-> "off", front |-> -1, pending |-> FALSE, slot |-> 0]
  /\ vram = [c \in Cells |-> None]
  /\ shown = [picture |-> -1, black |-> FALSE]

---------------------------------------------------------------------------
(* The bodies the runtime emits.                                           *)

\* A slot that copies cells of a frame, and one that sets the BG1 registers.
Copy(cells, f) == [at |-> cells, frame |-> f, show |-> -1]
Show(picture) == [at |-> {}, frame |-> None, show |-> picture]

\* Bug: the contested tiles go with the first band, like the rest of their rows.
FmvBodyContestedFirst(s) ==
  LET run == Runs[s.burst + 1]
      to  == Other(s.front)
  IN  <<Copy(Map(to, {s.burst}), s.frame),
        Copy(Chr(to, run[1]..(run[1] + run[2] - 1)), s.frame)>>
        \o (IF s.burst = 0 THEN <<Copy(Chr(to, 0..(Contested - 1)), s.frame)>> ELSE <<>>)
        \o (IF s.burst = 3 THEN <<Copy(Palette, s.frame), Show(to)>> ELSE <<>>)

\* hx_emit_fmv_band
FmvBody(s) ==
  LET run == Runs[s.burst + 1]
      to  == Other(s.front)
  IN  (IF s.burst = 0 THEN <<Show(s.front)>> ELSE <<>>)
        \o <<Copy(Map(to, {s.burst}), s.frame),
             Copy(Chr(to, run[1]..(run[1] + run[2] - 1)), s.frame)>>
        \o (IF s.burst = 3
            THEN <<Copy(Chr(to, 0..(Contested - 1)), s.frame),
                   Copy(Palette, s.frame), Show(to)>>
            ELSE <<>>)

\* The tiles burst i of a frame carries.
Chunk(used, i) ==
  LET start == IF i = 0 THEN 0 ELSE Chr0 + (i - 1) * ChrN
      cap   == IF i = 0 THEN Chr0 ELSE ChrN
  IN  start..(Min({used, start + cap}) - 1)

Bursts(used) == IF used <= Chr0 THEN 1 ELSE 1 + (used - Chr0 + ChrN - 1) \div ChrN

\* hx_emit_r3d_burst
R3dBody(s) ==
  LET to    == Other(s.front)
      chunk == Chunk(s.frame.used, s.burst)
  IN  (IF s.burst = 0
       THEN <<Show(s.front), Copy(Map(to, Quarters), s.frame)>> ELSE <<>>)
        \o (IF chunk # {} THEN <<Copy(Chr(to, chunk), s.frame)>> ELSE <<>>)
        \o (IF s.burst = s.bursts - 1 THEN <<Show(to)>> ELSE <<>>)

\* The bars redraw the one tilemap that is on screen; ScrollMap has the map's seams.
BarsBody(s) == <<Copy(Map(0, {0}), s.frame), Copy(Map(0, {1}), s.frame), Show(0)>>
MapBody(s) == <<Copy(Map(0, {0}), s.frame), Show(0)>>

Following(f, used) == [n |-> (f.n + 1) % Frames, used |-> used]

---------------------------------------------------------------------------
(* The producers.                                                          *)

\* What is sent next: a film frame is taken at band 0 when one is needed, the
\* hold is over and the film is playing with a frame in the FIFO.
FmvSource(s, new) ==
  \/ /\ s.burst = 0 /\ s.need /\ s.preroll = 0
     /\ new = [s EXCEPT !.frame = Following(s.frame, 0), !.need = FALSE]
  \/ new = [s EXCEPT !.preroll = Max({0, s.preroll - 1})]

\* Bug: the frame is built again for every burst.
R3dSourceEveryBurst(s, new) ==
  \E used \in Costs :
     new = [s EXCEPT !.frame = Following(s.frame, used), !.bursts = Bursts(used)]

\* A rendered frame is built at burst 0, at the cost its scene happens to have.
R3dSource(s, new) ==
  IF s.burst = 0
  THEN \E used \in Costs :
         new = [s EXCEPT !.frame = Following(s.frame, used), !.bursts = Bursts(used)]
  ELSE new = s

Body(s) == CASE mode = "fmv" -> FmvBody(s)
             [] mode = "r3d" -> R3dBody(s)
             [] mode = "map" -> MapBody(s)
             [] mode = "bars" -> BarsBody(s)

\* hx_produce_fmv_band, hx_produce_r3d_burst, hx_produce_map_frame, hx_produce_frame:
\* stage what s says in buffer b and publish it.
Produce(s, b) ==
  /\ \/ mode = "fmv" /\ FmvSource(s, source')
     \/ mode = "r3d" /\ R3dSource(s, source')
     \/ mode \in {"map", "bars"} /\ source' = [s EXCEPT !.frame = Following(s.frame, 0)]
  /\ window' = [window EXCEPT ![b] =
       [body |-> Body(source'), blank |-> mode = "fmv" /\ s.preroll > 0]]
  /\ ready' = b + 1

\* Bug: a paced mode is staged on every tick as well.
StepAlways ==
  /\ host.resetting => host.held < Hold
  /\ host' = [host EXCEPT !.kicked = TRUE,
                          !.held = IF host.resetting THEN @ + 1 ELSE @]
  /\ Produce(source, back)
  /\ UNCHANGED <<mode, back, kernel, vram, shown>>

\* hx421_step: the first burst of a paced mode, once; the bars on every tick.
Step ==
  /\ host.resetting => host.held < Hold
  /\ host' = [host EXCEPT !.kicked = TRUE,
                          !.held = IF host.resetting THEN @ + 1 ELSE @]
  /\ IF Paced /\ host.kicked
     THEN UNCHANGED <<source, window, ready>>
     ELSE Produce(source, back)
  /\ UNCHANGED <<mode, back, kernel, vram, shown>>

\* The burst that was shown is over: the next one, or the next picture.
Advance(s) ==
  CASE mode = "fmv" ->
         IF s.burst = 3 THEN [s EXCEPT !.burst = 0, !.front = Other(@), !.need = TRUE]
         ELSE [s EXCEPT !.burst = @ + 1]
    [] mode = "r3d" ->
         IF s.burst + 1 >= s.bursts THEN [s EXCEPT !.burst = 0, !.front = Other(@)]
         ELSE [s EXCEPT !.burst = @ + 1]
    [] mode \in {"map", "bars"} -> s

\* Bug: a burst that was shown is consumed in every mode, as with the bars.
FrameDoneConsumed ==
  /\ kernel.at = "done"
  /\ kernel' = [kernel EXCEPT !.at = "blank"]
  /\ back' = Other(back)
  /\ ready' = 0
  /\ UNCHANGED <<mode, host, source, window, vram, shown>>

\* hx421_cart_read of FRAME_DONE, within the kernel's interrupt.
FrameDone ==
  /\ kernel.at = "done"
  /\ kernel' = [kernel EXCEPT !.at = "blank"]
  /\ back' = Other(back)
  /\ IF Paced THEN Produce(Advance(source), Other(back))
     ELSE ready' = 0 /\ UNCHANGED <<source, window>>
  /\ UNCHANGED <<mode, host, vram, shown>>

---------------------------------------------------------------------------
(* The SNES kernel: one pass over a field.                                 *)

\* irq at the VIS_END crossing: frame_prep latches what is published.
FramePrep ==
  /\ kernel.at = "visible"
  /\ kernel' = IF ready = 0 THEN [kernel EXCEPT !.at = "prepped"]
               ELSE [kernel EXCEPT !.at = "prepped", !.front = ready - 1, !.pending = TRUE]
  /\ UNCHANGED <<mode, hostVars, vram, shown>>

\* ACT_BLANK: the first blank line with a body pending fires it.  With nothing
\* latched yet the action table is all ACT_NONE.
BlankLine ==
  /\ kernel.at = "prepped"
  /\ IF kernel.front = -1
     THEN /\ kernel' = [kernel EXCEPT !.at = "blank"]
          /\ UNCHANGED shown
     ELSE /\ kernel' = [kernel EXCEPT !.at = IF kernel.pending
                                             THEN "body" ELSE "blank",
                                      !.pending = FALSE, !.slot = 1]
          /\ shown' = [shown EXCEPT !.black = TRUE]
  /\ UNCHANGED <<mode, hostVars, vram>>

\* The next slot of the body, executed from the window as it is by then.
BodySlot ==
  /\ kernel.at = "body"
  /\ LET body == window[kernel.front].body
         slot == body[kernel.slot]
     IN  /\ kernel.slot <= Len(body)
         /\ vram' = [c \in Cells |-> IF c \in slot.at THEN slot.frame ELSE vram[c]]
         /\ shown' = IF slot.show = -1 THEN shown ELSE [shown EXCEPT !.picture = slot.show]
  /\ kernel' = [kernel EXCEPT !.slot = @ + 1]
  /\ UNCHANGED <<mode, hostVars>>

\* rtl: report the line and strobe FRAME_DONE.
BodyReturn ==
  /\ kernel.at = "body" /\ kernel.slot = Len(window[kernel.front].body) + 1
  /\ kernel' = [kernel EXCEPT !.at = "done", !.slot = 0]
  /\ UNCHANGED <<mode, hostVars, vram, shown>>

\* ACT_UNBLANK at the top letterbox, unless the field is held black.
Unblank ==
  /\ kernel.at = "blank"
  /\ kernel' = [kernel EXCEPT !.at = "visible"]
  /\ shown' = [shown EXCEPT !.black = kernel.front # -1 /\ window[kernel.front].blank]
  /\ UNCHANGED <<mode, hostVars, vram>>

---------------------------------------------------------------------------
(* Reset.                                                                  *)

\* Hx421::reset calls hx421_cart_reset_begin: the SNES is off until the end.
ResetBegin ==
  /\ ~host.resetting /\ mode \in ResetModes /\ host.resets < MaxResets
  /\ host' = [host EXCEPT !.resetting = TRUE, !.held = 0, !.resets = @ + 1]
  /\ ready' = 0
  /\ kernel' = [at |-> "off", front |-> -1, pending |-> FALSE, slot |-> 0]
  /\ UNCHANGED <<mode, back, window, source, vram, shown>>

\* hx421_cart_reset_end once the hold elapsed; kmain starts over.
ResetEnd ==
  /\ host.resetting /\ host.held >= Hold
  /\ host' = [host EXCEPT !.resetting = FALSE]
  /\ kernel' = [kernel EXCEPT !.at = "visible"]
  /\ vram' = [c \in Cells |-> None]
  /\ shown' = [picture |-> -1, black |-> FALSE]
  /\ UNCHANGED <<mode, back, ready, window, source>>

Snes == FramePrep \/ BlankLine \/ BodySlot \/ BodyReturn \/ FrameDone \/ Unblank
Next == Step \/ Snes \/ ResetBegin \/ ResetEnd

\* The console's clock and the audio stream that calls hx421_step keep running.
Fairness == WF_vars(Snes) /\ WF_vars(Step) /\ WF_vars(ResetEnd)
Spec == Init /\ [][Next]_vars /\ Fairness

---------------------------------------------------------------------------
(* Properties.                                                             *)

TypeOK ==
  /\ mode \in Modes
  /\ host \in [resetting : BOOLEAN, held : 0..Hold, resets : 0..MaxResets, kicked : BOOLEAN]
  /\ back \in Pictures /\ ready \in 0..2
  /\ \A b \in Pictures :
       /\ window[b].blank \in BOOLEAN
       /\ \A i \in DOMAIN window[b].body :
            /\ window[b].body[i].at \subseteq Cells
            /\ window[b].body[i].frame \in FrameSet \cup {None}
            /\ window[b].body[i].show \in Pictures \cup {-1}
  /\ source \in [frame : FrameSet, burst : Nat, bursts : Nat \ {0},
                 front : Pictures, need : BOOLEAN, preroll : 0..Preroll]
  /\ kernel \in [at : {"off", "visible", "prepped", "body", "done", "blank"},
                 front : Pictures \cup {-1}, pending : BOOLEAN, slot : Nat]
  /\ vram \in [Cells -> FrameSet \cup {None}]
  /\ shown \in [picture : Pictures \cup {-1}, black : BOOLEAN]

\* The frame the picture on screen is of, and the cells that picture is made of.
OnScreen == vram[<<"map", shown.picture, 0>>]
Referenced(p) ==
  Map(p, Quarters) \cup (IF mode = "fmv" THEN Chr(p, 0..(Tiles - 1)) \cup Palette
                                         ELSE Chr(p, 0..(vram[<<"map", p, 0>>].used - 1)))

\* What a visible line shows is one frame: every tile, every quarter of the
\* tilemap and the palette (hx_emit_fmv_band and hx_emit_r3d_burst fill the
\* hidden picture over several fields and flip it with the last burst, though
\* thirteen tiles of the hidden picture B are tiles of A).
NoTornPicture ==
  mode \in {"fmv", "r3d"} /\ kernel.at = "visible" /\ ~shown.black /\ shown.picture # -1
    => \A c \in Referenced(shown.picture) : vram[c] = OnScreen

\* A paced producer never writes the buffer the SNES has latched or is about to
\* latch: it stages at FRAME_DONE, after the flip of g_back (the bars do not
\* keep to this: they are redrawn on every tick).
FrontUntouched ==
  [][\A b \in Pictures : Paced /\ window'[b] # window[b]
       => b # kernel.front /\ ready # b + 1]_vars

\* While a body runs and until its strobe is answered, the buffer it runs from
\* is the one the runtime published and would write next.
HandshakeOK ==
  Paced /\ kernel.at \in {"body", "done"} => ready = kernel.front + 1 /\ back = kernel.front

\* Frames reach the screen in the order they are taken or built, none left out:
\* a flip shows the frame that was shown or the one after it.
ShownInOrder ==
  [][shown.picture # -1 /\ shown'.picture # shown.picture /\ shown'.picture # -1
       => \/ mode \notin {"fmv", "r3d"}
          \/ OnScreen = None
          \/ OnScreen' = OnScreen
          \/ OnScreen'.n = (OnScreen.n + 1) % Frames]_vars

\* The handshake never stalls: there is always another FRAME_DONE, which is what
\* stages the next burst of a paced mode.
FramesKeepComing == []<>(kernel.at = "done")
=============================================================================
