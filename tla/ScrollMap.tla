----------------------------- MODULE ScrollMap -----------------------------
(***************************************************************************)
(* The scrolling map of runtime/hx421_runtime.c: every field, each layer's *)
(* camera moves, and hx_map_layer_goto works out which strips of tiles     *)
(* enter the window its tilemap holds, or refills the tilemap when the     *)
(* move is too large for strips.  One refill fits in a burst, so others    *)
(* wait and the field is held black.                                       *)
(*                                                                         *)
(* Positions are in tiles.  The map is a torus; a tile of it is the pair   *)
(* of its coordinates, which is as fine as metatile lookup can tell.       *)
(***************************************************************************)
EXTENDS Integers, FiniteSetsExt

CONSTANTS
  Layers,            \* MAP_LAYERS: 1..n
  TmW, TmH,          \* tiles of a tilemap (64, 32)
  MapW, MapH,        \* tiles of the map (128, 128)
  LeadX, LeadY,      \* columns and rows kept ahead of the camera (16, 2)
  ViewW, ViewH,      \* columns and rows that can be on screen (33, 29)
  MaxCols, MaxRows,  \* MAP_MAX_COLS, MAP_MAX_ROWS
  Slower,            \* par_den: a layer goes this many times slower than the master
  RangeX, RangeY,    \* tiles the master wanders over (256, 192)
  JumpX, JumpY,      \* how far the camera goes when the area changes (42, 26)
  Areas,             \* bound: areas, counted modulo this
  AssetBytes,        \* CHR and palette of an area (544)
  BurstBytes         \* what a vertical blank can carry

\* The view lies within the window and the map is whole tilemaps, so that a tile
\* of the map has one slot; strips never make up more than the window.
ASSUME ScrollAssumption ==
  /\ Layers \subseteq Nat \ {0} /\ IsFiniteSet(Layers)
  /\ {TmW, TmH, MapW, MapH, ViewW, ViewH, RangeX, RangeY, Areas} \subseteq Nat \ {0}
  /\ Slower \in [Layers -> Nat \ {0}]
  /\ {LeadX, LeadY, MaxCols, MaxRows, JumpX, JumpY, AssetBytes, BurstBytes} \subseteq Nat
  /\ MapW % TmW = 0 /\ MapH % TmH = 0
  /\ LeadX + ViewW <= TmW /\ LeadY + ViewH <= TmH
  /\ MaxCols <= TmW /\ MaxRows <= TmH

VARIABLES
  master,   \* the camera the layers' are derived from: [x, y, area]
  layer,    \* map_rt: [cam, left, top, seeded, want]
  assets,   \* g_map_assets_pending
  staged,   \* the buffer staged last: [cells, scroll, blank, bytes, slots, assets]
  tilemap,  \* video memory: the tile of the map each slot holds
  screen    \* what the field shows: [scroll, blank]

mapVars == <<master, layer, assets, staged, tilemap, screen>>

Slots == (0..(TmW - 1)) \X (0..(TmH - 1))
Positions == (0..(MapW - 1)) \X (0..(MapH - 1))
Empty == <<-1, -1>>
Nothing == [i \in {} |-> Empty]

\* tm_word: the slot of a tile position; mt_lookup with wrap: the tile there.
SlotOf(x, y) == <<x % TmW, y % TmH>>
TileAt(x, y) == <<x % MapW, y % MapH>>

MapInit ==
  /\ master = [x |-> 0, y |-> 0, area |-> 0]
  /\ layer = [i \in Layers |-> [cam |-> <<0, 0>>, left |-> 0, top |-> 0,
                                seeded |-> FALSE, want |-> FALSE]]
  /\ assets = TRUE
  /\ staged = [ready |-> FALSE, cells |-> [i \in Layers |-> Nothing],
               scroll |-> [i \in Layers |-> <<0, 0>>], blank |-> TRUE,
               bytes |-> 0, slots |-> 0, assets |-> FALSE]
  /\ tilemap = [i \in Layers |-> [s \in Slots |-> Empty]]
  /\ screen = [scroll |-> [i \in Layers |-> <<0, 0>>], blank |-> TRUE]

---------------------------------------------------------------------------
(* hx_map_layer_goto.                                                      *)

WantLeft(cam) == cam[1] - LeadX
WantTop(cam) == cam[2] - LeadY
Distance(a, b) == IF a > b THEN a - b ELSE b - a

NeedsReseed(l, cam) ==
  \/ ~l.seeded \/ l.want
  \/ Distance(WantLeft(cam), l.left) > MaxCols
  \/ Distance(WantTop(cam), l.top) > MaxRows

\* The tiles of a rectangle of positions, by slot.
Filled(xs, ys) ==
  [s \in {SlotOf(x, y) : x \in xs, y \in ys} |->
     LET at == CHOOSE p \in xs \X ys : SlotOf(p[1], p[2]) = s
     IN  TileAt(at[1], at[2])]

\* Columns and rows that enter a window of n going from one edge to another.
Entering(from, to, n) == IF to > from THEN (from + n)..(to + n - 1) ELSE to..(from - 1)

\* hx_map_seed_layer: the whole window.
Seed(l, cam) ==
  [layer |-> [l EXCEPT !.cam = cam, !.left = WantLeft(cam), !.top = WantTop(cam),
                       !.seeded = TRUE, !.want = FALSE],
   cells |-> Filled(WantLeft(cam)..(WantLeft(cam) + TmW - 1),
                    WantTop(cam)..(WantTop(cam) + TmH - 1)),
   bytes |-> 2 * TmW * TmH, slots |-> 2]

Defer(l, cam) ==
  [layer |-> [l EXCEPT !.cam = cam, !.want = TRUE],
   cells |-> Nothing, bytes |-> 0, slots |-> 0]

\* Bug: the columns are taken over the rows the window had.
SeamsOverOldRows(l, cam) ==
  LET left == WantLeft(cam)
      top  == WantTop(cam)
      cols == Entering(l.left, left, TmW)
      rows == Entering(l.top, top, TmH)
      columns == Filled(cols, l.top..(l.top + TmH - 1))
      across  == Filled(l.left..(l.left + TmW - 1), rows)
  IN  [layer |-> [l EXCEPT !.cam = cam, !.left = left, !.top = top],
       cells |-> [s \in DOMAIN columns \cup DOMAIN across |->
                    IF s \in DOMAIN across THEN across[s] ELSE columns[s]],
       bytes |-> 2 * TmH * Cardinality(cols) + 2 * TmW * Cardinality(rows),
       slots |-> Cardinality(cols) + 2 * Cardinality(rows)]

\* The columns that enter, over the new rows, then the rows that enter, over the
\* new columns.  A row spans both screens of the tilemap and takes two slots.
Seams(l, cam) ==
  LET left == WantLeft(cam)
      top  == WantTop(cam)
      cols == Entering(l.left, left, TmW)
      rows == Entering(l.top, top, TmH)
      columns == Filled(cols, top..(top + TmH - 1))
      across  == Filled(left..(left + TmW - 1), rows)
  IN  [layer |-> [l EXCEPT !.cam = cam, !.left = left, !.top = top],
       cells |-> [s \in DOMAIN columns \cup DOMAIN across |->
                    IF s \in DOMAIN across THEN across[s] ELSE columns[s]],
       bytes |-> 2 * TmH * Cardinality(cols) + 2 * TmW * Cardinality(rows),
       slots |-> Cardinality(cols) + 2 * Cardinality(rows)]

\* Bug: every layer that needs it is refilled at once.
MayReseedAlways(i, cams) == TRUE

\* At most one layer is refilled in a field: the first that needs it.
MayReseed(i, cams) == \A j \in Layers : j < i => ~NeedsReseed(layer[j], cams[j])

Goto(i, cams) ==
  CASE ~NeedsReseed(layer[i], cams[i]) -> Seams(layer[i], cams[i])
    [] NeedsReseed(layer[i], cams[i]) /\ MayReseed(i, cams) -> Seed(layer[i], cams[i])
    [] OTHER -> Defer(layer[i], cams[i])

---------------------------------------------------------------------------
(* A field.                                                                *)

\* The master camera drifts by at most a tile along each axis of its range, to
\* and fro; now and then the area changes.
Wander(m) ==
  LET near(v, range) == {v - 1, v, v + 1} \cap 0..(range - 1)
  IN  [x : near(m.x, RangeX), y : near(m.y, RangeY),
       area : {m.area, (m.area + 1) % Areas}]

\* A layer follows at its own pace, from a place that depends on the area, and
\* wraps at the size of the map.
CameraOf(m, i) ==
  <<(m.x \div Slower[i] + m.area * JumpX) % MapW,
    (m.y \div Slower[i] + m.area * JumpY) % MapH>>

\* The field is held black while any layer is out of date.
Stale(moved) == \E i \in Layers : ~moved[i].layer.seeded \/ moved[i].layer.want

\* What the body of the moves carries, and the slots it takes.
Bytes(moved, pending) ==
  MapThenSumSet(LAMBDA i : moved[i].bytes, Layers) + (IF pending THEN AssetBytes ELSE 0)
StripSlots(moved) == MapThenSumSet(LAMBDA i : moved[i].slots, Layers)

\* hx_map_stage: what the moves and the pending assets make of the buffer.
Stage(cams, pending) ==
  LET moved == [i \in Layers |-> Goto(i, cams)]
  IN  /\ layer' = [i \in Layers |-> moved[i].layer]
      /\ staged' = [ready |-> TRUE,
                    cells |-> [i \in Layers |-> moved[i].cells],
                    scroll |-> cams,
                    blank |-> Stale(moved),
                    bytes |-> Bytes(moved, pending),
                    slots |-> StripSlots(moved),
                    assets |-> pending]
      /\ assets' = FALSE

\* hx_produce_map_frame, at FRAME_DONE.
ProduceMap ==
  /\ ~staged.ready
  /\ master' \in Wander(master)
  /\ Stage([i \in Layers |-> CameraOf(master', i)], assets \/ master'.area # master.area)
  /\ UNCHANGED <<tilemap, screen>>

\* The SNES runs the body in the blank and shows the field that follows it.
Field ==
  /\ staged.ready
  /\ tilemap' = [i \in Layers |-> [s \in Slots |->
       IF s \in DOMAIN staged.cells[i] THEN staged.cells[i][s] ELSE tilemap[i][s]]]
  /\ screen' = [scroll |-> staged.scroll, blank |-> staged.blank]
  /\ staged' = [staged EXCEPT !.ready = FALSE, !.cells = [i \in Layers |-> Nothing]]
  /\ UNCHANGED <<master, layer, assets>>

MapNext == ProduceMap \/ Field
MapSpec == MapInit /\ [][MapNext]_mapVars

---------------------------------------------------------------------------
(* Properties.                                                             *)

\* The length of an emitted body: its registers, a CHR and a palette slot for the
\* assets, a slot per strip, the return (e_dma_vram_slot_m emits 46 bytes).
BodyLength == 20 + 25 * Cardinality(Layers) + (IF staged.assets THEN 46 + 36 ELSE 0)
                + 46 * staged.slots + 1

MapTypeOK ==
  /\ master \in [x : 0..(RangeX - 1), y : 0..(RangeY - 1), area : 0..(Areas - 1)]
  /\ \A i \in Layers :
       /\ layer[i].cam \in Positions
       /\ layer[i].left \in Int /\ layer[i].top \in Int
       /\ layer[i].seeded \in BOOLEAN /\ layer[i].want \in BOOLEAN
       /\ DOMAIN staged.cells[i] \subseteq Slots
       /\ \A s \in DOMAIN staged.cells[i] : staged.cells[i][s] \in Positions
       /\ staged.scroll[i] \in Positions /\ screen.scroll[i] \in Positions
  /\ assets \in BOOLEAN
  /\ tilemap \in [Layers -> [Slots -> Positions \cup {Empty}]]
  /\ staged.bytes \in Nat /\ staged.slots \in Nat

\* Every position the screen can show, wherever the camera went and whatever was
\* deferred, holds the map's tile: a tilemap half of one place and half of
\* another is only ever there while the field is black (the invariant of
\* MapLayerRT's window, and hx_map_stage's stale flag).
ViewIsRight ==
  ~screen.blank =>
    \A i \in Layers : \A x \in 0..(ViewW - 1), y \in 0..(ViewH - 1) :
      LET at == <<screen.scroll[i][1] + x, screen.scroll[i][2] + y>>
      IN  tilemap[i][SlotOf(at[1], at[2])] = TileAt(at[1], at[2])

\* No field asks for more than a blank can carry, nor for a body longer than the
\* 504 bytes between its place in the buffer and the staging area: there is
\* no check of either where the body is emitted.
BurstFits == staged.bytes <= BurstBytes /\ BodyLength <= 504

(* When they fit, with MAP_LAYERS layers.  A layer moves by at most a tile  *)
(* a field, or far enough to be refilled: when its camera wraps, and when   *)
(* the area changes.                                                        *)

\* Far around a torus of n places, by more than strips make up for.
Far(d, n, most) == d % n \in (most + 2) .. (n - (most + 2))

\* Going from any area to the next takes every camera too far for strips.
AreasFar ==
  \A a \in 0 .. (Areas - 1) :
    (a + 1) % Areas # a =>
      \/ Far((((a + 1) % Areas) - a) * JumpX, MapW, MaxCols)
      \/ Far((((a + 1) % Areas) - a) * JumpY, MapH, MaxRows)

\* So does wrapping.
WrapsFar == MaxCols < MapW - 1 /\ MaxRows < MapH - 1

\* The strips of a column and a row, and a refill.
StripBytes == 2 * TmH + 2 * TmW
RefillBytes == 2 * (TmW * TmH)

\* A blank carries an area's assets with the strips of every layer, and with the
\* refill of one and the strips of the others.
BlankCarries ==
  LET n == Cardinality(Layers)
  IN  /\ StripBytes * n + AssetBytes <= BurstBytes
      /\ RefillBytes + StripBytes * (n - 1) + AssetBytes <= BurstBytes
=============================================================================
