------------------------------- MODULE Raster -------------------------------
(***************************************************************************)
(* runtime/hx421_raster.c: triangles rasterised a tile at a time by edge   *)
(* functions that are only ever added to, with a depth buffer; the tiles   *)
(* of a frame sorted into blank, solid and mixed, and a mixed one given a  *)
(* slot of the pool or a single colour.                                    *)
(*                                                                         *)
(* A triangle is [v, color], v three vertices <<x, y, z>>, x and y with     *)
(* SubPixel fractions.  A tile is a pair of functions of its pixels.       *)
(***************************************************************************)
EXTENDS Integers, Sequences, FiniteSets, CNumbers

CONSTANTS
  Tile,      \* pixels of a tile's side: HX421_TILE
  SubPixel,  \* HX421_ONE, even
  ZFar,      \* HX421_ZFAR
  Planes,    \* bit planes of a pixel: 4
  DynSlots   \* HX421_DYN_SLOTS

Side == 0 .. Tile - 1
Pixels == Side \X Side
Colors == 0 .. 2 ^ Planes - 1
DynBase == 2 ^ Planes

Blank == [idx |-> [p \in Pixels |-> 0], z |-> [p \in Pixels |-> ZFar]]

Lo(S) == CHOOSE n \in S : \A m \in S : n <= m
Hi(S) == CHOOSE n \in S : \A m \in S : n >= m
Spread(t, k) == {t.v[i][k] : i \in 1 .. 3}

\* hx421_tri_touches_tile().
Touches(t, tx, ty) ==
  LET x0 == tx * Tile * SubPixel y0 == ty * Tile * SubPixel
      size == Tile * SubPixel
  IN  /\ Hi(Spread(t, 1)) >= x0 /\ Lo(Spread(t, 1)) < x0 + size
      /\ Hi(Spread(t, 2)) >= y0 /\ Lo(Spread(t, 2)) < y0 + size

\* Twice the signed area; a triangle that is not positive is not drawn.
Area(t) ==
  (t.v[2][1] - t.v[1][1]) * (t.v[3][2] - t.v[1][2])
    - (t.v[2][2] - t.v[1][2]) * (t.v[3][1] - t.v[1][1])

\* The edges' value at the centre of the tile's first pixel, and what a pixel to
\* the right and a row down add.
EdgeAt(t, i, ox, oy) ==
  LET a == t.v[i] b == t.v[(i % 3) + 1]
  IN  -(b[2] - a[2]) * (ox - a[1]) + (b[1] - a[1]) * (oy - a[2])
StepRight(t, i) == -(t.v[(i % 3) + 1][2] - t.v[i][2]) * SubPixel
\* Bug: the row step of the first edge for all of them.
StepDownFirst(t, i) == (t.v[2][1] - t.v[1][1]) * SubPixel

StepDown(t, i) == (t.v[(i % 3) + 1][1] - t.v[i][1]) * SubPixel

\* The depth of a pixel, from the plane, cut toward zero and clamped.
DepthAt(t, dx, dy) ==
  LET dz1 == t.v[2][3] - t.v[1][3] dz2 == t.v[3][3] - t.v[1][3]
      zdx == dz1 * (t.v[3][2] - t.v[1][2]) - dz2 * (t.v[2][2] - t.v[1][2])
      zdy == dz2 * (t.v[2][1] - t.v[1][1]) - dz1 * (t.v[3][1] - t.v[1][1])
      z == t.v[1][3] + Cut(zdx * dx + zdy * dy, Area(t))
  IN  Clamped(z, 0, ZFar)

\* hx421_raster_tile(): each triangle over what the ones before it left.
Drawn(tile, t, tx, ty) ==
  LET ox == tx * Tile * SubPixel + SubPixel \div 2
      oy == ty * Tile * SubPixel + SubPixel \div 2
      Edge(i, p) == EdgeAt(t, i, ox, oy) + p[2] * StepDown(t, i) + p[1] * StepRight(t, i)
      Inside(p) == \A i \in 1 .. 3 : Edge(i, p) >= 0
      Depth(p) == DepthAt(t, ox + p[1] * SubPixel - t.v[1][1], oy + p[2] * SubPixel - t.v[1][2])
      nearer == {p \in Pixels : Inside(p) /\ Depth(p) < tile.z[p]}
  IN  IF t.color = 0 \/ ~Touches(t, tx, ty) \/ Area(t) <= 0 THEN tile
      ELSE [idx |-> [p \in Pixels |-> IF p \in nearer THEN t.color ELSE tile.idx[p]],
            z |-> [p \in Pixels |-> IF p \in nearer THEN Depth(p) ELSE tile.z[p]]]

RasterTile(tris, tx, ty) ==
  LET upTo[i \in 0 .. Len(tris)] == IF i = 0 THEN Blank ELSE Drawn(upTo[i - 1], tris[i], tx, ty)
  IN  upTo[Len(tris)]

\* hx421_tile_classify().
Classify(idx) ==
  IF \E p, q \in Pixels : idx[p] # idx[q] THEN "mixed"
  ELSE IF idx[<<0, 0>>] = 0 THEN "empty" ELSE "solid"

\* hx421_tile_pack4bpp(): a plane is the set of pixels whose bit is set.
Pack(idx) == [b \in 0 .. Planes - 1 |-> {p \in Pixels : (idx[p] \div 2 ^ b) % 2 = 1}]

\* dominant_index(): the first of the commonest colours that are not 0.
Dominant(idx) ==
  LET Count(c) == Cardinality({p \in Pixels : idx[p] = c})
      most == Hi({Count(c) : c \in Colors \ {0}})
  IN  IF most = 0 THEN 0 ELSE Lo({c \in Colors \ {0} : Count(c) = most})

\* hx421_build_solid_tiles(): the resident tiles of one colour.
Solids == [c \in Colors |-> Pack([p \in Pixels |-> c])]

\* What one tile does to the frame: an entry of the map, a slot of the pool, and
\* the census.
Assembled(out, idx) ==
  LET kind == Classify(idx)
      entry == CASE kind = "empty" -> 0
                 [] kind = "solid" -> idx[<<0, 0>>]
                 [] kind = "mixed" /\ Len(out.chr) < DynSlots -> DynBase + Len(out.chr)
                 [] OTHER -> Dominant(idx)
  IN  [map |-> Append(out.map, entry),
       chr |-> IF entry >= DynBase THEN Append(out.chr, Pack(idx)) ELSE out.chr,
       degraded |-> out.degraded + (IF kind = "mixed" /\ entry < DynBase THEN 1 ELSE 0)]

\* hx421_render_frame(): the tiles from the top left, row by row.
RenderFrame(tris, w, h) ==
  LET upTo[i \in 0 .. w * h] ==
        IF i = 0 THEN [map |-> <<>>, chr |-> <<>>, degraded |-> 0]
        ELSE Assembled(upTo[i - 1], RasterTile(tris, (i - 1) % w, (i - 1) \div w).idx)
  IN  upTo[w * h]

\* hx421_frame_subframes(), hx421_frame_chunk(): the bursts of the pool's bytes.
Subframes(bytes, burst) == IF bytes = 0 THEN 1 ELSE (bytes + burst - 1) \div burst
FrameChunk(bytes, burst, i) ==
  LET start == i * burst
  IN  IF start >= bytes THEN {}
      ELSE {[off |-> start, len |-> IF bytes - start > burst THEN burst ELSE bytes - start]}
===============================================================================
