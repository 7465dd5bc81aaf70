----------------------------- MODULE SpriteMask -----------------------------
(***************************************************************************)
(* runtime/hx421_mask.c: the mask of an actor, composed of the opaque      *)
(* pixels of its sprites, and the overlap of two placed masks, row by row, *)
(* one machine word to a row.                                              *)
(*                                                                         *)
(* A mask is [w, h, bits], bits being the set of <<x, y>> that are set, the *)
(* padding of a row to whole bytes included.  A word is the set of the     *)
(* columns whose bit is set, 0 the highest, and a shift moves or drops     *)
(* them.                                                                   *)
(***************************************************************************)
EXTENDS Integers

CONSTANTS
  WordBits,  \* columns of a word: 64
  MaskMaxW,  \* HX421_MASK_MAX_W, HX421_MASK_MAX_H
  TileSide   \* pixels of a tile's side: 8

\* A row of a mask that is looked at fits in a word.
ASSUME MaskAssumption ==
  TileSide \in Nat \ {0} /\ WordBits \in Nat /\ MaskMaxW \in 0 .. WordBits

Word == 0 .. WordBits - 1

\* hx421_derive_mask(): the tiles of every part, its rows of tiles stride apart,
\* placed at its offset and cut to the actor's box.  A chr is the set of
\* <<tile, x, y>> whose index is not zero.
DeriveMask(parts, w, h) ==
  LET Stride(p) == IF p.stride # 0 THEN p.stride ELSE p.tw
      Shown(p) == {at \in (0 .. p.tw - 1) \X (0 .. p.th - 1) \X (0 .. TileSide - 1) \X (0 .. TileSide - 1) :
                     <<at[2] * Stride(p) + at[1], at[3], at[4]>> \in p.chr}
      Placed(p) == {<<p.ox + at[1] * TileSide + at[3], p.oy + at[2] * TileSide + at[4]>> :
                      at \in Shown(p)}
  IN  [w |-> w, h |-> h,
       bits |-> (UNION {Placed(parts[i]) : i \in DOMAIN parts})
                  \cap ((0 .. w - 1) \X (0 .. h - 1))]

\* hx421_mask_aabb().
Aabb(a, ax, ay, b, bx, by) ==
  /\ ax + a.w > bx /\ bx + b.w > ax
  /\ ay + a.h > by /\ by + b.h > ay

\* Bug: the padding of a row counts.
RowWordPadded(m, y) == {x \in Word : <<x, y>> \in m.bits}

\* row_word(): a row, without the padding of its last byte.
RowWord(m, y) == {x \in Word : <<x, y>> \in m.bits /\ x < m.w}

\* The shift that brings b's columns to a's.
Shifted(word, dx) == {x + dx : x \in word} \cap Word

\* hx421_mask_overlap(): the rows of the band, from the top or from the bottom;
\* in the first that has both, the leftmost or the rightmost.
MaskOverlap(a, ax, ay, b, bx, by, order) ==
  LET dx == bx - ax
      dy == by - ay
      first == IF dy > 0 THEN dy ELSE 0
      end == IF dy + b.h > a.h THEN a.h ELSE dy + b.h
      Both(y) == RowWord(a, y) \cap Shifted(RowWord(b, y - dy), dx)
      hits == {y \in first .. end - 1 : Both(y) # {}}
      down == order \in {"topleft", "topright"}
      left == order \in {"topleft", "bottomleft"}
      Edge(S, lowest) == CHOOSE n \in S : \A m \in S : IF lowest THEN n <= m ELSE n >= m
      row == Edge(hits, down)
  IN  IF \/ a.w > MaskMaxW \/ b.w > MaskMaxW
         \/ ~Aabb(a, ax, ay, b, bx, by)
         \/ hits = {}
      THEN {}
      ELSE {<<ax + Edge(Both(row), left), ay + row>>}
===============================================================================
