------------------------------ MODULE Metatile ------------------------------
(***************************************************************************)
(* runtime/hx421_metatile.c: a map of metatiles expanded into tilemap      *)
(* entries, by columns out of a transposed copy, by rows, or by rectangle. *)
(*                                                                         *)
(* A layer is [w, h, side, rows, cols, defs, oob, wrap]: rows and cols are *)
(* the two arrays of metatile numbers, cols empty where there is none, and *)
(* defs the array of entries, side * side to a metatile.  Arrays are       *)
(* sequences, indexed from 0 through At.                                   *)
(***************************************************************************)
EXTENDS Integers, Sequences

At(array, index) == array[index + 1]

\* hx421_metatile_layer_valid().
LayerValid(L) ==
  /\ L.rows # <<>> /\ L.defs # <<>> /\ L.w # 0 /\ L.h # 0
  /\ L.side \in {2, 4, 8}

DefCount(L) == Len(L.defs) \div (L.side * L.side)

\* hx421_metatile_transpose().
Transpose(rows, w, h) == [i \in 1 .. w * h |-> At(rows, ((i - 1) % h) * w + ((i - 1) \div h))]

\* mt_lookup(): the shift and the mask floor, so a tile left of the map belongs
\* to the metatile left of it.
Lookup(L, tx, ty, columns) ==
  LET mtx == IF L.wrap THEN (tx \div L.side) % L.w ELSE tx \div L.side
      mty == IF L.wrap THEN (ty \div L.side) % L.h ELSE ty \div L.side
      mt == IF columns /\ L.cols # <<>> THEN At(L.cols, mtx * L.h + mty)
            ELSE At(L.rows, mty * L.w + mtx)
  IN  IF mtx \notin 0 .. L.w - 1 \/ mty \notin 0 .. L.h - 1 THEN L.oob
      ELSE IF mt >= DefCount(L) THEN L.oob
      ELSE At(L.defs, mt * L.side * L.side + (ty % L.side) * L.side + (tx % L.side))

\* hx421_metatile_column(), hx421_metatile_row(), hx421_metatile_rect(): what is
\* written, nothing for a layer that is not valid.
Strip(count, Entry(_)) == [i \in 1 .. count |-> Entry(i - 1)]
ColumnStrip(L, tx, ty, count) ==
  LET Entry(i) == Lookup(L, tx, ty + i, TRUE)
  IN  IF LayerValid(L) THEN Strip(count, Entry) ELSE <<>>
RowStrip(L, ty, tx, count) ==
  LET Entry(i) == Lookup(L, tx + i, ty, FALSE)
  IN  IF LayerValid(L) THEN Strip(count, Entry) ELSE <<>>
Rect(L, tx, ty, w, h) ==
  IF LayerValid(L) THEN [y \in 1 .. h |-> RowStrip(L, ty + y - 1, tx, w)] ELSE <<>>
===============================================================================
