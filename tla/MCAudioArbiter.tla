--------------------------- MODULE MCAudioArbiter ---------------------------
(* Small instances of AudioArbiter for TLC. *)
EXTENDS AudioArbiter, TLC

CONSTANTS b1, b2

MCBlocks == {b1, b2}
MCVMs == {0, 1}

\* Blocks are interchangeable: only membership of chains and of the map is
\* ever asked.  VMs, slots and tracks are numbers, and the code picks the
\* lowest free slot and track.
MCSymmetry == Permutations(MCBlocks)
=============================================================================
