--------------------------- MODULE MCMediaService ---------------------------
(* A small instance of MediaService for TLC: a film slot with the larger    *)
(* ring that the FPGA's boot leaves running, and a music slot.              *)
EXTENDS MediaService

MCBase == [s \in Slots |-> IF s = 0 THEN 0 ELSE 5]
MCRing == [s \in Slots |-> IF s = 0 THEN 5 ELSE 4]
MCPrime == [s \in Slots |-> IF s = 0 THEN 2 ELSE 0]
MCBoot == {0}

Post(op, s, length, looping, prio, arg) ==
  [op |-> op, slot |-> s, length |-> length, looping |-> looping,
   prio |-> prio, arg |-> arg]

\* A film that ends, a loop with a length prime to its ring's, and a missing
\* asset.
MCCommands ==
  { Post("play", 0, 5, FALSE, 2, 0), Post("play", 0, 3, TRUE, 2, 0),
    Post("play", 1, 3, TRUE, 0, 0), Post("play", 1, 0, TRUE, 0, 0),
    Post("seek", 0, 0, FALSE, 0, 2), Post("seek", 1, 0, FALSE, 0, 1),
    Post("gain", 0, 0, FALSE, 0, 0), Post("stop", 0, 0, FALSE, 0, 0),
    Post("stop all", 0, 0, FALSE, 0, 0) }

\* One loop that is longer than its ring, started and sought.
MCSeekCommands ==
  { Post("play", 0, 6, TRUE, 0, 0), Post("seek", 0, 0, FALSE, 0, 3) }
=============================================================================
