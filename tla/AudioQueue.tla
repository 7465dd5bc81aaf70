----------------------------- MODULE AudioQueue -----------------------------
(***************************************************************************)
(* What a push-fed stream promises: a bounded queue of numbered frames.  A *)
(* batch is queued at once, the tail that does not fit is dropped; a read  *)
(* takes the oldest frames; the end of the stream can be announced.        *)
(***************************************************************************)
EXTENDS Naturals, Sequences

CONSTANTS Capacity, MaxBatch, FrameIds

VARIABLES queue, next, last, eof

queueVars == <<queue, next, last, eof>>

Init == queue = <<>> /\ next = 0 /\ last = <<>> /\ eof = FALSE

\* Frames next, next + 1, ... of the stream, k of them.
Batch(k) == [i \in 1 .. k |-> (next + i - 1) % FrameIds]

\* k of n frames are queued.  Room freed meanwhile may still be unused, so
\* fewer than would fit at this moment can be taken.
Put(n) ==
  /\ ~eof
  /\ \E k \in 0 .. n :
       /\ Len(queue) + k <= Capacity
       /\ queue' = queue \o Batch(k)
  /\ next' = (next + n) % FrameIds
  /\ UNCHANGED <<last, eof>>

Get ==
  \E n \in 0 .. Len(queue) :
    /\ last' = SubSeq(queue, 1, n)
    /\ queue' = SubSeq(queue, n + 1, Len(queue))
    /\ UNCHANGED <<next, eof>>

Announce == eof' = TRUE /\ UNCHANGED <<queue, next, last>>

Restart == queue' = <<>> /\ eof' = FALSE /\ UNCHANGED <<next, last>>

Next == (\E n \in 1 .. MaxBatch : Put(n)) \/ Get \/ Announce \/ Restart

Spec == Init /\ [][Next]_queueVars
=============================================================================
