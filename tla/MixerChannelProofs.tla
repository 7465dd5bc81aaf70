------------------------ MODULE MixerChannelProofs -------------------------
(***************************************************************************)
(* Proofs about a mixer channel for rings of any size, any rates, any      *)
(* corrections and any number of calls: the window never looks at a frame  *)
(* that is not about to be played.  At the end, what the mixer's operators *)
(* return for every level, phase and observation.                          *)
(***************************************************************************)
EXTENDS MixerChannel, TLAPS

-----------------------------------------------------------------------------
(* The inductive invariant.                                                *)

Shapes ==
  /\ interp \in Interps /\ loop \in BOOLEAN /\ primed \in BOOLEAN
  /\ queue \in Seq(Nat) /\ Len(queue) <= Capacity
  /\ phase \in Nat /\ step \in Nat /\ written \in Nat
  /\ base \in Rates \cup {0} /\ (base = 0 => ~sync)

\* A channel that does not resample takes frames off the ring past the window,
\* so it must not have one; every change of the rate empties it.
NoPlainWindow == base = 0 /\ ~loop => ~primed

IInv == Shapes /\ NoPlainWindow /\ WindowInStep

-----------------------------------------------------------------------------
(* Lemmas about the ring and the window.                                   *)

LEMMA TapFacts ==
  /\ TapCount \in Nat /\ Current \in Nat /\ Current < TapCount
<1> QED
  BY DEF TapCount, Current

\* A frame that can be looked at keeps its place when others are queued.
LEMMA PeekAppended ==
  ASSUME NEW q \in Seq(Nat), NEW r \in Seq(Nat), NEW i \in Nat, PeekAt(q, i) # 0
  PROVE  PeekAt(q \o r, i) = PeekAt(q, i)
<1>1. i < Len(q)
  BY DEF PeekAt
<1>2. i < Len(q \o r) /\ (q \o r)[i + 1] = q[i + 1]
  BY <1>1
<1> QED
  BY <1>1, <1>2 DEF PeekAt

\* A frame that can be looked at m further on is there when m have left.
LEMMA PeekAdvanced ==
  ASSUME NEW q \in Seq(Nat), NEW m \in Nat, NEW i \in Nat, PeekAt(q, i + m) # 0
  PROVE  PeekAt(SubSeq(q, Smaller(m, Len(q)) + 1, Len(q)), i) = PeekAt(q, i + m)
<1>1. i + m < Len(q) /\ PeekAt(q, i + m) = q[i + m + 1]
  BY DEF PeekAt
<1>2. Smaller(m, Len(q)) = m
  BY <1>1 DEF Smaller
<1> DEFINE s == SubSeq(q, m + 1, Len(q))
<1>3. Len(s) = Len(q) - m /\ s[i + 1] = q[m + 1 + i]
  BY <1>1
<1> QED
  BY <1>1, <1>2, <1>3 DEF PeekAt

LEMMA DrainedQueue ==
  ASSUME NEW q \in Seq(Nat), NEW m \in Nat
  PROVE  /\ SubSeq(q, Smaller(m, Len(q)) + 1, Len(q)) \in Seq(Nat)
         /\ Len(SubSeq(q, Smaller(m, Len(q)) + 1, Len(q))) <= Len(q)
<1>1. Smaller(m, Len(q)) \in 0 .. Len(q)
  BY DEF Smaller
<1> QED
  BY <1>1

\* The queue a call finds is in the window it makes.
InStep(window, q) ==
  \A t \in Current .. TapCount - 1 : window[t] # 0 => window[t] = PeekAt(q, t - Current)

LEMMA PrimedInStep == ASSUME ~loop PROVE InStep(Primed, queue)
<1> SUFFICES ASSUME NEW t \in Current .. TapCount - 1
             PROVE  Primed[t] = PeekAt(queue, t - Current)
  BY DEF InStep
<1>1. t \in TapRange /\ ~(t < Current)
  BY TapFacts DEF TapRange
<1> QED
  BY <1>1 DEF Primed, Loaded

LEMMA AdvancedInStep ==
  ASSUME ~loop, queue \in Seq(Nat), NEW window, InStep(window, queue), NEW n \in Nat
  PROVE  InStep(Advanced(window, n).taps, Advanced(window, n).queue)
<1> DEFINE m == Smaller(n, TapCount)
           q == SubSeq(queue, Smaller(m, Len(queue)) + 1, Len(queue))
           w == [t \in TapRange |-> IF t < TapCount - m THEN window[t + m]
                                    ELSE PeekAt(q, t - Current)]
<1>1. Advanced(window, n).taps = w /\ Advanced(window, n).queue = q
  BY DEF Advanced, Loaded
<1>2. m \in Nat
  BY TapFacts DEF Smaller
<1>3. ASSUME NEW t \in Current .. TapCount - 1, w[t] # 0
      PROVE  w[t] = PeekAt(q, t - Current)
  <2>1. t \in TapRange /\ t - Current \in Nat
    BY TapFacts DEF TapRange
  <2>2. CASE t < TapCount - m
    <3>1. w[t] = window[t + m] /\ t + m \in Current .. TapCount - 1
      BY <1>2, <2>1, <2>2, TapFacts
    <3>2. w[t] = PeekAt(queue, (t + m) - Current)
      BY <1>3, <3>1 DEF InStep
    <3>3. (t + m) - Current = (t - Current) + m
      BY <1>2, TapFacts
    <3> HIDE DEF w, m
    <3>4. PeekAt(queue, (t - Current) + m) # 0
      BY <1>3, <3>2, <3>3
    <3> QED
      BY <1>2, <2>1, <3>2, <3>3, <3>4, PeekAdvanced
  <2>3. CASE ~(t < TapCount - m)
    BY <2>1, <2>3
  <2> QED
    BY <2>2, <2>3
<1> HIDE DEF w, q
<1> QED
  BY <1>1, <1>3 DEF InStep

LEMMA AdvancedQueue ==
  ASSUME Shapes, NEW window, NEW n \in Nat
  PROVE  /\ Advanced(window, n).queue \in Seq(Nat)
         /\ Len(Advanced(window, n).queue) <= Capacity
<1> DEFINE m == Smaller(n, TapCount)
<1>1. m \in Nat
  BY TapFacts DEF Smaller
<1> HIDE DEF m
<1>2. Len(SubSeq(queue, Smaller(m, Len(queue)) + 1, Len(queue))) \in Nat
  BY <1>1, DrainedQueue DEF Shapes
<1>3. Len(queue) \in Nat /\ Capacity \in Nat
  BY ChannelAssumption DEF Shapes
<1>4. Advanced(window, n).queue
        = IF loop THEN queue ELSE SubSeq(queue, Smaller(m, Len(queue)) + 1, Len(queue))
  BY DEF Advanced, m
<1> QED
  BY <1>1, <1>2, <1>3, <1>4, DrainedQueue DEF Shapes

-----------------------------------------------------------------------------
(* Every call and every frame keeps the invariant.                         *)

LEMMA InitIInv == Init => IInv
<1> SUFFICES ASSUME Init PROVE IInv
  OBVIOUS
<1>1. Shapes
  <2>1. queue \in Seq(Nat) /\ Len(queue) = 0
    BY DEF Init
  <2>2. base \in Nat /\ Capacity \in Nat
    BY ChannelAssumption DEF Init
  <2>3. interp \in Interps /\ loop \in BOOLEAN /\ primed = FALSE /\ phase = 0 /\ step = base
        /\ written = 0 /\ base \in Rates \cup {0} /\ (base = 0 => ~sync)
    BY DEF Init
  <2>4. Len(queue) <= Capacity
    BY <2>1, <2>2
  <2>5. {phase, step, written} \subseteq Nat
    BY <2>2, <2>3
  <2>6. primed \in BOOLEAN
    BY <2>3
  <2> QED
    BY <2>1, <2>3, <2>4, <2>5, <2>6, Zenon DEF Shapes
<1> QED
  BY <1>1 DEF Init, IInv, NoPlainWindow, WindowInStep

\* The service leaves a playing channel the room for what it writes.
LEMMA WriteIInv == ASSUME IInv, NEW n \in 1 .. MaxFrames, Write(n) PROVE IInv'
<1> DEFINE new == [i \in 1 .. n |-> written + i]
           all == queue \o new
<1>1. Shapes /\ NoPlainWindow /\ WindowInStep
  BY DEF IInv
<1>2. n \in Nat /\ Capacity \in Nat \ {0}
  BY ChannelAssumption
<1>3. new \in Seq(Nat) /\ Len(new) = n
  BY <1>1, <1>2 DEF Shapes
<1>4. all \in Seq(Nat) /\ Len(all) = Len(queue) + n
  BY <1>1, <1>3 DEF Shapes
<1>5. /\ queue' = SubSeq(all, Len(all) - Smaller(Len(all), Capacity) + 1, Len(all))
      /\ written' = written + n /\ UNCHANGED <<config, taps, primed, phase, rate>>
      /\ (primed => n <= Capacity - Len(queue))
  BY DEF Write
<1> HIDE DEF new, all
<1>6. queue' \in Seq(Nat) /\ Len(queue') <= Capacity
  BY <1>2, <1>4, <1>5 DEF Smaller
<1>7. Shapes' /\ NoPlainWindow'
  BY <1>1, <1>2, <1>5, <1>6 DEF Shapes, NoPlainWindow, config, rate
<1>8. WindowInStep'
  <2> SUFFICES ASSUME primed, ~loop, NEW t \in Current .. TapCount - 1, taps[t] # 0
               PROVE  taps[t] = PeekAt(queue', t - Current)
    BY <1>5 DEF WindowInStep, TapCount, Current, config
  <2>1. Len(all) <= Capacity
    BY <1>1, <1>2, <1>4, <1>5 DEF Shapes
  <2>2. queue' = SubSeq(all, 1, Len(all))
    BY <1>2, <1>4, <1>5, <2>1 DEF Smaller
  <2>3. queue' = all
    BY <1>4, <2>2
  <2>4. taps[t] = PeekAt(queue, t - Current)
    BY <1>1 DEF WindowInStep
  <2>5. t - Current \in Nat
    BY TapFacts
  <2> QED
    BY <1>1, <1>3, <2>3, <2>4, <2>5, PeekAppended DEF Shapes, all
<1> QED
  BY <1>7, <1>8 DEF IInv

LEMMA RenderIInv == ASSUME IInv, Render PROVE IInv'
<1>1. Shapes /\ NoPlainWindow /\ WindowInStep
  BY DEF IInv
<1>2. CASE RenderPlain
  <2>1. /\ ~primed /\ queue # <<>> /\ queue' = Tail(queue)
        /\ UNCHANGED <<config, taps, primed, phase, rate, written>>
    BY <1>1, <1>2 DEF RenderPlain, NoPlainWindow
  <2>2. queue' \in Seq(Nat) /\ Len(queue') <= Capacity
    BY <1>1, <2>1, ChannelAssumption DEF Shapes
  <2> QED
    BY <1>1, <2>1, <2>2 DEF IInv, Shapes, NoPlainWindow, WindowInStep, config, rate
<1>3. CASE RenderWindow
  <2> DEFINE window == IF primed THEN taps ELSE Primed
             next == phase + (IF base # 0 THEN step ELSE Unit)
             n == next \div Unit
  <2>1. /\ UNCHANGED <<config, rate, written>> /\ primed' = TRUE
        /\ (base # 0 \/ loop)
        /\ phase' = next % Unit
    BY <1>3 DEF RenderWindow
  <2>2. Unit \in Nat \ {0}
    BY ChannelAssumption
  <2>3. next \in Nat
    BY <1>1, <2>2 DEF Shapes
  <2> HIDE DEF next
  <2>4. n \in Nat /\ phase' \in Nat
    BY <2>1, <2>2, <2>3
  <2>5. /\ (n > 0 => taps' = Advanced(window, n).taps /\ queue' = Advanced(window, n).queue)
        /\ (~(n > 0) => taps' = window /\ queue' = queue)
    BY <1>3 DEF RenderWindow, next
  <2> HIDE DEF n
  <2>6. queue' \in Seq(Nat) /\ Len(queue') <= Capacity
    BY <1>1, <2>4, <2>5, AdvancedQueue DEF Shapes
  <2>7. ~loop => InStep(window, queue)
    BY <1>1, PrimedInStep DEF WindowInStep, InStep
  <2> HIDE DEF window
  <2>8. ~loop => InStep(taps', queue')
    BY <1>1, <2>4, <2>5, <2>7, AdvancedInStep DEF Shapes
  <2>9. Shapes' /\ NoPlainWindow'
    BY <1>1, <2>1, <2>4, <2>6 DEF Shapes, NoPlainWindow, config, rate
  <2>10. WindowInStep'
    BY <2>1, <2>8 DEF WindowInStep, InStep, TapCount, Current, config
  <2> QED
    BY <2>9, <2>10 DEF IInv
<1> QED
  BY <1>2, <1>3 DEF Render

LEMMA CallIInv ==
  ASSUME IInv,
         \/ Start \/ Stop \/ Reset
         \/ \E r \in Rates : SetRate(r)
         \/ \E d \in Trims : Correct(d)
  PROVE  IInv'
<1>1. Shapes /\ NoPlainWindow /\ WindowInStep
  BY DEF IInv
<1>2. CASE Start
  BY <1>1, <1>2 DEF Start, IInv, Shapes, NoPlainWindow, WindowInStep, config, rate
<1>3. CASE Stop
  BY <1>1, <1>3 DEF Stop, IInv, Shapes, NoPlainWindow, WindowInStep, config, rate, PeekAt,
                    TapCount, Current
<1>4. CASE Reset
  <2>1. queue' \in Seq(Nat) /\ Len(queue') <= Capacity
    BY <1>4, ChannelAssumption DEF Reset
  <2> QED
    BY <1>1, <1>4, <2>1 DEF Reset, IInv, Shapes, NoPlainWindow, WindowInStep, config, rate
<1>5. ASSUME NEW r \in Rates, SetRate(r) PROVE IInv'
  <2>1. base' \in Rates \cup {0} /\ step' \in Nat /\ (base' = 0 => ~sync)
    BY <1>5, ChannelAssumption DEF SetRate
  <2>2. UNCHANGED <<config, queue, written>> /\ primed' = FALSE /\ phase' = 0
    BY <1>5 DEF SetRate
  <2> QED
    BY <1>1, <2>1, <2>2 DEF IInv, Shapes, NoPlainWindow, WindowInStep, config
<1>6. ASSUME NEW d \in Trims, Correct(d) PROVE IInv'
  <2>1. base \in Rates
    BY <1>1, <1>6 DEF Correct, Shapes
  <2>2. step' \in Nat
    <3>1. base + d > 0 /\ base + d \in Int
      BY <2>1, ChannelAssumption
    <3> QED
      BY <1>6, <3>1 DEF Correct
  <2>3. UNCHANGED <<config, queue, taps, primed, phase, base, written>>
    BY <1>6 DEF Correct
  <2> QED
    BY <1>1, <2>2, <2>3
    DEF IInv, Shapes, NoPlainWindow, WindowInStep, config, PeekAt, TapCount, Current
<1> QED
  BY <1>2, <1>3, <1>4, <1>5, <1>6

LEMMA NextIInv == ASSUME IInv, [Next]_vars PROVE IInv'
<1>1. CASE Next
  BY <1>1, WriteIInv, RenderIInv, CallIInv DEF Next
<1>2. CASE UNCHANGED vars
  BY <1>2
  DEF vars, IInv, Shapes, NoPlainWindow, WindowInStep, PeekAt, TapCount, Current
<1> QED
  BY <1>1, <1>2

-----------------------------------------------------------------------------
(* The theorem.                                                            *)

\* The interpolator's window and the ring never come apart, whatever the order
\* of writes, frames, starts, resets and changes of rate
\* (advance_tap_window and prime_tap_window of audio_mixer.c).
THEOREM WindowStaysInStep == Spec => []WindowInStep
<1>1. Init => IInv
  BY InitIInv
<1>2. IInv /\ [Next]_vars => IInv'
  BY NextIInv
<1>3. IInv => WindowInStep
  BY DEF IInv
<1> QED
  BY <1>1, <1>2, <1>3, PTL DEF Spec

-----------------------------------------------------------------------------
(* Time.                                                                   *)

\* No source is faster than twice the output, which the shorter window can pass.
WithinWindow == \A r \in Rates, d \in Trims : r + d <= 2 * Unit

Steady == phase < Unit /\ (base # 0 => step <= 2 * Unit)

LEMMA SteadyStep ==
  ASSUME WithinWindow, IInv, Steady, [Next]_vars PROVE Steady'
<1>1. Shapes /\ Unit \in Nat \ {0}
  BY ChannelAssumption DEF IInv
<1>2. \A r \in Rates : r <= 2 * Unit /\ r \in Nat
  BY <1>1, ChannelAssumption DEF WithinWindow
<1>3. ASSUME UNCHANGED <<phase, base, step>> PROVE Steady'
  BY <1>3 DEF Steady
<1>4. CASE Start \/ Stop \/ Reset
  BY <1>1, <1>4 DEF Start, Stop, Reset, rate, Steady
<1>5. ASSUME NEW r \in Rates, SetRate(r) PROVE Steady'
  <2>1. phase' = 0 /\ step' = base' /\ base' \in Rates \cup {0}
    BY <1>5 DEF SetRate
  <2> QED
    BY <1>1, <1>2, <2>1 DEF Steady
<1>6. ASSUME NEW d \in Trims, Correct(d) PROVE Steady'
  <2>1. base \in Rates /\ phase' = phase /\ base' = base /\ step' = base + d
    BY <1>1, <1>6 DEF Correct, Shapes
  <2> QED
    BY <2>1 DEF Steady, WithinWindow
<1>7. CASE RenderWindow
  <2> DEFINE next == phase + (IF base # 0 THEN step ELSE Unit)
  <2>1. phase' = next % Unit /\ base' = base /\ step' = step
    BY <1>7 DEF RenderWindow, rate
  <2>2. next \in Nat
    BY <1>1 DEF Shapes
  <2> HIDE DEF next
  <2>3. phase' < Unit
    BY <1>1, <2>1, <2>2
  <2> QED
    BY <2>1, <2>3 DEF Steady
<1>8. CASE RenderPlain \/ (\E n \in 1 .. MaxFrames : Write(n)) \/ UNCHANGED vars
  BY <1>3, <1>8 DEF RenderPlain, Write, rate, vars
<1> QED
  BY <1>4, <1>5, <1>6, <1>7, <1>8 DEF Next, Render

LEMMA RenderKeepsTime ==
  ASSUME WithinWindow, IInv, Steady, RenderWindow, ~loop,
         Len(queue) * Unit >= phase + step
  PROVE  (Len(queue) - Len(queue')) * Unit = phase + step - phase'
<1> DEFINE next == phase + step
           n == next \div Unit
           window == IF primed THEN taps ELSE Primed
<1>1. Shapes /\ Unit \in Nat \ {0} /\ base # 0
  BY ChannelAssumption DEF IInv, RenderWindow
<1>2. phase \in Nat /\ step \in Nat /\ queue \in Seq(Nat)
  BY <1>1 DEF Shapes
<1>3. phase' = next % Unit
  BY <1>1 DEF RenderWindow
<1>4. /\ (n > 0 => queue' = Advanced(window, n).queue)
      /\ (~(n > 0) => queue' = queue)
  BY <1>1 DEF RenderWindow
<1>5. next < 3 * Unit /\ next <= Len(queue) * Unit /\ next \in Nat /\ Len(queue) \in Nat
  BY <1>1, <1>2 DEF Steady
<1> HIDE DEF next, window
<1>6. n \in Nat /\ n * Unit = next - (next % Unit) /\ next % Unit \in 0 .. Unit - 1
  BY <1>1, <1>5
<1>7. n * Unit < 3 * Unit /\ n * Unit <= Len(queue) * Unit
  BY <1>1, <1>5, <1>6
<1>8. n < 3 /\ n <= Len(queue)
  BY <1>1, <1>5, <1>6, <1>7
<1> HIDE DEF n
<1>9. Len(queue') = Len(queue) - n
  <2>1. CASE n > 0
    <3>1. Smaller(n, TapCount) = n /\ Smaller(n, Len(queue)) = n
      BY <1>5, <1>6, <1>8 DEF Smaller, TapCount
    <3>2. queue' = SubSeq(queue, n + 1, Len(queue))
      BY <1>4, <2>1, <3>1 DEF Advanced
    <3> QED
      BY <1>2, <1>6, <1>8, <2>1, <3>2
  <2>2. CASE ~(n > 0)
    BY <1>4, <1>5, <1>6, <2>2
  <2> QED
    BY <2>1, <2>2
<1>10. Len(queue) - Len(queue') = n
  BY <1>5, <1>6, <1>9
<1>11. next = phase + step
  BY DEF next
<1>12. (Len(queue) - Len(queue')) * Unit = next - phase'
  BY <1>3, <1>6, <1>10
<1>13. phase' \in Nat
  BY <1>3, <1>6
<1> QED
  BY <1>2, <1>11, <1>12, <1>13

\* As long as no source is faster than twice the output, the ring gives up
\* exactly the frames the phase moves past, and none is heard twice or left out
\* (mixer_channel_next and advance_tap_window of audio_mixer.c; beyond that the
\* window passes no more than its taps and the channel plays slow).
THEOREM TimeIsKept == ASSUME WithinWindow PROVE Spec => KeepsTime
<1>1. Init => IInv /\ Steady
  <2>1. ASSUME Init PROVE phase < Unit /\ (base # 0 => step <= 2 * Unit)
    <3>1. Unit \in Nat \ {0} /\ phase = 0 /\ step = base /\ base \in Rates \cup {0}
      BY <2>1, ChannelAssumption DEF Init
    <3>2. \A r \in Rates : r <= 2 * Unit
      BY <3>1, ChannelAssumption DEF WithinWindow
    <3> QED
      BY <3>1, <3>2
  <2> QED
    BY <2>1, InitIInv DEF Steady
<1>2. (IInv /\ Steady) /\ [Next]_vars => (IInv /\ Steady)'
  BY NextIInv, SteadyStep
<1>3. (IInv /\ Steady) /\ [Next]_vars
        => [(RenderWindow /\ ~loop /\ Len(queue) * Unit >= phase + step) =>
              (Len(queue) - Len(queue')) * Unit = phase + step - phase']_vars
  BY RenderKeepsTime
<1> QED
  BY <1>1, <1>2, <1>3, PTL DEF Spec, KeepsTime

-----------------------------------------------------------------------------
(* What the ring holds.                                                    *)

\* Frames are queued as they were written: the last one queued is the last one
\* written, and none between is missing or doubled.
QueueInOrder ==
  /\ Len(queue) <= written
  /\ \A i \in 1 .. Len(queue) : queue[i] = written - Len(queue) + i

\* What is left when frames have been taken off the front is in order.
LEMMA FrontTaken ==
  ASSUME NEW q \in Seq(Nat), NEW w \in Nat, NEW m \in 0 .. Len(q),
         Len(q) <= w, \A i \in 1 .. Len(q) : q[i] = w - Len(q) + i
  PROVE  LET s == SubSeq(q, m + 1, Len(q))
         IN  /\ Len(s) <= w
             /\ \A i \in 1 .. Len(s) : s[i] = w - Len(s) + i
<1> DEFINE s == SubSeq(q, m + 1, Len(q))
<1>1. Len(s) = Len(q) - m /\ \A i \in 1 .. Len(s) : s[i] = q[m + i]
  OBVIOUS
<1> HIDE DEF s
<1>2. ASSUME NEW i \in 1 .. Len(s) PROVE s[i] = w - Len(s) + i
  <2>1. m + i \in 1 .. Len(q)
    BY <1>1
  <2>2. q[m + i] = w - Len(q) + (m + i)
    BY <2>1
  <2>3. s[i] = q[m + i]
    BY <1>1
  <2> QED
    BY <1>1, <2>2, <2>3
<1>3. Len(s) <= w
  BY <1>1
<1> QED
  BY <1>2, <1>3 DEF s

LEMMA WriteInOrder ==
  ASSUME IInv, QueueInOrder, NEW n \in 1 .. MaxFrames, Write(n) PROVE QueueInOrder'
<1> DEFINE new == [i \in 1 .. n |-> written + i]
           all == queue \o new
           m == Len(all) - Smaller(Len(all), Capacity)
<1>1. queue \in Seq(Nat) /\ written \in Nat /\ n \in Nat /\ Capacity \in Nat \ {0}
  BY ChannelAssumption DEF IInv, Shapes
<1>2. new \in Seq(Nat) /\ Len(new) = n /\ \A i \in 1 .. n : new[i] = written + i
  BY <1>1
<1> HIDE DEF new
<1>3. /\ all \in Seq(Nat) /\ Len(all) = Len(queue) + n
      /\ \A i \in 1 .. Len(queue) : all[i] = queue[i]
      /\ \A i \in Len(queue) + 1 .. Len(queue) + n : all[i] = new[i - Len(queue)]
  BY <1>1, <1>2
<1> HIDE DEF all
<1>4. ASSUME NEW i \in 1 .. Len(all) PROVE all[i] = (written + n) - Len(all) + i
  <2>1. CASE i <= Len(queue)
    <3>1. i \in 1 .. Len(queue) /\ queue[i] = written - Len(queue) + i
      BY <1>1, <2>1 DEF QueueInOrder
    <3> QED
      BY <1>1, <1>3, <3>1
  <2>2. CASE i > Len(queue)
    <3>1. i \in Len(queue) + 1 .. Len(queue) + n /\ i - Len(queue) \in 1 .. n
      BY <1>1, <1>3, <2>2
    <3>2. all[i] = written + (i - Len(queue))
      BY <1>2, <1>3, <3>1
    <3> QED
      BY <1>1, <1>3, <3>1, <3>2
  <2> QED
    BY <1>1, <2>1, <2>2
<1>5. Len(all) <= written + n /\ written + n \in Nat
  BY <1>1, <1>3 DEF QueueInOrder
<1>6. m \in 0 .. Len(all)
  BY <1>1, <1>3 DEF Smaller
<1>7. queue' = SubSeq(all, m + 1, Len(all)) /\ written' = written + n
  BY DEF Write, all, new
<1> HIDE DEF m
<1> QED
  BY <1>3, <1>4, <1>5, <1>6, <1>7, FrontTaken DEF QueueInOrder

LEMMA RenderInOrder ==
  ASSUME IInv, QueueInOrder, Render PROVE QueueInOrder'
<1>1. queue \in Seq(Nat) /\ written \in Nat
  BY DEF IInv, Shapes
<1>2. ASSUME NEW m \in 0 .. Len(queue), queue' = SubSeq(queue, m + 1, Len(queue)),
             written' = written
      PROVE  QueueInOrder'
  BY <1>1, <1>2, FrontTaken DEF QueueInOrder
<1>3. CASE RenderPlain
  <2>1. queue # <<>> /\ queue' = Tail(queue) /\ written' = written
    BY <1>3 DEF RenderPlain
  <2>2. 1 \in 0 .. Len(queue) /\ queue' = SubSeq(queue, 1 + 1, Len(queue))
    BY <1>1, <2>1
  <2> QED
    BY <1>2, <2>1, <2>2
<1>4. CASE RenderWindow
  <2> DEFINE window == IF primed THEN taps ELSE Primed
             next == phase + (IF base # 0 THEN step ELSE Unit)
             n == next \div Unit
  <2>1. /\ written' = written
        /\ (n > 0 => queue' = Advanced(window, n).queue)
        /\ (~(n > 0) => queue' = queue)
    BY <1>4 DEF RenderWindow
  <2>2. next \in Nat /\ Unit \in Nat \ {0}
    BY ChannelAssumption DEF IInv, Shapes
  <2> HIDE DEF next, window
  <2>3. n \in Nat
    BY <2>2
  <2> HIDE DEF n
  <2>4. CASE ~(n > 0) \/ loop
    <3>1. queue' = queue
      BY <2>1, <2>4 DEF Advanced
    <3> QED
      BY <2>1, <3>1 DEF QueueInOrder
  <2>5. CASE n > 0 /\ ~loop
    <3> DEFINE m == Smaller(Smaller(n, TapCount), Len(queue))
    <3>1. queue' = SubSeq(queue, m + 1, Len(queue))
      BY <2>1, <2>5 DEF Advanced
    <3>2. m \in 0 .. Len(queue)
      BY <1>1, <2>3, <2>5, TapFacts DEF Smaller
    <3> QED
      BY <1>2, <2>1, <3>1, <3>2
  <2> QED
    BY <2>3, <2>4, <2>5
<1> QED
  BY <1>3, <1>4 DEF Render

\* What a channel has yet to play are the last frames it was written, in order and
\* each once: an overwrite takes the oldest, a frame played is the first of them
\* (rb_push, rb_pop and advance_tap_window of audio_mixer.c).
THEOREM RingIsInOrder == Spec => []QueueInOrder
<1>1. Init => QueueInOrder
  BY DEF Init, QueueInOrder
<1>2. IInv /\ QueueInOrder /\ [Next]_vars => QueueInOrder'
  <2> SUFFICES ASSUME IInv, QueueInOrder, [Next]_vars PROVE QueueInOrder'
    OBVIOUS
  <2>1. CASE UNCHANGED <<queue, written>>
    BY <2>1 DEF QueueInOrder
  <2>2. CASE Start \/ Stop \/ (\E r \in Rates : SetRate(r)) \/ (\E d \in Trims : Correct(d))
    BY <2>1, <2>2 DEF Start, Stop, SetRate, Correct
  <2>3. CASE Reset
    <3>1. queue' = <<>> /\ written' = written /\ written \in Nat
      BY <2>3 DEF Reset, IInv, Shapes
    <3> QED
      BY <3>1 DEF QueueInOrder
  <2>4. CASE UNCHANGED vars
    BY <2>1, <2>4 DEF vars
  <2> QED
    BY <2>2, <2>3, <2>4, WriteInOrder, RenderInOrder DEF Next
<1>3. Spec => []IInv
  <2>1. IInv /\ [Next]_vars => IInv'
    BY NextIInv
  <2> QED
    BY <2>1, InitIInv, PTL DEF Spec
<1> QED
  BY <1>1, <1>2, <1>3, PTL DEF Spec

-----------------------------------------------------------------------------
(* The arithmetic of a channel (MixerMath): levels, taps and the filter of *)
(* the clock.                                                              *)

CONSTANTS AccOne, Smoothing, SmoothOne, MaxAcc, TickRate, FrameRate

Math == INSTANCE MixerMath

\* The numbers from one to another, in either order.
Span(y, z) == y .. z \cup z .. y

\* A quotient that is rounded down lies where the quotient lies.
LEMMA FloorBetween ==
  ASSUME NEW n \in Int, NEW d \in Nat \ {0}, NEW low \in Int, NEW high \in Int,
         low * d <= n, n <= high * d
  PROVE  n \div d \in low .. high
<1>1. n = d * (n \div d) + (n % d) /\ n \div d \in Int /\ n % d \in 0 .. d - 1
  OBVIOUS
<1> DEFINE q == n \div d
           r == n % d
<1> HIDE DEF q, r
<1>2. n = d * q + r /\ q \in Int /\ r \in 0 .. d - 1
  BY <1>1 DEF q, r
<1>3. low <= q
  <2> SUFFICES ASSUME q + 1 <= low PROVE FALSE
    BY <1>2
  <2>1. (q + 1) * d <= low * d
    BY <1>2
  <2>2. (q + 1) * d = d * q + d
    BY <1>2
  <2> QED
    BY <1>2, <2>1, <2>2
<1>4. q <= high
  <2> SUFFICES ASSUME high + 1 <= q PROVE FALSE
    BY <1>2
  <2>1. (high + 1) * d <= q * d
    BY <1>2
  <2>2. (high + 1) * d = high * d + d
    BY <1>2
  <2>3. q * d = d * q
    BY <1>2
  <2> QED
    BY <1>2, <2>1, <2>2, <2>3
<1> QED
  BY <1>2, <1>3, <1>4 DEF q

\* A fraction of a number that is rounded down lies between it and zero.
LEMMA PartBetween ==
  ASSUME NEW v \in Int, NEW d \in Nat \ {0}, NEW f \in 0 .. d
  PROVE  /\ (v * f) \div d \in Span(0, v)
         /\ (v * f) \div d \in Int
<1>1. CASE v >= 0
  <2>1. 0 <= v * f /\ v * f <= v * d /\ v * f \in Int
    BY <1>1
  <2>2. (v * f) \div d \in 0 .. v
    BY <2>1, FloorBetween
  <2> QED
    BY <2>2 DEF Span
<1>2. CASE v < 0
  <2>1. v * f <= 0 /\ v * d <= v * f /\ v * f \in Int
    <3>1. (-v) * f \in Nat /\ (-v) * f <= (-v) * d
      BY <1>2
    <3>2. v * f = -((-v) * f) /\ v * d = -((-v) * d)
      OBVIOUS
    <3> QED
      BY <3>1, <3>2
  <2>2. (v * f) \div d \in v .. 0
    BY <2>1, FloorBetween
  <2> QED
    BY <2>2 DEF Span
<1> QED
  BY <1>1, <1>2

\* What a sample, a gain and a pan may be.
Sample == {n \in Int : -32768 <= n /\ n <= 32767}
Gain == 0 .. Math!Q15One
Pan == {n \in Int : -Math!Q15One <= n /\ n <= Math!Q15One}
Phase == 0 .. 65535

\* No gain makes a sample louder or turns it over (q_sat_mul of audio_mixer.c).
LEMMA GainBetween ==
  ASSUME NEW v \in Sample, NEW gain \in Gain
  PROVE  /\ Math!Gained(v, gain) \in Span(0, v)
         /\ Math!Gained(v, gain) \in Sample
<1> DEFINE d == 32768
           p == (v * gain) \div d
<1>1. gain \in 0 .. d /\ v \in Int /\ d \in Nat \ {0}
  BY DEF Math!Q15One, Gain, Sample
<1>2. Math!Gained(v, gain) = IF gain = Math!Q15One THEN v ELSE Math!Sat16(p)
  BY DEF Math!Gained, Math!QSatMul
<1> HIDE DEF d
<1>3. p \in Span(0, v) /\ p \in Int
  BY <1>1, PartBetween
<1> HIDE DEF p
<1>4. p \in Sample
  BY <1>1, <1>3 DEF Span, Sample
<1>5. Math!Sat16(p) = p
  BY <1>4 DEF Math!Sat16, Math!Clamped, Math!Least, Math!Most, Sample
<1>6. Math!Gained(v, gain) \in {v, p}
  BY <1>2, <1>5
<1>7. v \in Span(0, v)
  BY <1>1 DEF Span
<1> QED
  BY <1>3, <1>4, <1>6, <1>7

\* The gains a pan makes are gains.
LEMMA PanIsGains ==
  ASSUME NEW pan \in Pan, NEW side \in {1, 2}
  PROVE  Math!PanGains(pan)[side] \in Gain
<1> DEFINE one == Math!Q15One
<1>1. one \in Nat
  BY DEF Math!Q15One
<1>2. /\ one - pan \in Int /\ one + pan \in Int
      /\ -one <= pan /\ pan <= one /\ pan \in Int
  BY <1>1 DEF Pan
<1>3. CASE pan >= 0
  <2>1. Math!PanGains(pan) = <<one - pan, one>>
    BY <1>3 DEF Math!PanGains
  <2> HIDE DEF one
  <2>2. {one - pan, one} \subseteq 0 .. one
    BY <1>1, <1>2, <1>3
  <2>3. Math!PanGains(pan)[side] \in {one - pan, one}
    BY <2>1
  <2> QED
    BY <2>2, <2>3 DEF Gain, one
<1>4. CASE ~(pan >= 0)
  <2>1. Math!PanGains(pan) = <<one, one + pan>>
    BY <1>4 DEF Math!PanGains
  <2> HIDE DEF one
  <2>2. {one, one + pan} \subseteq 0 .. one
    BY <1>1, <1>2, <1>4
  <2>3. Math!PanGains(pan)[side] \in {one, one + pan}
    BY <2>1
  <2> QED
    BY <2>2, <2>3 DEF Gain, one
<1> QED
  BY <1>3, <1>4

LEMMA SpanOfSpan ==
  ASSUME NEW v \in Int, NEW a \in Span(0, v), NEW b \in Span(0, a)
  PROVE  b \in Span(0, v)
BY DEF Span

\* No volume and no pan makes a channel's part of a side louder than its sample or
\* turns it over, so silence stays silent and a quiet mix does not saturate
\* (mixer_render and compute_pan_gains of audio_mixer.c).
THEOREM PartsNeverAmplify ==
  ASSUME NEW c, NEW side \in {1, 2}, c.volume \in Gain, c.pan \in Pan,
         Math!FrameQ15(c.kind, c.samples)[side] \in Sample
  PROVE  Math!Part(c, side) \in Span(0, Math!FrameQ15(c.kind, c.samples)[side])
<1> DEFINE v == Math!FrameQ15(c.kind, c.samples)[side]
           loud == Math!Gained(v, c.volume)
           gain == Math!PanGains(c.pan)[side]
           part == Math!Gained(loud, gain)
<1>1. Math!Part(c, side) = part \/ Math!Part(c, side) = 0
  BY DEF Math!Part
<1>2. gain \in Gain /\ v \in Sample
  BY PanIsGains
<1> HIDE DEF v, gain
<1>3. loud \in Span(0, v) /\ loud \in Sample
  BY <1>2, GainBetween
<1> HIDE DEF loud
<1>4. part \in Span(0, loud)
  BY <1>2, <1>3, GainBetween
<1> HIDE DEF part
<1>5. v \in Int
  BY <1>2 DEF Sample
<1>6. part \in Span(0, v)
  BY <1>3, <1>4, <1>5, SpanOfSpan
<1>7. 0 \in Span(0, v)
  BY <1>5 DEF Span
<1>8. Math!Part(c, side) \in Span(0, v)
  BY <1>1, <1>6, <1>7
<1> QED
  BY <1>8 DEF v

\* A fraction of the way from one number to another lies between them.
LEMMA WayBetween ==
  ASSUME NEW a \in Int, NEW b \in Int, NEW d \in Nat \ {0}, NEW f \in 0 .. d
  PROVE  a + ((b - a) * f) \div d \in Span(a, b)
<1> DEFINE wide == b - a
           part == (wide * f) \div d
<1>1. wide \in Int
  OBVIOUS
<1> HIDE DEF wide
<1>2. part \in Span(0, wide) /\ part \in Int
  BY <1>1, PartBetween
<1> HIDE DEF part
<1>3. a + part \in Span(a, b)
  BY <1>2 DEF Span, wide
<1> QED
  BY <1>3 DEF part, wide

\* What the linear interpolator makes lies between its two taps, at any phase
\* (interp_linear_q15 of audio_mixer.c).
THEOREM LineBetweenTaps ==
  ASSUME NEW a \in Int, NEW b \in Int, NEW frac \in Phase
  PROVE  Math!Linear(a, b, frac) \in Span(a, b)
<1> DEFINE d == 65536
<1>1. d \in Nat \ {0} /\ frac \in 0 .. d
  BY DEF Phase
<1>2. Math!Linear(a, b, frac) = a + ((b - a) * frac) \div d
  BY DEF Math!Linear
<1> HIDE DEF d
<1> QED
  BY <1>1, <1>2, WayBetween

\* Division that cuts toward zero stays in the integers, and a fraction so cut
\* lies between the number and zero.
LEMMA CutType ==
  ASSUME NEW n \in Int, NEW d \in Nat \ {0} PROVE Math!Cut(n, d) \in Int
<1>1. Math!Abs(n) \in Nat /\ Math!Abs(d) = d
  BY DEF Math!Abs
<1>2. Math!Abs(n) \div d \in Int
  BY <1>1
<1> QED
  BY <1>1, <1>2 DEF Math!Cut

LEMMA CutBetween ==
  ASSUME NEW k \in Int, NEW d \in Nat \ {0}, NEW f \in 0 .. d
  PROVE  Math!Cut(k * f, d) \in Span(0, k)
<1> DEFINE n == k * f
<1>1. Math!Abs(d) = d /\ ~(d < 0)
  BY DEF Math!Abs
<1>2. CASE k >= 0
  <2>1. n >= 0 /\ n \in Int
    BY <1>2
  <2>2. n \div d \in Span(0, k)
    BY PartBetween
  <2> HIDE DEF n
  <2>3. Math!Cut(n, d) = n \div d
    BY <1>1, <2>1 DEF Math!Cut, Math!Abs
  <2> QED
    BY <2>2, <2>3 DEF n
<1>3. CASE k < 0
  <2> DEFINE j == -k
             m == j * f
  <2>1. m \in Nat /\ n \in Int /\ n = -m /\ n + m = 0 /\ j \in Int
    BY <1>3
  <2>2. m \div d \in Span(0, j) /\ m \div d \in Int
    BY <2>1, PartBetween
  <2> HIDE DEF n, m
  <2>3. Math!Cut(n, d) = -(m \div d)
    <3>1. CASE n < 0
      <4>1. -n = m
        BY <2>1
      <4> QED
        BY <1>1, <2>1, <3>1, <4>1 DEF Math!Cut, Math!Abs
    <3>2. CASE ~(n < 0)
      <4>1. n = 0 /\ m = 0
        BY <2>1, <3>2
      <4>2. m \div d = 0
        BY <4>1
      <4>3. Math!Cut(n, d) = m \div d
        BY <1>1, <4>1 DEF Math!Cut, Math!Abs
      <4> QED
        BY <4>2, <4>3
    <3> QED
      BY <3>1, <3>2
  <2> QED
    BY <1>3, <2>2, <2>3 DEF Span, n
<1> QED
  BY <1>2, <1>3

\* An observation of the clock moves the correction toward the error it implies and
\* never past it nor past the limit, and one that is more than a sixteenth off
\* or spans no time leaves it (mixer_observe_sync of audio_mixer.c).
THEOREM CorrectionApproaches ==
  ASSUME SmoothOne \in Nat \ {0}, Smoothing \in 0 .. SmoothOne, MaxAcc \in Nat,
         AccOne \in Nat, TickRate \in Nat, FrameRate \in Nat \ {0},
         NEW s, s.frames \in Int, s.ticks \in Int, s.acc \in Int,
         -MaxAcc <= s.acc, s.acc <= MaxAcc,
         NEW frames \in Int, NEW ticks \in Int
  PROVE  LET after    == Math!Observed(s, frames, ticks).acc
             expected == Math!Expected(frames - s.frames)
             drift    == ticks - s.ticks - expected
         IN  /\ -MaxAcc <= after /\ after <= MaxAcc
             /\ after # s.acc =>
                  /\ after \in Span(s.acc, Math!RawCorrection(drift, expected))
                  /\ expected > 0
                  /\ -(expected \div 16) <= drift /\ drift <= expected \div 16
<1> DEFINE expected == Math!Expected(frames - s.frames)
           drift == ticks - s.ticks - expected
           raw == Math!RawCorrection(drift, expected)
           error == raw - s.acc
           change == Math!Cut(error * Smoothing, SmoothOne)
           moved == Math!Clamped(s.acc + change, -MaxAcc, MaxAcc)
           noted == [seen |-> TRUE, frames |-> frames, ticks |-> ticks, acc |-> s.acc]
           skipped == ~s.seen \/ frames <= s.frames \/ expected <= 0
                        \/ drift > expected \div 16 \/ drift < -(expected \div 16)
           after == Math!Observed(s, frames, ticks).acc
<1>1. after = IF skipped THEN s.acc ELSE moved
  BY DEF Math!Observed
<1>2. expected \in Int
  <2> DEFINE ahead == frames - s.frames
             n == ahead * TickRate
  <2>1. n \in Int
    OBVIOUS
  <2>2. expected = Math!Cut(n, FrameRate)
    BY DEF Math!Expected
  <2> HIDE DEF n, expected
  <2> QED
    BY <2>1, <2>2, CutType
<1> HIDE DEF expected
<1>3. drift \in Int
  BY <1>2
<1>4. ASSUME ~skipped PROVE /\ moved \in Span(s.acc, raw)
                            /\ -MaxAcc <= moved /\ moved <= MaxAcc
  <2>1. expected \in Nat \ {0}
    BY <1>2, <1>4
  <2>2. raw \in Int
    <3> DEFINE n == drift * AccOne
    <3>1. n \in Int
      BY <1>3
    <3>2. raw = Math!Cut(n, expected)
      BY DEF Math!RawCorrection
    <3> HIDE DEF n, raw
    <3> QED
      BY <2>1, <3>1, <3>2, CutType
  <2> HIDE DEF drift, raw
  <2>3. error \in Int
    BY <2>2
  <2> HIDE DEF error
  <2>4. change \in Span(0, error)
    BY <2>3, CutBetween
  <2> HIDE DEF change
  <2>5. change \in Int
    BY <2>3, <2>4 DEF Span
  <2>6. /\ s.acc + change \in Span(s.acc, raw)
        /\ s.acc + change \in Int
    BY <2>2, <2>4, <2>5 DEF Span, error
  <2> DEFINE sum == s.acc + change
  <2> HIDE DEF sum
  <2>7. sum \in Span(s.acc, raw) /\ sum \in Int
    BY <2>6 DEF sum
  <2>8. moved = Math!Clamped(sum, -MaxAcc, MaxAcc)
    BY DEF sum
  <2> HIDE DEF moved
  <2> QED
    BY <2>2, <2>7, <2>8 DEF Span, Math!Clamped, Math!Least, Math!Most
<1> HIDE DEF after, moved
<1>5. -MaxAcc <= after /\ after <= MaxAcc
  BY <1>1, <1>4
<1>6. ASSUME after # s.acc
      PROVE  /\ after \in Span(s.acc, raw) /\ expected > 0
             /\ -(expected \div 16) <= drift /\ drift <= expected \div 16
  <2>1. ~skipped /\ after = moved
    BY <1>1, <1>6
  <2>2. after \in Span(s.acc, raw)
    BY <1>4, <2>1
  <2>3. expected > 0 /\ ~(drift > expected \div 16) /\ ~(drift < -(expected \div 16))
    BY <1>2, <2>1
  <2> QED
    BY <1>2, <1>3, <2>2, <2>3
<1> QED
  BY <1>5, <1>6 DEF after, expected
=============================================================================
