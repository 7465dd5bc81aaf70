---------------------------- MODULE MCAlgorithms ----------------------------
(* Small instances of the algorithms for TLC. *)
EXTENDS Algorithms

MCMaskPlaces == (-2 .. 2) \X (-1 .. 2)
MCMapSizes == {<<2, 2>>, <<3, 2>>, <<1, 3>>}
MCCorners == {<<0, 0>>, <<9, 1>>, <<16, 0>>, <<2, 7>>, <<8, 8>>, <<15, 10>>, <<0, 16>>, <<7, 15>>, <<18, 18>>}
MCSpeeds == {-1600, 0, 1250}
MCTurnsA == {<<0, 0>>, <<2, 0>>, <<0, 2>>, <<4, 0>>, <<1, 0>>, <<1, 7>>}
MCTurnsB == {<<0, 0>>, <<1, 0>>, <<0, 1>>, <<1, 1>>}
\* TurnsA and TurnsB for which TurnedBoxesFound does not hold.
MCTurned == {<<1, 0>>}
MCUpright == {<<0, 0>>}
MCWorldPlaces == {<<x, y, z>> : x \in {2100, 5200}, y \in {0, 2500}, z \in {0, 1500}}
MCDrifts == {<<-900, 0, -300>>, <<0, 0, 0>>, <<1300, 400, 0>>, <<0, 0, 500>>, <<-700, -600, 0>>, <<600, 500, 400>>}
MCBoxPlaces == {<<x, y, z>> : x \in {-8000, -3200, 0, 4160, 7680}, y \in {-5280, 0, 2400}, z \in {0, 3200, 6720}}

MCSamples == {0, 1, 12345, 32767, 32768, 65535}
MCBytes == {0, 127, 128, 255}
MCGains == {32767, 16384, 0}
MCPans == {-32767, -16384, 0, 8000, 32767}
MCTaps == {-4990, -5000, 0, 5000}
MCErrors == {-100, -7, 0, 31, 90, 101, 140}
MCHalves == <<2, 1>>
MCRates == {<<9, 9>>, <<9, 4>>, <<8, 12>>, <<3, 7>>}

MCGain == <<40, 256>>
MCHands == {<<<<30, 10>>, <<-200, -60>>, <<0, 0>>>>, <<<<150, 150>>, <<0, -20>>>>}
Limits(l, r, t, b) == [l |-> l, r |-> r, t |-> t, b |-> b]
MCFrames ==
  {<<Limits(8, 240, 8, 208), Limits(8, 240, 8, 208)>>,
   <<Limits(8, 240, 8, 208), Limits(180, 20, 150, 40)>>}
MCStages == <<2, 4, 8, 16>>
MCTyped == {<<>>, <<"a", "b">>, <<"a", " ", "b">>, <<" ", "a", " ">>}
=============================================================================
