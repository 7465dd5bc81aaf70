---------------------------- MODULE MCScrollMap ----------------------------
(* A map of six by four tiles under two tilemaps of three by two, the second *)
(* at half speed.                                                            *)
EXTENDS ScrollMap

MCSlower == [i \in {1, 2} |-> i]

\* The map is one whose fields fit.
ASSUME MCFits == AreasFar /\ WrapsFar /\ BlankCarries /\ Cardinality(Layers) <= 2
=============================================================================
