-------------------------- MODULE MCFrameHandshake --------------------------
(* A film of eight tiles in four bands, of which the hidden picture shares   *)
(* one with the shown one, and rendered frames of up to five tiles in one to *)
(* three bursts.                                                             *)
EXTENDS FrameHandshake

MCRuns == <<<<1, 2>>, <<3, 2>>, <<5, 1>>, <<6, 2>>>>
=============================================================================
