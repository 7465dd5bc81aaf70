----------------------------- MODULE Algorithms -----------------------------
(***************************************************************************)
(* The console's pure algorithms, each asked a bounded set of questions    *)
(* and its answers compared with what they should be, said another way.    *)
(***************************************************************************)
EXTENDS Geometry, Sounds, Films, Stores

AskInit ==
  /\ AskGeometry \/ AskSounds \/ AskFilms \/ AskStores
  /\ answer = <<>> /\ answered = FALSE

AskNext ==
  \/ AnswerMask \/ AnswerMap \/ AnswerPicture
  \/ AnswerBodies \/ AnswerBounce \/ AnswerLens \/ AnswerTurn
  \/ AnswerWorld
  \/ AnswerMix \/ AnswerTaps \/ AnswerSync \/ AnswerWav \/ AnswerSink
  \/ AnswerShots \/ AnswerBars \/ AnswerTone
  \/ AnswerBits \/ AnswerPool \/ AnswerBind
  \/ AnswerLoad \/ AnswerArena \/ AnswerPack \/ AnswerKeys

AskSpec == AskInit /\ [][AskNext]_askVars
=============================================================================
