----------------------------- MODULE Questions -----------------------------
(***************************************************************************)
(* A way of checking an algorithm: a question is put in Init, one action   *)
(* per algorithm answers it with what the code returns, and an invariant   *)
(* compares the answer with what it should be, said another way. An answer *)
(* may take several steps, each the result of a call after the last.       *)
(***************************************************************************)
VARIABLES
  question,  \* what is asked
  answer,    \* the answer, once there is one
  answered

askVars == <<question, answer, answered>>

\* One answer is given to a question of a kind.
Answers(ask, result) ==
  /\ question.ask = ask /\ ~answered
  /\ answered' = TRUE /\ answer' = result
  /\ UNCHANGED question
Answered(ask) == question.ask = ask /\ answered
=============================================================================
