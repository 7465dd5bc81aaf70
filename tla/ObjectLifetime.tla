--------------------------- MODULE ObjectLifetime ---------------------------
(***************************************************************************)
(* What audio_pool.h promises about the life of a shared sample: it comes  *)
(* to life with one user, further users can join while it lives, and it    *)
(* goes at the moment its last user leaves, never before and never later.  *)
(***************************************************************************)
EXTENDS Naturals

CONSTANTS Names, Users

VARIABLES live, users

lifetimeVars == <<live, users>>

Init == live = {} /\ users = [n \in Names |-> {}]

Create(n, u) ==
  /\ n \notin live
  /\ live' = live \cup {n}
  /\ users' = [users EXCEPT ![n] = {u}]

Join(n, u) ==
  /\ n \in live
  /\ users' = [users EXCEPT ![n] = @ \cup {u}]
  /\ UNCHANGED live

\* Some users leave, at one moment, the objects they used.
Leave ==
  /\ users' \in [Names -> SUBSET Users]
  /\ \A n \in Names : users'[n] \subseteq users[n]
  /\ live' = {n \in live : users'[n] # {}}

Next ==
  \/ \E n \in Names, u \in Users : Create(n, u) \/ Join(n, u)
  \/ Leave

Spec == Init /\ [][Next]_lifetimeVars
=============================================================================
