--------------------------- MODULE MCMusicPlayer ----------------------------
(* Small configurations of MusicPlayer for TLC. *)
EXTENDS MusicPlayer

Config(head, intro, loop, fill) ==
  [head |-> head, intro |-> intro, loop |-> loop, fill |-> fill]

\* With and without heads, an intro or a loop, capped and not, a segment that
\* is all head and one that is shorter than its head.
MCConfigs ==
  { Config(0, 7, 5, 0), Config(2, 7, 9, 0), Config(2, 14, 0, 2),
    Config(0, 0, 8, 3),
    Config(2, 2, 3, 3), Config(2, 1, 5, 0) }

\* The service's file voice: one file, both heads, longer than the buffer.
MCFileVoice == { Config(2, 9, 9, 0) }
=============================================================================
