-------------------------------- MODULE Films --------------------------------
(***************************************************************************)
(* Questions to what plays beside a film: the sprites over it and the band *)
(* meter they show.                                                        *)
(***************************************************************************)
EXTENDS Questions, Overlay, Spectrum

CONSTANTS
  MaxFrames,   \* frames of an overlay
  Hands,       \* how the mouse moves, frame by frame
  Frames,      \* limits of the cursor, before and after half of the frames
  Heard,       \* levels of a band of the meter
  Loudness     \* amplitude of a tone

(***************************************************************************)
(* The cursor, the shots and the bars, frame by frame.                     *)
(***************************************************************************)
OverlayQuestions ==
  [ask : {"overlay", "bars"}, motion : Hands, limits : Frames]

StartOverlay == OverlayInit(question.limits[1]) @@ [past |-> <<>>]
NowOverlay == IF answer = <<>> THEN StartOverlay ELSE answer
Silence == [i \in 1 .. 2 * Cardinality(Bands) |-> 0]

\* A frame in which the mouse is read twice; the game may have moved the limits.
OverlayFrame(left, right, raw) ==
  LET now == NowOverlay
      n == Len(now.past)
      step == question.motion[1 + (n % Len(question.motion))]
      l == question.limits[2]
      limited == IF n = MaxFrames \div 2 THEN SetClamp(now.o, l.l, l.r, l.t, l.b) ELSE now.o
      posted == PostMouse(PostMouse(limited, step[1], 0, ~left, FALSE), 0, step[2], left, right)
      after == SpriteTick(posted, raw)
  IN  /\ n < MaxFrames
      /\ answer' = after @@ [past |-> Append(now.past,
                                [left |-> left, right |-> right, at |-> <<after.o.x, after.o.y>>,
                                 height |-> after.o.height])]
      /\ answered' = (n + 1 = MaxFrames)
      /\ UNCHANGED question

AnswerShots ==
  question.ask = "overlay" /\ \E left, right \in BOOLEAN : OverlayFrame(left, right, Silence)
AnswerBars ==
  question.ask = "bars"
    /\ \E a \in Heard : OverlayFrame(FALSE, FALSE, [Silence EXCEPT ![1] = a, ![4] = 255 - a])

\* The frames in which the button went down, since the last that cleared.
ShotFrames(past) ==
  {i \in DOMAIN past :
     /\ past[i].left /\ (i > 1 => ~past[i - 1].left)
     /\ \A j \in i + 1 .. Len(past) : ~past[j].right}

\* On the screen are the last shots since the holes were cleared, where the
\* cursor was when the button went down, each press one shot heard from its side;
\* and the cursor, within the limits of the moment (hx_spr_tick, hx_spr_write_oam,
\* hx421_cursor_set_clamp).
ShotsShown ==
  (question.ask \in {"overlay", "bars"} /\ answer # <<>>) =>
    LET past == answer.past
        n == Len(past)
        shots == ShotFrames(past)
        last == {i \in shots : Cardinality({j \in shots : j > i}) < Holes}
        oam == answer.oam
        limits == answer.o.limits
        shown == {i \in PoolOfHoles : oam.holes[i].shown}
    IN  /\ {oam.holes[i].at : i \in shown} = {past[i].at : i \in last}
        /\ Cardinality(shown) = Cardinality(last)
        /\ answer.o.gun # NotFired <=> past[n].left /\ (n > 1 => ~past[n - 1].left)
        /\ answer.o.gun # NotFired => (answer.o.gun[1] < 0) = (past[n].at[1] < Middle)
        /\ oam.cursor = IF past[n].right THEN NotFired ELSE past[n].at
        /\ past[n].at[1] \in limits.l .. limits.r /\ past[n].at[2] \in limits.t .. limits.b

\* A bar is one column without a gap, as tall as its level, and its cap hangs just
\* above the tallest the bar has been, a line lower for each frame since
\* (hx_fft_tick, hx_spr_write_oam).
BarsShown ==
  (question.ask = "bars" /\ answer # <<>>) =>
    LET n == Len(answer.past)
        oam == answer.oam
        Lit(b) == UNION {(oam.rows[b][row].y + 8 - oam.rows[b][row].fill) .. (oam.rows[b][row].y + 7) :
                           row \in FillRows}
        Top(b) == Max({0} \cup {answer.past[i].height[b] - (n - i) : i \in 1 .. n})
    IN  \A b \in Bands :
          LET height == answer.past[n].height[b]
          IN  /\ Lit(b) \cap (0 .. 239) = (UnderBars - height) .. (UnderBars - 1)
              /\ oam.cap[b] + 1 = UnderBars - Top(b) - 1

(***************************************************************************)
(* A tone in the middle of a bin, captured after something else.           *)
(***************************************************************************)
ToneQuestions ==
  [ask : {"tone"}, bin : 0 .. Window \div 2 - 2, before : {0, 3, Window - 1}, oneSide : BOOLEAN]

Tone(bin, i) == IF bin = 0 THEN 0 ELSE Cut(QSin((bin * i * 32768) \div Window) * Loudness, 32768)
ToneFrames(q) ==
  [i \in 1 .. Window |-> LET t == Tone(q.bin, i - 1)
                         IN  IF q.oneSide THEN <<2 * t, 0>> ELSE <<t, t>>]
Noise(n) == [i \in 1 .. n |-> <<-9000 * (i % 3), 20000>>]

\* The meter is off while the first frames come, and asked before it can know.
AnswerTone ==
  LET tone == ToneFrames(question)
      on == Enabled(Capture(NoMeter, tone))
      early == FftUpdate(Capture(on, Noise(question.before)))
      half == Capture(early, SubSeq(tone, 1, Window \div 2))
      whole == Capture(half, SubSeq(tone, Window \div 2 + 1, Window))
  IN  Answers("tone", [early |-> early.bands, bands |-> FftUpdate(whole).bands])

\* A tone stands out in a band that holds its bin, whatever came before it and
\* wherever the window began, and silence shows nothing
\* (audio_fft_capture, audio_fft_update, audio_fft_kernel_mag).
ToneStandsOut ==
  Answered("tone") =>
    LET k == question.bin
        level == answer.bands
        holding == {b \in DOMAIN level : k \in BandBins(b)}
    IN  /\ answer.early = [b \in DOMAIN level |-> 0]
        /\ k = 0 => level = answer.early
        /\ k > 0 => /\ holding # {}
                    /\ \E b \in holding : \A c \in DOMAIN level : level[c] <= level[b]
                    /\ \A c \in DOMAIN level \ holding :
                         (k - 1 \notin BandBins(c) /\ k + 1 \notin BandBins(c)) =>
                           \A b \in holding : level[c] < level[b]

\* Over a film one sees what was shot and what is heard (hx421_runtime.c, audio_fft.c).
OverlayShows == ShotsShown /\ BarsShown /\ ToneStandsOut

AskFilms ==
  \/ question \in OverlayQuestions
  \/ question \in ToneQuestions
=============================================================================
