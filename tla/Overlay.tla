------------------------------ MODULE Overlay ------------------------------
(***************************************************************************)
(* The sprites over a film in runtime/hx421_runtime.c: a cursor the mouse  *)
(* moves, the holes its button shoots, and the bars of the band meter. The *)
(* host posts the mouse when it has read it, the game sets the cursor's    *)
(* limits when it likes, and hx_spr_tick() takes both up once per frame of *)
(* the SNES. Colours and the random choice of a hole's are left out.       *)
(***************************************************************************)
EXTENDS Integers, Sequences, FiniteSets, CNumbers

CONSTANTS
  Holes,   \* sprites of the pool of holes (16)
  Gain     \* g_fft_gain: the gain of each band, in 256ths

Bands == DOMAIN Gain
FillRows == 0 .. 2              \* HX_FFT_ROWS
MaxHeight == 24                 \* HX_FFT_MAXH
Bottom == 204                   \* HX_FFT_BOT_Y
UnderBars == 212                \* HX_FFT_CAP_Y
NoiseFloor == 16                \* HX_FFT_FLOOR
Parked == 240                   \* the Y of a sprite that is not shown
Middle == 124                   \* where the cursor is at first
NotFired == <<>>
PoolOfHoles == 1 .. Holes

Hole(at) == IF at = NotFired THEN [shown |-> FALSE, at |-> NotFired] ELSE [shown |-> TRUE, at |-> at]

\* What of a row of a band is lit, from the bottom.
Fill(o, b, row) == Clamped(o.height[b] - row * 8, 0, 8)

\* hx_spr_write_oam(): the cursor, a cap and three rows for each band, and the
\* holes; where a band is across the screen never changes and is left out.
Oam(o) ==
  [cursor |-> IF o.hidden THEN NotFired ELSE <<o.x, o.y>>,
   cap |-> [b \in Bands |-> UnderBars - o.peak[b] - 2],
   rows |-> [b \in Bands |-> [row \in FillRows |->
              [fill |-> Fill(o, b, row),
               y |-> IF Fill(o, b, row) > 0 THEN Bottom - row * 8 ELSE Parked]]],
   holes |-> [i \in PoolOfHoles |-> Hole(o.holes[i])]]

NoHoles == [i \in PoolOfHoles |-> NotFired]
StillBars == [b \in Bands |-> 0]

\* hx421_init() of the overlay.
OverlayInit(limits) ==
  LET o == [x |-> Middle, y |-> 100, limits |-> limits, dx |-> 0, dy |-> 0,
            left |-> FALSE, right |-> FALSE, held |-> FALSE, hidden |-> FALSE,
            holes |-> NoHoles, next |-> 1, gun |-> NotFired,
            level |-> StillBars, height |-> StillBars, peak |-> StillBars]
  IN  [o |-> o, oam |-> Oam(o)]

\* hx421_post_mouse(): the motion adds up, the buttons are those of the last post.
PostMouse(o, dx, dy, left, right) ==
  [o EXCEPT !.dx = @ + dx, !.dy = @ + dy, !.left = left, !.right = right]

Within(x, y, limits) ==
  <<Least(Most(x, limits.l), limits.r), Least(Most(y, limits.t), limits.b)>>

\* hx421_cursor_set_clamp(): limits the wrong way round are turned round.
SetClamp(o, l, r, t, b) ==
  LET limits == [l |-> Least(l, r), r |-> Most(l, r), t |-> Least(t, b), b |-> Most(t, b)]
      at == Within(o.x, o.y, limits)
  IN  [o EXCEPT !.limits = limits, !.x = at[1], !.y = at[2]]

\* hx_fft_tick(): pairs of the meter's bands; up at once, down by a quarter, and
\* caps that fall a line per frame.
Metered(o, raw) ==
  LET LoudOf(b) == Least(Most(raw[2 * b - 1], raw[2 * b]), 255)
      level == [b \in Bands |-> IF LoudOf(b) >= o.level[b] THEN LoudOf(b)
                                ELSE o.level[b] - (o.level[b] - LoudOf(b)) \div 4]
      height == [b \in Bands |->
                   Least((Most(level[b] - NoiseFloor, 0) * Gain[b]) \div 256, MaxHeight)]
      peak == [b \in Bands |-> IF height[b] >= o.peak[b] THEN height[b] ELSE o.peak[b] - 1]
  IN  [o EXCEPT !.level = level, !.height = height, !.peak = peak]

\* The cursor takes up the motion, and stays within its limits.
Moved(o) ==
  LET at == Within(o.x + o.dx, o.y + o.dy, o.limits)
  IN  [o EXCEPT !.x = at[1], !.y = at[2], !.dx = 0, !.dy = 0]

\* The right button clears the holes and hides the cursor while it is down.
Cleared(o) ==
  IF o.right THEN [o EXCEPT !.holes = NoHoles, !.next = 1, !.hidden = TRUE]
  ELSE [o EXCEPT !.hidden = FALSE]

\* Bug: a button that is held shoots on every frame.
ShotWhileHeld(o) ==
  IF ~o.left THEN [o EXCEPT !.gun = NotFired, !.held = FALSE]
  ELSE [o EXCEPT !.holes[o.next] = <<o.x, o.y>>,
                 !.next = IF @ >= Holes THEN 1 ELSE @ + 1,
                 !.gun = <<o.x - Middle>>, !.held = TRUE]

\* A press of the left button shoots: the oldest hole goes when there are too
\* many, and the shot is heard from the side it was aimed at.
Shot(o) ==
  IF ~o.left \/ o.held THEN [o EXCEPT !.gun = NotFired, !.held = o.left]
  ELSE [o EXCEPT !.holes[o.next] = <<o.x, o.y>>,
                 !.next = IF @ >= Holes THEN 1 ELSE @ + 1,
                 !.gun = <<o.x - Middle>>, !.held = TRUE]

\* hx_spr_tick().
SpriteTick(o, raw) ==
  LET after == Shot(Cleared(Moved(Metered(o, raw)))) IN [o |-> after, oam |-> Oam(after)]
=============================================================================
