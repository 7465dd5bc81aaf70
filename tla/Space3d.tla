------------------------------ MODULE Space3d ------------------------------
(***************************************************************************)
(* The fixed-point space of runtime/hx421_scene3d.c: vectors in world      *)
(* units, rotation matrices, mesh bounds, aiming, and the camera that      *)
(* frames and projects.  hx421_collide.c keeps copies of the vector        *)
(* operations; they are the same ones.                                     *)
(*                                                                         *)
(* The widths are scaled, not the operations: a world unit is One (2^16 in *)
(* the code), a unit of a rotation is QOne (2^15), and Root * Root = One   *)
(* is the shift that keeps squares inside an accumulator.  A shift to the  *)
(* right floors, a division of C cuts toward zero.                         *)
(***************************************************************************)
EXTENDS Integers, Sequences, FiniteSets, CNumbers

CONSTANTS
  One,   \* 1.0 of a position
  QOne,  \* 1.0 of a rotation
  Root   \* the pre-shift of a square: Root * Root = One

ASSUME SpaceAssumption ==
  {One, QOne, Root} \subseteq Nat \ {0} /\ Root * Root = One

Vec(x, y, z) == <<x, y, z>>
Zero3 == Vec(0, 0, 0)
Axes == 1 .. 3
Each(F(_)) == Vec(F(1), F(2), F(3))

Plus(a, b) == Each(LAMBDA k : a[k] + b[k])
Minus(a, b) == Each(LAMBDA k : a[k] - b[k])
Negated(a) == Each(LAMBDA k : -a[k])
Sum3(a, b) == a[1] * b[1] + a[2] * b[2] + a[3] * b[3]

\* dot16(), scale16(), cross16().
Dot(a, b) == Sum3(a, b) \div One
Scaled(v, s) == Each(LAMBDA k : (v[k] * s) \div One)
Cross(a, b) == <<(a[2] * b[3] - a[3] * b[2]) \div One,
                 (a[3] * b[1] - a[1] * b[3]) \div One,
                 (a[1] * b[2] - a[2] * b[1]) \div One>>

\* hx421_sqrt_q16(): one bit of the root a turn, from the top, two bits of the
\* operand with it.
SqrtBits == 15
Sqrt(value) ==
  LET v == value * One
      root[i \in 0 .. SqrtBits] ==
        IF i = 0 THEN [rem |-> 0, root |-> 0]
        ELSE LET last == root[i - 1]
                 two == (v \div 4 ^ (SqrtBits - i)) % 4
                 rem == last.rem * 4 + two
                 trial == last.root * 4 + 1
             IN  IF rem >= trial THEN [rem |-> rem - trial, root |-> last.root * 2 + 1]
                                 ELSE [rem |-> rem, root |-> last.root * 2]
  IN  IF value <= 0 THEN 0 ELSE root[SqrtBits].root

\* len16(), normalize16(): no direction in a vector that is too short.
Length(v) == LET s == Each(LAMBDA k : v[k] \div Root) IN Sqrt(Sum3(s, s))
HasDirection(v) == Length(v) * 1024 >= One
Normal(v) == LET len == Length(v) IN Each(LAMBDA k : Cut(v[k] * One, len))

\* --- rotations: a matrix is its rows ---
QMul(a, b) == (a * b) \div QOne
QDot(a, b) == QMul(a[1], b[1]) + QMul(a[2], b[2]) + QMul(a[3], b[3])
Column(m, j) == <<m[1][j], m[2][j], m[3][j]>>
Transposed(m) == Each(LAMBDA i : Column(m, i))
Identity == <<Vec(QOne, 0, 0), Vec(0, QOne, 0), Vec(0, 0, QOne)>>
MatMul(a, b) == Each(LAMBDA i : Each(LAMBDA j : QDot(a[i], Column(b, j))))

\* mat_apply(), rot_apply().
Apply(m, v) == Each(LAMBDA i : Sum3(m[i], v) \div QOne)

\* hx421_sin_q15(), at the eighths of a turn: a quarter table and its symmetry.
SinQuarter == <<0, (QOne * 23170) \div 32768, QOne>>
Sin(eighths) ==
  LET a == eighths % 8
  IN  CASE a < 2 -> SinQuarter[a + 1]
        [] a \in 2 .. 3 -> SinQuarter[4 - a + 1]
        [] a \in 4 .. 5 -> -SinQuarter[a - 4 + 1]
        [] a > 5 -> -SinQuarter[8 - a + 1]
Cos(eighths) == Sin(eighths + 2)

\* mat_euler(): yaw, then pitch, then roll.
Euler(yaw, pitch, roll) ==
  MatMul(MatMul(<<Vec(Cos(yaw), 0, Sin(yaw)), Vec(0, QOne, 0), Vec(-Sin(yaw), 0, Cos(yaw))>>,
                <<Vec(QOne, 0, 0), Vec(0, Cos(pitch), -Sin(pitch)), Vec(0, Sin(pitch), Cos(pitch))>>),
         <<Vec(Cos(roll), -Sin(roll), 0), Vec(Sin(roll), Cos(roll), 0), Vec(0, 0, QOne)>>)

\* mat_renorm(): the first two rows share what they lean into each other, the
\* third is their cross product, and each is scaled by (3 - v.v) / 2.
Renormed(m) ==
  LET h == Cut(QDot(m[1], m[2]), 2)
      a == Each(LAMBDA k : m[1][k] - QMul(h, m[2][k]))
      b == Each(LAMBDA k : m[2][k] - QMul(h, m[1][k]))
      c == <<QMul(a[2], b[3]) - QMul(a[3], b[2]), QMul(a[3], b[1]) - QMul(a[1], b[3]),
             QMul(a[1], b[2]) - QMul(a[2], b[1])>>
      Unit(v) == LET s == Cut(3 * QOne - QDot(v, v), 2) IN Each(LAMBDA k : QMul(v[k], s))
  IN  <<Unit(a), Unit(b), Unit(c)>>

\* hx421_object_rotate(), hx421_camera_rotate().
Rotated(m, yaw, pitch, roll) == Renormed(MatMul(m, Euler(yaw, pitch, roll)))

\* --- a mesh: verts, faces as triples of vertex numbers ---
Coordinates(mesh, k) == {v[k] : v \in mesh.verts}
Low(S) == CHOOSE n \in S : \A m \in S : n <= m
High(S) == CHOOSE n \in S : \A m \in S : n >= m

\* The largest n with n * n <= v: the loop that counts up to it.
FloorRoot(v) == CHOOSE n \in 0 .. v : n * n <= v /\ (n + 1) * (n + 1) > v

\* hx421_mesh_fit_bounds(): the box, and the sphere about its centre that just
\* holds the farthest vertex.
Centre(mesh) ==
  Each(LAMBDA k : LET S == Coordinates(mesh, k) IN Low(S) + Cut(High(S) - Low(S), 2))
Half(mesh) == Each(LAMBDA k : LET S == Coordinates(mesh, k) IN Cut(High(S) - Low(S), 2))
Radius(mesh) ==
  LET Far(v) == LET d == Each(LAMBDA k : (v[k] - Centre(mesh)[k]) \div Root) IN Sum3(d, d)
  IN  FloorRoot(High({Far(v) : v \in mesh.verts})) * Root

\* --- the camera ---
\* cam_apply_par(): focal_y from focal_x and the pixel's aspect.
AspectSnes == (One * 8) \div 7
WithAspect(cam, fx, par) == [cam EXCEPT !.fx = fx, !.fy = (fx * par) \div One]
AspectOf(cam) == LET par == Cut(cam.fy * One, cam.fx)
                 IN  IF cam.fx = 0 \/ par <= 0 THEN AspectSnes ELSE par

Near == One \div 4

\* focal_for_span(): 0 where the question makes no sense.
FocalForSpan(pixels, world, depth) ==
  IF world <= 0 \/ depth <= 0 \/ pixels <= 0 THEN 0 ELSE (pixels * depth * One) \div world

\* hx421_camera_frame_width(), hx421_camera_frame_height().
FrameWidth(cam, world, depth, width) ==
  LET f == FocalForSpan(width, world, depth)
  IN  IF f <= 0 THEN cam ELSE WithAspect(cam, f, AspectOf(cam))
FrameHeight(cam, world, depth, height) ==
  LET f == FocalForSpan(height, world, depth)
  IN  IF f <= 0 THEN cam ELSE [cam EXCEPT !.fy = f, !.fx = (f * One) \div AspectOf(cam)]

\* Bug: the lens is chosen for the middle of the box.
FrameBoxMiddle(cam, half, depth, width, height) ==
  LET fxw == FocalForSpan(width, half[1] * 2, depth)
      fyh == FocalForSpan(height, half[2] * 2, depth)
      fxh == IF fyh > 0 THEN (fyh * One) \div AspectOf(cam) ELSE 0
  IN  WithAspect(cam, IF fxh > 0 /\ fxh < fxw THEN fxh ELSE fxw, AspectOf(cam))

\* hx421_camera_frame_box(): the wider lens of the two the near face asks for.
FrameBox(cam, half, depth, width, height) ==
  LET near == Most(depth - half[3], Near)
      fxw == FocalForSpan(width, half[1] * 2, near)
      fyh == FocalForSpan(height, half[2] * 2, near)
      fxh == IF fyh > 0 THEN (fyh * One) \div AspectOf(cam) ELSE 0
      fx == IF fxh > 0 /\ fxh < fxw THEN fxh ELSE fxw
  IN  IF fx <= 0 THEN cam ELSE WithAspect(cam, fx, AspectOf(cam))

\* hx421_camera_fit_box(): back along the camera's own axis until both fit.
FitBox(cam, centre, half, width, height) ==
  LET dx == Cut((half[1] * cam.fx) \div One, width \div 2)
      dy == Cut((half[2] * cam.fy) \div One, height \div 2)
      d == Most(Most(dx, dy) + half[3], One)
      fwd == Column(cam.rot, 3)
  IN  [cam EXCEPT !.pos = Each(LAMBDA k : centre[k] - (fwd[k] * d) \div QOne)]

\* The projection of hx421_scene_render(): view space, the near plane, and the
\* divide that the two axes share; in SubPixels of a pixel from the top left.
SubPixels == 4
InView(cam, p) == Apply(Transposed(cam.rot), Minus(p, cam.pos))
Projected(cam, p, width, height) ==
  LET v == InView(cam, p)
      Shift(n) == n \div (One \div SubPixels)
  IN  IF v[3] < Near THEN <<>>
      ELSE <<(width \div 2) * SubPixels + Shift(Cut(v[1] * cam.fx, v[3])),
             (height \div 2) * SubPixels - Shift(Cut(v[2] * cam.fy, v[3])),
             Least(v[3] \div Root, 65535)>>

\* hx421_scene_render(): the visible meshes in the order of their slots, a face
\* with a corner in front of the near plane left out, no more than max of them.
Rendered(cam, objects, max, width, height) ==
  LET Shown(o) == /\ o.active /\ o.visible /\ o.kind = "mesh"
                  /\ InView(cam, o.pos)[3] + o.mesh.radius >= Near
      Corner(o, v) == Projected(cam, Plus(Apply(o.rot, v), o.pos), width, height)
      Faces(o) == SelectSeq([f \in DOMAIN o.mesh.faces |->
                              Each(LAMBDA k : Corner(o, o.mesh.faces[f][k]))],
                            LAMBDA t : \A k \in Axes : t[k] # <<>>)
      upTo[i \in 0 .. Len(objects)] ==
        IF i = 0 THEN <<>>
        ELSE upTo[i - 1] \o (IF Shown(objects[i]) THEN Faces(objects[i]) ELSE <<>>)
      all == upTo[Len(objects)]
  IN  SubSeq(all, 1, Least(max, Len(all)))
===============================================================================
