------------------------------ MODULE Geometry ------------------------------
(***************************************************************************)
(* Questions to the algorithms of the picture and of the world: masks,     *)
(* maps, rasters, bodies, lenses and the physics.                          *)
(***************************************************************************)
EXTENDS Questions, Collision, Metatile, Raster

CONSTANTS
  Orders,       \* the scan orders of hx421_mask.h
  MaskPlaces,   \* offsets of the second actor
  MapSizes,     \* <<width, height>> of a map, in metatiles
  Corners,      \* where a triangle's vertices may be, in SubPixels of a pixel
  BoxPlaces,    \* offsets of the second body, in world units
  TurnsA,       \* <<yaw, pitch>> of the first body, in eighths of a turn
  TurnsB,       \* <<yaw, pitch>> of the second
  Speeds,       \* components of a velocity
  MaxTurns,     \* turns of a body
  WorldPlaces,  \* places of the second cube of the world
  Drifts,       \* velocities of its cubes
  MaxTicks      \* ticks of the world

\* The masks of the questions can be looked at, and the maps have metatiles.
ASSUME GeometryAssumption ==
  /\ Orders \subseteq {"topleft", "topright", "bottomleft", "bottomright"}
  /\ MaskPlaces \subseteq Int \X Int /\ 3 <= MaskMaxW
  /\ MapSizes \subseteq (Nat \ {0}) \X (Nat \ {0})

(***************************************************************************)
(* Masks: two actors of one or two sprites, as hx421_derive_mask composes  *)
(* them or as a tool may, with rubbish past the width.                     *)
(***************************************************************************)
Whole(tiles) == (0 .. tiles - 1) \X (0 .. TileSide - 1) \X (0 .. TileSide - 1)
Sprite(ox, oy, tw, th, stride, chr) ==
  [ox |-> ox, oy |-> oy, tw |-> tw, th |-> th, stride |-> stride, chr |-> chr]

ActorArts ==
  {<<Sprite(0, 0, 1, 2, 3, Whole(6) \ {<<3, 0, 1>>})>>,
   <<Sprite(-1, 1, 2, 1, 0, Whole(2)), Sprite(2, 0, 1, 1, 0, {<<0, 0, 1>>})>>,
   <<Sprite(1, -1, 1, 1, 1, {<<0, 1, 1>>}), Sprite(0, 2, 2, 1, 2, {<<0, 0, 0>>, <<1, 0, 1>>})>>}
MaskSide == 3
RowBits == 4  \* the columns a row is padded to

MaskQuestions ==
  [ask : {"mask"}, a : ActorArts, b : ActorArts, at : MaskPlaces, order : Orders,
   junk : BOOLEAN]

Padded(m, junk) ==
  IF junk THEN [m EXCEPT !.bits = @ \cup ((m.w .. RowBits - 1) \X (0 .. m.h - 1))] ELSE m
ActorMask(art, junk) == Padded(DeriveMask(art, MaskSide, MaskSide), junk)

AnswerMask ==
  Answers("mask", MaskOverlap(ActorMask(question.a, question.junk), 0, 0,
                              ActorMask(question.b, question.junk),
                              question.at[1], question.at[2], question.order))

\* What the art shows at a pixel of an actor's box.
Opaque(art, x, y) ==
  /\ x \in 0 .. MaskSide - 1 /\ y \in 0 .. MaskSide - 1
  /\ \E i \in DOMAIN art :
       LET p == art[i]
           stride == IF p.stride = 0 THEN p.tw ELSE p.stride
           u == x - p.ox v == y - p.oy
       IN  /\ u \in 0 .. p.tw * TileSide - 1 /\ v \in 0 .. p.th * TileSide - 1
           /\ <<(v \div TileSide) * stride + (u \div TileSide), u % TileSide, v % TileSide>> \in p.chr

\* One pixel comes before another in the order of the scan.
ScanBefore(p, q, order) ==
  LET top == order \in {"topleft", "topright"}
      left == order \in {"topleft", "bottomleft"}
  IN  \/ p[2] # q[2] /\ (top <=> p[2] < q[2])
      \/ p[2] = q[2] /\ p[1] # q[1] /\ (left <=> p[1] < q[1])

\* Two actors touch exactly where the art of both is opaque, and the contact is
\* the first such pixel of the scan (hx421_mask_overlap and hx421_derive_mask),
\* whatever padding the rows carry.
HitIsFirstOpaque ==
  Answered("mask") =>
    LET touching == {p \in (0 .. MaskSide - 1) \X (0 .. MaskSide - 1) :
                       /\ Opaque(question.a, p[1], p[2])
                       /\ Opaque(question.b, p[1] - question.at[1], p[2] - question.at[2])}
    IN  answer = {p \in touching : \A q \in touching \ {p} : ScanBefore(p, q, question.order)}

(***************************************************************************)
(* Maps: a strip of tiles from the transposed copy, and the same tiles     *)
(* from the rows.                                                          *)
(***************************************************************************)
MapSide == 2
MapDefs == [i \in 1 .. 3 * MapSide * MapSide |-> 10 + i]
Outside == 99

\* Metatile numbers of a map; the last number has no definition.
MapRows(size, seed) == [i \in 1 .. size[1] * size[2] |-> (i * seed) % 4]
MapLayer(size, seed, wrap) ==
  [w |-> size[1], h |-> size[2], side |-> MapSide, rows |-> MapRows(size, seed),
   cols |-> Transpose(MapRows(size, seed), size[1], size[2]), defs |-> MapDefs,
   oob |-> Outside, wrap |-> wrap]

MapQuestions ==
  [ask : {"map"}, size : MapSizes, seed : {1, 3}, wrap : BOOLEAN,
   x : {-3, 0, 1, 2}, y : {-1, 0, 3}, count : {1, 5}]

AnswerMap ==
  LET L == MapLayer(question.size, question.seed, question.wrap)
      n == question.count
  IN  Answers("map",
        [columns |-> [i \in 1 .. n |-> ColumnStrip(L, question.x + i - 1, question.y, n)],
         rows |-> [i \in 1 .. n |-> RowStrip(L, question.y + i - 1, question.x, n)],
         rect |-> Rect(L, question.x, question.y, n, n)])

\* The tile at a place of the whole map laid out tile by tile.
TileOfMap(size, seed, wrap, x, y) ==
  LET width == size[1] * MapSide height == size[2] * MapSide
      u == IF wrap THEN x % width ELSE x
      v == IF wrap THEN y % height ELSE y
      number == MapRows(size, seed)[1 + (v \div MapSide) * size[1] + u \div MapSide]
  IN  IF u \notin 0 .. width - 1 \/ v \notin 0 .. height - 1 THEN Outside
      ELSE IF number > 2 THEN Outside
      ELSE MapDefs[1 + number * MapSide * MapSide + (v % MapSide) * MapSide + (u % MapSide)]

\* Columns out of the transposed copy, rows and rectangles are the same tiles of
\* the same map, off its edges too (hx421_metatile_column, _row and _rect).
StripsAgree ==
  Answered("map") =>
    \A i, j \in 1 .. question.count :
      LET tile == TileOfMap(question.size, question.seed, question.wrap,
                            question.x + j - 1, question.y + i - 1)
      IN  /\ answer.rows[i][j] = tile
          /\ answer.rect[i][j] = tile
          /\ answer.columns[j][i] = tile

(***************************************************************************)
(* Pictures: one triangle anywhere over a slanted square of two triangles, *)
(* in a frame of four tiles.                                               *)
(***************************************************************************)
Point(x, y) == <<x, y, (x + 2 * y) % ZFar>>
Triangle(a, b, c, color) == [v |-> <<a, b, c>>, color |-> color]
FrameSide == 2
Square == <<<<3, 2, 3>>, <<14, 5, 3>>, <<11, 16, 4>>, <<1, 12, 5>>>>
SquareHalves == <<Triangle(Square[1], Square[2], Square[3], 2),
                  Triangle(Square[1], Square[3], Square[4], 2)>>
Burst == 3        \* bytes of a burst
SlotBytes == 2    \* bytes of a tile of the pool

PictureQuestions == [ask : {"picture"}, v : Corners \X Corners \X Corners, color : {1, 2, 3}]
Scene == <<Triangle(Point(question.v[1][1], question.v[1][2]), Point(question.v[2][1], question.v[2][2]),
                    Point(question.v[3][1], question.v[3][2]), question.color)>> \o SquareHalves

AnswerPicture ==
  LET out == RenderFrame(Scene, FrameSide, FrameSide)
      bytes == Len(out.chr) * SlotBytes
  IN  Answers("picture",
        [frame |-> out, bytes |-> bytes,
         bursts |-> [i \in 1 .. Subframes(bytes, Burst) |-> FrameChunk(bytes, Burst, i - 1)]])

\* The centre of a pixel against the side from a to b, clockwise being inside.
Beside(a, b, cx, cy) == (b[1] - a[1]) * (cy - a[2]) - (b[2] - a[2]) * (cx - a[1])
Weights(t, cx, cy) ==
  <<Beside(t.v[2], t.v[3], cx, cy), Beside(t.v[3], t.v[1], cx, cy), Beside(t.v[1], t.v[2], cx, cy)>>
Turning(t) == Beside(t.v[1], t.v[2], t.v[3][1], t.v[3][2])
Covers(t, cx, cy) == Turning(t) > 0 /\ \A i \in 1 .. 3 : Weights(t, cx, cy)[i] >= 0

\* A triangle's depth there times its turning, from the weights of its corners.
Deep(t, cx, cy) == LET w == Weights(t, cx, cy)
                   IN  w[1] * t.v[1][3] + w[2] * t.v[2][3] + w[3] * t.v[3][3]
NoDeeper(t, u, cx, cy) ==
  Deep(t, cx, cy) * Turning(u) - Deep(u, cx, cy) * Turning(t) < Turning(t) * Turning(u)

\* A colour the picture may have there: that of a triangle with none nearer.
MayShow(color, cx, cy) ==
  LET over == {i \in DOMAIN Scene : Covers(Scene[i], cx, cy)}
  IN  IF over = {} THEN color = 0
      ELSE \E i \in over : /\ Scene[i].color = color
                           /\ \A j \in over : NoDeeper(Scene[i], Scene[j], cx, cy)

\* What the picture unit shows of an entry of the map.
TilePixel(frame, entry, p) ==
  LET bits == IF entry >= DynBase THEN frame.chr[entry - DynBase + 1] ELSE Solids[entry]
      sum[b \in 0 .. Planes] == IF b = 0 THEN 0
                                ELSE sum[b - 1] + (IF p \in bits[b - 1] THEN 2 ^ (b - 1) ELSE 0)
  IN  sum[Planes]

\* Every pixel of the frame that arrives is that of the nearest triangle over
\* its centre, no centre inside the square missed, but for tiles without a slot,
\* which show one of the colours they should, and only when the pool is full
\* (hx421_raster_tile, hx421_render_frame, hx421_frame_chunk).
FrameShowsPicture ==
  Answered("picture") =>
    LET frame == answer.frame
        Entry(tx, ty) == frame.map[ty * FrameSide + tx + 1]
        Right(tx, ty, p, color) ==
          MayShow(color, (tx * Tile + p[1]) * SubPixel + SubPixel \div 2,
                         (ty * Tile + p[2]) * SubPixel + SubPixel \div 2)
        wrong == {t \in (0 .. FrameSide - 1) \X (0 .. FrameSide - 1) :
                    \E p \in Pixels :
                      ~Right(t[1], t[2], p, TilePixel(frame, Entry(t[1], t[2]), p))}
        Sent(i) == {b \in 0 .. answer.bytes - 1 :
                      \E c \in answer.bursts[i] : b \in c.off .. c.off + c.len - 1}
    IN  /\ Cardinality(wrong) <= frame.degraded
        /\ wrong # {} => Len(frame.chr) = DynSlots
        /\ \A t \in wrong : \E p \in Pixels :
             Right(t[1], t[2], p, Entry(t[1], t[2])) /\ Entry(t[1], t[2]) < DynBase
        /\ UNION {Sent(i) : i \in DOMAIN answer.bursts} = 0 .. answer.bytes - 1
        /\ \A i \in DOMAIN answer.bursts : Cardinality(Sent(i)) <= Burst

(***************************************************************************)
(* Bodies: two turned boxes, and two actors that touch; what the three     *)
(* phases leave of their contacts.                                         *)
(***************************************************************************)
BoxCorners(h) == {Vec(x, y, z) : x \in {-h[1], h[1]}, y \in {-h[2], h[2]}, z \in {-h[3], h[3]}}
BoxFaces(h) ==
  LET X == Vec(h[1], 0, 0) Y == Vec(0, h[2], 0) Z == Vec(0, 0, h[3])
      Sides(out, u, v) == <<<<Minus(Minus(out, u), v), Minus(Plus(out, u), v), Plus(Plus(out, u), v)>>,
                            <<Minus(Minus(out, u), v), Plus(Plus(out, u), v), Plus(Minus(out, u), v)>>>>
  IN  Sides(X, Y, Z) \o Sides(Negated(X), Z, Y) \o Sides(Y, Z, X) \o Sides(Negated(Y), X, Z)
        \o Sides(Z, X, Y) \o Sides(Negated(Z), Y, X)

Fitted(mesh) ==
  mesh @@ [centre |-> Centre(mesh), half |-> Half(mesh), radius |-> Radius(mesh)]
BoxMesh(h) == Fitted([verts |-> BoxCorners(h), faces |-> BoxFaces(h)])

Body(shape, pos, rot, vel) ==
  [active |-> TRUE, collidable |-> TRUE, passthrough |-> FALSE, kind |-> "mesh",
   layer |-> 1, mask |-> {1}, pos |-> pos, rot |-> rot, vel |-> vel,
   mesh |-> shape.mesh, planes |-> shape.planes]
Actor(pos) ==
  [active |-> TRUE, collidable |-> TRUE, passthrough |-> TRUE, kind |-> "actor",
   layer |-> 1, mask |-> {1}, pos |-> pos, rot |-> Identity, vel |-> Zero3,
   pixels |-> ActorMask(<<Sprite(0, 0, 2, 2, 0, Whole(4))>>, FALSE)]

Planed(mesh) == [mesh |-> mesh, planes |-> FitPlanes(mesh, MaxPlanes)]
Box(h) == Planed(BoxMesh(h))
Brick == Box(Vec(One, One \div 2, (3 * One) \div 4))
Cube == Box(Vec((3 * One) \div 4, (3 * One) \div 4, (3 * One) \div 4))

BodyQuestions ==
  [ask : {"bodies"}, at : BoxPlaces, turnA : TurnsA, turnB : TurnsB]
Bodies == <<Body(Brick, Zero3, Euler(question.turnA[1], question.turnA[2], 0), Zero3),
            Actor(Zero3),
            Body(Cube, question.at, Euler(question.turnB[1], question.turnB[2], 0), Zero3),
            Actor(Vec(One, One, 0))>>

AnswerBodies == Answers("bodies", Swept(Bodies, "topleft"))

\* A point of a body, by thirds of its half sizes, seen from another one.
InsideBy(b, p, margin) ==
  LET q == Apply(Transposed(b.rot), Minus(p, b.pos))
  IN  \A k \in Axes : Abs(q[k]) < b.mesh.half[k] - margin
PointsOf(a) ==
  {Plus(a.pos, Apply(a.rot, Each(LAMBDA k : (a.mesh.half[k] * n[k]) \div 8))) :
     n \in {-7, 0, 7} \X {-7, 0, 7} \X {-7, 0, 7}}
Beyond(a, b, margin) ==
  \E k \in Axes, s \in {-1, 1} : \A v \in a.mesh.verts :
    s * Apply(Transposed(b.rot), Minus(Plus(a.pos, Apply(a.rot, v)), b.pos))[k]
      > b.mesh.half[k] + margin

Slack == One \div 32  \* what the rounding of a test may amount to

ContactsOf(kind) == {c \in {answer[i] : i \in DOMAIN answer} : c.kind = kind}

\* Two bodies one of which has a point inside the other are in contact through
\* all three phases, and two with a face between them are not (hx421_midphase,
\* hx421_obb_test).
OverlapsFound(a, b) ==
  /\ (\/ \E p \in PointsOf(a) : InsideBy(b, p, Slack)
      \/ \E p \in PointsOf(b) : InsideBy(a, p, Slack)) => ContactsOf("mesh") # {}
  /\ (Beyond(a, b, Slack) \/ Beyond(b, a, Slack)) => ContactsOf("mesh") = {}

\* Moving the first body along the normal by the depth parts the two, no two of
\* the faces it is to bounce off are opposite unless its centre is inside, and
\* the actors between the bodies in the table meet each other alone
\* (hx421_broadphase, _midphase, _narrowphase).
ContactsPart(a, b) ==
  /\ \A c \in ContactsOf("mesh") :
       /\ c.a = 1 /\ c.b = 3
       /\ Boxes([a EXCEPT !.pos = Plus(@, Scaled(c.normal, c.depth + Slack))], b) = {}
       /\ ~InsideBy(b, a.pos, 0) =>
            \A i, j \in DOMAIN c.normals : Dot(c.normals[i], c.normals[j]) > -One \div 2
  /\ {<<c.a, c.b, c.point>> : c \in ContactsOf("actor")} = {<<2, 4, <<1, 1>>>>}

(***************************************************************************)
(* Bounces: a velocity against up to three faces.                          *)
(***************************************************************************)
FaceNormals == {Vec(One, 0, 0), Vec(0, One, 0), Vec((3 * One) \div 5, (4 * One) \div 5, 0),
                Vec((-4 * One) \div 5, 0, (3 * One) \div 5)}
Faces == {<<n>> : n \in FaceNormals} \cup (FaceNormals \X FaceNormals)
           \cup (FaceNormals \X FaceNormals \X FaceNormals)

BounceQuestions ==
  [ask : {"bounce"}, faces : Faces, v : Speeds \X Speeds \X Speeds, mode : {Bounce, Slide}]

AnswerBounce == Answers("bounce", Resolve(question.faces, question.v, question.mode))

\* A body that bounces keeps its speed and leaves every face it was moving into,
\* also when they are not at right angles, and one that slides moves into none
\* (hx421_resolve).
BouncesApart ==
  (Answered("bounce") /\ ~answer.wedged) =>
    /\ \A i \in DOMAIN question.faces :
         LET n == question.faces[i]
         IN  Dot(question.v, n) < 0 =>
               IF question.mode = Bounce THEN Dot(answer.v, n) >= -Slack
               ELSE Abs(Dot(answer.v, n)) <= Slack
    /\ question.mode = Bounce =>
         Abs(Length(answer.v) - Length(question.v)) <= 2 * Slack

(***************************************************************************)
(* Lenses and turns: a box framed by a lens, or stood back from; a body    *)
(* turned many times over.                                                 *)
(***************************************************************************)
Width == 16
Height == 14
Halves == {One \div 4, One \div 2}
MaxFaces == 16
Straight == [pos |-> Zero3, rot |-> Identity, fx |-> Width * One, fy |-> (Width * One * 8) \div 7]

LensQuestions ==
  [ask : {"lens"}, half : Halves \X Halves \X Halves, depth : {2 * One, 3 * One},
   turn : {<<0, 0>>, <<1, 0>>, <<3, 1>>, <<5, 7>>}]
TurnedCamera == [Straight EXCEPT !.rot = Euler(question.turn[1], question.turn[2], 0)]

\* The picture of the box, turned as the camera is.
Boxed(cam, centre) ==
  LET box == [active |-> TRUE, visible |-> TRUE, kind |-> "mesh", pos |-> centre,
              rot |-> cam.rot, mesh |-> BoxMesh(question.half)]
  IN  Rendered(cam, <<[box EXCEPT !.visible = FALSE], box>>, MaxFaces, Width, Height)

AnswerLens ==
  LET centre == Vec(0, 0, question.depth)
      half == question.half
  IN  Answers("lens",
        [framed |-> Boxed(FrameBox(Straight, half, question.depth, Width, Height), centre),
         stood |-> Boxed(FitBox(TurnedCamera, centre, half, Width, Height), centre),
         wide |-> FrameWidth(Straight, 2 * half[1], question.depth, Width),
         tall |-> FrameHeight(Straight, 2 * half[2], question.depth, Height)])

\* Every face of the box is drawn, and on the screen, to a pixel.
AllOnScreen(tris) ==
  /\ Len(tris) = Len(BoxFaces(question.half))
  /\ \A i \in DOMAIN tris : \A k \in 1 .. 3 :
       /\ tris[i][k][1] \in -SubPixels .. (Width + 1) * SubPixels
       /\ tris[i][k][2] \in -SubPixels .. (Height + 1) * SubPixels

Near1(n, m) == Abs(n - m) <= SubPixels

\* A camera asked to frame a box shows all of it, the near face too, and so does
\* one asked to stand back from it, whichever way it looks; one asked to frame a
\* width or a height sees it fill the screen (hx421_camera_frame_box, _fit_box,
\* _frame_width, _frame_height, hx421_scene_render).
BoxFramed ==
  Answered("lens") =>
    /\ AllOnScreen(answer.framed)
    /\ AllOnScreen(answer.stood)
    /\ Near1(Projected(answer.wide, Vec(question.half[1], 0, question.depth), Width, Height)[1],
             Width * SubPixels)
    /\ Near1(Projected(answer.tall, Vec(0, question.half[2], question.depth), Width, Height)[2], 0)

TurnQuestions == [ask : {"turn"}, by : (0 .. 7) \X {0, 1, 3} \X {0, 1}]

\* A frame's turn after the other: the answer is the rotations so far.
AnswerTurn ==
  LET now == IF answer = <<>> THEN Identity ELSE answer[Len(answer)]
      by == question.by
  IN  /\ question.ask = "turn" /\ ~answered
      /\ answer' = Append(answer, Rotated(now, by[1], by[2], by[3]))
      /\ answered' = (Len(answer) + 1 = MaxTurns)
      /\ UNCHANGED question

\* A body turned many times over is the shape it was: its axes are of length one
\* and at right angles, to a hundredth (hx421_object_rotate, mat_renorm).
TurnsKeepShape ==
  (question.ask = "turn" /\ answer # <<>>) =>
    LET m == answer[Len(answer)]
    IN  \A i, j \in Axes :
          Abs(QDot(m[i], m[j]) - (IF i = j THEN QOne ELSE 0)) <= QOne \div 100

(***************************************************************************)
(* The world: two cubes in an arena, a tick of the physics at a time.      *)
(***************************************************************************)
Arena == Vec(2 * One, One, 2 * One)
Spins == <<<<0, 0>>, <<0, 0>>>>

WorldQuestions ==
  [ask : {"world"}, at : WorldPlaces, v : Drifts, w : Drifts]
StartWorld ==
  <<Body(Cube, Vec(-One, 0, 0), Identity, question.v),
    Body(Cube, question.at, Identity, question.w)>>

World == IF answer = <<>> THEN StartWorld
         ELSE LET now == answer[Len(answer)]
              IN  [i \in 1 .. 2 |-> Body(Cube, now[i].pos, now[i].rot, now[i].vel)]

\* What a tick leaves of a body.
LeftOf(o) == [pos |-> o.pos, rot |-> o.rot, vel |-> o.vel]
LeftOfTwo(objects) == [i \in 1 .. 2 |-> LeftOf(objects[i])]

AnswerWorld ==
  /\ question.ask = "world" /\ ~answered
  /\ answer' = Append(answer, LeftOfTwo(Tick(World, Spins, Arena)))
  /\ answered' = (Len(answer) + 1 = MaxTicks)
  /\ UNCHANGED question

Apart(w) == Length(Minus(w[1].pos, w[2].pos))
Clear(w, cube) ==
  Boxes(Body(cube, w[1].pos, Identity, Zero3), Body(cube, w[2].pos, Identity, Zero3)) = {}

\* Two bodies that met are driven apart, not together, as long as they overlap.
LetsGo(before, now, cube) ==
  Clear(before, cube) \/ Clear(now, cube) \/ Apart(now) >= Apart(before) - Slack
ContactsLetGo ==
  (question.ask = "world" /\ Len(answer) >= 2) =>
    LetsGo(answer[Len(answer) - 1], answer[Len(answer)], Cube)

\* A body's axes in the world are the columns of its rotation (mat_apply); the box
\* test takes the rows (mat_row, hx421_collide.c:80-84).  The box is the same one
\* with either where a corner turned the other way is a corner still.
CornersBy(m, o) == {Apply(m, v) : v \in BoxCorners(o.mesh.half)}
SameByRows(o) == CornersBy(o.rot, o) = CornersBy(Transposed(o.rot), o)

\* The contacts of two bodies are enough to part them, however they are turned;
\* that they are found when the bodies overlap and gone when they do not is
\* claimed of boxes that are the same by rows and by columns, and holds of no
\* others (TurnedBoxesFound).
ContactsOfTwoRight(a, b) ==
  /\ SameByRows(a) /\ SameByRows(b) => OverlapsFound(a, b)
  /\ ContactsPart(a, b)
ContactsRight == Answered("bodies") => ContactsOfTwoRight(Bodies[1], Bodies[3])

\* Boxes are oriented, whatever the object's rotation: the middle phase drops the
\* pairs "whose oriented boxes do not actually overlap" and no other
\* (hx421_collide.h:103-115, hx421_midphase).  The code does not keep this.
TurnedBoxesFound == Answered("bodies") => OverlapsFound(Bodies[1], Bodies[3])

\* What the physics makes of a contact parts the bodies, in one bounce off any
\* faces and over the ticks of a world (hx421_resolve, hx_r3d_physics).
BodiesPart == BouncesApart /\ ContactsLetGo

\* A contact is found, described and answered so that the bodies come apart.
CollisionRight == ContactsRight /\ BodiesPart

\* A sprite or a strip of the map is looked up where its art is: the packed
\* copies (rows of bits, transposed columns) say what the art itself says.
CopiesAgree == HitIsFirstOpaque /\ StripsAgree

\* Fixed point does not lose the picture: a framed box is on the screen whole,
\* and a body turned many times is the shape it was (hx421_scene3d.c).
ShapesKept == BoxFramed /\ TurnsKeepShape

AskGeometry ==
  \/ question \in MaskQuestions
  \/ question \in MapQuestions
  \/ question \in PictureQuestions
  \/ question \in BodyQuestions
  \/ question \in BounceQuestions
  \/ question \in LensQuestions
  \/ question \in TurnQuestions
  \/ question \in WorldQuestions
=============================================================================
