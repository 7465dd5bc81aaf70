----------------------------- MODULE Collision -----------------------------
(***************************************************************************)
(* runtime/hx421_collide.c: the sweep over the registry of objects in three *)
(* phases (spheres and masks, oriented boxes, planes) and the deflection,  *)
(* and the physics tick of hx421_runtime.c that runs them all.             *)
(*                                                                         *)
(* A body is a record: active, collidable, passthrough, kind, layer, mask  *)
(* (the set of layers it accepts), pos, vel, rot, and either its mesh with *)
(* the bounds and planes fitted to it or, for an actor, its mask's pixels. *)
(***************************************************************************)
EXTENDS Space3d, SpriteMask, TLC

CONSTANTS
  Eps,         \* what obb_test adds to a relative rotation: 16 of 2^15
  MaxContacts, \* HX421_MAX_CONTACTS
  MaxNormals,  \* HX421_MAX_NORMALS
  MaxPlanes    \* HX421_MAX_PLANES

\* --- pairs ---

\* hx421_sphere_test(): the direction from a to b and the depth, if any.
SphereTest(pa, ra, pb, rb) ==
  LET d == Minus(pb, pa)
      s == Each(LAMBDA k : d[k] \div Root)
      squared == Sum3(s, s)
      r == ra + rb
      len == Sqrt(squared)
  IN  IF squared >= (r \div Root) * (r \div Root) THEN {}
      ELSE IF len = 0 THEN {[normal |-> Vec(0, One, 0), depth |-> r]}
      ELSE {[normal |-> Each(LAMBDA k : Cut(d[k] * One, len)), depth |-> r - len]}

Next3 == <<2, 3, 1>>
Last3 == <<3, 1, 2>>

\* The axes of b seen from a, and the weights of its half sizes: no less than Eps.
Relative(ra, rb) == Each(LAMBDA i : Each(LAMBDA j : QDot(ra[i], rb[j])))
BoxWeights(R) == Each(LAMBDA i : Each(LAMBDA j : Abs(R[i][j]) + Eps))

\* How far two boxes overlap along the three faces of each, t from a to b in a.
FaceTest(half, reach, along, axis) ==
  [over |-> half + reach - Abs(along), axis |-> axis, sign |-> IF along < 0 THEN -1 ELSE 1]
FaceTests(R, absR, t, ra, ha, rb, hb) ==
  [i \in Axes |-> FaceTest(ha[i], QDot(hb, absR[i]), t[i], ra[i])]
    \o [j \in Axes |-> FaceTest(hb[j], QDot(ha, Column(absR, j)), QDot(t, Column(R, j)), rb[j])]

\* An edge of each spans an axis that parts them.
EdgesPart(R, absR, t, ha, hb) ==
  \E i, j \in Axes :
    LET u == Next3[i] v == Last3[i] x == Next3[j] y == Last3[j]
    IN  Abs(QMul(t[v], R[u][j]) - QMul(t[u], R[v][j]))
          > QMul(ha[u], absR[v][j]) + QMul(ha[v], absR[u][j])
            + QMul(hb[x], absR[i][y]) + QMul(hb[y], absR[i][x])

\* The first of the shallowest faces says how to part them.
Shallowest(face) ==
  CHOOSE f \in 1 .. 6 : /\ \A g \in 1 .. 6 : face[f].over <= face[g].over
                        /\ \A g \in 1 .. f - 1 : face[g].over # face[f].over
Parting(f) == [normal |-> Each(LAMBDA k : (f.axis[k] * f.sign * One) \div QOne), depth |-> f.over]
Overlap(face, parted) ==
  IF parted \/ \E f \in 1 .. 6 : face[f].over <= 0 THEN {} ELSE {Parting(face[Shallowest(face)])}

\* hx421_obb_test(): the fifteen axes that may separate two boxes, of which the
\* six of the faces may also say how to part them.
FifteenAxes(R, absR, t, ra, ha, rb, hb) ==
  Overlap(FaceTests(R, absR, t, ra, ha, rb, hb), EdgesPart(R, absR, t, ha, hb))
ObbTest(pa, ra, ha, pb, rb, hb) ==
  LET R == Relative(ra, rb)
  IN  FifteenAxes(R, BoxWeights(R), Apply(ra, Minus(pb, pa)), ra, ha, rb, hb)

\* --- the three phases ---
Live(o) == o.active /\ o.collidable
BothAccept(a, b) == b.layer \in a.mask /\ a.layer \in b.mask

\* hx421_broadphase(): pairs in the order of the table, a bound on the list, the
\* pairs of different kinds and those past the bound counted.
PairTest(a, b, order) ==
  IF a.kind = "mesh"
  THEN {[normal |-> Negated(c.normal), depth |-> c.depth, point |-> <<>>] :
          c \in SphereTest(a.pos, a.mesh.radius, b.pos, b.mesh.radius)}
  ELSE {[normal |-> Zero3, depth |-> 0, point |-> hit] :
          hit \in MaskOverlap(a.pixels, a.pos[1] \div One, a.pos[2] \div One,
                              b.pixels, b.pos[1] \div One, b.pos[2] \div One, order)}

PairList(n) ==
  LET row(i) == [j \in 1 .. n - i |-> <<i, i + j>>]
      upTo[i \in 0 .. n] == IF i = 0 THEN <<>> ELSE upTo[i - 1] \o row(i)
  IN  upTo[n]

Broadphase(objects, order) ==
  LET Filtered(p) == LET a == objects[p[1]] b == objects[p[2]]
                     IN  Live(a) /\ Live(b) /\ BothAccept(a, b)
      pairs == SelectSeq(PairList(Len(objects)), Filtered)
      SameKind(p) == objects[p[1]].kind = objects[p[2]].kind
      tested == SelectSeq(pairs, SameKind)
      Found(p) == PairTest(objects[p[1]], objects[p[2]], order) # {}
      found == SelectSeq(tested, Found)
      kept == SubSeq(found, 1, Least(MaxContacts, Len(found)))
      Contact(p) == LET c == CHOOSE c \in PairTest(objects[p[1]], objects[p[2]], order) : TRUE
                    IN  [a |-> p[1], b |-> p[2], kind |-> objects[p[1]].kind,
                         normal |-> c.normal, depth |-> c.depth, point |-> c.point]
  IN  [contacts |-> [k \in DOMAIN kept |-> Contact(kept[k])],
       tests |-> Len(tested), skipped |-> Len(pairs) - Len(tested),
       overflow |-> Len(found) - Len(kept)]

BoxCentre(o) == Plus(o.pos, Apply(o.rot, o.mesh.centre))
Boxes(a, b) == ObbTest(BoxCentre(a), a.rot, a.mesh.half, BoxCentre(b), b.rot, b.mesh.half)

\* Bug: the direction is that of the boxes, from a to b.
RefinedTowards(objects, c) ==
  IF c.kind # "mesh" THEN {c}
  ELSE {[c EXCEPT !.normal = box.normal, !.depth = box.depth] :
          box \in Boxes(objects[c.a], objects[c.b])}

\* A mesh pair whose boxes part is dropped, another takes the normal and the
\* depth of the boxes; actors are left as they are.
Refined(objects, c) ==
  IF c.kind # "mesh" THEN {c}
  ELSE {[c EXCEPT !.normal = Negated(box.normal), !.depth = box.depth] :
          box \in Boxes(objects[c.a], objects[c.b])}

\* hx421_midphase(): the contacts that stay, in their order.
Only(S) == IF S = {} THEN <<>> ELSE <<CHOOSE c \in S : TRUE>>
Midphase(objects, contacts) ==
  LET upTo[k \in 0 .. Len(contacts)] ==
        IF k = 0 THEN <<>> ELSE upTo[k - 1] \o Only(Refined(objects, contacts[k]))
  IN  upTo[Len(contacts)]

\* hx421_mesh_fit_planes(): coplanar faces merge, the largest planes are kept.
SameDirection == (One * 65100) \div 65536
Merges(p, n, d) == Dot(p.n, n) >= SameDirection /\ Abs(p.d - d) <= One \div 64
AddPlane(planes, n, d, area) ==
  LET hits == {k \in DOMAIN planes : Merges(planes[k], n, d)}
  IN  IF hits # {} THEN [planes EXCEPT ![Low(hits)].area = @ + area]
      ELSE IF Len(planes) < MaxPlanes THEN Append(planes, [n |-> n, d |-> d, area |-> area])
      ELSE planes
AddFace(planes, face, at) ==
  IF HasDirection(face)
  THEN LET n == Normal(face) IN AddPlane(planes, n, Dot(n, at), Length(face))
  ELSE planes

\* The selection sort: each place takes the first of the largest left.
TakeLargest(p, i) ==
  LET best == Low({j \in i .. Len(p) : \A k \in i .. Len(p) : p[j].area >= p[k].area})
  IN  [p EXCEPT ![i] = p[best], ![best] = p[i]]
ByArea(planes) ==
  LET ranked[i \in 0 .. Len(planes)] == IF i = 0 THEN planes ELSE TakeLargest(ranked[i - 1], i)
  IN  ranked[Len(planes)]

FitPlanes(mesh, cap) ==
  LET after[i \in 0 .. Len(mesh.faces)] ==
        IF i = 0 THEN <<>>
        ELSE LET f == mesh.faces[i]
             IN  AddFace(after[i - 1], Cross(Minus(f[2], f[1]), Minus(f[3], f[1])), f[1])
      all == ByArea(after[Len(mesh.faces)])
  IN  SubSeq(all, 1, Least(Least(cap, MaxPlanes), Len(all)))

\* hx421_narrowphase(): the planes of b that a's centre has passed least, seen
\* from outside b, those within an eighth of a's radius being simultaneous.
PlaneNormals(a, b) ==
  LET lp == Apply(Transposed(b.rot), Minus(a.pos, b.pos))
      Distance(p) == Dot(p.n, lp) - p.d
      best == High({Distance(b.planes[k]) : k \in DOMAIN b.planes})
      Shallow(p) == Distance(p) >= best - Cut(a.mesh.radius, 8)
      near == SelectSeq(b.planes, Shallow)
  IN  IF b.planes = <<>> \/ best > a.mesh.radius THEN <<>>
      ELSE [k \in 1 .. Least(MaxNormals, Len(near)) |-> Apply(b.rot, near[k].n)]

Narrowphase(objects, contacts) ==
  LET Normals(c) == LET ns == PlaneNormals(objects[c.a], objects[c.b])
                    IN  IF c.kind # "mesh" THEN <<>>
                        ELSE IF ns = <<>> THEN <<c.normal>> ELSE ns
  IN  [k \in DOMAIN contacts |-> contacts[k] @@ [normals |-> Normals(contacts[k])]]

\* --- the response ---
Dedup == (One * 63303) \div 65536

\* The normals that count: those approached, no two within 15 degrees.
Kept(keep, u, v) ==
  IF Dot(v, u) >= 0 \/ Len(keep) >= MaxNormals \/ \E k \in DOMAIN keep : Dot(keep[k], u) > Dedup
  THEN keep ELSE Append(keep, u)
Approached(normals, v) ==
  LET upTo[i \in 0 .. Len(normals)] ==
        IF i = 0 THEN <<>>
        ELSE IF HasDirection(normals[i]) THEN Kept(upTo[i - 1], Normal(normals[i]), v)
        ELSE upTo[i - 1]
  IN  upTo[Len(normals)]

\* Gram and Schmidt, a dependent one dropped.
WithoutPart(v, e, along) == Minus(v, Scaled(e, Dot(along, e)))
RestOf(n, ortho) ==
  LET less[j \in 0 .. Len(ortho)] ==
        IF j = 0 THEN n
        ELSE LET last == less[j - 1] IN WithoutPart(last, ortho[j], last)
  IN  less[Len(ortho)]
Joined(ortho, e) == IF HasDirection(e) THEN Append(ortho, Normal(e)) ELSE ortho
Orthogonal(keep) ==
  LET upTo[i \in 0 .. Len(keep)] ==
        IF i = 0 THEN <<>>
        ELSE LET ortho == upTo[i - 1] IN Joined(ortho, RestOf(keep[i], ortho))
  IN  upTo[Len(keep)]

Bounce == 2
Slide == 1

\* hx421_resolve(): what each normal takes from v, unless it is a wedge.
TakenBy(ortho, v, mode) ==
  LET less[i \in 0 .. Len(ortho)] ==
        IF i = 0 THEN v ELSE Minus(less[i - 1], Scaled(ortho[i], Dot(v, ortho[i]) * mode))
  IN  IF Len(ortho) >= 3 THEN [wedged |-> TRUE, v |-> Zero3]
      ELSE [wedged |-> FALSE, v |-> less[Len(ortho)]]
Resolve(normals, v, mode) == TakenBy(Orthogonal(Approached(normals, v)), v, mode)

\* --- hx_r3d_physics(): one tick ---
\* What the walls of the arena do to a body that has moved.
Walled(o, arena) ==
  LET p == Plus(o.pos, o.vel)
  IN  [o EXCEPT !.pos = Each(LAMBDA k : Least(arena[k], Most(-arena[k], p[k]))),
                !.vel = Each(LAMBDA k : IF (p[k] > arena[k] /\ o.vel[k] > 0)
                                           \/ (p[k] < -arena[k] /\ o.vel[k] < 0)
                                        THEN -o.vel[k] ELSE o.vel[k])]

\* A wedged body keeps the velocity it had: the caller drops the result.
Deflection(v, r) == IF r.wedged THEN v ELSE r.v
Deflected(v, normals) == Deflection(v, Resolve(normals, v, Bounce))

Respond(objects, c) ==
  LET a == objects[c.a] b == objects[c.b]
      push == IF c.depth > 0 /\ c.normals # <<>> THEN Scaled(c.normals[1], Cut(c.depth, 8) + 1)
              ELSE Zero3
      flip == [k \in DOMAIN c.normals |-> Negated(c.normals[k])]
  IN  IF a.passthrough \/ b.passthrough THEN objects
      ELSE [objects EXCEPT
             ![c.a] = [@ EXCEPT !.vel = Deflected(@, c.normals), !.pos = Plus(@, push)],
             ![c.b] = [@ EXCEPT !.vel = Deflected(@, flip), !.pos = Minus(@, push)]]

Swept(objects, order) ==
  Narrowphase(objects, Midphase(objects, Broadphase(objects, order).contacts))

SpunBodies(objects, spins) ==
  [i \in DOMAIN objects |->
    [objects[i] EXCEPT !.rot = Rotated(@, spins[i][1], spins[i][2], 0)]]
MovedBodies(objects, arena) == [i \in DOMAIN objects |-> Walled(objects[i], arena)]
Responded(objects, contacts) ==
  LET upTo[k \in 0 .. Len(contacts)] ==
        IF k = 0 THEN objects ELSE Respond(upTo[k - 1], contacts[k])
  IN  upTo[Len(contacts)]
Collided(objects) == Responded(objects, Swept(objects, "topleft"))
Tick(objects, spins, arena) == Collided(MovedBodies(SpunBodies(objects, spins), arena))
===============================================================================
