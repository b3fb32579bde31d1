---------------------------- MODULE GravityTree ----------------------------
(***************************************************************************)
(* The geometry of the fast multipole solver: the cell octree over a set   *)
(* of leaf cells, the reflected and periodic images of the domain, and the *)
(* interaction lists the three traversals of the code build.               *)
(*                                                                         *)
(* A node is [level, at]; at is a sequence with one coordinate per axis of *)
(* the domain, so a node has 2^Len(at) children.  Distances are integers   *)
(* on the lattice of the code, compared squared; coefficients are left to  *)
(* FieldSolver.  A mesh is [leaves, adaptive, walls, theta, bits]: its     *)
(* leaf cells, the solver that handles it (amr.enabled), the               *)
(* <<lower, upper>> boundary rule of each axis, the opening angle as       *)
(* [num, den], and log2 of the cells of a block per axis.                  *)
(***************************************************************************)
EXTENDS BlockTree, FiniteSets, FiniteSetsExt

Magnitude(x) == IF x < 0 THEN -x ELSE x
Larger(x, y) == IF x < y THEN y ELSE x
-----------------------------------------------------------------------------
(***************************************************************************)
(* The tree.                                                               *)
(***************************************************************************)
Axes(m) == DOMAIN m.walls
Root(m) == [level |-> 0, at |-> [d \in Axes(m) |-> 0]]

(* Every leaf and all its ancestors. *)
Nodes(m) == UNION {{Ancestor(c, k) : k \in 0..c.level} : c \in m.leaves}
Depths(m) == 1 + Max({c.level : c \in m.leaves})
OfLevel(m, depth) == {n \in Nodes(m) : n.level = depth}

(* The order of the ids: by level, then the last axis first. *)
Before(a, b) ==
  \/ a.level < b.level
  \/ /\ a.level = b.level
     /\ \E d \in DOMAIN a.at : a.at[d] < b.at[d] /\ \A e \in DOMAIN a.at : e > d => a.at[e] = b.at[e]
-----------------------------------------------------------------------------
(***************************************************************************)
(* Images.  A single reflecting wall adds a mirrored copy of the sources,  *)
(* two facing walls also a lattice of period 2; the copies of several axes *)
(* compose, so an image is the set of axes it is mirrored in.              *)
(***************************************************************************)
Mirrored(m, d) == m.walls[d][1] = "reflecting" \/ m.walls[d][2] = "reflecting"
Period(m, d) == IF m.walls[d] = <<"periodic", "periodic">> THEN 1
                ELSE IF m.walls[d] = <<"reflecting", "reflecting">> THEN 2 ELSE 0
Images(m) == SUBSET {d \in Axes(m) : Mirrored(m, d)}
Translation(m, d) == IF m.walls[d][1] = "reflecting" THEN 0 ELSE 2
Periodic(m) == \E d \in Axes(m) : Period(m, d) # 0
ImagesActive(m) == Images(m) # {{}} \/ Periodic(m)

(* The two walks: the nearest image, and with a lattice all the others. *)
Kinds(m) == IF Periodic(m) THEN {"nearest", "others"} ELSE {"nearest"}

(* A separation folded into half a period; at a tie it keeps its sign. *)
Folded(r, period) ==
  LET rest == IF r >= 0 THEN r % period ELSE -((-r) % period)
  IN IF period = 0 THEN r
     ELSE IF 2 * rest > period THEN rest - period
     ELSE IF 2 * rest < -period THEN rest + period ELSE rest

(* Cell separation of two nodes of one level, count cells wide. *)
Separation(m, a, b, count, image) ==
  [d \in Axes(m) |-> Folded(
     a.at[d] - (IF d \in image THEN -b.at[d] - 1 + Translation(m, d) * count ELSE b.at[d]),
     Period(m, d) * count)]

SquaredLength(r) == MapThenSumSet(LAMBDA d : r[d] * r[d], DOMAIN r)

(* Distance of the nearest image that the folded separation is not. *)
NextImageSquared(m, r, count) ==
  Min({SquaredLength(r) + (Period(m, d) * count) * (Period(m, d) * count)
         - 2 * Period(m, d) * count * Magnitude(r[d]) : d \in {e \in Axes(m) : Period(m, e) # 0}})

(***************************************************************************)
(* May nodes of widths wa and wb interact through their expansions?  Not   *)
(* while the pair crosses a nearest-image branch.                          *)
(***************************************************************************)
Acceptable(m, r, count, wa, wb, kind) ==
  LET squared == IF kind = "others" THEN NextImageSquared(m, r, count) ELSE SquaredLength(r)
  IN /\ \A d \in Axes(m) :
          Period(m, d) # 0 => 2 * Magnitude(r[d]) + wa + wb <= Period(m, d) * count
     /\ squared * m.theta.num^2 > m.theta.den^2 * Larger(wa, wb)^2

Zero(r) == \A d \in DOMAIN r : r[d] = 0
Interaction(target, source, image, kind, direct) ==
  [target |-> target, source |-> source, image |-> image, kind |-> kind, direct |-> direct]
-----------------------------------------------------------------------------
(***************************************************************************)
(* The uniform solver without images: the children of the neighbours of    *)
(* the parent, far enough apart or on the leaf level.                      *)
(***************************************************************************)
Near(m, a, b) ==
  SquaredLength([d \in Axes(m) |-> a.at[d] - b.at[d]]) * m.theta.num^2 <= m.theta.den^2

NeighbourList(m, t) ==
  {Interaction(t, s, {}, "nearest", t.level + 1 = Depths(m)) : s \in
     {s \in OfLevel(m, t.level) :
        /\ t.level > 0
        /\ Near(m, Parent(t), Parent(s))
        /\ s # t
        /\ t.level + 1 = Depths(m) \/ ~Near(m, t, s)}}

(***************************************************************************)
(* The uniform solver with images: a source is met when no pair of its and *)
(* the target's ancestors was accepted.                                    *)
(***************************************************************************)
UniformAccepts(m, a, b, image, kind) ==
  Acceptable(m, Separation(m, a, b, 2^a.level, image), 2^a.level, 1, 1, kind)

ImageList(m, t) ==
  {Interaction(t, e[1], e[2], e[3], t.level + 1 = Depths(m)) : e \in
     {e \in OfLevel(m, t.level) \X Images(m) \X Kinds(m) :
        LET s == e[1] IN
        /\ \A k \in 0..(t.level - 1) : ~UniformAccepts(m, Ancestor(t, k), Ancestor(s, k), e[2], e[3])
        /\ t.level + 1 = Depths(m) \/ UniformAccepts(m, t, s, e[2], e[3])
        /\ e[3] = "nearest" => ~Zero(Separation(m, t, s, 2^t.level, e[2]))}}
-----------------------------------------------------------------------------
(***************************************************************************)
(* The adaptive solver: node centres on the lattice twice as fine as the   *)
(* smaller of the two nodes.                                               *)
(***************************************************************************)
CentreSeparation(m, a, b, image) ==
  LET fine == Larger(a.level, b.level)
      count == 2^(fine + 1)
      centre(n, d) == (2 * n.at[d] + 1) * 2^(fine - n.level)
  IN [d \in Axes(m) |-> Folded(
        centre(a, d) - (IF d \in image THEN -centre(b, d) + Translation(m, d) * count ELSE centre(b, d)),
        Period(m, d) * count)]

IsLeaf(m, n) == n \in m.leaves

AdaptiveAccepts(m, a, b, image, kind) ==
  LET count == 2^(Larger(a.level, b.level) + 1)
  IN Acceptable(m, CentreSeparation(m, a, b, image), count,
                count \div 2^a.level, count \div 2^b.level, kind)

Settles(m, a, b, image, kind) ==
  (IsLeaf(m, a) /\ IsLeaf(m, b)) \/ AdaptiveAccepts(m, a, b, image, kind)

(***************************************************************************)
(* A pair that is not accepted is opened: both nodes when they are of one  *)
(* size, otherwise the larger, and never a leaf.                           *)
(***************************************************************************)
TargetFirst(m, a, b) ==  \* seeded fault
  IF ~IsLeaf(m, a) /\ (IsLeaf(m, b) \/ a.level <= b.level) THEN Children(a) \X {b}
  ELSE {a} \X Children(b)

Opened(m, a, b) ==
  IF ~IsLeaf(m, a) /\ ~IsLeaf(m, b) /\ a.level = b.level THEN Children(a) \X Children(b)
  ELSE IF ~IsLeaf(m, a) /\ (IsLeaf(m, b) \/ a.level < b.level) THEN Children(a) \X {b}
  ELSE {a} \X Children(b)

(* The pairs the dual walk from the root meets, after n openings. *)
Walked(m, image, kind) ==
  LET reached[n \in 0..(2 * Depths(m))] ==
        IF n = 0 THEN {<<Root(m), Root(m)>>}
        ELSE UNION {Opened(m, p[1], p[2]) :
                      p \in {q \in reached[n - 1] : ~Settles(m, q[1], q[2], image, kind)}}
  IN UNION {reached[n] : n \in 0..(2 * Depths(m))}

WalkList(m) ==
  UNION {{Interaction(p[1], p[2], image, kind, IsLeaf(m, p[1]) /\ IsLeaf(m, p[2])) : p \in
            {p \in Walked(m, image, kind) :
               /\ Settles(m, p[1], p[2], image, kind)
               /\ kind = "nearest" => ~Zero(CentreSeparation(m, p[1], p[2], image))}} :
         image \in Images(m), kind \in Kinds(m)}

(* What the solver of mesh m interacts each node with. *)
Interactions(m) ==
  LET all == IF m.adaptive THEN WalkList(m)
             ELSE UNION {IF ImagesActive(m) THEN ImageList(m, t) ELSE NeighbourList(m, t) : t \in Nodes(m)}
  IN [t \in Nodes(m) |-> {i \in all : i.target = t}]
=============================================================================
