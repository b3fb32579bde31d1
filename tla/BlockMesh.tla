----------------------------- MODULE BlockMesh -----------------------------
(***************************************************************************)
(* Block meshes of the AMR code: a mesh is a set of leaf blocks, a block   *)
(* has c.cells cells per axis, and lengths count cells of c.maxLevel.  A   *)
(* configuration c has at least [maxLevel, cells, periodic]; an axis that  *)
(* is not periodic ends in an outflow, inflow or reflecting boundary.      *)
(*                                                                         *)
(* A cell is named like a block, by the level of its block and its index   *)
(* among all cells of that level.  The plans of the topology say which     *)
(* cells of other blocks a block reads (halo), takes fluxes from (reflux)  *)
(* and exchanges gravity work with.                                        *)
(***************************************************************************)
EXTENDS BlockTree, FiniteSets

Axes(c) == DOMAIN c.periodic
Root(c) == [level |-> 0, at |-> [d \in Axes(c) |-> 0]]
Width(c, level) == 2^(c.maxLevel - level)
Span(c) == c.cells * 2^c.maxLevel

(* A box is [lower, upper], half open, one number per axis. *)
Box(c, b, side) ==
  [lower |-> [d \in Axes(c) |-> b.at[d] * side], upper |-> [d \in Axes(c) |-> (b.at[d] + 1) * side]]
BlockBox(c, b) == Box(c, b, c.cells * Width(c, b.level))
CellBox(c, cell) == Box(c, cell, Width(c, cell.level))

(* Two boxes overlap, across the periodic boundaries too. *)
Overlaps(c, a, b) ==
  \A d \in Axes(c) : \E shift \in IF c.periodic[d] THEN {-Span(c), 0, Span(c)} ELSE {0} :
    a.lower[d] < b.upper[d] + shift /\ b.lower[d] + shift < a.upper[d]
Touches(c, a, b) ==
  \A d \in Axes(c) : \E shift \in IF c.periodic[d] THEN {-Span(c), 0, Span(c)} ELSE {0} :
    a.lower[d] <= b.upper[d] + shift /\ b.lower[d] + shift <= a.upper[d]

(* Location x moved by step, on an axis of count[level] places: outside a  *)
(* boundary that is not periodic there is nothing.                         *)
Shifted(c, x, step, count) ==
  LET moved == [d \in Axes(c) |-> x.at[d] + step[d]]
  IN IF \E d \in Axes(c) : ~c.periodic[d] /\ moved[d] \notin 0..(count - 1) THEN {}
     ELSE {[x EXCEPT !.at = [d \in Axes(c) |-> moved[d] % count]]}

FacesOnly(c, b) ==  \* seeded fault
  UNION {Shifted(c, b, step, 2^b.level) :
           step \in {s \in [Axes(c) -> -1..1] : Cardinality({d \in Axes(c) : s[d] # 0}) = 1}}
BlocksAcross(c, b) == UNION {Shifted(c, b, step, 2^b.level) : step \in [Axes(c) -> -1..1]}
CellAcross(c, cell, axis, side) ==
  Shifted(c, cell, [d \in Axes(c) |-> IF d = axis THEN side ELSE 0], c.cells * 2^cell.level)

CellsOf(c, b) ==
  {[level |-> b.level, at |-> [d \in Axes(c) |-> c.cells * b.at[d] + i[d]]] :
     i \in [Axes(c) -> 0..(c.cells - 1)]}
BlockOf(c, cell) == [level |-> cell.level, at |-> [d \in Axes(c) |-> cell.at[d] \div c.cells]]

(* The leaf cell that covers the cell; none when its block is refined. *)
Locate(c, leaves, cell) ==
  {Ancestor(cell, k) : k \in {k \in 0..cell.level : Ancestor(BlockOf(c, cell), k) \in leaves}}
-----------------------------------------------------------------------------
(***************************************************************************)
(* Pairs <<coarse cell, fine cell, axis, side>>: the flux of the coarse    *)
(* cell on that side is replaced by those of the fine cells behind it.     *)
(***************************************************************************)
FarSide(cell, axis, side) ==  \* seeded fault
  {f \in Children(cell) : f.at[axis] % 2 = IF side = 1 THEN 1 ELSE 0}
Facing(cell, axis, side) == {f \in Children(cell) : f.at[axis] % 2 = IF side = 1 THEN 0 ELSE 1}

FacesOf(c, b) ==
  {f \in CellsOf(c, b) \X Axes(c) \X {-1, 1} :
     f[1].at[f[2]] % c.cells = IF f[3] = 1 THEN c.cells - 1 ELSE 0}

RefluxPlan(c, leaves) ==
  UNION {{<<f[1], fine, f[2], f[3]>> : fine \in
            UNION {Facing(n, f[2], f[3]) :
                     n \in {n \in CellAcross(c, f[1], f[2], f[3]) : Locate(c, leaves, n) = {}}}} :
         f \in UNION {FacesOf(c, b) : b \in leaves}}

(* The cells a block exchanges gravity work with through its faces. *)
WorkPlan(c, leaves) ==
  UNION {UNION {
      LET donor == Locate(c, leaves, n)
      IN {<<f[1], other, f[2], f[3]>> : other \in IF donor # {} THEN donor ELSE Facing(n, f[2], f[3])} :
        n \in CellAcross(c, f[1], f[2], f[3])} :
    f \in UNION {FacesOf(c, b) : b \in leaves}}

(* The two layers of ghost cells around a block, edges and corners too.    *)
GhostsOf(c, b) ==
  UNION {Shifted(c, [b EXCEPT !.at = [d \in Axes(c) |-> c.cells * b.at[d]]], i, c.cells * 2^b.level) :
           i \in {i \in [Axes(c) -> -2..(c.cells + 1)] : \E d \in Axes(c) : i[d] \notin 0..(c.cells - 1)}}
=============================================================================
