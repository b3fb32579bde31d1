--------------------------- MODULE MCFieldSolver ---------------------------
(* Two localities; slices of the octree along one axis and two: a uniform   *)
(* line without images, a uniform periodic line, a line between two walls,  *)
(* an adaptive line of three levels, one between two walls, and an adaptive *)
(* plane with one wall.                                                     *)
EXTENDS FieldSolver

Line(level, S) == {[level |-> level, at |-> <<x>>] : x \in S}
Plane(level, S) == {[level |-> level, at |-> <<x[1], x[2]>>] : x \in S}

Mesh(leaves, adaptive, bits, walls, theta) ==
  [leaves |-> leaves, adaptive |-> adaptive, bits |-> bits, walls |-> walls, theta |-> theta]

(* The default opening angle, where distances tie with it, and a larger one. *)
Half == [num |-> 1, den |-> 2]
Wide == [num |-> 4, den |-> 7]

Open == <<"outflow", "outflow">>
Isolated == Mesh(Line(3, 0..7), FALSE, 1, <<Open>>, Wide)
PeriodicLine == Mesh(Line(3, 0..7), FALSE, 1, << <<"periodic", "periodic">> >>, Wide)
Walled == Mesh(Line(2, 0..3), FALSE, 1, << <<"reflecting", "reflecting">> >>, Wide)
Graded == Mesh(Line(2, 2..3) \cup Line(3, 2..3) \cup Line(4, 0..3), TRUE, 1, <<Open>>, Half)
Refined == Mesh(Line(2, 2..3) \cup Line(3, 0..3), TRUE, 1, << <<"reflecting", "reflecting">> >>, Half)
AdaptivePlane ==
  Mesh(Plane(1, {<<1, 0>>, <<0, 1>>, <<1, 1>>}) \cup Plane(2, {0, 1} \X {0, 1}), TRUE, 0,
       << <<"reflecting", "outflow">>, Open >>, Half)

MCMeshes ==
  [isolated |-> Isolated, periodic |-> PeriodicLine, walled |-> Walled,
   graded |-> Graded, refined |-> Refined, plane |-> AdaptivePlane]

MCTrees == [name \in DOMAIN MCMeshes |-> Built(MCMeshes[name])]

(* A partial request interpolates the first block, excludes the last, and   *)
(* publishes the first.                                                     *)
MCSelections ==
  [name \in DOMAIN MCMeshes |->
     LET blocks == {BlockOf(MCMeshes[name], c) : c \in MCMeshes[name].leaves}
         low == CHOOSE b \in blocks : \A o \in blocks \ {b} : Before(b, o)
         high == CHOOSE b \in blocks : \A o \in blocks \ {b} : Before(o, b)
     IN {[full |-> FALSE, targets |-> {low},
          sources |-> [b \in blocks |-> IF b = low THEN {0, 1} ELSE IF b = high THEN {} ELSE {0}]]}]
=============================================================================
