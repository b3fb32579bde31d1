------------------------- MODULE FieldSolverProofs -------------------------
(***************************************************************************)
(* Proofs about FieldSolver, for every mesh, number of localities, request *)
(* and failing task: the routing of nodes to owners, what a partition reads *)
(* while other partitions still run, and what a solve may write.           *)
(***************************************************************************)
EXTENDS FieldSolver, NatLemmas, SequenceTheorems

(***************************************************************************)
(* Routing: id * P / total is the partition whose range [total * p / P,    *)
(* total * (p + 1) / P), bounds rounded up, contains id.                   *)
(***************************************************************************)
LEMMA RangeOfRoute ==
  ASSUME NEW total \in Nat \ {0}, NEW id \in 0 .. total - 1
  PROVE  Routed(total, id) \in Owners /\ id \in Owned(total, Routed(total, id))
<1> DEFINE P == Partitions
           p == (id * P) \div total
<1>0. P \in Nat \ {0} /\ id \in Nat /\ id < total
  BY SolverAssumption
<1> HIDE DEF P
<1>1. id * P \in Nat /\ id * P < total * P
  BY <1>0
<1>2. p \in Nat /\ total * p <= id * P /\ id * P < total * p + total
  BY <1>0, <1>1, Quotient
<1>3. p \in 0 .. P - 1
  BY <1>0, <1>1, <1>2
<1> HIDE DEF p
<1>4. (total * p + P - 1) \div P <= id
  <2> DEFINE q == (total * p + P - 1) \div P
  <2>1. total * p + P - 1 \in Nat
    BY <1>0, <1>2
  <2>2. P * q <= total * p + P - 1 /\ q \in Nat
    BY <1>0, <2>1, Quotient
  <2> HIDE DEF q
  <2>3. P * q <= P * id + P - 1
    BY <1>0, <1>2, <2>2
  <2>4. q <= id
    BY <1>0, <2>3, <2>2
  <2> QED
    BY <2>4 DEF q
<1>5. id < (total * (p + 1) + P - 1) \div P
  <2> DEFINE q == (total * (p + 1) + P - 1) \div P
  <2>1. total * (p + 1) = total * p + total
    BY <1>2
  <2>2. total * (p + 1) + P - 1 \in Nat
    BY <1>0, <1>2, <2>1
  <2>3. total * (p + 1) + P - 1 < P * q + P /\ q \in Nat
    BY <1>0, <2>2, Quotient
  <2> HIDE DEF q
  <2>4. id * P + P < P * q + P
    BY <1>0, <1>2, <2>1, <2>3
  <2>5. id < q
    BY <1>0, <2>3, <2>4
  <2> QED
    BY <2>5 DEF q
<1>6. First(total, p) \in Int /\ First(total, p + 1) \in Int
  BY <1>0, <1>2 DEF First, P
<1>7. id \in First(total, p) .. First(total, p + 1) - 1
  BY <1>0, <1>4, <1>5, <1>6 DEF First, P
<1> QED
  BY <1>3, <1>7 DEF Routed, Owned, Owners, P, p

(* Nodes have the types of their leaves' locations, and are finitely many. *)
LEMMA NodeTypes ==
  ASSUME NEW name \in DOMAIN Meshes
  PROVE  /\ \A n \in Nodes(Meshes[name]) : n.level \in Nat /\ n.at \in [Axes(Meshes[name]) -> Nat]
         /\ Meshes[name].leaves \subseteq Nodes(Meshes[name])
<1> DEFINE m == Meshes[name]
<1>1. \A c \in m.leaves : /\ c.level \in Nat /\ c.at \in [Axes(m) -> Nat]
                          /\ c = [level |-> c.level, at |-> c.at]
  BY MeshAssumption
<1> HIDE DEF m
<1>2. ASSUME NEW c \in m.leaves, NEW k \in 0 .. c.level
      PROVE  Ancestor(c, k).level \in Nat /\ Ancestor(c, k).at \in [Axes(m) -> Nat]
  <2>1. c.level - k \in Nat /\ k \in Nat
    BY <1>1
  <2>2. 2^(c.level - k) \in Nat \ {0}
    BY <2>1, Power
  <2>3. \A d \in Axes(m) : c.at[d] \div 2^(c.level - k) \in Nat
    BY <1>1, <2>2, Quotient
  <2>4. DOMAIN c.at = Axes(m)
    BY <1>1
  <2> QED
    BY <2>1, <2>3, <2>4 DEF Ancestor
<1>3. ASSUME NEW n \in Nodes(m) PROVE n.level \in Nat /\ n.at \in [Axes(m) -> Nat]
  <2>1. PICK c \in m.leaves : \E k \in 0 .. c.level : n = Ancestor(c, k)
    BY DEF Nodes
  <2> QED
    BY <1>2, <2>1
<1>4. ASSUME NEW c \in m.leaves PROVE c \in Nodes(m)
  <2>1. c.level - c.level = 0 /\ c.level \in 0 .. c.level
    BY <1>1
  <2>2. \A d \in Axes(m) : c.at[d] \div 2^(c.level - c.level) = c.at[d]
    <3>1. 2^(c.level - c.level) = 1
      BY <2>1, PowerZero
    <3>2. \A x \in Nat : x \div 1 = x
      OBVIOUS
    <3> QED
      BY <1>1, <3>1, <3>2
  <2>3. Ancestor(c, c.level) = c
    <3>1. [d \in DOMAIN c.at |-> c.at[d] \div 2^(c.level - c.level)] = c.at
      BY <1>1, <2>2
    <3> QED
      BY <1>1, <3>1 DEF Ancestor
  <2> QED
    BY <2>1, <2>3 DEF Nodes
<1> QED
  BY <1>3, <1>4 DEF m

(* A finite mesh has a finite tree. *)
LEMMA FiniteNodes ==
  ASSUME NEW name \in DOMAIN Meshes
  PROVE  IsFiniteSet(Nodes(Meshes[name]))
<1> DEFINE leaves == Meshes[name].leaves
           line(c) == {Ancestor(c, k) : k \in 0 .. c.level}
           lines == {line(c) : c \in leaves}
<1>1. IsFiniteSet(leaves) /\ \A c \in leaves : c.level \in Nat
  BY MeshAssumption
<1> HIDE DEF leaves
<1>2. ASSUME NEW c \in leaves PROVE IsFiniteSet(line(c))
  <2>1. IsFiniteSet(0 .. c.level)
    <3>1. 0 \in Int /\ c.level \in Int
      BY <1>1
    <3>2. \A x, y \in Int : IsFiniteSet(x .. y)
      BY FS_Interval
    <3> QED
      BY <3>1, <3>2
  <2>2. [k \in 0 .. c.level |-> Ancestor(c, k)] \in Surjection(0 .. c.level, line(c))
    <3> DEFINE f == [k \in 0 .. c.level |-> Ancestor(c, k)]
    <3>1. f \in [0 .. c.level -> line(c)]
      OBVIOUS
    <3>2. \A n \in line(c) : \E k \in 0 .. c.level : f[k] = n
      OBVIOUS
    <3> QED
      BY <3>1, <3>2 DEF Surjection
  <2> QED
    BY <2>1, <2>2, FS_Surjection
<1> HIDE DEF line
<1>3. IsFiniteSet(lines)
  <2>1. [c \in leaves |-> line(c)] \in Surjection(leaves, lines)
    BY DEF Surjection
  <2> QED
    BY <1>1, <2>1, FS_Surjection
<1>4. IsFiniteSet(UNION lines)
  BY <1>2, <1>3, FS_UNION
<1> QED
  BY <1>4 DEF Nodes, leaves, line

(* A node has fewer nodes before it than there are numbered with it. *)
LEMMA NodeNumbers ==
  ASSUME NEW name \in DOMAIN Meshes, NEW n \in Nodes(Meshes[name])
  PROVE  LET all == Numbered(Meshes[name], n)
         IN /\ Cardinality(all) \in Nat \ {0}
            /\ Cardinality({o \in all : Before(o, n)}) \in 0 .. Cardinality(all) - 1
<1> DEFINE m == Meshes[name]
           all == Numbered(m, n)
           earlier == {o \in all : Before(o, n)}
<1>1. n \in all /\ all \subseteq Nodes(m)
  BY DEF Numbered, OfLevel
<1>2. IsFiniteSet(all)
  BY <1>1, FiniteNodes, FS_Subset
<1>3. n.level \in Nat /\ n.at \in [Axes(m) -> Nat]
  BY NodeTypes
<1> HIDE DEF all, m
<1>4. ~Before(n, n)
  BY <1>3 DEF Before
<1>5. earlier \subseteq all \ {n}
  BY <1>4
<1>6. IsFiniteSet(all \ {n}) /\ Cardinality(all \ {n}) = Cardinality(all) - 1 /\ Cardinality(all) \in Nat
  BY <1>1, <1>2, FS_RemoveElement, FS_CardinalityType
<1>7. Cardinality(earlier) <= Cardinality(all) - 1 /\ Cardinality(earlier) \in Nat
  BY <1>5, <1>6, FS_Subset, FS_CardinalityType
<1>8. Cardinality(all) # 0
  BY <1>6, <1>7
<1> QED
  BY <1>6, <1>7, <1>8 DEF all, m

(* Every node is owned by the partition its requests are routed to. *)
LEMMA RouteOwns ==
  ASSUME NEW name \in DOMAIN Meshes, NEW n \in Trees[name].nodes
  PROVE  Trees[name].route[n] \in Owners /\ n \in Trees[name].owned[Trees[name].route[n]]
<1> DEFINE m == Meshes[name]
           total(k) == Cardinality(Numbered(m, k))
           id(k) == Cardinality({o \in Numbered(m, k) : Before(o, k)})
<1>1. /\ Trees[name].nodes = Nodes(m)
      /\ Trees[name].route = [k \in Nodes(m) |-> Routed(total(k), id(k))]
      /\ Trees[name].owned = [p \in Owners |-> {k \in Nodes(m) : id(k) \in Owned(total(k), p)}]
  BY TreeAssumption DEF Built
<1>2. total(n) \in Nat \ {0} /\ id(n) \in 0 .. total(n) - 1
  BY <1>1, NodeNumbers
<1> HIDE DEF total, id, m
<1>3. Routed(total(n), id(n)) \in Owners /\ id(n) \in Owned(total(n), Routed(total(n), id(n)))
  BY <1>2, RangeOfRoute
<1> QED
  BY <1>1, <1>3

(* A tree has at least one level. *)
LEMMA TreeDepth ==
  ASSUME NEW name \in DOMAIN Meshes
  PROVE  Depths(Meshes[name]) \in Nat \ {0}
<1> DEFINE leaves == Meshes[name].leaves
           levels == {c.level : c \in leaves}
<1>1. IsFiniteSet(leaves) /\ leaves # {} /\ \A c \in leaves : c.level \in Nat
  BY MeshAssumption
<1>2. IsFiniteSet(levels)
  <2>1. [c \in leaves |-> c.level] \in Surjection(leaves, levels)
    BY DEF Surjection
  <2> QED
    BY <1>1, <2>1, FS_Surjection
<1>3. levels \in SUBSET Nat /\ levels # {}
  BY <1>1
<1> HIDE DEF levels
<1>4. PICK x \in levels : \A y \in levels : y <= x
  BY <1>2, <1>3, FiniteGreatest
<1>5. \E z \in levels : \A y \in levels : z >= y
  BY <1>3, <1>4
<1>6. Max(levels) \in levels
  BY <1>5 DEF Max
<1> QED
  BY <1>3, <1>6 DEF Depths, levels

(* The first and the last phase of a joined list of phases. *)
LEMMA Joined ==
  ASSUME NEW S, NEW s \in Seq(S), NEW t \in Seq(S), Len(s) > 0, Len(t) >= 0
  PROVE  /\ s \o t \in Seq(S) /\ Len(s \o t) = Len(s) + Len(t) /\ (s \o t)[1] = s[1]
         /\ Len(t) = 1 => (s \o t)[Len(s) + 1] = t[1]
<1> DEFINE u == s \o t
<1>1. Len(s) \in Nat /\ Len(t) \in Nat
  BY LenProperties
<1>2. u \in Seq(S) /\ Len(u) = Len(s) + Len(t)
  BY ConcatProperties
<1>3. \A i \in 1 .. Len(s) + Len(t) : u[i] = IF i <= Len(s) THEN s[i] ELSE t[i - Len(s)]
  BY ConcatProperties
<1> HIDE DEF u
<1>4. u[1] = s[1]
  BY <1>1, <1>3
<1>5. ASSUME Len(t) = 1 PROVE u[Len(s) + 1] = t[1]
  <2>1. Len(s) + 1 \in 1 .. Len(s) + Len(t) /\ ~(Len(s) + 1 <= Len(s)) /\ (Len(s) + 1) - Len(s) = 1
    BY <1>1, <1>5
  <2>2. u[Len(s) + 1] = IF Len(s) + 1 <= Len(s) THEN s[Len(s) + 1] ELSE t[(Len(s) + 1) - Len(s)]
    BY <1>3, <2>1
  <2> QED
    BY <2>1, <2>2
<1> QED
  BY <1>2, <1>4, <1>5 DEF u

(* A solve begins by configuring and ends by publishing. *)
LEMMA PhaseEnds ==
  ASSUME mesh \in DOMAIN Meshes
  PROVE  /\ Len(Phases) \in Nat /\ Len(Phases) > 1
         /\ Phases[1].stage = "configure" /\ Phases[Len(Phases)].stage = "publish"
<1> DEFINE depths == Depths(Meshes[mesh])
           Step == [stage : {"configure", "initialize", "upward", "downward", "publish"}, depth : Int]
           first == <<[stage |-> "configure", depth |-> 0], [stage |-> "initialize", depth |-> 0]>>
           up == [i \in 1..(depths - 1) |-> [stage |-> "upward", depth |-> depths - 1 - i]]
           down == [i \in 1..depths |-> [stage |-> "downward", depth |-> i - 1]]
           last == <<[stage |-> "publish", depth |-> 0]>>
<1>1. depths \in Nat \ {0}
  BY TreeDepth
<1>2. Phases = first \o up \o down \o last
  BY TreeAssumption DEF Phases, Tree, Forest, Built, Stages
<1> HIDE DEF depths
<1>3. first \in Seq(Step) /\ Len(first) = 2 /\ first[1].stage = "configure"
  OBVIOUS
<1>4. up \in Seq(Step) /\ Len(up) = depths - 1
  <2>1. depths - 1 \in Nat /\ up \in [1 .. (depths - 1) -> Step]
    BY <1>1
  <2> HIDE DEF up, Step
  <2> QED
    BY <2>1, IsASeq, LenProperties
<1>5. down \in Seq(Step) /\ Len(down) = depths
  <2>1. depths \in Nat /\ down \in [1 .. depths -> Step]
    BY <1>1
  <2> HIDE DEF down, Step
  <2> QED
    BY <2>1, IsASeq, LenProperties
<1>6. last \in Seq(Step) /\ Len(last) = 1 /\ last[1].stage = "publish"
  OBVIOUS
<1> HIDE DEF first, up, down, last, Step
<1>7. /\ first \o up \in Seq(Step) /\ Len(first \o up) = depths + 1 /\ (first \o up)[1] = first[1]
  <2>1. Len(first) > 0 /\ Len(up) >= 0 /\ Len(first) + Len(up) = depths + 1
    BY <1>1, <1>3, <1>4
  <2>2. first \in Seq(Step) /\ up \in Seq(Step)
    BY <1>3, <1>4
  <2>3. /\ first \o up \in Seq(Step) /\ Len(first \o up) = Len(first) + Len(up)
        /\ (first \o up)[1] = first[1]
    BY <2>1, <2>2, Joined
  <2> QED
    BY <2>1, <2>3
<1>8. /\ first \o up \o down \in Seq(Step) /\ Len(first \o up \o down) = 2 * depths + 1
      /\ (first \o up \o down)[1] = first[1]
  <2> DEFINE head == first \o up
  <2>1. head \in Seq(Step) /\ Len(head) = depths + 1 /\ head[1] = first[1]
    BY <1>7
  <2> HIDE DEF head
  <2>2. head \o down \in Seq(Step) /\ Len(head \o down) = (depths + 1) + depths
        /\ (head \o down)[1] = head[1]
    BY <1>1, <1>5, <2>1, Joined
  <2> QED
    BY <1>1, <2>1, <2>2 DEF head
<1>9. /\ Len(first \o up \o down \o last) = 2 * depths + 2
      /\ (first \o up \o down \o last)[1] = first[1]
      /\ (first \o up \o down \o last)[2 * depths + 2] = last[1]
  <2> DEFINE head == first \o up \o down
  <2>1. head \in Seq(Step) /\ Len(head) = 2 * depths + 1 /\ head[1] = first[1]
    BY <1>8
  <2> HIDE DEF head
  <2>2. /\ Len(head \o last) = (2 * depths + 1) + 1 /\ (head \o last)[1] = head[1]
        /\ (head \o last)[2 * depths + 2] = last[1]
    <3>1. Len(head) > 0 /\ Len(last) >= 0 /\ Len(head) + 1 = 2 * depths + 2 /\ Len(last) = 1
      BY <1>1, <1>6, <2>1
    <3>2. head \in Seq(Step) /\ last \in Seq(Step)
      BY <1>6, <2>1
    <3>3. /\ head \o last \in Seq(Step) /\ Len(head \o last) = Len(head) + Len(last)
          /\ (head \o last)[1] = head[1]
      <4>1. Len(head) > 0 /\ Len(last) >= 0
        BY <3>1
      <4> QED
        BY <3>2, <4>1, Joined
    <3>4. Len(last) = 1 => (head \o last)[Len(head) + 1] = last[1]
      BY <3>1, <3>2, Joined
    <3> QED
      BY <1>1, <2>1, <3>1, <3>3, <3>4
  <2> QED
    BY <1>1, <2>1, <2>2 DEF head
<1> QED
  BY <1>1, <1>2, <1>3, <1>6, <1>9

(* What the solver of a mesh keeps, at the state's mesh. *)
LEMMA TreeFacts ==
  ASSUME mesh \in DOMAIN Meshes
  PROVE  /\ Leaves \subseteq Tree.nodes /\ \A n \in Tree.nodes : n.level \in Nat
         /\ \A p \in Owners : Own(p) \subseteq Tree.nodes
         /\ \A n \in Tree.nodes : Tree.route[n] \in Owners /\ n \in Own(Tree.route[n])
         /\ \A c \in Leaves : Tree.block[c] \in Blocks
<1>1. Tree.nodes = Nodes(Meshes[mesh]) /\ Leaves = Meshes[mesh].leaves /\ Tree = Trees[mesh]
  BY TreeAssumption DEF Tree, Forest, Leaves, Built
<1>2. \A p \in Owners : Own(p) \subseteq Tree.nodes
  BY TreeAssumption DEF Own, Tree, Forest, Built
<1>3. \A n \in Tree.nodes : Tree.route[n] \in Owners /\ n \in Own(Tree.route[n])
  BY <1>1, RouteOwns DEF Own
<1> QED
  BY <1>1, <1>2, <1>3, NodeTypes DEF Blocks

-----------------------------------------------------------------------------
(* The types the proofs need; that bags stay bags is left to TLC. *)
Shape ==
  /\ mesh \in DOMAIN Meshes /\ published \in {0, 1} /\ phase \in 0 .. Len(Phases)
  /\ running \subseteq Owners /\ error \in BOOLEAN /\ moves \in 0 .. MaxMoves
  /\ density \in [{0, 1} -> [Leaves -> 0 .. MaxMoves]]
  /\ gravity = [b \in {0, 1} |-> gravity[b]]
  /\ output = [c \in Leaves |-> output[c]]
  /\ moments = [n \in Tree.nodes |-> moments[n]] /\ locals = [n \in Tree.nodes |-> locals[n]]
  /\ settings = [p \in Owners |-> settings[p]]
  /\ halo = [p \in Owners |-> [moments |-> halo[p].moments, locals |-> halo[p].locals]]

(* A halo holds nodes of other depths than the one its phase computes, and   *)
(* only in a pass.                                                         *)
FreshMoment(n) ==
  /\ n \in Tree.nodes
  /\ phase > 0 => \/ Now.stage = "upward" /\ n.level # Now.depth
                  \/ Now.stage = "downward"
FreshLocal(n) ==
  /\ n \in Tree.nodes
  /\ phase > 0 => Now.stage = "downward" /\ n.level # Now.depth
HaloFresh ==
  \A p \in Owners :
    /\ \A n \in DOMAIN halo[p].moments : FreshMoment(n) /\ halo[p].moments[n] = moments[n]
    /\ \A n \in DOMAIN halo[p].locals : FreshLocal(n) /\ halo[p].locals[n] = locals[n]

(* No step of the solver changes the mesh: regrids are a component of their own. *)
LEMMA MeshKept == [Next]_vars => mesh' = mesh
<1>1. ASSUME NEW p \in Owners, Task(p) PROVE mesh' = mesh
  <2>1. CASE Configure(p) \/ Initialize(p) \/ Upward(p)
    BY <2>1 DEF Configure, Initialize, Upward, Finish
  <2>2. CASE Downward(p) \/ Publish(p) \/ Throw(p)
    BY <2>2 DEF Downward, Publish, Throw, Finish
  <2>3. CASE \E q \in Owners : Read(p, q)
    BY <2>3 DEF Read
  <2> QED
    BY <1>1, <2>1, <2>2, <2>3 DEF Task
<1>2. Solver => mesh' = mesh
  BY <1>1 DEF Solver, NextPhase, Fail, Return
<1>3. Solve \/ SolveRequest \/ Move => mesh' = mesh
  BY DEF Solve, SolveRequest, Begin, Move
<1> QED
  BY <1>2, <1>3 DEF Next, vars

(* What is derived from the mesh stays with it. *)
LEMMA TreeKept ==
  ASSUME mesh' = mesh
  PROVE  /\ Tree' = Tree /\ Leaves' = Leaves /\ Phases' = Phases /\ Blocks' = Blocks
         /\ \A p : Own(p)' = Own(p) /\ OwnLeaves(p)' = OwnLeaves(p)
         /\ phase' = phase => Now' = Now
<1>1. Tree' = Tree
  BY DEF Tree, Forest
<1> QED
  BY <1>1 DEF Leaves, Phases, Blocks, Own, OwnLeaves, Now

(* The launch of a phase empties every halo (clear of the remote nodes). *)
LEMMA Launched ==
  ASSUME NEW launched, Launch(launched)
  PROVE  /\ \A p \in Owners : DOMAIN halo'[p].moments = {} /\ DOMAIN halo'[p].locals = {}
         /\ halo' = [p \in Owners |-> [moments |-> halo'[p].moments, locals |-> halo'[p].locals]]
         /\ running' = launched /\ error' = (launched # Owners)
<1>1. halo' = [p \in Owners |-> [moments |-> << >>, locals |-> << >>]]
  BY DEF Launch
<1>2. DOMAIN << >> = {}
  OBVIOUS
<1> QED
  BY <1>1, <1>2 DEF Launch

(* A launch reaches owners only. *)
LEMMA LaunchedOwners == ASSUME NEW launched \in Launches PROVE launched \subseteq Owners
  BY SolverAssumption DEF Launches, Owners

(* The initial state is well formed. *)
LEMMA ShapeInit == Init => Shape
<1> SUFFICES ASSUME Init PROVE Shape
  OBVIOUS
<1>1. mesh \in DOMAIN Meshes /\ published = 0 /\ phase = 0 /\ running = {} /\ error = FALSE /\ moves = 0
  BY DEF Init
<1>2. Len(Phases) \in Nat /\ MaxMoves \in Nat
  BY <1>1, PhaseEnds, SolverAssumption
<1>3. density \in [{0, 1} -> [Leaves -> 0 .. MaxMoves]]
  BY <1>2 DEF Init
<1>4. gravity = [b \in {0, 1} |-> gravity[b]] /\ output = [c \in Leaves |-> output[c]]
  BY DEF Init
<1>5. moments = [n \in Tree.nodes |-> moments[n]] /\ locals = [n \in Tree.nodes |-> locals[n]]
  BY DEF Init
<1>6. settings = [p \in Owners |-> settings[p]]
  BY DEF Init
<1>7. halo = [p \in Owners |-> [moments |-> halo[p].moments, locals |-> halo[p].locals]]
  BY DEF Init
<1>8. /\ mesh \in DOMAIN Meshes /\ published \in {0, 1} /\ phase \in 0 .. Len(Phases)
      /\ running \subseteq Owners /\ error \in BOOLEAN /\ moves \in 0 .. MaxMoves
  <2>1. phase \in 0 .. Len(Phases) /\ moves \in 0 .. MaxMoves
    BY <1>1, <1>2
  <2>2. running \subseteq Owners
    BY <1>1
  <2>3. error \in BOOLEAN
    BY <1>1, Zenon
  <2>4. published \in {0, 1}
    BY <1>1
  <2> QED
    BY <1>1, <2>1, <2>2, <2>3, <2>4, Zenon
<1> QED
  BY <1>3, <1>4, <1>5, <1>6, <1>7, <1>8, Zenon DEF Shape


-----------------------------------------------------------------------------
(* The settings a partition works with are those of the solve that runs.   *)
Configured ==
  \A p \in Owners :
    phase > 1 \/ (phase = 1 /\ p \notin running /\ ~error) => settings[p].request = call

(* A full solve has every block among its targets. *)
CallWhole == phase > 0 /\ call.full => call.targets = Blocks

(* What a full solve has copied into the other bank when a task has ended. *)
Copied ==
  phase > 0 /\ Now.stage = "publish" /\ call.full /\ ~error =>
    \A p \in Owners \ running : \A c \in OwnLeaves(p) :
      density[1 - published][c] = density[published][c]

IInv == Shape /\ HaloFresh /\ Configured /\ CallWhole /\ Copied


-----------------------------------------------------------------------------
(* A state is well formed when each of its parts is. *)
LEMMA ShapeNext ==
  ASSUME Shape, mesh' = mesh, published' \in {0, 1}, phase' \in 0 .. Len(Phases),
         running' \subseteq Owners, error' \in BOOLEAN, moves' \in 0 .. MaxMoves,
         density' \in [{0, 1} -> [Leaves -> 0 .. MaxMoves]],
         gravity' = [b \in {0, 1} |-> gravity'[b]],
         output' = [c \in Leaves |-> output'[c]],
         moments' = [n \in Tree.nodes |-> moments'[n]], locals' = [n \in Tree.nodes |-> locals'[n]],
         settings' = [p \in Owners |-> settings'[p]],
         halo' = [p \in Owners |-> [moments |-> halo'[p].moments, locals |-> halo'[p].locals]]
  PROVE  Shape'
<1>1. Tree' = Tree /\ Leaves' = Leaves /\ Phases' = Phases
  BY TreeKept
<1>2. mesh' \in DOMAIN Meshes
  BY DEF Shape
<1> QED
  BY <1>1, <1>2, Zenon DEF Shape

(* Every step keeps the state well formed. *)
LEMMA ShapeStep == Shape /\ [Next]_vars => Shape'
<1> SUFFICES ASSUME Shape, [Next]_vars PROVE Shape'
  OBVIOUS
<1>1. mesh' = mesh
  BY MeshKept
<1>2. /\ mesh \in DOMAIN Meshes /\ published \in {0, 1} /\ phase \in 0 .. Len(Phases)
      /\ running \subseteq Owners /\ error \in BOOLEAN /\ moves \in 0 .. MaxMoves
      /\ density \in [{0, 1} -> [Leaves -> 0 .. MaxMoves]]
  BY DEF Shape
<1>3. /\ gravity = [b \in {0, 1} |-> gravity[b]]
      /\ output = [c \in Leaves |-> output[c]]
      /\ moments = [n \in Tree.nodes |-> moments[n]] /\ locals = [n \in Tree.nodes |-> locals[n]]
      /\ settings = [p \in Owners |-> settings[p]]
      /\ halo = [p \in Owners |-> [moments |-> halo[p].moments, locals |-> halo[p].locals]]
  BY DEF Shape
<1>4. Len(Phases) \in Nat /\ Len(Phases) > 1
  BY <1>2, PhaseEnds
<1>5. ASSUME NEW r, Begin(r) PROVE Shape'
  <2>1. PICK launched \in Launches : Launch(launched)
    BY <1>5 DEF Begin
  <2>2. /\ halo' = [p \in Owners |-> [moments |-> halo'[p].moments, locals |-> halo'[p].locals]]
        /\ running' \subseteq Owners
    BY <2>1, Launched, LaunchedOwners
  <2>3. error' \in BOOLEAN
    BY <2>1, Launched, Zenon
  <2>4. phase' \in 0 .. Len(Phases)
    BY <1>4, <1>5 DEF Begin
  <2>5. UNCHANGED <<published, moves, density, gravity, output, moments, locals, settings>>
    BY <1>5 DEF Begin, fields, solverVars
  <2> QED
    BY <1>1, <1>2, <1>3, <2>2, <2>3, <2>4, <2>5, ShapeNext, Zenon
<1>6. CASE NextPhase
  <2>1. PICK launched \in Launches : Launch(launched)
    BY <1>6 DEF NextPhase
  <2>2. /\ halo' = [p \in Owners |-> [moments |-> halo'[p].moments, locals |-> halo'[p].locals]]
        /\ running' \subseteq Owners
    BY <2>1, Launched, LaunchedOwners
  <2>3. error' \in BOOLEAN
    BY <2>1, Launched, Zenon
  <2>4. phase' \in 0 .. Len(Phases)
    BY <1>4, <1>6 DEF NextPhase
  <2>5. UNCHANGED <<published, moves, density, gravity, output, moments, locals, settings>>
    BY <1>6 DEF NextPhase, fields, solverVars
  <2> QED
    BY <1>1, <1>2, <1>3, <2>2, <2>3, <2>4, <2>5, ShapeNext, Zenon
<1>7. CASE Fail \/ Return
  <2>1. UNCHANGED <<moves, density, gravity, output, moments, locals, settings, running, halo>>
    BY <1>7 DEF Fail, Return, fields, solverVars, taskVars, bounds
  <2>2. phase' \in 0 .. Len(Phases)
    BY <1>4, <1>7 DEF Fail, Return
  <2>3. published' \in {0, 1}
    BY <1>2, <1>7 DEF Fail, Return, fields
  <2>4. error' \in BOOLEAN
    BY <1>2, <1>7, Zenon DEF Fail, Return, taskVars
  <2> QED
    BY <1>1, <1>2, <1>3, <2>1, <2>2, <2>3, <2>4, ShapeNext, Zenon
<1>8. CASE Move
  <2>1. UNCHANGED <<phase, gravity, output, moments, locals, settings, running, halo, error>>
    BY <1>8 DEF Move, solverVars, taskVars
  <2>2. published' \in {0, 1}
    BY <1>2, <1>8 DEF Move
  <2>3. moves + 1 \in 0 .. MaxMoves /\ moves' = moves + 1
    BY <1>2, <1>8, SolverAssumption DEF Move
  <2>4. density' \in [{0, 1} -> [Leaves -> 0 .. MaxMoves]]
    BY <1>2, <1>8, <2>3 DEF Move
  <2> QED
    BY <1>1, <1>2, <1>3, <2>1, <2>2, <2>3, <2>4, ShapeNext, Zenon
<1>9. ASSUME NEW p \in Owners, Configure(p) PROVE Shape'
  <2>1. /\ UNCHANGED <<published, phase, moves, density, gravity, output, moments, locals, halo>>
        /\ running' \subseteq Owners
    BY <1>2, <1>9 DEF Configure, Finish, fields
  <2>2. error' \in BOOLEAN
    BY <1>9, Zenon DEF Configure, Finish
  <2>3. settings' = [q \in Owners |-> settings'[q]]
    BY <1>3, <1>9 DEF Configure
  <2> QED
    BY <1>1, <1>2, <1>3, <2>1, <2>2, <2>3, ShapeNext, Zenon
<1>10. ASSUME NEW p \in Owners, Initialize(p) PROVE Shape'
  <2>1. /\ UNCHANGED <<published, phase, moves, density, gravity, output, settings, halo>>
        /\ running' \subseteq Owners
    BY <1>2, <1>10 DEF Initialize, Finish, fields
  <2>2. error' \in BOOLEAN
    BY <1>10, Zenon DEF Initialize, Finish
  <2>3. moments' = [n \in Tree.nodes |-> moments'[n]] /\ locals' = [n \in Tree.nodes |-> locals'[n]]
    BY <1>10 DEF Initialize
  <2> QED
    BY <1>1, <1>2, <1>3, <2>1, <2>2, <2>3, ShapeNext, Zenon
<1>11. ASSUME NEW p \in Owners, Upward(p) PROVE Shape'
  <2>1. /\ UNCHANGED <<published, phase, moves, density, gravity, output, settings, halo, locals>>
        /\ running' \subseteq Owners
    BY <1>2, <1>11 DEF Upward, Finish, fields
  <2>2. error' \in BOOLEAN
    BY <1>11, Zenon DEF Upward, Finish
  <2>3. moments' = [n \in Tree.nodes |-> moments'[n]]
    BY <1>11 DEF Upward
  <2> QED
    BY <1>1, <1>2, <1>3, <2>1, <2>2, <2>3, ShapeNext, Zenon
<1>12. ASSUME NEW p \in Owners, Downward(p) PROVE Shape'
  <2>1. /\ UNCHANGED <<published, phase, moves, density, gravity, output, settings, halo, moments>>
        /\ running' \subseteq Owners
    BY <1>2, <1>12 DEF Downward, Finish, fields
  <2>2. error' \in BOOLEAN
    BY <1>12, Zenon DEF Downward, Finish
  <2>3. locals' = [n \in Tree.nodes |-> locals'[n]]
    BY <1>12 DEF Downward
  <2> QED
    BY <1>1, <1>2, <1>3, <2>1, <2>2, <2>3, ShapeNext, Zenon
<1>13. ASSUME NEW p \in Owners, Publish(p) PROVE Shape'
  <2>1. /\ UNCHANGED <<published, phase, moves, settings, halo, moments, locals>>
        /\ running' \subseteq Owners
    BY <1>2, <1>13 DEF Publish, Finish, solverVars
  <2>2. error' \in BOOLEAN
    BY <1>13, Zenon DEF Publish, Finish
  <2>3. gravity' = [b \in {0, 1} |-> gravity'[b]] /\ output' = [c \in Leaves |-> output'[c]]
    BY <1>3, <1>13 DEF Publish
  <2>4. density' \in [{0, 1} -> [Leaves -> 0 .. MaxMoves]]
    <3>1. CASE UNCHANGED density
      BY <1>2, <3>1
    <3>2. ASSUME NEW cells,
                 density' = [density EXCEPT ![OutputBank] =
                               [c \in Leaves |-> IF c \in cells THEN density[published][c] ELSE @[c]]]
          PROVE  density' \in [{0, 1} -> [Leaves -> 0 .. MaxMoves]]
      <4>1. OutputBank \in {0, 1} /\ published \in {0, 1}
        BY <1>2 DEF OutputBank
      <4> QED
        BY <1>2, <3>2, <4>1
    <3> QED
      BY <1>13, <3>1, <3>2 DEF Publish
  <2> QED
    BY <1>1, <1>2, <1>3, <2>1, <2>2, <2>3, <2>4, ShapeNext, Zenon
<1>14. ASSUME NEW p \in Owners, Throw(p) PROVE Shape'
  <2>1. /\ UNCHANGED <<published, phase, moves, density, gravity, output, settings, halo, moments, locals>>
        /\ running' \subseteq Owners
    BY <1>2, <1>14 DEF Throw, Finish, fields, solverVars
  <2>2. error' \in BOOLEAN
    BY <1>14, Zenon DEF Throw, Finish
  <2> QED
    BY <1>1, <1>2, <1>3, <2>1, <2>2, ShapeNext, Zenon
<1>15. ASSUME NEW p \in Owners, NEW q \in Owners, Read(p, q) PROVE Shape'
  <2>1. /\ UNCHANGED <<published, phase, moves, density, gravity, output, settings, moments, locals>>
        /\ running' \subseteq Owners
    BY <1>2, <1>15 DEF Read, fields, solverVars, bounds
  <2>2. error' \in BOOLEAN
    BY <1>2, <1>15, Zenon DEF Read
  <2>3. halo' = [o \in Owners |-> [moments |-> halo'[o].moments, locals |-> halo'[o].locals]]
    BY <1>3, <1>15 DEF Read
  <2> QED
    BY <1>1, <1>2, <1>3, <2>1, <2>2, <2>3, ShapeNext, Zenon
<1>16. CASE UNCHANGED vars
  BY <1>1, <1>2, <1>3, <1>16, ShapeNext DEF vars, fields, solverVars, taskVars, bounds
<1> QED
  BY <1>5, <1>6, <1>7, <1>8, <1>9, <1>10, <1>11, <1>12, <1>13, <1>14, <1>15, <1>16
  DEF Next, Solver, Solve, SolveRequest, Task


-----------------------------------------------------------------------------
(* At the start no halo holds anything. *)
LEMMA HaloInit == Init => HaloFresh
<1> SUFFICES ASSUME Init, NEW p \in Owners PROVE DOMAIN halo[p].moments = {} /\ DOMAIN halo[p].locals = {}
  BY DEF HaloFresh
<1>1. halo[p].moments = << >> /\ halo[p].locals = << >>
  BY DEF Init
<1> QED
  BY <1>1

(* An empty halo is fresh. *)
LEMMA HaloEmpty ==
  ASSUME \A p \in Owners : DOMAIN halo'[p].moments = {} /\ DOMAIN halo'[p].locals = {}
  PROVE  HaloFresh'
  BY DEF HaloFresh

(* A halo nobody touches stays fresh in a phase and when a solve ends. *)
LEMMA HaloKept ==
  ASSUME HaloFresh, mesh' = mesh, UNCHANGED <<moments, locals, halo>>, phase' = phase \/ phase' = 0
  PROVE  HaloFresh'
<1>1. Tree' = Tree /\ (phase' = phase => Now' = Now)
  BY TreeKept
<1>2. ASSUME NEW n, FreshMoment(n) PROVE FreshMoment(n)'
  <2>1. CASE phase' = phase
    BY <1>1, <1>2, <2>1 DEF FreshMoment
  <2>2. CASE phase' = 0
    BY <1>1, <1>2, <2>2 DEF FreshMoment
  <2> QED
    BY <2>1, <2>2
<1>3. ASSUME NEW n, FreshLocal(n) PROVE FreshLocal(n)'
  <2>1. CASE phase' = phase
    BY <1>1, <1>3, <2>1 DEF FreshLocal
  <2>2. CASE phase' = 0
    BY <1>1, <1>3, <2>2 DEF FreshLocal
  <2> QED
    BY <2>1, <2>2
<1> QED
  BY <1>2, <1>3 DEF HaloFresh

(* A pass changes moments, or locals, of one depth only, and the halo holds *)
(* nodes of others.                                                        *)
LEMMA HaloUntouched ==
  ASSUME HaloFresh, mesh' = mesh, phase' = phase, halo' = halo,
         \A n : FreshMoment(n) => moments'[n] = moments[n],
         \A n : FreshLocal(n) => locals'[n] = locals[n]
  PROVE  HaloFresh'
<1>1. Tree' = Tree /\ Now' = Now
  BY TreeKept
<1>2. \A n : (FreshMoment(n) => FreshMoment(n)') /\ (FreshLocal(n) => FreshLocal(n)')
  BY <1>1 DEF FreshMoment, FreshLocal
<1> QED
  BY <1>2 DEF HaloFresh

(* What a partition lacks lies on the levels next to the one it computes. *)
LEMMA LackingFresh ==
  ASSUME Shape, phase > 0, NEW p \in Owners, NEW q \in Owners,
         Now.stage = "upward" \/ Now.stage = "downward"
  PROVE  /\ \A n \in Lacking(p, q, NeededMoments(p)) \cap Own(q) : FreshMoment(n)
         /\ \A n \in Lacking(p, q, NeededLocals(p)) \cap Own(q) : FreshLocal(n)
<1>1. /\ \A n \in Tree.nodes : n.level \in Nat
      /\ \A o \in Owners : Own(o) \subseteq Tree.nodes
  BY TreeFacts DEF Shape
<1>2. \A o \in OfDepth(p) : o.level = Now.depth /\ o.level \in Nat
  BY <1>1 DEF OfDepth
<1>3. ASSUME NEW n \in Lacking(p, q, NeededMoments(p)) \cap Own(q) PROVE FreshMoment(n)
  <2>1. n \in Tree.nodes /\ n \in NeededMoments(p)
    BY <1>1 DEF Lacking
  <2>2. CASE Now.stage = "downward"
    BY <2>1, <2>2 DEF FreshMoment
  <2>3. CASE Now.stage = "upward"
    <3>1. PICK o \in OfDepth(p) : n \in Children(o)
      BY <2>1, <2>3 DEF NeededMoments
    <3>2. n.level = o.level + 1
      BY <3>1 DEF Children
    <3>3. n.level # Now.depth
      BY <1>2, <3>2
    <3> QED
      BY <2>1, <2>3, <3>3 DEF FreshMoment
  <2> QED
    BY <2>2, <2>3
<1>4. ASSUME NEW n \in Lacking(p, q, NeededLocals(p)) \cap Own(q) PROVE FreshLocal(n)
  <2>1. n \in Tree.nodes /\ n \in NeededLocals(p)
    BY <1>1 DEF Lacking
  <2>2. Now.stage = "downward" /\ \E o \in Targets(p) : n = Parent(o)
    BY <2>1 DEF NeededLocals
  <2>3. PICK o \in OfDepth(p) : n = Parent(o)
    BY <2>2 DEF Targets
  <2>4. n.level = o.level - 1
    BY <2>3 DEF Parent, Ancestor
  <2>5. n.level # Now.depth
    BY <1>2, <2>4
  <2> QED
    BY <2>1, <2>2, <2>5 DEF FreshLocal
<1> QED
  BY <1>3, <1>4

(* A read copies what the donor holds, of depths its phase does not write. *)
LEMMA HaloRead ==
  ASSUME Shape, HaloFresh, mesh' = mesh, NEW p \in Owners, NEW q \in Owners, Read(p, q)
  PROVE  HaloFresh'
<1> DEFINE needed == Lacking(p, q, NeededMoments(p))
           neededLocals == Lacking(p, q, NeededLocals(p))
<1>1. UNCHANGED <<moments, locals, phase>>
  BY DEF Read, solverVars
<1>2. CASE UNCHANGED halo
  BY <1>1, <1>2, HaloKept
<1>3. CASE needed \cup neededLocals \subseteq Own(q)
  <2>1. Tree' = Tree /\ Now' = Now
    BY <1>1, TreeKept
  <2>2. phase > 0 /\ (Now.stage = "upward" \/ Now.stage = "downward")
    BY DEF Read, At
  <2>3. /\ \A n \in needed : FreshMoment(n)
        /\ \A n \in neededLocals : FreshLocal(n)
    BY <1>3, <2>2, LackingFresh
  <2>4. halo' = [halo EXCEPT ![p] =
          [moments |-> [n \in needed \cup DOMAIN halo[p].moments |->
                          IF n \in needed THEN moments[n] ELSE halo[p].moments[n]],
           locals |-> [n \in neededLocals \cup DOMAIN halo[p].locals |->
                          IF n \in neededLocals THEN locals[n] ELSE halo[p].locals[n]]]]
    BY <1>3 DEF Read
  <2>5. DOMAIN halo = Owners
    BY DEF Shape
  <2> HIDE DEF needed, neededLocals
  <2>6. \A n : (FreshMoment(n) => FreshMoment(n)') /\ (FreshLocal(n) => FreshLocal(n)')
    BY <1>1, <2>1 DEF FreshMoment, FreshLocal
  <2>7. ASSUME NEW o \in Owners, NEW n \in DOMAIN halo'[o].moments
        PROVE  FreshMoment(n) /\ halo'[o].moments[n] = moments[n]
    <3>1. CASE o = p
      <4>1. halo'[p].moments = [k \in needed \cup DOMAIN halo[p].moments |->
                                  IF k \in needed THEN moments[k] ELSE halo[p].moments[k]]
        BY <2>4, <2>5
      <4> QED
        BY <2>3, <2>7, <3>1, <4>1 DEF HaloFresh
    <3>2. CASE o # p
      BY <2>4, <2>5, <2>7, <3>2 DEF HaloFresh
    <3> QED
      BY <3>1, <3>2
  <2>8. ASSUME NEW o \in Owners, NEW n \in DOMAIN halo'[o].locals
        PROVE  FreshLocal(n) /\ halo'[o].locals[n] = locals[n]
    <3>1. CASE o = p
      <4>1. halo'[p].locals = [k \in neededLocals \cup DOMAIN halo[p].locals |->
                                 IF k \in neededLocals THEN locals[k] ELSE halo[p].locals[k]]
        BY <2>4, <2>5
      <4> QED
        BY <2>3, <2>8, <3>1, <4>1 DEF HaloFresh
    <3>2. CASE o # p
      BY <2>4, <2>5, <2>8, <3>2 DEF HaloFresh
    <3> QED
      BY <3>1, <3>2
  <2> QED
    BY <1>1, <2>6, <2>7, <2>8 DEF HaloFresh
<1> QED
  BY <1>2, <1>3 DEF Read

(* Every step keeps the halos fresh. *)
LEMMA HaloStep == Shape /\ HaloFresh /\ [Next]_vars => HaloFresh'
<1> SUFFICES ASSUME Shape, HaloFresh, [Next]_vars PROVE HaloFresh'
  OBVIOUS
<1>1. mesh' = mesh
  BY MeshKept
<1>2. ASSUME NEW r, Begin(r) PROVE HaloFresh'
  <2>1. PICK launched \in Launches : Launch(launched)
    BY <1>2 DEF Begin
  <2> QED
    BY <2>1, Launched, HaloEmpty
<1>3. CASE NextPhase
  <2>1. PICK launched \in Launches : Launch(launched)
    BY <1>3 DEF NextPhase
  <2> QED
    BY <2>1, Launched, HaloEmpty
<1>4. CASE Fail \/ Return \/ Move
  <2>1. UNCHANGED <<moments, locals, halo>> /\ (phase' = phase \/ phase' = 0)
    BY <1>4 DEF Fail, Return, Move, solverVars, taskVars
  <2> QED
    BY <1>1, <2>1, HaloKept
<1>5. ASSUME NEW p \in Owners, Configure(p) \/ Publish(p) \/ Throw(p) PROVE HaloFresh'
  <2>1. UNCHANGED <<moments, locals, halo, phase>>
    BY <1>5 DEF Configure, Publish, Throw, Finish, solverVars
  <2> QED
    BY <1>1, <2>1, HaloKept
<1>6. ASSUME NEW p \in Owners, Initialize(p) PROVE HaloFresh'
  <2>1. phase' = phase /\ halo' = halo /\ phase > 0 /\ Now.stage = "initialize"
    BY <1>6 DEF Initialize, Finish, At
  <2>2. \A n : ~FreshMoment(n) /\ ~FreshLocal(n)
    BY <2>1 DEF FreshMoment, FreshLocal
  <2> QED
    BY <1>1, <2>1, <2>2, HaloUntouched
<1>7. ASSUME NEW p \in Owners, Upward(p) PROVE HaloFresh'
  <2>1. phase' = phase /\ halo' = halo /\ locals' = locals /\ phase > 0 /\ Now.stage = "upward"
    BY <1>7 DEF Upward, Finish, At
  <2>2. \A n \in Tree.nodes : n \notin OfDepth(p) => moments'[n] = moments[n]
    BY <1>7 DEF Upward
  <2>3. \A n : FreshMoment(n) => n \in Tree.nodes /\ n \notin OfDepth(p)
    BY <2>1 DEF FreshMoment, OfDepth
  <2> QED
    BY <1>1, <2>1, <2>2, <2>3, HaloUntouched
<1>8. ASSUME NEW p \in Owners, Downward(p) PROVE HaloFresh'
  <2>1. phase' = phase /\ halo' = halo /\ moments' = moments /\ phase > 0 /\ Now.stage = "downward"
    BY <1>8 DEF Downward, Finish, At
  <2>2. \A n \in Tree.nodes : n \notin Targets(p) => locals'[n] = locals[n]
    BY <1>8 DEF Downward
  <2>3. \A n : FreshLocal(n) => n \in Tree.nodes /\ n \notin Targets(p)
    BY <2>1 DEF FreshLocal, OfDepth, Targets
  <2> QED
    BY <1>1, <2>1, <2>2, <2>3, HaloUntouched
<1>9. ASSUME NEW p \in Owners, NEW q \in Owners, Read(p, q) PROVE HaloFresh'
  BY <1>1, <1>9, HaloRead
<1>10. CASE UNCHANGED vars
  <2>1. UNCHANGED <<moments, locals, halo, phase>>
    BY <1>10 DEF vars
  <2> QED
    BY <1>1, <2>1, HaloKept
<1> QED
  BY <1>2, <1>3, <1>4, <1>5, <1>6, <1>7, <1>8, <1>9, <1>10
  DEF Next, Solver, Solve, SolveRequest, Task


-----------------------------------------------------------------------------
(* The phases after configure. *)
LEMMA LaterPhase ==
  ASSUME Shape, NEW p, NEW stage, At(p, stage), stage # "configure"
  PROVE  phase > 1
<1>1. phase \in Nat /\ phase > 0 /\ Now.stage # "configure"
  BY PhaseEnds DEF At, Shape
<1>2. phase # 1
  BY <1>1, PhaseEnds DEF Now, Shape
<1> QED
  BY <1>1, <1>2

(* At the start no phase relies on the settings. *)
LEMMA ConfiguredInit == Init => Configured
  BY DEF Init, Configured

(* Every step keeps the settings of the running solve. *)
LEMMA ConfiguredStep == Shape /\ Configured /\ [Next]_vars => Configured'
<1> SUFFICES ASSUME Shape, Configured, [Next]_vars PROVE Configured'
  OBVIOUS
<1>1. phase \in Nat /\ DOMAIN settings = Owners
  BY PhaseEnds DEF Shape
<1>2. ASSUME NEW r, Begin(r) PROVE Configured'
  <2>1. PICK launched \in Launches : Launch(launched)
    BY <1>2 DEF Begin
  <2>2. running' = launched /\ error' = (launched # Owners) /\ phase' = 1
    BY <1>2, <2>1, Launched DEF Begin
  <2>3. ASSUME NEW p \in Owners, p \notin running', ~error' PROVE FALSE
    BY <2>2, <2>3
  <2> QED
    BY <2>2, <2>3 DEF Configured
<1>3. CASE NextPhase
  <2>1. settings' = settings /\ call' = call /\ running = {} /\ ~error /\ (phase = 1 \/ phase > 1)
    BY <1>1, <1>3 DEF NextPhase, solverVars, Drained
  <2> QED
    BY <2>1 DEF Configured
<1>4. CASE Fail \/ Return \/ Move
  <2>1. phase' = 0
    BY <1>4 DEF Fail, Return, Move
  <2> QED
    BY <2>1 DEF Configured
<1>5. ASSUME NEW p \in Owners, Configure(p) PROVE Configured'
  <2>1. UNCHANGED <<phase, call>> /\ running' = running \ {p} /\ (~error' => ~error)
    BY <1>5 DEF Configure, Finish
  <2>2. /\ settings'[p].request = call
        /\ \A o \in Owners \ {p} : settings'[o] = settings[o]
    BY <1>1, <1>5 DEF Configure
  <2>3. ASSUME NEW o \in Owners, phase' > 1 \/ (phase' = 1 /\ o \notin running' /\ ~error')
        PROVE  settings'[o].request = call'
    <3>1. CASE o = p
      BY <2>1, <2>2, <3>1
    <3>2. CASE o # p
      <4>1. phase > 1 \/ (phase = 1 /\ o \notin running /\ ~error)
        BY <2>1, <2>3, <3>2
      <4> QED
        BY <2>1, <2>2, <3>2, <4>1 DEF Configured
    <3> QED
      BY <3>1, <3>2
  <2> QED
    BY <2>3 DEF Configured
<1>6. ASSUME NEW p \in Owners,
             Initialize(p) \/ Upward(p) \/ Downward(p) \/ Publish(p) \/ Throw(p) \/ \E q \in Owners : Read(p, q)
      PROVE Configured'
  <2>1. UNCHANGED <<settings, phase, call>>
    BY <1>6 DEF Initialize, Upward, Downward, Publish, Throw, Read, Finish, solverVars
  <2>2. At(p, "initialize") \/ At(p, "upward") \/ At(p, "downward") \/ At(p, "publish")
    BY <1>6 DEF Initialize, Upward, Downward, Publish, Throw, Read
  <2>3. phase > 1
    BY <2>2, LaterPhase
  <2> QED
    BY <2>1, <2>3 DEF Configured
<1>7. CASE UNCHANGED vars
  BY <1>7 DEF vars, solverVars, taskVars, Configured
<1> QED
  BY <1>2, <1>3, <1>4, <1>5, <1>6, <1>7 DEF Next, Solver, Solve, SolveRequest, Task

(* Every step keeps the targets of a full solve. *)
LEMMA CallWholeStep == Shape /\ CallWhole /\ [Next]_vars => CallWhole'
<1> SUFFICES ASSUME Shape, CallWhole, [Next]_vars PROVE CallWhole'
  OBVIOUS
<1>1. mesh' = mesh /\ Blocks' = Blocks
  BY MeshKept, TreeKept
<1>2. CASE Solve
  BY <1>1, <1>2 DEF Solve, Begin, Full, CallWhole
<1>3. CASE SolveRequest
  <2>1. PICK r \in Selections[mesh] : Begin(r)
    BY <1>3 DEF SolveRequest
  <2>2. r.full = FALSE
    BY SelectionAssumption DEF Shape, IsSelection
  <2> QED
    BY <2>1, <2>2 DEF Begin, CallWhole
<1>4. CASE Fail \/ Return \/ Move
  BY <1>4 DEF Fail, Return, Move, CallWhole
<1>5. CASE NextPhase
  BY <1>1, <1>5 DEF NextPhase, CallWhole
<1>6. ASSUME NEW p \in Owners, Task(p) PROVE CallWhole'
  <2>1. UNCHANGED <<phase, call>>
    BY <1>6 DEF Task, Configure, Initialize, Upward, Downward, Publish, Throw, Read, Finish
  <2> QED
    BY <1>1, <2>1 DEF CallWhole
<1>7. CASE UNCHANGED vars
  BY <1>1, <1>7 DEF vars, CallWhole
<1> QED
  BY <1>2, <1>3, <1>4, <1>5, <1>6, <1>7 DEF Next, Solver

(* What Publish does to the banks, and to a partial output. *)
LEMMA PublishWrites ==
  ASSUME Shape, Configured, NEW p \in Owners, Publish(p)
  PROVE  /\ settings[p].request = call /\ UNCHANGED <<mesh, phase, call, published>>
         /\ running' = running \ {p} /\ (~error' => ~error)
         /\ density'[published] = density[published] /\ gravity'[published] = gravity[published]
         /\ \E cells \in SUBSET {c \in OwnLeaves(p) : Tree.block[c] \in call.targets} :
              /\ ~call.full => \A c \in Leaves \ cells : output'[c] = output[c]
              /\ call.full => output' = output
              /\ call.full => \A c \in Leaves :
                   density'[1 - published][c] =
                     IF c \in cells THEN density[published][c] ELSE density[1 - published][c]
              /\ ~error' => cells = {c \in OwnLeaves(p) : Tree.block[c] \in call.targets}
<1>1. /\ published \in {0, 1} /\ DOMAIN density = {0, 1} /\ DOMAIN gravity = {0, 1} /\ DOMAIN output = Leaves
      /\ 1 - published \in {0, 1} /\ 1 - published # published /\ phase \in Nat
  BY PhaseEnds DEF Shape
<1>2. phase > 1
  BY LaterPhase DEF Publish
<1>3. settings[p].request = call
  BY <1>2 DEF Configured
<1>4. UNCHANGED <<mesh, phase, call, published>> /\ running' = running \ {p} /\ (~error' => ~error)
  BY DEF Publish, Finish
<1>5. PICK written \in SUBSET (OwnBlocks(p) \cap call.targets) :
        LET cells == {c \in OwnLeaves(p) : Tree.block[c] \in written}
            put(field) == [c \in Leaves |-> IF c \in cells THEN locals[c] ELSE field[c]]
        IN /\ IF call.full
              THEN /\ gravity' = [gravity EXCEPT ![1 - published] = put(@)]
                   /\ density' = [density EXCEPT ![1 - published] =
                        [c \in Leaves |-> IF c \in cells THEN density[published][c] ELSE @[c]]]
                   /\ UNCHANGED output
              ELSE output' = put(output) /\ UNCHANGED <<density, gravity>>
           /\ error' = (error \/ ~(written = OwnBlocks(p) \cap call.targets))
  BY <1>3 DEF Publish, Finish, OutputBank
<1> DEFINE cells == {c \in OwnLeaves(p) : Tree.block[c] \in written}
<1>6. density'[published] = density[published] /\ gravity'[published] = gravity[published]
  BY <1>1, <1>5
<1>7. ~call.full => \A c \in Leaves \ cells : output'[c] = output[c]
  BY <1>1, <1>5
<1>8. call.full => output' = output
  BY <1>5
<1>9. call.full => \A c \in Leaves :
        density'[1 - published][c] = IF c \in cells THEN density[published][c] ELSE density[1 - published][c]
  BY <1>1, <1>5
<1>10. cells \in SUBSET {c \in OwnLeaves(p) : Tree.block[c] \in call.targets}
  BY <1>5
<1>11. ~error' => cells = {c \in OwnLeaves(p) : Tree.block[c] \in call.targets}
  <2>1. ~error' => written = OwnBlocks(p) \cap call.targets
    BY <1>5
  <2> QED
    BY <2>1 DEF OwnBlocks
<1> HIDE DEF cells
<1> QED
  BY <1>3, <1>4, <1>6, <1>7, <1>8, <1>9, <1>10, <1>11

(* Every step keeps the copied densities of a full solve. *)
LEMMA CopiedStep == Shape /\ Configured /\ CallWhole /\ Copied /\ [Next]_vars => Copied'
<1> SUFFICES ASSUME Shape, Configured, CallWhole, Copied, [Next]_vars PROVE Copied'
  OBVIOUS
<1>1. /\ mesh' = mesh /\ Tree' = Tree /\ Phases' = Phases
      /\ \A p : OwnLeaves(p)' = OwnLeaves(p)
      /\ phase' = phase => Now' = Now
  BY MeshKept, TreeKept
<1>2. /\ Leaves \subseteq Tree.nodes /\ \A c \in Leaves : Tree.block[c] \in Blocks
  BY TreeFacts DEF Shape
<1>3. ASSUME NEW launched, Launch(launched) PROVE Copied'
  <2>1. running' = launched /\ (~error' => launched = Owners)
    BY <1>3, Launched
  <2> QED
    BY <2>1 DEF Copied
<1>4. CASE Fail \/ Return
  BY <1>4 DEF Fail, Return, Copied
<1>5. CASE Move
  BY <1>5 DEF Move, Copied
<1>6. ASSUME NEW p \in Owners, Publish(p) PROVE Copied'
  <2>1. PICK cells \in SUBSET {c \in OwnLeaves(p) : Tree.block[c] \in call.targets} :
          /\ call.full => \A c \in Leaves :
               density'[1 - published][c] =
                 IF c \in cells THEN density[published][c] ELSE density[1 - published][c]
          /\ ~error' => cells = {c \in OwnLeaves(p) : Tree.block[c] \in call.targets}
    BY <1>6, PublishWrites
  <2>2. /\ UNCHANGED <<mesh, phase, call, published>> /\ running' = running \ {p} /\ (~error' => ~error)
        /\ density'[published] = density[published]
    BY <1>6, PublishWrites
  <2>3. phase > 0 /\ Now.stage = "publish"
    BY <1>6 DEF Publish, At
  <2>4. ASSUME call.full, ~error', NEW o \in Owners \ running', NEW c \in OwnLeaves(o)
        PROVE  density'[1 - published][c] = density[published][c]
    <3>1. c \in Leaves
      BY DEF OwnLeaves
    <3>2. CASE o = p
      <4>1. c \in cells
        BY <1>2, <2>1, <2>3, <2>4, <3>1, <3>2 DEF CallWhole
      <4> QED
        BY <2>1, <2>4, <3>1, <4>1
    <3>3. CASE o # p
      <4>1. density[1 - published][c] = density[published][c]
        BY <2>2, <2>3, <2>4, <3>3 DEF Copied
      <4> QED
        BY <2>1, <2>4, <3>1, <4>1
    <3> QED
      BY <3>2, <3>3
  <2> QED
    BY <1>1, <2>2, <2>4 DEF Copied
<1>7. ASSUME NEW p \in Owners,
             Configure(p) \/ Initialize(p) \/ Upward(p) \/ Downward(p) \/ Throw(p) \/ \E q \in Owners : Read(p, q)
      PROVE Copied'
  <2>1. phase' = phase /\ Now.stage # "publish"
    BY <1>7 DEF Configure, Initialize, Upward, Downward, Throw, Read, Finish, At
  <2> QED
    BY <1>1, <2>1 DEF Copied
<1>8. CASE UNCHANGED vars
  BY <1>1, <1>8 DEF vars, fields, taskVars, Copied
<1> QED
  BY <1>3, <1>4, <1>5, <1>6, <1>7, <1>8 DEF Next, Solver, Solve, SolveRequest, Task, Begin, NextPhase
-----------------------------------------------------------------------------
(* The initial state satisfies the inductive invariant. *)
LEMMA InvariantInit == Init => IInv
<1>1. Init => CallWhole /\ Copied
  BY DEF Init, CallWhole, Copied
<1> QED
  BY <1>1, ShapeInit, HaloInit, ConfiguredInit DEF IInv

(* Every step preserves the inductive invariant. *)
LEMMA InvariantStep == IInv /\ [Next]_vars => IInv'
  BY ShapeStep, HaloStep, ConfiguredStep, CallWholeStep, CopiedStep DEF IInv

(* The inductive invariant holds for ever. *)
LEMMA InvariantHolds == Spec => []IInv
  BY InvariantInit, InvariantStep, PTL DEF Spec

(***************************************************************************)
(* "Read actions only see completed source levels" (fieldSolver.cpp),      *)
(* whatever the mesh and however the tasks of a phase interleave: a value  *)
(* read from another locality is the value that locality ends the phase    *)
(* with, and every read is sent to the locality that owns the node.        *)
(***************************************************************************)
THEOREM ReadsAreComplete == Spec => []ReadsComplete
<1>1. IInv => ReadsComplete
  <2> SUFFICES ASSUME IInv PROVE ReadsComplete
    OBVIOUS
  <2>1. \A n \in Tree.nodes : n \in Own(Tree.route[n])
    BY TreeFacts DEF IInv, Shape
  <2> QED
    BY <2>1 DEF IInv, HaloFresh, ReadsComplete
<1> QED
  BY <1>1, InvariantHolds, PTL

(* Which steps write what readers see, and what they publish. *)
LEMMA StepKeepsPublication ==
  ASSUME IInv, [Next]_vars
  PROVE  [/\ density'[published] = density[published] /\ gravity'[published] = gravity[published]
          /\ \A c \in Leaves :
               output'[c] # output[c] => ~call.full /\ Tree.block[c] \in call.targets
          /\ published' # published /\ moves' = moves => density'[published'] = density[published]]_vars
<1> DEFINE Kept ==
             /\ density'[published] = density[published] /\ gravity'[published] = gravity[published]
             /\ \A c \in Leaves :
                  output'[c] # output[c] => ~call.full /\ Tree.block[c] \in call.targets
             /\ published' # published /\ moves' = moves => density'[published'] = density[published]
<1>1. Shape /\ Configured /\ Copied
  BY DEF IInv
<1>2. /\ published \in {0, 1} /\ DOMAIN density = {0, 1} /\ moves \in Nat /\ phase \in Nat
      /\ density \in [{0, 1} -> [Leaves -> 0 .. MaxMoves]]
  BY <1>1, PhaseEnds DEF Shape
<1>3. CASE Move
  <2>1. 1 - published \in {0, 1} /\ 1 - published # published /\ moves' # moves
    BY <1>2, <1>3 DEF Move
  <2> QED
    BY <1>2, <1>3, <2>1 DEF Move
<1>4. CASE Return
  <2>1. UNCHANGED <<density, gravity, output>> /\ phase = Len(Phases) /\ running = {} /\ ~error
    BY <1>4 DEF Return, Drained
  <2>2. published' # published => published' = 1 - published /\ call.full
    BY <1>4 DEF Return
  <2>3. ASSUME call.full PROVE density[1 - published] = density[published]
    <3>1. phase > 0 /\ Now.stage = "publish"
      BY <1>1, <2>1, PhaseEnds DEF Now, Shape
    <3>2. ASSUME NEW c \in Leaves PROVE density[1 - published][c] = density[published][c]
      <4>1. PICK p \in Owners : c \in OwnLeaves(p)
        BY <1>1, TreeFacts DEF OwnLeaves, Shape
      <4> QED
        BY <1>1, <2>1, <2>3, <3>1, <4>1 DEF Copied
    <3>3. 1 - published \in {0, 1}
      BY <1>2
    <3> QED
      BY <1>2, <3>2, <3>3
  <2> QED
    BY <2>1, <2>2, <2>3
<1>5. ASSUME NEW p \in Owners, Publish(p) PROVE Kept
  <2>1. PICK cells \in SUBSET {c \in OwnLeaves(p) : Tree.block[c] \in call.targets} :
          /\ ~call.full => \A c \in Leaves \ cells : output'[c] = output[c]
          /\ call.full => output' = output
    BY <1>1, <1>5, PublishWrites
  <2>2. /\ density'[published] = density[published] /\ gravity'[published] = gravity[published]
        /\ published' = published
    BY <1>1, <1>5, PublishWrites
  <2> QED
    BY <2>1, <2>2
<1>6. CASE Solve \/ SolveRequest \/ NextPhase \/ Fail
  BY <1>6 DEF Solve, SolveRequest, Begin, NextPhase, Fail, fields
<1>7. ASSUME NEW p \in Owners,
             Configure(p) \/ Initialize(p) \/ Upward(p) \/ Downward(p) \/ Throw(p) \/ \E q \in Owners : Read(p, q)
      PROVE Kept
  BY <1>7 DEF Configure, Initialize, Upward, Downward, Throw, Read, fields
<1> QED
  BY <1>3, <1>4, <1>5, <1>6, <1>7 DEF Next, Solver, Task

(***************************************************************************)
(* For every mesh and request: a solve never writes the bank readers see,  *)
(* nor an unselected block of a partial output, and the bank the caller    *)
(* publishes after a full solve holds on every locality's blocks the state *)
(* the solve was given.                                                    *)
(***************************************************************************)
THEOREM PublicationIsKept == Spec => PublicationKept
  BY InvariantHolds, StepKeepsPublication, PTL DEF Spec, PublicationKept
=============================================================================
