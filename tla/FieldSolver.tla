---------------------------- MODULE FieldSolver ----------------------------
(***************************************************************************)
(* The distributed gravity solver (FieldSolver and AdaptiveFieldSolver):   *)
(* every locality owns a contiguous range of the nodes of the octree, and  *)
(* a solve is a sequence of phases -- configure, initialize, upward level  *)
(* by level, downward level by level, publish -- each launched on all      *)
(* partitions and collected before the next.  In the passes a partition    *)
(* reads the expansions it lacks from their owners into a halo, then       *)
(* computes the nodes it owns.                                             *)
(*                                                                         *)
(* An expansion is the bag of what has been added to it: a moment of       *)
(* [leaf, from], a local of [leaf, image, kind, from], where from is the   *)
(* set of density versions sampled.  Locals and force locals go through    *)
(* the same steps and are one variable here.                               *)
(*                                                                         *)
(* The caller (transport and gravity.cpp) is the environment: it moves the *)
(* density between solves, publishes the bank of a full solve, and passes  *)
(* partial requests with an output of its own.                             *)
(***************************************************************************)
EXTENDS GravityTree, Sequences, Bags

CONSTANTS
  Meshes,          \* [name -> mesh], the meshes a solver may be built for
  Trees,           \* [name -> tree], what a solver keeps of each, see Built
  Selections,      \* [name -> SUBSET request], the partial requests, see IsSelection
  Partitions,      \* number of localities
  MaxSolves,       \* bound: solves
  MaxMoves,        \* bound: transport intervals between solves
  MaxFailures      \* bound: tasks that throw

ASSUME MeshAssumption ==
  \A name \in DOMAIN Meshes : LET m == Meshes[name] IN
    /\ IsFiniteSet(m.leaves) /\ m.leaves # {}
    /\ \A c \in m.leaves :
         c.level \in Nat /\ c.at \in [Axes(m) -> Nat] /\ c = [level |-> c.level, at |-> c.at]
ASSUME SolverAssumption ==
  /\ Partitions \in Nat \ {0}
  /\ MaxSolves \in Nat /\ MaxMoves \in Nat /\ MaxFailures \in Nat

VARIABLES
  mesh,        \* the name of the mesh of this solver
  density,     \* [bank -> [leaf -> version]]
  gravity,     \* [bank -> [leaf -> local]], the published kind of output
  output,      \* [leaf -> local], the output of partial requests
  published,   \* the bank readers see
  settings,    \* [partition -> its request_ and activeTargets_]
  moments, locals,   \* [node -> bag], each node held by its owner
  phase,       \* position in Phases, 0 when no solve runs
  call,        \* the request of the solve
  running,     \* partitions whose task is outstanding
  fetched,     \* [partition -> owners it has read from in this phase]
  halo,        \* [partition -> [moments, locals]], the values read
  error,       \* an exception was caught by the caller or by collect
  outcome,     \* of the last solve: "none", "solved" or "failed"
  solves, moves, failures

solverVars == <<settings, moments, locals>>
fields == <<density, gravity, output, published>>
taskVars == <<running, fetched, halo, error>>
bounds == <<solves, moves, failures>>
vars == <<mesh, density, gravity, output, published, settings, moments, locals, phase, call,
          running, fetched, halo, error, outcome, solves, moves, failures>>
-----------------------------------------------------------------------------
Owners == 0..(Partitions - 1)

(* The ids are dense on a level (uniform) or over the tree (adaptive). *)
Numbered(m, n) == IF m.adaptive THEN Nodes(m) ELSE OfLevel(m, n.level)
First(total, p) == (total * p + Partitions - 1) \div Partitions
Owned(total, p) == First(total, p)..(First(total, p + 1) - 1)
Routed(total, id) == (id * Partitions) \div total

BlockOf(m, c) == Ancestor(c, c.level - m.bits)

(* The phases of a solve. *)
Stages(depths) ==
  <<[stage |-> "configure", depth |-> 0], [stage |-> "initialize", depth |-> 0]>>
    \o [i \in 1..(depths - 1) |-> [stage |-> "upward", depth |-> depths - 1 - i]]
    \o [i \in 1..depths |-> [stage |-> "downward", depth |-> i - 1]]
    \o <<[stage |-> "publish", depth |-> 0]>>

(* What a solver keeps from its construction, with the phases of its solves. *)
Built(m) ==
  LET nodes == Nodes(m)
      id == [n \in nodes |-> Cardinality({o \in Numbered(m, n) : Before(o, n)})]
      total == [n \in nodes |-> Cardinality(Numbered(m, n))]
  IN [nodes |-> nodes, leaves |-> m.leaves, phases |-> Stages(Depths(m)),
      owned |-> [p \in Owners |-> {n \in nodes : id[n] \in Owned(total[n], p)}],
      route |-> [n \in nodes |-> Routed(total[n], id[n])],
      block |-> [c \in m.leaves |-> BlockOf(m, c)],
      interactions |-> Interactions(m)]
ASSUME TreeAssumption == Trees = [name \in DOMAIN Meshes |-> Built(Meshes[name])]

(* A definition, which TLC evaluates once, in place of a constant's value. *)
Forest == Trees
Tree == Forest[mesh]
Leaves == Tree.leaves
Blocks == {Tree.block[c] : c \in Leaves}
Own(p) == Tree.owned[p]
OwnLeaves(p) == Own(p) \cap Leaves
OwnBlocks(p) == {Tree.block[c] : c \in OwnLeaves(p)}

(* A request: the density banks each block contributes, {} to exclude it;  *)
(* the blocks to publish; and full for solve(bank).                        *)
IsSelection(m, r) ==
  LET blocks == {BlockOf(m, c) : c \in m.leaves}
  IN r.sources \in [blocks -> SUBSET {0, 1}] /\ r.targets \subseteq blocks /\ r.full = FALSE
ASSUME SelectionAssumption ==
  \A name \in DOMAIN Meshes : \A r \in Selections[name] : IsSelection(Meshes[name], r)

Full(bank) ==
  [full |-> TRUE, sources |-> [b \in Blocks |-> {bank}], targets |-> Blocks]

(* configure: the targets and all their ancestors. *)
LeafTargets(r) == {c \in Leaves : Tree.block[c] \in r.targets}
ActiveTargets(r) == UNION {{Ancestor(c, k) : k \in 0..c.level} : c \in LeafTargets(r)}

Phases == Tree.phases
Now == Phases[phase]
At(p, stage) == phase > 0 /\ p \in running /\ Now.stage = stage
-----------------------------------------------------------------------------
(***************************************************************************)
(* Expansions.                                                             *)
(***************************************************************************)
AddAll(Op(_), S) ==
  LET bags == [x \in S |-> Op(x)]
      terms == UNION {{x} \X DOMAIN bags[x] : x \in S}
  IN BagOfAll(LAMBDA t : t[2], [t \in terms |-> bags[t[1]][t[2]]])

(* P2M of one leaf: an excluded block leaves it zero. *)
ZeroEntry(r, c) ==  \* seeded fault
  LET banks == r.sources[Tree.block[c]]
  IN IF banks = {} THEN [e \in {[leaf |-> c, from |-> {}]} |-> 0]
     ELSE SetToBag({[leaf |-> c, from |-> {density[b][c] : b \in banks}]})
Mass(r, c) ==
  LET banks == r.sources[Tree.block[c]]
  IN IF banks = {} THEN EmptyBag ELSE SetToBag({[leaf |-> c, from |-> {density[b][c] : b \in banks}]})

(* A moment seen through an interaction. *)
Seen(moment, i) ==
  BagOfAll(LAMBDA e : [leaf |-> e.leaf, image |-> i.image, kind |-> i.kind, from |-> e.from], moment)

(* The value of node n at partition p: its own, or the one it has read. *)
Value(p, own, read, n) == IF n \in Own(p) THEN own[n] ELSE read[n]

OpenEnded(p) == {n \in Own(p) : n.level >= Now.depth}  \* seeded fault
OfDepth(p) == {n \in Own(p) : n.level = Now.depth}
Targets(p) == OfDepth(p) \cap settings[p].active

(* The nodes whose moments and locals the pass of partition p needs. *)
NeededMoments(p) ==
  IF Now.stage = "upward" THEN UNION {Children(n) : n \in OfDepth(p) \ Leaves}
  ELSE UNION {{i.source : i \in Tree.interactions[n]} : n \in Targets(p)}
NeededLocals(p) ==
  IF Now.stage = "downward" /\ Now.depth > 0 THEN {Parent(n) : n \in Targets(p)} ELSE {}
Lacking(p, q, needed) == {n \in needed \ Own(p) : Tree.route[n] = q}

EveryOwnerAnswered(p) == fetched[p] = Owners \ {p}  \* seeded fault
Fetched(p) ==
  \A q \in Owners \ fetched[p] : Lacking(p, q, NeededMoments(p) \cup NeededLocals(p)) = {}
-----------------------------------------------------------------------------
Launch(launched) ==
  /\ running' = launched
  /\ fetched' = [p \in Owners |-> {}]
  /\ halo' = [p \in Owners |-> [moments |-> << >>, locals |-> << >>]]
  /\ error' = (launched # Owners)

(***************************************************************************)
(* Launching a phase may fail on the way; the uniform solver then collects *)
(* what it has launched.  (The adaptive one does not: see the README.)     *)
(***************************************************************************)
Launches ==
  {Owners} \cup (IF Meshes[mesh].adaptive \/ failures = MaxFailures THEN {} ELSE {0..(k - 1) : k \in Owners})

Begin(r) ==
  /\ phase = 0 /\ solves < MaxSolves
  /\ solves' = solves + 1
  /\ call' = r /\ phase' = 1 /\ outcome' = "none"
  /\ \E launched \in Launches :
       Launch(launched) /\ failures' = failures + IF launched = Owners THEN 0 ELSE 1
  /\ UNCHANGED <<mesh, fields, solverVars, moves>>

Solve == Begin(Full(published))
SolveRequest == \E r \in Selections[mesh] : Begin(r)

Finish(p, completed) ==
  /\ running' = running \ {p}
  /\ error' = (error \/ ~completed)
  /\ completed \/ failures < MaxFailures
  /\ failures' = failures + IF completed THEN 0 ELSE 1
  /\ UNCHANGED <<mesh, phase, call, outcome, solves, moves, fetched, halo>>

Configure(p) ==
  /\ At(p, "configure")
  /\ settings' = [settings EXCEPT ![p] =
       [request |-> call,
        active |-> IF call.full THEN Tree.nodes ELSE ActiveTargets(call)]]
  /\ Finish(p, TRUE)
  /\ UNCHANGED <<fields, moments, locals>>

(* Clear, then P2M block by block; a bad density stops it part way. *)
Initialize(p) ==
  /\ At(p, "initialize")
  /\ \E filled \in SUBSET OwnBlocks(p) :
       /\ moments' = [n \in Tree.nodes |->
            IF n \notin Own(p) THEN moments[n]
            ELSE IF n \in Leaves /\ Tree.block[n] \in filled THEN Mass(settings[p].request, n)
            ELSE EmptyBag]
       /\ locals' = [n \in Tree.nodes |-> IF n \in Own(p) THEN EmptyBag ELSE locals[n]]
       /\ Finish(p, filled = OwnBlocks(p))
  /\ UNCHANGED <<fields, settings>>

(***************************************************************************)
(* fetch: one read per owner.  A read that reaches a partition that does   *)
(* not own the node throws.                                                *)
(***************************************************************************)
Read(p, q) ==
  LET needed == Lacking(p, q, NeededMoments(p))
      neededLocals == Lacking(p, q, NeededLocals(p))
      values(own, wanted, have) == [n \in wanted \cup DOMAIN have |-> IF n \in wanted THEN own[n] ELSE have[n]]
  IN
  /\ At(p, "upward") \/ At(p, "downward")
  /\ q \notin fetched[p] /\ needed \cup neededLocals # {}
  /\ fetched' = [fetched EXCEPT ![p] = @ \cup {q}]
  /\ IF needed \cup neededLocals \subseteq Own(q)
     THEN /\ halo' = [halo EXCEPT ![p] =
               [moments |-> values(moments, needed, @.moments), locals |-> values(locals, neededLocals, @.locals)]]
          /\ UNCHANGED <<running, error>>
     ELSE /\ running' = running \ {p} /\ error' = TRUE
          /\ UNCHANGED halo
  /\ UNCHANGED <<mesh, fields, solverVars, phase, call, outcome, bounds>>

(* M2M into the inner nodes of one level. *)
Upward(p) ==
  /\ At(p, "upward") /\ Fetched(p)
  /\ moments' = [n \in Tree.nodes |->
       IF n \in OfDepth(p) \ Leaves
       THEN moments[n] (+) AddAll(LAMBDA c : Value(p, moments, halo[p].moments, c), Children(n))
       ELSE moments[n]]
  /\ Finish(p, TRUE)
  /\ UNCHANGED <<fields, settings, locals>>

(* M2L or P2P, and L2L from the parent, into the targets of one level. *)
Downward(p) ==
  /\ At(p, "downward") /\ Fetched(p)
  /\ locals' = [n \in Tree.nodes |->
       IF n \in Targets(p)
       THEN locals[n]
              (+) AddAll(LAMBDA i : Seen(Value(p, moments, halo[p].moments, i.source), i), Tree.interactions[n])
              (+) (IF n.level = 0 THEN EmptyBag ELSE Value(p, locals, halo[p].locals, Parent(n)))
       ELSE locals[n]]
  /\ Finish(p, TRUE)
  /\ UNCHANGED <<fields, settings, moments>>

(* solve(bank) fills the other bank. *)
InPlace == published  \* seeded fault
OutputBank == 1 - published

(* Block by block: the field, and for solve(bank) the copy of the state. *)
Publish(p) ==
  /\ At(p, "publish")
  /\ \E written \in SUBSET (OwnBlocks(p) \cap settings[p].request.targets) :
       LET cells == {c \in OwnLeaves(p) : Tree.block[c] \in written}
           put(field) == [c \in Leaves |-> IF c \in cells THEN locals[c] ELSE field[c]]
       IN /\ IF settings[p].request.full
             THEN /\ gravity' = [gravity EXCEPT ![OutputBank] = put(@)]
                  /\ density' = [density EXCEPT ![OutputBank] =
                       [c \in Leaves |-> IF c \in cells THEN density[published][c] ELSE @[c]]]
                  /\ UNCHANGED output
             ELSE output' = put(output) /\ UNCHANGED <<density, gravity>>
          /\ Finish(p, written = OwnBlocks(p) \cap settings[p].request.targets)
  /\ UNCHANGED <<solverVars, published>>

(* A task or a transfer of a pass throws. *)
Throw(p) ==
  /\ At(p, "upward") \/ At(p, "downward")
  /\ Finish(p, FALSE)
  /\ UNCHANGED <<fields, solverVars>>

Drained == running = {}

(* collect: every launched task has ended, and one of them threw. *)
Fail ==
  /\ phase > 0 /\ Drained /\ error
  /\ phase' = 0 /\ outcome' = "failed" /\ error' = FALSE
  /\ UNCHANGED <<mesh, fields, solverVars, call, running, fetched, halo, bounds>>

NextPhase ==
  /\ phase \in 1..(Len(Phases) - 1) /\ Drained /\ ~error
  /\ phase' = phase + 1
  /\ \E launched \in Launches :
       Launch(launched) /\ failures' = failures + IF launched = Owners THEN 0 ELSE 1
  /\ UNCHANGED <<mesh, fields, solverVars, call, outcome, solves, moves>>

(* The solve returns, and the caller publishes the bank of a full one. *)
Return ==
  /\ phase = Len(Phases) /\ Drained /\ ~error
  /\ phase' = 0 /\ outcome' = "solved"
  /\ published' = IF call.full THEN 1 - published ELSE published
  /\ UNCHANGED <<mesh, density, gravity, output, solverVars, call, taskVars, bounds>>

(* Between solves a transport interval writes and publishes the other bank. *)
Move ==
  /\ phase = 0 /\ moves < MaxMoves
  /\ moves' = moves + 1
  /\ density' = [density EXCEPT ![1 - published] = [c \in Leaves |-> moves + 1]]
  /\ published' = 1 - published
  /\ outcome' = "none"
  /\ UNCHANGED <<mesh, gravity, output, solverVars, phase, call, taskVars, solves, failures>>

Task(p) ==
  \/ Configure(p) \/ Initialize(p) \/ Upward(p) \/ Downward(p) \/ Publish(p) \/ Throw(p)
  \/ \E q \in Owners : Read(p, q)

Solver == NextPhase \/ Fail \/ Return \/ \E p \in Owners : Task(p)

Init ==
  /\ mesh \in DOMAIN Meshes
  /\ density = [b \in {0, 1} |-> [c \in Leaves |-> 0]]
  /\ gravity = [b \in {0, 1} |-> [c \in Leaves |-> EmptyBag]]
  /\ output = [c \in Leaves |-> EmptyBag]
  /\ published = 0
  /\ settings = [p \in Owners |-> [request |-> Full(0), active |-> Tree.nodes]]
  /\ moments = [n \in Tree.nodes |-> EmptyBag]
  /\ locals = [n \in Tree.nodes |-> EmptyBag]
  /\ phase = 0 /\ call = Full(0) /\ outcome = "none"
  /\ running = {} /\ error = FALSE
  /\ fetched = [p \in Owners |-> {}]
  /\ halo = [p \in Owners |-> [moments |-> << >>, locals |-> << >>]]
  /\ solves = 0 /\ moves = 0 /\ failures = 0

Next == Solve \/ SolveRequest \/ Solver \/ Move

Spec == Init /\ [][Next]_vars /\ WF_vars(Solver)
-----------------------------------------------------------------------------
(***************************************************************************)
(* Properties.                                                             *)
(***************************************************************************)
TypeOK ==
  /\ mesh \in DOMAIN Meshes
  /\ published \in {0, 1}
  /\ density \in [{0, 1} -> [Leaves -> 0..MaxMoves]]
  /\ \A c \in Leaves : \A b \in {0, 1} : IsABag(gravity[b][c]) /\ IsABag(output[c])
  /\ \A n \in Tree.nodes : IsABag(moments[n]) /\ IsABag(locals[n])
  /\ phase \in 0..Len(Phases)
  /\ running \subseteq Owners /\ fetched \in [Owners -> SUBSET Owners]
  /\ error \in BOOLEAN /\ outcome \in {"none", "solved", "failed"}

(* What a leaf must have received: every other selected leaf once through  *)
(* every image and walk, and itself through every image but its own.       *)
Expected(c, r) ==
  SetToBag({[leaf |-> s[1], image |-> s[2], kind |-> s[3],
             from |-> {density[b][s[1]] : b \in r.sources[Tree.block[s[1]]]}] : s \in
    {s \in Leaves \X Images(Meshes[mesh]) \X Kinds(Meshes[mesh]) :
       /\ r.sources[Tree.block[s[1]]] # {}
       /\ s[3] = "nearest" /\ s[2] = {} => s[1] # c}})

(***************************************************************************)
(* A completed solve gives every target leaf the density of every selected *)
(* source leaf exactly once through each image, at the version of the bank *)
(* selected, also after a failed solve and after a request with other      *)
(* targets: the interaction lists of all levels partition the pairs.       *)
(***************************************************************************)
EveryPairOnce ==
  outcome = "solved" =>
    \A c \in Leaves : Tree.block[c] \in call.targets =>
      (IF call.full THEN gravity[published][c] ELSE output[c])
        = Expected(c, IF call.full THEN Full(published) ELSE call)

(***************************************************************************)
(* The walks from a and from b accept the same node pairs, as the comment  *)
(* in walk requires: otherwise the two directions use different kernels.   *)
(***************************************************************************)
ReciprocalPairs ==
  outcome = "solved" => \A n \in Tree.nodes : \A i \in Tree.interactions[n] :
    [i EXCEPT !.target = i.source, !.source = n] \in Tree.interactions[i.source]

(***************************************************************************)
(* "Read actions only see completed source levels": what a partition has   *)
(* read is what its owner ends the phase with, and every read reaches the  *)
(* owner.                                                                  *)
(***************************************************************************)
ReadsComplete ==
  \A p \in Owners :
    /\ \A n \in DOMAIN halo[p].moments : halo[p].moments[n] = moments[n]
    /\ \A n \in DOMAIN halo[p].locals : halo[p].locals[n] = locals[n]
    /\ \A n \in Tree.nodes : n \in Own(Tree.route[n])

(***************************************************************************)
(* A solve never writes the bank readers see nor an unselected block of a  *)
(* partial output, and the bank it publishes holds the state it was given. *)
(***************************************************************************)
PublicationKept ==
  [][/\ density'[published] = density[published] /\ gravity'[published] = gravity[published]
     /\ \A c \in Leaves :
          output'[c] # output[c] => ~call.full /\ Tree.block[c] \in call.targets
     /\ published' # published /\ moves' = moves => density'[published'] = density[published]]_vars

(* Every solve returns or throws. *)
SolveEnds == (phase > 0) ~> (phase = 0)
=============================================================================
