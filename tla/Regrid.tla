------------------------------- MODULE Regrid -------------------------------
(***************************************************************************)
(* Mesh selection and its driver: the startup mesh (initializeMesh), the   *)
(* repeated selection of Runtime::regrid, the installation of the result,  *)
(* and the main loop that asks for a regrid before every step.             *)
(*                                                                         *)
(* What the refinement criteria see is a set of features, each at a place. *)
(* A feature scores above 1 in the cells of some levels that contain it,   *)
(* or that a regrid would interpolate from the cell of the old mesh that   *)
(* contains it, and at least coarsenFactor in the cells of some more.      *)
(*                                                                         *)
(* Length is counted in cells of maxLevel.  The signal speed is the same   *)
(* everywhere, so a step is given by the length a signal travels in it.    *)
(***************************************************************************)
EXTENDS BlockMesh, FiniteSetsExt

CONSTANTS
  Configs,      \* the configurations, see IsConfig
  MaxSteps,     \* bound: steps of the main loop
  MaxFaults     \* bound: regrids that throw

VARIABLES
  config,
  place, active,          \* where the features are; which of them exist
  leaves,                 \* the published mesh (the candidate of the startup)
  candidate, pass,        \* the mesh and the number of the next selection
  call,                   \* "startup", "driver", "regrid", "install", "advance"
  limit,                  \* what the caller allows the step, see Lookahead
  travel, budget, age,    \* since the last regrid: signals, their bound, steps
  tagged,                 \* features flagged by the last selection
  coarsened,              \* the last regrid merged blocks
  outcome,                \* of the last regrid: "none", "kept", "installed",
                          \* "unsettled" or "threw"
  steps, faults

world == <<config, place, active>>
mesh == <<leaves, travel, budget, age, tagged, coarsened>>
vars == <<config, place, active, leaves, candidate, pass, call, limit, travel, budget, age,
          tagged, coarsened, outcome, steps, faults>>

Features == DOMAIN place

(***************************************************************************)
(* kinds gives each feature its levels: the score exceeds 1 on from..until *)
(* and is at least coarsenFactor on from..keep.  A block has at least four *)
(* cells along each axis (src/config.cpp:432), so that the two layers of   *)
(* ghosts stay within one half of a refined neighbour.                     *)
(***************************************************************************)
IsConfig(c) ==
  /\ {c.minimum, c.base, c.maxLevel, c.cells, c.buffer, c.signalBuffer, c.regridEvery} \subseteq Nat
  /\ c.minimum <= c.base /\ c.base <= c.maxLevel
  /\ c.signalBuffer >= 1 /\ c.regridEvery >= 1 /\ c.cells >= 4 /\ IsFiniteSet(Axes(c))
  /\ {c.timeRefinement, c.evolveShadow, c.moving} \subseteq BOOLEAN
  /\ \A f \in DOMAIN c.kinds :
       {c.kinds[f].from, c.kinds[f].until, c.kinds[f].keep} \subseteq Nat /\ c.kinds[f].until <= c.kinds[f].keep
  /\ c.places \subseteq [DOMAIN c.kinds -> [Axes(c) -> 0..(Span(c) - 1)]]
  /\ c.lives \subseteq SUBSET DOMAIN c.kinds
  /\ c.limits \subseteq Nat \ {0} /\ c.limits # {} /\ IsFiniteSet(c.limits)

ASSUME RegridAssumption ==
  /\ \A c \in Configs : IsConfig(c)
  /\ MaxSteps \in Nat /\ MaxFaults \in Nat

Lesser(x, y) == IF x < y THEN x ELSE y
-----------------------------------------------------------------------------
(***************************************************************************)
(* The estimate: where a feature shows on a block.  Its position is known  *)
(* to the cell of the published mesh; the startup samples it exactly.      *)
(***************************************************************************)
LeafAt(blocks, x) == CHOOSE b \in blocks : \A d \in Axes(config) :
  BlockBox(config, b).lower[d] <= x[d] /\ x[d] < BlockBox(config, b).upper[d]

Detail(f) == IF call = "startup" THEN config.maxLevel ELSE LeafAt(leaves, place[f]).level

Footprint(f, level) ==
  LET known == Lesser(Detail(f), level)
  IN CellBox(config, [level |-> known, at |-> [d \in Axes(config) |-> place[f][d] \div Width(config, known)]])

Shows(f, b) == \A d \in Axes(config) :
  /\ Footprint(f, b.level).lower[d] < BlockBox(config, b).upper[d]
  /\ BlockBox(config, b).lower[d] < Footprint(f, b.level).upper[d]

Flagged(f, b) == config.kinds[f].from <= b.level /\ b.level <= config.kinds[f].until /\ Shows(f, b)
Kept(f, b) == config.kinds[f].from <= b.level /\ b.level <= config.kinds[f].keep /\ Shows(f, b)

(***************************************************************************)
(* selectMesh.  Every flagged block asks for the next level in a box       *)
(* around its flagged cells, padded for travelling signals.                *)
(***************************************************************************)
BufferOnly(b, horizon) == config.buffer * Width(config, b.level)  \* seeded fault
Padding(b, horizon) == config.buffer * Width(config, b.level) + config.signalBuffer * horizon

SeedOf(b, found, horizon) ==
  LET padding == Padding(b, horizon)
      low(d) == Min({Footprint(f, b.level).lower[d] : f \in found} \cup {BlockBox(config, b).upper[d]})
      high(d) == Max({Footprint(f, b.level).upper[d] : f \in found} \cup {BlockBox(config, b).lower[d]})
      box == BlockBox(config, b)
  IN [level |-> Lesser(config.maxLevel, b.level + 1),
      lower |-> [d \in Axes(config) |-> (IF low(d) < box.lower[d] THEN box.lower[d] ELSE low(d)) - padding],
      upper |-> [d \in Axes(config) |-> (IF high(d) > box.upper[d] THEN box.upper[d] ELSE high(d)) + padding]]

Seeds(blocks, seen, horizon) ==
  {SeedOf(b, {f \in seen : Flagged(f, b)}, horizon) : b \in {b \in blocks : \E f \in seen : Flagged(f, b)}}

Desired(b, seeds, minimum) ==
  Max({minimum} \cup {s.level : s \in {s \in seeds : Overlaps(config, BlockBox(config, b), s)}})

(* A parent is merged when nothing wants it finer, and neither the old     *)
(* estimate of its children nor the fresh one of its own cells is close.   *)
Mergeable(blocks, seen, seeds, minimum) ==
  {p \in {Parent(b) : b \in {b \in blocks : b.level > minimum}} :
     /\ Desired(p, seeds, minimum) <= p.level
     /\ Children(p) \subseteq blocks
     /\ \A f \in seen, b \in Children(p) : ~Kept(f, b)
     /\ \A f \in active : ~Kept(f, p)}

Merged(blocks, parents) == (blocks \ UNION {Children(p) : p \in parents}) \cup parents
Split(blocks, chosen) == (blocks \ chosen) \cup UNION {Children(b) : b \in chosen}

(* Deepening reaches its fixed point in at most maxLevel rounds.  A round   *)
(* holds the one mesh it has made.                                         *)
Refined(blocks, seeds, minimum, rounds) ==
  LET round[n \in 0..rounds] ==
        IF n = 0 THEN {blocks}
        ELSE {Split(now, {b \in now : b.level < Desired(b, seeds, minimum)}) : now \in round[n - 1]}
  IN UNION round[rounds]

TooCoarse(blocks) ==
  blocks \cap UNION {{Ancestor(n, k) : k \in 0..(fine.level - 2), n \in BlocksAcross(config, fine)} :
                       fine \in blocks}

(* Balancing goes on until nothing is too coarse: at most a round for each   *)
(* place in the tree, since no block is split twice.                       *)
Places == [level : 0..config.maxLevel, at : [Axes(config) -> 0..(2^config.maxLevel - 1)]]
Balanced(blocks) ==
  LET most == Cardinality(Places)
      round[n \in 0..most] ==
        IF n = 0 THEN {blocks} ELSE {Split(now, TooCoarse(now)) : now \in round[n - 1]}
      last == CHOOSE n \in 0..most : \A now \in round[n] : TooCoarse(now) = {}
  IN UNION round[last]

SelectMesh(blocks, seen, horizon, minimum, coarsening, rounds) ==
  LET seeds == Seeds(blocks, seen, horizon)
      merged == IF coarsening THEN Merged(blocks, Mergeable(blocks, seen, seeds, minimum)) ELSE blocks
  IN Balanced(Refined(merged, seeds, minimum, rounds))
-----------------------------------------------------------------------------
(* The step the kernels allow: at most a cell of the finest level, or of   *)
(* the coarsest one when finer levels subcycle.                            *)
FinestStep(blocks) == Width(config, Max({b.level : b \in blocks}))
StableStep(blocks) ==
  IF config.timeRefinement THEN Width(config, Min({b.level : b \in blocks})) ELSE FinestStep(blocks)

(* limitedTimestep: up to the stop time or the next output.  A caller of   *)
(* the interface may force a regrid with no lookahead: limit is then 0.    *)
Lookahead == Lesser(StableStep(leaves), limit)
Horizon == config.regridEvery * Lookahead

DueByCount == limit = 0 \/ age >= config.regridEvery  \* seeded fault
Due ==
  \/ limit = 0
  \/ age >= config.regridEvery
  \/ travel + Lookahead > budget

Init ==
  /\ config \in Configs
  /\ place \in config.places
  /\ active \in config.lives
  /\ leaves = {Root(config)}
  /\ candidate = {} /\ pass = 0 /\ call = "startup" /\ limit = 0
  /\ travel = 0 /\ budget = 0 /\ age = 0 /\ tagged = {} /\ coarsened = FALSE
  /\ outcome = "none" /\ steps = 0 /\ faults = 0

(* initializeMesh: one level per pass, the analytic state sampled anew.    *)
Startup ==
  LET stop == Max(config.limits)
      dt == Lesser(FinestStep(leaves), stop)
      selected == SelectMesh(leaves, active, config.regridEvery * dt, config.base, FALSE, 1)
  IN /\ call = "startup"
     /\ IF selected # leaves
        THEN leaves' = selected /\ UNCHANGED <<call, budget, tagged>>
        ELSE /\ call' = "driver"
             /\ budget' = config.signalBuffer * config.regridEvery * dt
             /\ tagged' = {f \in active : \E b \in leaves : Flagged(f, b)}
             /\ UNCHANGED leaves
     /\ UNCHANGED <<world, candidate, pass, limit, travel, age, coarsened, outcome, steps, faults>>

(* The loop of run() computes dt and asks for a regrid; so may a caller    *)
(* who forces one.                                                         *)
Ask ==
  /\ call = "driver"
  /\ steps < MaxSteps
  /\ limit' \in config.limits \cup {0}
  /\ call' = "regrid" /\ pass' = 0 /\ candidate' = leaves
  /\ UNCHANGED <<world, mesh, outcome, steps, faults>>

NotDue ==
  /\ call = "regrid" /\ pass = 0 /\ ~Due
  /\ call' = "advance"
  /\ UNCHANGED <<world, mesh, candidate, pass, limit, outcome, steps, faults>>

(* The end of regrid: the tracker starts again.  A forced call returns to  *)
(* its caller, the loop goes on with a dt for the new mesh.                *)
Publish(blocks, flagged, result) ==
  /\ leaves' = blocks
  /\ tagged' = flagged
  /\ coarsened' = \E b \in blocks : \E old \in leaves : old.level > b.level /\ Ancestor(old, b.level) = b
  /\ travel' = 0 /\ age' = 0
  /\ budget' = config.signalBuffer * Horizon
  /\ outcome' = result
  /\ call' = IF limit = 0 THEN "driver" ELSE "advance"
  /\ candidate' = {} /\ pass' = 0

(* A failed regrid leaves the mesh and the tracker as they were.           *)
Throws(result) ==
  /\ outcome' = result
  /\ call' = "driver"
  /\ candidate' = {} /\ pass' = 0
  /\ UNCHANGED mesh

OnePerLevel == config.maxLevel - 1  \* seeded fault
OnePassMore == config.maxLevel + 2  \* seeded fault
LastPass == config.maxLevel + 1

(* One selection.  The first may coarsen and compares with the shadow that *)
(* has evolved since the last regrid, which may miss any feature.          *)
SelectPass ==
  /\ call = "regrid"
  /\ pass = 0 => Due
  /\ \E seen \in IF pass = 0 /\ config.evolveShadow THEN SUBSET active ELSE {active} :
       LET selected == SelectMesh(candidate, seen, Horizon, config.minimum, pass = 0, config.maxLevel)
           flagged == {f \in seen : \E b \in candidate : Flagged(f, b)}
       IN \/ /\ selected # candidate /\ pass < LastPass
             /\ candidate' = selected /\ pass' = pass + 1
             /\ UNCHANGED <<mesh, call, outcome>>
          \/ /\ selected # candidate /\ pass = LastPass
             /\ Throws("unsettled")
          \/ /\ selected = candidate /\ pass = 0
             /\ Publish(leaves, flagged, "kept")
          \/ /\ selected = candidate /\ pass > 0
             /\ call' = "install"
             /\ UNCHANGED <<mesh, candidate, pass, outcome>>
  /\ UNCHANGED <<world, limit, steps, faults>>

Install ==
  /\ call = "install"
  /\ Publish(candidate, {f \in active : \E b \in candidate : Flagged(f, b)}, "installed")
  /\ UNCHANGED <<world, limit, steps, faults>>

(* A criterion, the topology or an allocation throws.                      *)
Fault ==
  /\ call \in {"regrid", "install"}
  /\ pass = 0 => Due
  /\ faults < MaxFaults
  /\ faults' = faults + 1
  /\ Throws("threw")
  /\ UNCHANGED <<world, limit, steps>>

(* A step of the loop.  A feature moves no further than a signal, and the  *)
(* model moves it all the way.                                             *)
Moves(x, length) ==
  IF config.moving
  THEN {y \in [Axes(config) -> 0..(Span(config) - 1)] :
          \E v \in [Axes(config) -> {-length, length}] : \A d \in Axes(config) :
            y[d] = IF config.periodic[d] THEN (x[d] + v[d]) % Span(config)
                   ELSE Min({Span(config) - 1, Max({0, x[d] + v[d]})})}
  ELSE {x}

Advance ==
  /\ call = "advance"
  /\ place' \in [Features -> UNION {Moves(place[f], Lookahead) : f \in Features}]
  /\ \A f \in Features : place'[f] \in Moves(place[f], Lookahead)
  /\ active' \in config.lives
  /\ tagged' = tagged \cap active'
  /\ travel' = travel + Lookahead
  /\ age' = age + 1 /\ steps' = steps + 1
  /\ call' = "driver"
  /\ UNCHANGED <<config, leaves, candidate, pass, limit, budget, coarsened, outcome, faults>>

Next == Startup \/ Ask \/ NotDue \/ SelectPass \/ Install \/ Fault \/ Advance

Spec == Init /\ [][Next]_vars
-----------------------------------------------------------------------------
Published == call # "startup"

TypeOK ==
  /\ config \in Configs
  /\ place \in [DOMAIN config.kinds -> [Axes(config) -> 0..(Span(config) - 1)]]
  /\ active \in config.lives /\ tagged \subseteq active
  /\ \A b \in leaves \cup candidate : b.level \in 0..config.maxLevel
  /\ pass \in 0..(config.maxLevel + 1)
  /\ call \in {"startup", "driver", "regrid", "install", "advance"}
  /\ limit \in config.limits \cup {0}
  /\ {travel, budget, age} \subseteq Nat /\ coarsened \in BOOLEAN
  /\ outcome \in {"none", "kept", "installed", "unsettled", "threw"}
  /\ steps \in 0..MaxSteps /\ faults \in 0..MaxFaults

(***************************************************************************)
(* MeshAdmissible: every mesh the code publishes or hands to the next pass *)
(* covers the domain once, stays within the configured levels, and blocks  *)
(* that touch -- in a face, an edge or a corner, or across a periodic      *)
(* boundary -- differ by at most one level.                                *)
(***************************************************************************)
Admissible(blocks) ==
  /\ \A x \in [Axes(config) -> 0..(2^config.maxLevel - 1)] :
       Cardinality({b \in blocks :
         Ancestor([level |-> config.maxLevel, at |-> x], b.level) = b}) = 1
  /\ \A b \in blocks : config.minimum <= b.level /\ b.level <= config.maxLevel
  /\ \A a, b \in blocks :
       Touches(config, BlockBox(config, a), BlockBox(config, b)) => a.level <= b.level + 1
MeshAdmissible ==
  /\ call = "driver" => Admissible(leaves)
  /\ call \in {"regrid", "install"} => Admissible(candidate)

(***************************************************************************)
(* FacesPaired: on a published mesh every coarse flux is replaced by fine  *)
(* fluxes of exactly the cells behind it, so neither plan finds a face it  *)
(* must refuse ("requires a 2:1 balanced mesh"), gravity work is booked by *)
(* both sides of each interior face, and ghosts read cells at most one     *)
(* level away.                                                             *)
(***************************************************************************)
FacesPaired ==
  call = "driver" =>
    LET work == WorkPlan(config, leaves)
        leafCell(x) == BlockOf(config, x) \in leaves
    IN /\ \A e \in work : leafCell(e[2]) /\ <<e[2], e[1], e[3], -e[4]>> \in work
       /\ RefluxPlan(config, leaves) = {e \in work : e[2].level > e[1].level}
       /\ \A b \in leaves : \A g \in GhostsOf(config, b) :
            \/ \E x \in Locate(config, leaves, g) : x.level >= g.level - 1
            \/ \A x \in Children(g) : leafCell(x)

(***************************************************************************)
(* RegridSettles: when no criterion appears only on finer cells, selection *)
(* reaches a mesh it accepts within its maxLevel + 2 passes.               *)
(***************************************************************************)
Hereditary(f) == config.kinds[f].from = 0
RegridSettles == outcome = "unsettled" => \E f \in Features : ~Hereditary(f)

(***************************************************************************)
(* TagsCovered: what the last selection flagged stays in blocks of the     *)
(* finest level while signals have not outrun the budget of that regrid.   *)
(***************************************************************************)
TagsCovered ==
  Published /\ travel <= budget =>
    \A f \in tagged : Hereditary(f) => LeafAt(leaves, place[f]).level = config.maxLevel

(***************************************************************************)
(* TravelWithinBudget: signals never outrun the budget, except after a     *)
(* regrid that merged blocks and so lengthened the step it was asked for.  *)
(***************************************************************************)
TravelWithinBudget == coarsened \/ travel <= budget

(* StepWithinBudget: they never do, as docs/amr.md has it: "The runtime    *)
(* tracks consumed travel and checks the next step against the remaining   *)
(* budget".                                                                *)
StepWithinBudget == travel <= budget
=============================================================================
