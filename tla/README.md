# A verification of the OctotigerII runtime

OctotigerII is a C++/HPX finite-volume code for self-gravitating, radiating gas
on an adaptive mesh of subgrids ("blocks"). This directory models the parts of it
whose correctness is a matter of order, bookkeeping or discrete geometry: the
stage scheduler, the subcycled transport interval with its rollbacks, the
protocol of the public `Runtime` calls, the stored values each stage reads and
writes, hierarchical gravity integration, the distributed gravity solver, and mesh selection with the driver's regrids. TLC
checks the models on small instances; TLAPS proves safety properties of all of
them for every value of their constants.

Paths below are relative to the repository. "L" stands for
`src/runtime/localExecutor.cpp`.

1. Inventory of the system
2. Modules and how they correspond to the code
3. Runs: what is checked, bounds, fairness
4. Proofs
5. Findings
6. What is not modelled
7. Plan

## 1. Inventory

### How the parts interact

One process, the *coordinator*, owns `Runtime`. A public call takes `apiGate`, so
public calls exclude each other. A call is a sequence of *stages*; each stage is
one `Impl::phase(operation, stageTime, level, ...)`, which sends a `begin` action
to every locality, waits for all of them, sends `run`, waits for all of them and
merges the results. At a locality a `LocalExecutor` keeps the queue of its active
blocks; one worker task per workspace claims blocks, first its own, then those of
the other localities in ring order, and runs the stage's operation on each. The
operations read halo and donor data of other blocks (locally or through remote
actions) in the *published* bank and write the other bank; the coordinator flips
`Impl::bank` after the stage. On a refined mesh each time level has a bank and an
interval of its own while an interval is open. Between steps `regrid` builds new
topology, storage and executors and swaps them in.

### Components

| Component | State | Operations | What is hard | What makes it correct |
|---|---|---|---|---|
| Stage scheduler (`src/runtime/stages.cpp`, L, `internal.hpp`) | dispatch token, queues, cursor, token per executor, workspaces, cache slots and owners | `phase`, `begin`, `run`, `claim`, `worker`, `collect` | owners and thieves on one queue, failures while others run, late requests, cached correctors on other localities | every block once, nothing of a stage outlives it, a normal return means all done, every stage ends |
| Probe halo cache (`haloCache.hpp`, L) | per locality a slot per block, a pool | save in Probe, match in Advance, drop on rollback | probes are stolen, so a cache is rarely where the block is stored; retries have equal keys | a corrector finds the cache of its own probe; none survives a rollback |
| Transport interval (`transport.cpp`, L) | published bank and time; per level bank, begin, end, pending, predictor; flux banks 0 and 1; backup in bank 2; statistics; boundary account | `advance`, `advanceUnlocked`, `advanceLevel`, `timestep` | recursive subcycling, halo interpolation in time, register windows, rollback from any depth | halos at the right time, each coarse step refluxed by exactly its fine fluxes, an interval is published whole or not at all |
| Coupled radiation step (`radiation.cpp`, L) | a second backup, scratch banks (initial state, midpoint), rates | `advanceCoupled`, `coupleRadiation`, save/predict/forecast/finish | scratch shared by nested open steps; outer rollback after an inner one, after publication, or without either | source steps read the states of their own step; a failed call leaves fields, time and accounts as before |
| Public API and the energy interval (`gravity.cpp`, `runtime.cpp`, `runtime.hpp`) | `time`, `bank`, `gravityReady`, `gravityTime`, `gravityEnergyActive`, `gravityEnergyStart`; fields `gravityKickWork`, `oldGravity` | `solveGravity`, `setGravity`, `kickGravity`, `beginGravityEnergy`, `finishGravityEnergy`, `advanceGravity` | any order of calls, failure of any stage, flags that vouch for a field | snapshots of one instant, the ledger equals the kicks applied, failed calls without trace |
| Regrid protocol (`regrid.cpp`) | mesh, `regridEnergyPending`, combined energy in the kick register, travel budget | `regrid` and its `install`, `solveLevels` (recovery) | energy is provisional until the next solve | the combined energy waits, intact, and nothing uses the provisional one |
| Hierarchical gravity (`gravity.cpp:16-423`) | a stack of open shells, deferred work, per-level gravity times | `advanceGravityLevel` | nested shells open before and close after the fine levels | each closing pairs its opening; each level's work is counted once |
| Distributed gravity solver (`src/gravity/fieldSolver.cpp`, `adaptiveFieldSolver.cpp`) | multipoles per depth, requests in flight | staged upward and downward passes | remote reads of the previous depth | no depth reads an unfinished one |
| Typed storage (`octotigerII/storage/`) | fields, banks, retained views, layout | register, read, write, commit, retire | views into live banks, writers after readers | nothing is written while it is viewed; all partitions agree on owners |
| Topology and halo plans (`src/topology.cpp`, `src/mesh.cpp`) | leaves, order, owners, neighbours, plans | build | asymmetry between the two sides of a face | one owner per block, symmetric 2:1 neighbours |
| AMR selection and transfer (`src/amr/`) | candidate mesh | select, settle, transfer | coarsening undone by a later pass | it settles, and stays 2:1 balanced |
| Driver (`src/simulation.cpp`) | step count, output times | `run` | dt chosen before and after a regrid | the travel budget of the regrid still holds |
| Kernels (`octotigerII/finiteVolume`, `src/hydro`, `src/radiation`, `src/gravity/ewald.cpp`) | none | reconstruct, fluxes, exchange, multipoles | floating point | numerics, see section 6 |
| Configuration, problems, output | options, tables, files | parse, initialise, write | none | see section 6 |

`lib/helmholtz`, `docs/generated` and the tables under `problem/` are vendored,
generated or data.

`PROJECT.json` lists the same components with their status, and under `hazards`
every place found in the code where an order, a failure or a boundary is hard to
test, with the properties that cover it or a note saying why none does.

## 2. Modules

```
StageContract      <--refined by--  StageDispatch  --extended by-->  StageDispatchProofs
IntervalContract   <--refined by--  Subcycling  --extended by-->  SubcyclingProofs
RuntimeProtocol    --extended by-->  RuntimeProtocolProofs
GravityFrames      --extended by-->  GravityFramesProofs
BlockTree  --extended by-->  GravityTree  --extended by-->  FieldSolver
BlockTree  --extended by-->  BlockMesh    --extended by-->  Regrid, StageAccess
FieldSolver  --extended by-->  FieldSolverProofs
Regrid       --extended by-->  RegridProofs
StageAccess  --extended by-->  StageAccessProofs
NatLemmas  extended by  SubcyclingProofs, GravityFramesProofs, FieldSolverProofs, RegridProofs, StageAccessProofs
MC*  each EXTENDS one of the models and gives its constants values
```

The detailed modules meet at their contracts. `StageDispatch` shows that a
stage processes each block once and returns only when all are done, or throws; on
the strength of that `Subcycling`, `GravityFrames` and `RuntimeProtocol` take a
whole stage as one step which succeeds or throws after having written any part of
its output. `Subcycling` shows that an interval is published whole or restored; on
the strength of that `RuntimeProtocol` takes the refined gravity interval as one
stage. `GravityFrames` follows the clock and banks of the same recursion and adds
the gravity that is integrated along it. `FieldSolver` shows that a solve leaves
the published bank alone and gives each target each source once; on the strength
of that the others take a gravity field to be the set of the densities it was
solved from. `Regrid` shows that published meshes are 2:1 balanced, which is what
the plans of `BlockMesh`, and the adaptive solver's tree, rely on.

`StageAccess` opens a stage up again, into tasks and the cells they use: it shows
that the order in which `StageDispatch` runs them does not matter, which is what
lets the modules above take a stage as one step.

What differs between configurations of the program (`Options` in `Subcycling`,
`RuntimeProtocol`, `GravityFrames` and `StageAccess`; `Configs` in `Regrid`; `Meshes` in
`FieldSolver`) is a set given as a CONSTANT, of which `Init` picks one: the code
fixes it when `Runtime` is built, and one run covers all of them.

### StageDispatch

Faithful to `phase`, `begin`, `run`, `claim` and `worker`.

| Model | Code |
|---|---|
| `Dispatch` | `++dispatch`, the queue of cached work per owner, the begin requests (`stages.cpp`) |
| `RejectHaloTime` | "Halo time outside coarse predictor interval", after `++dispatch` |
| `FinishBegins`, `FinishRuns` | `finish(starts)`, `collect(pending)`: wait for *all*, then rethrow the first error; merge of task counts and `cachedBlocks`; "Incomplete stage dispatch" |
| `Begin`, `BeginFails` | `LocalExecutor::begin`: generation, stealing, active blocks, dropping of caches; a failure may leave any prefix of it |
| `Run`, `FinishRun` | token check, one task per workspace, `collect` of the workers |
| `Claim`, `QueueEmpty`, `ClaimThrows` | `claim` under `queueMutex_`, and the donor loop of `worker` |
| `Complete`, `ProcessThrows` | `process(id)`, the task statistics and the cache slot it fills or releases |

Operations are grouped into the five kinds the scheduler distinguishes
(`Operation`). The order inside a queue is abstracted to a set: the cursor `next_`
hands out each element once, which `Unclaimed` keeps. Histories (`done`, `probed`,
`rolledBack`) are never read by a guard, with one exception: `Dispatch` uses
`probed` for the precondition that a cached corrector is only launched after a
completed probe of the same blocks, which every caller in `transport.cpp` and
`radiation.cpp` observes.

### StageContract

A stage opens on a set of blocks, processes each at most once, returns only when
none is left, or throws. `ImplementsContract` maps `todo` to `Staged \ done`.

### Subcycling

Faithful to the refined path of `advanceUnlocked`, `advanceLevel`, the phases of
the coupled step and the catch blocks of `advanceUnlocked` and `advanceCoupled`.
Contents of banks are abstracted to the time and kind of state they hold. The
recursion is explicit: `frame[l]` holds the locals of the activation at time level
`l`, `pc` and `lev` say which phase comes next. Time is counted in ticks, the
shortest step that still changes floating-point time: a step below one tick is the
"cannot advance" exception, part of `Fails`.

| Model | Code |
|---|---|
| `Start`, `Checkpoint`, `ProbeAll` | entry of `advance`/`advanceCoupled`, the copy made before its `try` |
| `Backup`, `ResetFlux`, `Timestep`, `Advance`, `Reflux`, `CompleteStep` | the phases of `advanceLevel` in their order; `Fitted` is the halving loop |
| `SaveRadiationStep`, `Probe`, `PredictRadiationStep`, `ForecastRadiationStep`, `FinishRadiationStep` | the coupled phases of the same loop |
| `Normalize`, `Publish`, `Floor` | copy to one bank, swap and `completeTime`, then `applyEosFloor` |
| `Fails`, `Restore`, `RestoreFails`, `Recover`, `RecoverFails` | an exception at any phase, the inner rollback, the outer one |

### IntervalContract

Clock, fields, boundary account and step statistics move together when the whole
interval has succeeded; a failed interval changes none of them; only a failed
rollback breaks this. Under `KeepsIntervalContract` what is *published* during an
open interval is what the rollback would bring back (bank 2, or the outer backup),
which is also what makes the mapping non-trivial: `Restore` must be a stutter.

### RuntimeProtocol

Each public call is a sequence of stages (`Program`), each stage has its demands
(`Demand`, the checks that throw), its effect on the two banks and the flags, and
its ways to fail. Calls come in any order, so the driver's order is one behaviour
among many. A gas state is abstracted to the mesh, the time and the number of
tracked kicks it has received; a gravity field to the gas it was solved from.

### GravityFrames

Faithful to `advanceGravityLevel`, `closeGravityFrame` and their helpers in
`src/runtime/gravity.cpp`, with entry, `Normalize` and rollback of the interval.
Numbers are replaced by what they count: a field is the set of densities (level,
time, kind) it was computed from, a source is the number of ticks it has acted.

| Model | Code |
|---|---|
| `Begin`, `Normalize`, `Fail` | `advanceGravityUnlocked`: backup, publication, `Restore` |
| `Timestep` | the loop of `advanceGravityLevel` with its halvings |
| `NestedGravity`, `ShellGravity`, `Source` | `nestedGravity` with its reuse by time, the shell as a difference of two nested fields, densities of open levels between state and predictor |
| `Open` | a `GravityFrame` at the begin of a step, the reset of deferred work |
| `Transport`, `Provisional`, `Kicked`, `Carried` | `Advance` and `provisionalGravity`: each open frame's momentum and work |
| `Forecast`, `Reflux` | bank 3, the finer levels, `CompleteStep` |
| `CloseShell`, `CloseLedger`, `CloseFrame` | `closeGravityFrame`: the average over both ends in place of what was applied, deferral to coarser levels, the gravity published for the next stable step |

The second potential of rotating frames takes the same path and is left out; so
are the source rates of halos and the shadow.

### BlockTree, GravityTree, FieldSolver

`FieldSolver` is faithful to `FieldSolver` and `AdaptiveFieldSolver`: the phases of
a solve, each launched on every partition and collected, with a read from each
other owner in the passes. `GravityTree` builds the tree and the interaction lists
as the three traversals of the code do (`NeighbourList` for the uniform solver
without images, `ImageList` with them, `WalkList` for the adaptive dual walk),
with folded distances and the opening criterion on integer lattices.

| Model | Code |
|---|---|
| `Begin`, `Launches`, `NextPhase`, `Fail`, `Return` | `FieldSolver::solve`, `launch`, `collect`: every phase drains before the next, a failed launch collects what was launched |
| `Owned`, `Routed` | contiguous ranges of ids and the owner a read is sent to |
| `Configure`, `Initialize` | request and active targets; clear and P2M, which may stop at a bad density |
| `Read`, `Upward`, `Downward`, `Throw` | `fetch`, M2M, M2L or P2P with L2L, a task that throws |
| `Publish`, `Return` | `publish` block by block into the bank nobody reads, then the caller's swap |
| `Move` | the transport between solves (environment) |

An expansion is the *bag* of contributions in it: for a moment the leaves and the
versions of their densities, for a local also the image and the walk that brought
them. Adding twice, omitting, or adding what an earlier solve left is then visible
in the result. Locals and force locals go through the same steps and are one
variable. The meshes are one- and two-dimensional slices of the octree; no formula
of the code couples the axes except the squared length. `Trees` is a constant with
an assumption that fixes its value (`TreeAssumption`): the tree and lists are
what a solver builds once and keeps. A failed launch is modelled for the uniform
solver; the adaptive one does not drain there (`adaptiveFieldSolver.cpp:589`), and
the texts promise draining only for errors inside tasks, so the model leaves that
launch failure out.

### BlockMesh, Regrid

`BlockMesh` translates the discrete geometry of `src/amr` and `src/topology.cpp`:
boxes, neighbours across periodic boundaries, the leaf directory, and the plans
for reflux, gravity work and ghosts. `Regrid` is faithful to `initializeMesh`,
`selectMesh`, the passes and the tracker of `Runtime::regrid`, and the loop of
`run()`.

| Model | Code |
|---|---|
| `Startup` | `initializeMesh`: a level per pass, the analytic state sampled anew |
| `SeedOf`, `Desired`, `Mergeable`, `Refined`, `Balanced`, `SelectMesh` | `selectMesh`: flags, padding for buffers and signals, coarsening, deepening, 2:1 balance |
| `Ask`, `NotDue`, `Due` | `run()` and the guards of `regrid`: count, travel budget, a forced call |
| `SelectPass`, `Install`, `Publish` | the loop of selections, the installation, the tracker's restart |
| `Throws`, `Fault` | "did not settle", and anything else that throws |
| `Advance` | a step with the dt computed after the regrid |

A refinement criterion is abstracted to features at places: a feature scores above
1 on some levels of the cells that contain it, and enough to forbid coarsening on
some more. Features move no faster than signals and come and go. The signal speed
is uniform, so a step is measured by the length a signal travels, in cells of the
finest level. The evolved shadow may miss any feature.

### StageAccess

A *cell* is the part of one bank of one field that belongs to one block, and holds
the number of the stage that computed it, or 0. The sequence of stages is that of
the calls (`Stages`), on the real mesh plans of `BlockMesh`; `AccessOf` says what
each operation reads, computes and copies for a block.

| Model | Code |
|---|---|
| `Recursion`, `Transport`, `KickedTransport`, `CoupledStep` | the stages of `advanceLevel`, `advanceUnlocked`, `advanceGravityUnlocked`, `advanceCoupled` in their order |
| `AllocatedFor`, `Banks`, `Registers` | `FieldRepository`, `CouplingStorage` |
| `BankOf`, `Between`, `NextBank`, `Halo` | `HaloTime` as `phase` computes it, and `readTimedHalo` |
| `HaloKey`, `Matches`, `Reused`, `Probed` | `BlockHaloCache::matches`, and what `worker` saves and reuses |
| `Begin`, `Open`, `Close`, `Throw` | the tasks of a stage: between `Open` and `Close` their output is in pieces |
| `EndStage`, `Return` (`Published`, `Spent`) | the flips of banks and markers after a stage; what a later stage may no longer rely on becomes 0 |
| `Restore`, `Recover`, `Retry`, `RolledBack`, `Lose` | a failed stage: both rollbacks, repetition by the caller, a failed rollback or tracked kick |

Species travel with the gas and are left out; refined self-gravity is the subject
of `GravityFrames`. A solve is one stage here. After a call only what it published
keeps its value, so calls repeat without a bound.

### Seeded faults

A few operators carry the comment `seeded fault`. No action uses them. Each is a
plausible mistake in the operator after it (a dropped guard, the other bank, a
missing reset); `PROJECT.json` pairs it with the property that TLC reports
violated when it is put in that operator's place. They show for every property of
every run that the code could break it.

## 3. Runs

Run a model with `tlc -workers 2 -config X.cfg X` for the module `X` of the table.

| Run | Module | Distinct states | What it checks |
|---|---|---|---|
| `stage_dispatch` | `MCStageDispatch` | 304 388 | `TypeOK`, `ExclusiveTask`, `NoStaleWork`, `CompleteStage`, `ImplementsContract`, `StageEnds` |
| `stage_retry` | `MCStageRetry` | 3.05 million | `CorrectorFindsProbe`, `NoCacheAcrossRollback` |
| `subcycling` | `MCSubcycling` | 643 096 | `TypeOK`, `HaloSynchronised`, `RefluxCoversStep`, `StepsAligned`, `SourceInputsReady`, `FailedCallKeepsTime`, `KeepsIntervalContract`, `IntervalEnds` |
| `runtime_protocol` | `MCRuntimeProtocol` | 693 651 | `TypeOK`, `SnapshotsWhole`, `RegridEnergyKept`, `LedgerExact`, `FailedCallUnchanged` |
| `gravity_frames` | `MCGravityFrames` | 210 248 | `TypeOK`, `FieldsSynchronised`, `ExchangeBooked`, `GravityCurrent` |
| `field_solver` | `MCFieldSolver` | 37 864 | `TypeOK`, `EveryPairOnce`, `ReciprocalPairs`, `ReadsComplete`, `PublicationKept`, `SolveEnds` |
| `regrid` | `MCRegrid` | 60 503 | `TypeOK`, `MeshAdmissible`, `FacesPaired`, `RegridSettles`, `TagsCovered`, `TravelWithinBudget` |
| `stage_access` | `MCStageAccess` | 419 044 | `TypeOK`, `StageIsolated`, `InputsCurrent` |
| `floor_failure` | `MCFloorFailure` | (stops at the violation) | refutes `FailedCallKeepsTime` for `advance`, see section 5 |
| `kick_retry` | `MCKickRetry` | (stops at the violation) | refutes `KicksPermitRetry`, see section 5 |
| `regrid_budget` | `MCRegrid`, `MCRegridBudget.cfg` | (stops at the violation) | refutes `StepWithinBudget`, see section 5 |

### Bounds, and why they are enough

* `MCStageDispatch`: two localities, three workers (two at locality 0), three
  blocks on two time levels, `MaxDispatch` = 2 stages. Two workers on one queue,
  a thief from the other locality and a locality that starts late all occur; the
  second stage is what a leftover of the first could disturb. With `N` = 2 the
  donor ring has one foreign queue; the proofs cover every `N`.
* `MCStageRetry`: one worker per locality, both blocks stored at locality 0,
  `MaxDispatch` = 4: a failed probe, a rollback, a second probe that may be stolen
  differently, and its corrector. This is the shortest sequence in which a stale
  cache could be found.
* `MCSubcycling`: four options. Spatial levels 0, 1, 2, each its own time level,
  for an interval of 8 ticks: three nested activations, with room to halve the
  step once at any one of the levels before a finer step falls below a tick.
  Levels 0 to 3 with `coarseLevel` = 1, coupled and with a floor, for 8 ticks:
  levels 0 and 1 share a time group while 2 and 3 subcycle. And two levels,
  coupled or not, for intervals of 2 and 4 ticks up to `MaxTime` = 8: several
  intervals in a row, and retries after a failure at any phase.
  `steps` counts no further than `MaxTime`: a step takes at least a tick, so
  the cap binds only if that is broken, and then keeps the state space finite.
  The contents an earlier call left in the unpublished banks are forgotten at
  `Start` (`OnlyPublished`): they count as unset, which satisfies no property, so
  the abstraction can only make a property fail.
* `MCRuntimeProtocol`: two blocks (so that a stage can fail between them),
  `MaxTime` = 2 steps, `MaxMesh` = 1 regrid, `MaxKicks` = 3 tracked kicks in an
  energy interval: two per step, and one more by hand. Two options: global steps
  with conserving regrids, and refined steps with regrids while gravity is stale.
* `MCGravityFrames`: two adjacent time levels, three adjacent ones and two with a
  gap, each with both integrations and with and without coupling; intervals of 4
  ticks, two in a row (`MaxTime` = 8). Three levels at whole steps take one, two and
  four steps, so that nested fields are reused across frames and work is deferred
  through two levels. A finest step is then one tick, as it is with the gap: a
  coarser step that is halved leaves it none, and such a behaviour can only fail.
  The two adjacent levels have room to halve: their schedules of equal, halved and
  mixed steps run to the end of the interval. Three levels with room to halve need
  intervals of 8 ticks, which TLC does not exhaust in the time of a run; the
  theorems of section 4 cover them.
* `MCFieldSolver`: six meshes (uniform open and periodic lines of eight cells, a
  uniform line between walls, an adaptive line with leaves on three levels, an
  adaptive line between two walls, an adaptive plane with one wall), two
  partitions, two solves, full or partial, in any order, with a transport between
  them and one failure. The second solve is what remains of the first could
  disturb; the periodic and walled meshes are the smallest where the walk over
  the other images differs from the nearest. Opening angles of 1/2 (distances that
  tie with it) and 4/7.
* `MCRegrid`: four configurations. A periodic line of three levels with features
  that move and vanish, a line with time refinement (whose step grows when blocks
  merge), a square with one periodic axis and a feature in its corner (balance
  across edges and corners), and a cascade of criteria each visible only on
  one level (the worst case for settling). `MaxSteps` = 3 steps with a regrid
  before each, `MaxFaults` = 1 regrid that throws.

* `MCStageAccess`: a line of four blocks on the levels 1, 2, 3, 3, so that halos,
  refluxes and gravity work cross level boundaries in both directions and two
  blocks of one level are neighbours. Twelve options: global, subcycled and grouped
  time levels, each with and without exchange, with and without self-gravity
  (tracked or not) and external forces, and a bare `coupleRadiation`.
  `MaxFailures` = 3 failing stages in a call: the stage, `Restore`, and
  `RestoreRadiationStep`.

No symmetry reduction is used: blocks differ in their owner and level where the
models are large, and the runs with temporal properties would not allow it.

Deadlock is checked for `StageDispatch`, `Subcycling`, `RuntimeProtocol` and
`StageAccess`: they stop only where a bound is reached or a rollback has failed, and both are explicit
stuttering actions (`Finished`, `Lost`). `FieldSolver`, `Regrid` and
`GravityFrames` stop at `MaxSolves`, `MaxSteps` and `MaxTime`, so their cfgs say
`CHECK_DEADLOCK FALSE`; that a solve cannot hang is `SolveEnds`.

### Fairness

* `StageDispatch!FairSpec`: weak fairness of the coordinator's two waits, of each
  locality's executor steps and of each worker's steps. HPX runs every task that
  has been launched and delivers every future, with a value or an error;
  `process` is a finite computation that ends in one of two ways. Nothing is
  assumed of the caller (`Dispatch` has no fairness) and no particular outcome is
  favoured: success and failure are disjuncts of one fair action.
* `Subcycling!FairSpec`: weak fairness of `Phase`. The coordinator is one thread
  inside a call, and each phase ends by `StageEnds`.
* `FieldSolver!Spec`: weak fairness of `Solver`, the steps of a solve taken
  together. As long as a task or the coordinator can step, one of them does: HPX
  delivers every read, also to a partition whose workers compute. `Read` is one
  step, which asks and is answered, so `SolveEnds` says that no phase waits for a
  task that has thrown or for a value nobody produces; it does not say that HPX has a
  thread left to serve a read. `Solve`,
  `SolveRequest` and `Move` are the caller's and have none.

`StageEnds`, `IntervalEnds` and `SolveEnds` use these; every other property is a
safety property.

## 4. Proofs

Every theorem below holds for all values of the constants that satisfy the named
assumptions; the assumptions stand in the models, and TLC evaluates them in every run.

| Module | Theorem | Statement |
|---|---|---|
| `StageDispatchProofs` | `TypeCorrect` | `Spec => []TypeOK` |
| | `ExclusiveTasks` | `Spec => []ExclusiveTask` |
| | `NoStaleWorkEver` | `Spec => []NoStaleWork` |
| | `StagesComplete` | `Spec => []CompleteStage` |
| | `CorrectorFindsItsProbe` | `Spec => []CorrectorFindsProbe` |
| | `NoCacheSurvivesRollback` | `Spec => []NoCacheAcrossRollback` |
| | `StageKeepsContract` | `Spec => ImplementsContract` |
| `SubcyclingProofs` | `SubcyclingTypes` | `Spec => []TypeOK` |
| | `StepsStayAligned` | `Spec => []StepsAligned` |
| | `RefluxIsCovered` | `Spec => []RefluxCoversStep` |
| | `HalosAreSynchronised` | `Spec /\ FloorCaught => []HaloSynchronised` |
| | `SourcesAreReady` | `Spec /\ FloorCaught => []SourceInputsReady` |
| | `FailedCallsKeepTheState` | `Spec /\ FloorCaught => []FailedCallKeepsTime` |
| | `IntervalsKeepTheContract` | `Spec /\ FloorCaught => KeepsIntervalContract` |
| `GravityFramesProofs` | `FramesTypes` | `Spec => []TypeOK` |
| | `FieldsAreSynchronised` | `Spec => []FieldsSynchronised` |
| | `ExchangeIsBooked` | `Spec => []ExchangeBooked` |
| | `GravityIsCurrent` | `Spec => []GravityCurrent` |
| `RuntimeProtocolProofs` | `ProtocolTypes` | `Spec => []TypeOK` |
| | `SnapshotsAreWhole` | `Spec => []SnapshotsWhole` |
| | `RegridEnergyIsKept` | `Spec => []RegridEnergyKept` |
| | `LedgerIsExact` | `Spec => []LedgerExact` |
| | `FailedCallsLeaveTheirInput` | `Spec => []FailedCallUnchanged` |
| `FieldSolverProofs` | `ReadsAreComplete` | `Spec => []ReadsComplete` |
| | `PublicationIsKept` | `Spec => PublicationKept` |
| `RegridProofs` | `RegridTypes` | `Spec => []TypeOK` |
| | `MeshesAreAdmissible` | `Spec => []MeshAdmissible` |
| | `FacesArePaired` | `Spec => []FacesPaired` |
| | `TravelStaysWithinBudget` | `Spec => []TravelWithinBudget` |
| | `TagsStayCovered` | `Spec => []TagsCovered` |
| | `SelectionSettles` | `Spec => []RegridSettles` |
| `StageAccessProofs` | `StageIsolation` | `Spec => []StageIsolated` |
| | `AccessTypes` | `Spec => []TypeOK` |
| | `InputsAreCurrent` | `Spec => []InputsCurrent` |

`NatLemmas` holds what the proofs need of the natural numbers: least and greatest
elements, greatest elements of finite sets, quotients, powers of two, and induction in
the form the provers can apply, over a set (`Counting`).

In each module none of the properties is inductive by itself. The invariant is a
conjunction of named parts; `Init` implies it, each action keeps it (one lemma or
step per action and part), and the properties follow from it. It was model-checked
on the runs' instances before it was proved.

### StageDispatch

Assumptions: there is at least one locality (`LocalityAssumption`), each locality
has a worker and each worker one home (`WorkerAssumption`; `LocalExecutor` refuses
to be built without a workspace), the blocks are finitely many, each with an owner
and a level (`BlockAssumption`), and `ParameterAssumption`. `IInv` adds to the types:

* `Control`: a worker is out only while its locality's request is `running` and
  the coordinator waits for it; a locality that has answered its `begin` carries
  the stage's token and exactly its own active blocks. This is where *draining*
  enters: `FinishBegins` and `FinishRuns` wait for every answer even when one has
  failed, and that is why no token can be stale.
* `Placement`: the queues are disjoint, disjoint from what is done and from what
  workers hold. Each block has one owner, so `Begin` establishes it; a claim moves
  a block from one place to another.
* `Accounting`: the task counters are the cardinality of `done`; a worker that has
  left its own queue left it empty, and queues never grow during a run; as long as
  nothing has failed every block is done, queued or held. When all requests are
  `ok` all queues are empty and no worker holds a block, so all blocks are done:
  that is `CompleteStage`, and that the "Incomplete stage dispatch" exception is
  unreachable. It needs a worker at every locality.
* `Caching`: where a cache can be at each moment of a probe, a rollback or a
  corrector. Its central part, `ProbedCache`, says that the cache of the last
  completed probe is where `cacheOwners` points; `SavedCaches` keeps it through a
  probe stage whose blocks are stolen, `Affinity` through a corrector stage, and
  `RollbackTokens` orders saves and rollbacks by their dispatch tokens.

The refinement takes each step to a step of `StageContract` or a stutter.

### Subcycling

Assumptions (`OptionAssumption`): the spatial levels are a finite set of naturals
with at least two members (`timeRefinement()`, without which `advance` takes the
global path), and an interval is a power of two of ticks, because a tick is the
binary fraction of the interval below which a step no longer changes the time.
`BoundAssumption`: the bound on time is positive. Any number of levels, with gaps,
with or without grouped coarse levels, coupled or not.

`Frames` is about the stack of activations of `advanceLevel`:

* `Nested`: the step of an open level is the interval of the next finer one, and
  fits into what is left of its own. That is the induction the recursion makes:
  all steps and all remainders are powers of two that divide each other, whence
  `StepsAligned` after any number of halvings.
* where each level's own state is (`StateTime`) and how far its transport has come
  (`Reached`), by whether it is coarser than, equal to or finer than the level that
  is running; the predictor interval of an open level is its step.
* the register between two time levels holds the fluxes from the coarse step's
  begin to where the finer level is. When the coarse step is refluxed the finer
  level has reached its end: that is `RefluxCoversStep`.

`Banks` says what the banks hold against that clock: the copies of the published
state (`Saved`: bank 2 from `Backup`, the outer backup from `Checkpoint`, the
published bank until it is overwritten), every level's own state (`OwnState`) and
the later end of the open ones (`Ahead`), the scratch of the source steps
(`StepStart`, `Predicted`), and the bank that is about to be published (`Normalized`).
It gives `HaloSynchronised`, because a donor coarser than the phase's level is
between its two ends and a finer one is in the same instant. It gives the
refinement: what `IntervalContract` calls published is bank `bank` before and the
copy during an interval, so each phase is a stutter, and `Publish`, `Restore` and
`Recover` find in their source what the mapping promised.

`FloorCaught` is `Floored => Coupled`: where the temperature floor acts at all it
acts inside the catch block of `advanceCoupled`. It is a hypothesis because without
it the statements are false: an uncoupled `advance` publishes and then throws from
the floor (finding 1). It restricts the configurations, not the behaviours.

### RuntimeProtocol

Assumptions: a finite set of blocks, at least one; `MaxKicks` at least 2, since one
gravity step makes two kicks (with a smaller bound the model could not make the step
the bound is on). A call's stages are a sequence. The invariant does not follow the calls one by one; `Plan` says
of *any rest* of a call's program what no call violates: a `begin` is never behind a
`kick`, at most one stage completes the step, at most two kicks, a `regrid` stands alone, nothing
but `closed` and `save` precedes the outer `try`. Around it: `Clock` and `KickRoom` (what the
remaining stages may still add), `Whole` (each bank, block by block, and which flag vouches for it),
`Pending` (the combined energy of a regrid), `Ledger` (the register against the kicks of this interval),
`Closed`, `Saved`, `Restoring` (what the rollback of `advanceCoupled` finds) and
`Unseen` (a failing stage has written only what nobody reads).

### GravityFrames

Assumptions (`FramesAssumption`): each configuration has a finite, non-empty set of
time levels, with or without gaps; intervals are positive. Nothing is assumed of how the
levels halve their steps: an interval may be any number of ticks, and steps need not
divide each other beyond what the loops of `advanceGravityLevel` enforce.

Five invariants build on one another:

* `Timed`: the loop of every level runs inside the step of the next coarser one. Three times
  follow for each level: how far its state has come (`StateTime`), how far gravity has acted on it
  (`Reached`), how far its frames have closed (`Closed`). `TimesMove`: only reflux, transport and
  the closing of a frame move one of them, each its own and at the running level alone.
* `Banks`: every level's bank holds the state of its `StateTime`, an open one its predictor too.
* `Shells`: a cached nested field is the field of the time it is marked with. So reuse by time is
  sound (`ShellGravityGives`), the difference of two nested fields leaves the level's own density
  (`ShellOfOneLevel`), and `FieldsSynchronised` follows.
* `GravityHolds`: the gravity beside each state has every source level once (`OneEach`). A closing
  frame publishes its nested field together with the opening shells of the frames around it, which
  are disjoint (`PublishedField`).
* `Books`: `Acted` says that a level's momentum and energy hold what has acted up to `Reached`, for
  every frame alike. It is inductive only with the books of each open frame (`FrameBooks`:
  what was applied in it so far, by whom, to whom) because closing takes away exactly those
  entries and puts the frame's step in their place (`ClosingBooks`); a forecast that finer
  frames had not met, or work deferred twice, would leave a difference. `ExchangeBooked` is `Acted`
  at the coarsest level.

### FieldSolver

Assumptions: the meshes are finite sets of leaves (`MeshAssumption`), `Trees` is the tree and the
lists built from them (`TreeAssumption`), requests name blocks of their mesh, at least one partition.
`Shape` (the phase, the tasks and requests in flight), `HaloFresh` (a partition that has
finished its phase holds what it will end the phase with), `Configured` (the request and
targets agree on all partitions once they have been configured), `CallWhole` and `Copied` (what
publication has written where). Routing is arithmetic: `(id * P) \div total` is the
partition whose range holds `id`, for any `total` and `P` (`RangeOfRoute`). Depth is what makes
reads complete: an upward pass reads the depth below, a downward pass the depth
above, and every phase drains before the next.

### Regrid

Assumptions (`RegridAssumption`, `IsConfig`): the levels are ordered, `signalBuffer` and
`regridEvery` are positive, blocks have at least 4 cells along each axis, as `Config` demands
(`src/config.cpp:432`; powers of two are not needed), there are finitely many axes, the caller's limits are a finite, non-empty set of positive
lengths, and the levels on which a criterion acts are naturals. The criteria, features and their
movement are arbitrary.

`Covering`: every cell of the finest level has an ancestor in the mesh, and every block is a location
of the tree. `Disjoint`: no block lies under another. Both together are a `Tiling`. Splitting blocks keeps it
(`SplitTiles`), and so does merging, because a parent is only merged when all its children are
blocks (`MergedCovers`, `MergedDisjoint`).

Deepening and balancing are sequences of rounds that split, so what they make refines what they were
given (`Refines`; `RefinedCovers`, `BalancedCovers`, by induction on the rounds). What a round splits
is gone for good: nothing above it comes back (`ChosenGone`). Two things follow. Balancing
ends: what lies under the mesh shrinks in each round (`SplitShrinks`) and there are finitely many
places (`FinitePlaces`), so the loop reaches a mesh on which nothing is too coarse. And a selection
without coarsening that returns the mesh it was given has split nothing, so no block asks for more
than it has (`SelectionCovers`); that is how the startup reaches the minimum level, a level per pass.
`NeighbourAbove` is the geometry: of two blocks that touch, in whatever way and across whichever
boundary, the coarser is an ancestor of one of the `3^d - 1` neighbours the loop looks at
(`StepInto` on each axis). So a tiling on which nothing is too coarse is admissible (`EvenIsAdmissible`).

`FacesPaired` follows from the same two facts, tiling and balance. `Beside` says that a cell follows
another along an axis, across the boundary if it is periodic; it is kept when both are divided by the
size of a block (`BesideQuotient`), so cells that share a face lie in one block or in two that touch
(`Close`, `FaceClose`). Of the block behind a face there are three cases: it is a leaf
(`EqualFace`); a leaf lies over it, which balance puts one level up (`LevelNear`,
`CoarseFace`); or it is refined, and then `NearLeaf` says that a half of it that touches a leaf's half
is itself a leaf (`FineFace`). In each, the cell answered with has the first among those it finds on
its own opposite face (`Reciprocal`), and it is finer exactly in the third, where the
reflux plan takes it. Ghosts lie in blocks that touch theirs (`GhostClose`). If such a block is refined, the ghost's
children must lie in the half nearest to the face or corner: the two ghost layers reach that far only if a
half holds two of the coarse cells, hence the bound of 4 on the cells (`GhostHalf`).

Two coverings meet under each finest cell
(`CoveringsMeet`), so a new mesh that has no ancestor of a finer old block is nowhere coarser,
and its step is no longer (`StepGrowsByMerging`). `Tracker`: unless the last regrid
merged, the travel is within the budget, and when a step is about to be made, the step too. A regrid
that is skipped has checked it; one that is made sets `signalBuffer * regridEvery` times the old
step astep aside. The theorem is the converse of finding 3: merging is the only way.

`TagsHeld` and `Settling` join these in `Complete`, the invariant of the last two theorems. Both rest on
what a selection that returns its mesh unchanged has found: each seed is `Granted`, all blocks it
overlaps are as fine as it asks. A seed overlaps the block it was taken from (`SeedOverlaps`) and
asks for one level more, so on such a mesh a flagged block has the finest level (`FlaggedFinest`).
Criteria that are seen on a block are seen on those over it (`FlaggedAbove`), since a footprint only grows
where it is seen more coarsely (`FootprintNested`).

* `TagsHeld`: the block that holds a flagged feature is itself flagged, and its seed reaches
  `signalBuffer * horizon` beyond the feature in all directions (`SeedReaches`). All blocks within that
  distance are therefore finest (`CoveredBySeeds`), across periodic boundaries too; this is the
  `Reserved` margin. It cannot be stated for the place of the feature alone: a step moves the feature and
  uses up as much of the margin as it adds to the travel (`MovedReach`). At an open boundary a
  feature stops, which only shortens its way (`Clamped`), and no step is longer than the
  domain (`StepReach`), so a way around it ends where `Within` looks for it.
* `Settling`: `Asking` says that after pass `p` of a regrid a block whose seed is not granted has at least
  level `p - 1`. It holds of any mesh after the first pass, which may coarsen (`AskingAtFirst`); later
  passes only refine, and what a new block asks for, a coarser block over it has asked for before (`AskingLater`), because the seed
  of a finer block lies within that of the coarser (`SeedNested`). After pass `maxLevel + 1` nothing can
  ask (`AskingNothing`), and the last pass accepts. With `maxLevel` passes, one per level, some
  meshes stay unsettled (`OnePerLevel`).

### StageAccess

Assumptions: `OptionAssumption`; finitely many leaves, with levels that are naturals and step
counts for each time level (`MeshAssumption`); every fine cell of the reflux plan lies in a leaf
(`BalanceAssumption`), as on the balanced meshes the code insists on ("Reflux requires a 2:1
balanced mesh"): on others the register of a side would not exist. Otherwise the plans (halo,
reflux, gravity work) may be any.

`Apart` compares what two tasks of one stage touch. All tasks write to their own block
(`OwnTouch`); only transport, reflux, the solver and the closing of the energy interval read
others. Solver and closing keep to different banks, reflux to different fields. Transport is the
case that needs the calls: it reads the banks of its neighbours *at the stage's time*, and the one a
neighbour of the same level is about to write would be among them if that neighbour counted as
being ahead. So each `Advance` and `Probe` of an interval must follow a `Timestep` of its level
with the same time and no other in between (`Timed`), which is proved of every sequence the
recursion produces: `LayersFit` shows that it is well founded (levels get finer, substeps are
counted), `LayersInner` that all its pieces are timed, `CallFine` that every call is. `Interval`
carries this through the steps: while an interval is open its `Backup` has run, and the time of a level
is that of its last `Timestep` (`Clock`).

`AccessTypes` says that nothing a stage names is missing, where fields and registers are
allocated by the options and the calls are put together by other ones. `CallServed`: for the
operations of a call alone, by the same induction over the recursion (`LayersServed`): what saves
for a rollback or forecasts occurs only with refinement, what exchanges only with coupled
radiation. `Grants` is the part that lives in the state: an interval is open, a forecast marked or a
rollback under way only where the banks for it exist; the publication of each stage keeps it
(`PublishedGrants`). From the two `AccessStored` follows operation by operation. `TypeOK` itself is not
inductive: it does not know why a third bank is there.

`InputsAreCurrent` says that every task, whatever the mesh, the options, the order of the tasks and the
stages that fail, reads whole cells that an earlier stage computed for it. The argument has three
layers.

* *The calls.* A stage leaves facts for later ones: a level is ahead of its bank and has fluxes, an
  interval register runs, midpoints, rates, work and mass are there, the halos of a probe may be used,
  no interval is open. `Needs` lists the facts a stage counts on, `Makes` those it brings about,
  `Survives` what it does not put an end to. `Leads(o, A, s, B)` says that each stage of the sequence
  finds what it needs, starting from the facts in `A`, and that `B` holds at the end. It composes
  (`LeadsConcat`), so that it can be shown for the pieces of a substep, for the whole recursion,
  again by the induction over frames, and for all calls: `CallLeads`. Facts such as `unmoved`
  ("no transport yet") are about what has *not* happened; they are what a repeated stage relies on.
* *The cells.* `Owed(c)` says that cell `c` must be whole: it is of a block's own bank (`Current`), of what a
  level has come to when it is ahead (`Coming`), of a backup that a rollback would restore (`Reserved`,
  `Secured`), or promised by a fact that holds (`Pledged`). The invariant `Tight` has five parts: what is
  owed is whole unless a task is at it (`Stands`), tasks that are listed touch only what is owed and
  change exactly what the stage yields (`Sound`), finished tasks have left whole cells and true copies
  (`Completed`), tasks are listed only during a stage and for its blocks (`Listing`), and an
  interval is open just when the facts say so (`Where`). `ReadsOwed` goes through the stages one by one:
  every input is owed, for reflux because a finer neighbour is either in the same substep or has a register
  that has not been used up. `Settles` is the hardest step: what is owed after a stage was owed before it or
  is among its yields, and is not `Spent`. A failed stage has torn its outputs; `RestoreTight`,
  `RecoverTight` and `RetryTight` show that nothing owed in the next mode was among them. For a retry this
  is where `unmoved`, `settled` and `unworked` are needed, and where a tracked kick, which changes
  `kickWork` in place, would fail: the code gives up there instead.
* *The caches.* `Seen(f, b, at)` is what block `b` sees of field `f` in its halo at a time. `Probings` says that
  from a probe to the transport that follows it, the cache of a block holds what the block sees, except for the
  gas after a kick (`gasInvalid`). The stages in between leave the bank in use alone (`SeenUntouched`); a kick
  goes to the other bank, but carries the radiation over unchanged (`KickSeen`). Transport needs the fact
  `probed`, which a `Probe` of its own level alone makes and every stage not in `Holding` ends.

`TightFresh` and `ReuseCurrent` draw the two halves of `InputsCurrent` from these.

### Only model-checked

* The liveness properties `StageEnds`, `IntervalEnds` and `SolveEnds`: liveness under fairness and
  `ENABLED` are outside the prover's reach.
* `EveryPairOnce` and `ReciprocalPairs` of `FieldSolver`: results of the recursive dual walk over two trees, with
  images and an opening criterion; a proof would have to follow the walk's recursion for every mesh. `TypeOK` of
  `FieldSolver` bounds the bags of contributions that this walk and its sums produce.

## 5. Findings

1. `advance()` publishes the new bank and time and then applies the temperature
   floor, outside any catch block (`src/runtime/transport.cpp:116`). When the
   floor throws, the call fails although its endpoint is published; the interface
   says "On failure, drain work and preserve the previously published state and
   time." (`octotigerII/runtime.hpp:62`). Run `floor_failure`. `advanceCoupled`
   does keep this promise, because its outer catch block surrounds the floor:
   run `subcycling` has the same property for coupled intervals and passes.
2. `LocalExecutor::kick` adds a kick's work to the register `gravityKickWork` in
   place (L:663-698), and the register has one bank. A kick stage that fails on
   one block has already charged others, and the repeated kick charges them again.
   `STORAGE.md:87-90` says that failures "permit retry" and that "Gravity kicks
   use the same transaction". Run `kick_retry`; `LedgerExact` shows that the
   ledger is exact as long as no kick has failed.

3. The driver asks for a regrid with the step of the old mesh; the regrid sets the
   travel budget from that step (`src/runtime/regrid.cpp:133-135`), and the driver
   then recomputes dt on the new mesh (`src/simulation.cpp:216`) and advances
   without a check. Where the regrid has merged blocks the new step is longer, and
   signals may travel further than the buffers were made for. `docs/amr.md:152-155`
   says "The runtime tracks consumed travel and checks the next step against the
   remaining budget; an increased speed or timestep can trigger an earlier
   regrid." Run `regrid_budget`; `TravelWithinBudget` shows that a merge in the
   last regrid is the only way to it, `TagsCovered` that nothing flagged is lost
   while the budget holds.

An observation that contradicts no text: a failure inside the legacy sequence of
`advanceGravity` leaves the energy interval open, so the next call is refused.

## 6. What is not modelled

* Floating-point numerics of all kernels, of prolongation and averaging and of
  the multipole expansions. A finite model could only repeat them.
* Within `Subcycling`: the shadow hierarchy's refresh (its failure is part of
  `Fails`), the signal speed and the travel distance that ride along. Within
  `RuntimeProtocol`: the statistics and the travel budget. Within `GravityFrames`:
  rotating potentials, halo source rates, the shadow. Within `FieldSolver`: the
  arithmetic of expansions and Ewald sums. Within `Regrid`: the movement of fields
  between meshes, the order and ownership of leaves, the weights of ghosts.
* Within the halo cache: the pool, which only recycles buffers (a cache stays at
  the locality that made it), and the raw halos that gravity intervals keep.
* The typed storage's registration, layout, retained views and retirement.
* Within `StageAccess`: species, rotation work, `setGravity`, the loop of the
  temperature floor, and failures of the coordinator between two stages.
* Launching an HPX action is taken as reliable; its failure arrives through the
  future.
* Configuration, problems, units, species and verification are sequential; output
  only writes files.

## 7. Plan

In order of importance to the system:

| Module | State | What is left |
|---|---|---|
| `StageDispatch` | checked and proved | |
| `Subcycling` | checked and proved | |
| `RuntimeProtocol` | checked and proved | |
| `FieldSolver` | checked; reads and publication proved | |
| `StageAccess` | checked and proved | |
| `GravityFrames` | checked and proved | |
| `Regrid` | checked and proved | |
