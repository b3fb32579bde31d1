----------------------------- MODULE StageAccess -----------------------------
(***************************************************************************)
(* Who reads and writes which stored values, block by block, while the     *)
(* workers of all localities run the tasks of a stage in any order.  The   *)
(* store itself does not schedule ("Low-level buffers are writable; this   *)
(* interface does not implement stage scheduling"): the sequence of stages *)
(* a call runs, and the banks each stage names, are all that keeps readers *)
(* and writers apart and every input up to date.                           *)
(*                                                                         *)
(* A cell is the part of one bank of one field that belongs to one block,  *)
(* <<store, field, bank, block>>; it holds the number of the stage that    *)
(* computed it, or 0 when nothing may rely on it.  A stage is one phase()  *)
(* call, [op, level, at]; level -1 means every block.  Where the tasks run *)
(* is the subject of StageDispatch, the times they work at of Subcycling.  *)
(***************************************************************************)
EXTENDS BlockMesh, Sequences

CONSTANTS
  Config, Leaves,   \* the mesh, as in BlockMesh
  Options,      \* the calls to explore, records of
                \*   call: "advance", a whole step, or "coupleRadiation"
                \*   refinement, coarseLevel: config.timestep
                \*   coupled: do radiation and matter exchange energy?
                \*   gravity, tracked: self-gravity; is its treatment "mullen"?
                \*   external: is there an external acceleration?
                \*   steps: substeps of a level in a step of the coarser one
  MaxFailures   \* bound on the failing stages of one call

ASSUME OptionAssumption == \A o \in Options :
  /\ o.call \in {"advance", "coupleRadiation"} /\ o.coarseLevel \in Nat
  /\ {o.refinement, o.coupled, o.gravity, o.tracked, o.external} \subseteq BOOLEAN
  /\ o.refinement /\ o.gravity => o.external  \* else hierarchical gravity: GravityFrames
  /\ \A l \in DOMAIN o.steps : o.steps[l] \in Nat \ {0}
ASSUME BoundAssumption == MaxFailures \in Nat

VARIABLES
  option,       \* the configuration and the call it makes
  mode, pc,     \* idle, running stage pc of the call, restoring, recovering (the
                \* catch blocks of advanceUnlocked and of advanceCoupled), lost
  tasks,        \* each block's task in the stage: idle, ready, open, done, thrown
  access,       \* what each task reads, computes and copies, settled by the bank,
                \* times and source fields that begin() hands over; <<>> before
  bank, savedBank,  \* Impl::bank, and the copy advanceCoupled keeps
  levels,       \* Impl::levels, <<>> when cleared
  data,         \* cell -> stage that computed it
  cache,        \* each block's BlockHaloCache, <<>> when there is none
  gasInvalid,   \* coupledStep->cacheInitialGasInvalid
  failures      \* failed stages of this call

vars == <<option, mode, pc, tasks, access, bank, savedBank, levels, data, cache, gasInvalid, failures>>
-----------------------------------------------------------------------------
(***************************************************************************)
(* The stages of a call.                                                   *)
(***************************************************************************)
TimeLevelOf(o, b) == IF o.coarseLevel > b.level THEN o.coarseLevel ELSE b.level
TimeLevels(o) == {TimeLevelOf(o, b) : b \in Leaves}
ASSUME MeshAssumption ==
  /\ IsFiniteSet(Leaves) /\ \A b \in Leaves : b.level \in Nat
  /\ \A o \in Options : TimeLevels(o) \subseteq DOMAIN o.steps
TimeRefinement(o) == o.refinement /\ ~o.external /\ \E a, b \in Leaves : a.level # b.level

At(op, level, at) == [op |-> op, level |-> level, at |-> at]
Only(use, op, level, at) == IF use THEN <<At(op, level, at)>> ELSE <<>>
All(op) == At(op, -1, 0)

(* advanceLevel, with times in ticks: the finest steps are at least one. A   *)
(* frame is a level with its interval at .. at + length, and the substep i *)
(* it has come to; rest[frame] is what is left to do in it.                *)
Recursion(o) ==
  LET levelsOf == TimeLevels(o)
      finer(l) == {m \in levelsOf : m > l}
      next(l) == CHOOSE m \in finer(l) : \A k \in finer(l) : m <= k
      rest[frame \in [level : levelsOf, at : Nat, length : Nat, i : Nat]] ==
        LET l == frame.level
            step == frame.length \div o.steps[l]
            now == frame.at + frame.i * step
        IN IF frame.i >= o.steps[l] THEN <<>>
           ELSE Only(frame.i = 0, "ResetFlux", l, now)
                \o (IF o.coupled
                      THEN <<At("Timestep", l, now), At("SaveRadiationStep", l, now), At("Probe", l, now),
                             At("PredictRadiationStep", -1, now), At("Advance", l, now),
                             At("ForecastRadiationStep", l, now)>>
                      ELSE <<At("Timestep", l, now), At("Advance", l, now)>>)
                \o (IF finer(l) = {} THEN <<>>
                    ELSE rest[[level |-> next(l), at |-> now, length |-> step, i |-> 0]])
                \o <<At("Reflux", l, now + step)>>
                \o Only(o.coupled, "FinishRadiationStep", l, now + step)
                \o rest[[frame EXCEPT !.i = @ + 1]]
      coarsest == CHOOSE l \in levelsOf : \A m \in levelsOf : l <= m
  IN rest[[level |-> coarsest, at |-> 0, length |-> 2^(2 * Cardinality(levelsOf)), i |-> 0]]

Transport(o) ==
  IF TimeRefinement(o) THEN <<All("Backup")>> \o Recursion(o) \o <<All("Normalize")>>
  ELSE <<All("Advance"), All("Reflux")>>

Kicked(o) == o.gravity \/ o.external
KickOf(o) == IF o.gravity /\ o.tracked THEN "KickTracked" ELSE "Kick"
KickedTransport(o) ==
  Only(o.gravity, "PrepareGravityEnergy", -1, 0) \o Only(Kicked(o), KickOf(o), -1, 0)
    \o Transport(o) \o Only(o.gravity, "SolveGravity", -1, 0)
    \o Only(Kicked(o), KickOf(o), -1, 0) \o Only(o.gravity, "FinishGravityEnergy", -1, 0)

(* advanceCoupled; without exchange, the sequence of public calls that the *)
(* same step is made of.                                                   *)
CoupledStep(o) ==
  <<All("Save")>> \o
  (IF TimeRefinement(o) THEN <<All("Probe")>> \o Transport(o)
   ELSE <<All("SaveRadiationStep"), All("Probe"), All("PredictRadiationStep")>>
        \o KickedTransport(o) \o <<All("FinishRadiationStep")>>)

Stages(o) == IF o.call = "coupleRadiation" THEN <<All("CoupleRadiation")>>
             ELSE IF o.coupled THEN CoupledStep(o) ELSE KickedTransport(o)
StagesOf == [o \in Options |-> Stages(o)]

StageIn(m, p) ==
  CASE m = "running" -> StagesOf[option][p]
    [] m = "restoring" -> All("Restore")
    [] m = "recovering" -> All("RestoreRadiationStep")
    [] OTHER -> All("none")
Stage == StageIn(mode, pc)
InCall == mode \in {"running", "restoring", "recovering"}
-----------------------------------------------------------------------------
(***************************************************************************)
(* Fields, banks and halos.  Species travel with the gas and are left out. *)
(***************************************************************************)
StateFields == {"gas", "radiation"}
GravityOf(o) == IF o.gravity THEN {"gravity"} ELSE {}
FieldsOf(o) == StateFields \cup GravityOf(o)
Gravity == GravityOf(option)
AllFields == FieldsOf(option)
TimeLevel(b) == TimeLevelOf(option, b)

ThreeBanks(o) == IF o.refinement THEN 3 ELSE 2  \* seeded fault
Banks(o) == IF o.refinement THEN IF o.gravity \/ o.coupled THEN 4 ELSE 3 ELSE 2

Cells(store, fields, banks) == {store} \X fields \X banks \X Leaves
Run(fields, k, b) == {"run"} \X fields \X {k} \X {b}
Step(fields, k, b) == {"step"} \X fields \X {k} \X {b}
Registers(o) == IF o.gravity THEN {"massFlux", "oldGravity", "kickWork"} ELSE {}
AllocatedFor(o) ==
  Cells("run", FieldsOf(o), 0 .. Banks(o) - 1) \cup Cells("run", {"flux"}, {0, 1})
    \cup Cells("run", Registers(o), {0})
    \cup IF o.coupled
           THEN Cells("step", StateFields, {0, 1}) \cup Cells("step", FieldsOf(o) \cup {"rate"}, {0})
                  \cup Cells("saved", FieldsOf(o), {0})
           ELSE {}
Allocations == [o \in Options |-> AllocatedFor(o)]
Allocated == Allocations[option]

(* The blocks a block reads ghost cells from, through makeHaloPlan: a ghost  *)
(* cell inside a coarser block is interpolated from the coarse cell and     *)
(* its neighbours, any other one averages the leaf cells that cover it.    *)
Covering(cell) == {b \in Leaves : Overlaps(Config, BlockBox(Config, b), CellBox(Config, cell))}
Stencil(cell) ==
  {cell} \cup UNION {CellAcross(Config, cell, d, side) : d \in Axes(Config), side \in {-1, 1}}
Donors == [b \in Leaves |-> UNION {
  LET donor == Locate(Config, Leaves, ghost)
  IN UNION {Covering(c) : c \in IF donor \subseteq {ghost} THEN {ghost}
                                ELSE UNION {Stencil(coarse) : coarse \in donor}} :
    ghost \in GhostsOf(Config, b)}]

Refluxes == RefluxPlan(Config, Leaves)
ASSUME BalanceAssumption ==  \* "Reflux requires a 2:1 balanced mesh": see Regrid.FacesPaired
  \A p \in Refluxes : BlockOf(Config, p[2]) \in Leaves
FineSides == [b \in Leaves |-> {BlockOf(Config, p[2]) : p \in {p \in Refluxes : BlockOf(Config, p[1]) = b}}]
Works == WorkPlan(Config, Leaves)
WorkSides == [b \in Leaves |-> {o \in Leaves : \E p \in Works :
                BlockOf(Config, p[1]) = b /\ BlockOf(Config, p[2]) = o}]

(* The stage's bank; the bank of a block at the stage's time, and, while its *)
(* level advances past the stage, the bank that holds the other end.       *)
InInterval == levels # <<>>
Bank == IF InInterval /\ Stage.level >= 0 THEN levels[Stage.level].bank ELSE bank
Other(k) == 1 - k
BankOf(b) == IF InInterval THEN levels[TimeLevel(b)].bank ELSE Bank
Between(b) == InInterval /\ LET l == levels[TimeLevel(b)] IN l.pending /\ l.begin < Stage.at
NextBank(b) == LET l == levels[TimeLevel(b)] IN IF l.predicted THEN 3 ELSE Other(l.bank)

OwnValues(fields, b) ==
  Run(fields, BankOf(b), b) \cup IF Between(b) THEN Run(fields, NextBank(b), b) ELSE {}
Halo(fields, b) == UNION {OwnValues(fields, d) : d \in Donors[b]}

(* BlockHaloCache::matches, and what LocalExecutor::worker reuses then.    *)
HaloKey ==
  [at |-> Stage.at, bank |-> Bank,
   times |-> IF InInterval
     THEN [b \in Leaves |-> [bank |-> BankOf(b), between |-> Between(b), next |-> levels[TimeLevel(b)].predicted]]
     ELSE <<>>]
Matches(c) ==
  c # <<>> /\ c.key.at = Stage.at /\ c.key.times = HaloKey.times
    /\ (gasInvalid \/ c.key.bank = Bank)
ReusesGas(b) ==  \* seeded fault
  IF option.coupled /\ Stage.op = "Advance" /\ Matches(cache[b]) THEN StateFields ELSE {}
Reused(b) ==
  IF ~option.coupled \/ Stage.op # "Advance" \/ ~Matches(cache[b]) THEN {}
  ELSE IF gasInvalid THEN {"radiation"} ELSE StateFields
HaloContent(f, b) == [c \in Halo({f}, b) |-> data[c]]
-----------------------------------------------------------------------------
(***************************************************************************)
(* What the task of a stage reads, computes and copies for block b.        *)
(***************************************************************************)
Does(reads, computes, copies) == [reads |-> reads, computes |-> computes, copies |-> copies]
Copy(fields, from, to, b) ==
  {<<<<"run", f, from, b>>, <<"run", f, to, b>>>> : f \in fields}
Carried(fields, b) == Copy(fields, Bank, Other(Bank), b)
SavedIn(store, b) == {<<<<"run", f, Bank, b>>, <<store, f, 0, b>>>> : f \in AllFields}
Flux(k, b) == Run({"flux"}, k, b)
Once(fields, b) == Run(fields \cap Registers(option), 0, b)

(* Advance and Probe: MUSCL-Hancock from the own block and its halo to the *)
(* other bank.  With exchange the halo may come from the cache, and the    *)
(* predictor is the midpoint; a probe leaves the rate instead.             *)
InPlace == Bank  \* seeded fault
TransportBank == Other(Bank)
Transporting(b) ==
  Does(Run(StateFields, Bank, b) \cup Halo(StateFields \ Reused(b), b),
       Run(StateFields, TransportBank, b) \cup Flux(0, b) \cup Once({"massFlux"}, b),
       Carried(Gravity, b))
Probing(b) == [Transporting(b) EXCEPT !.computes = @ \cup Step({"rate"}, 0, b)]
Advancing(b) ==
  LET midpoints == IF option.coupled THEN UNION {Step(StateFields, 1, d) : d \in Donors[b] \cup {b}} ELSE {}
      register == IF InInterval THEN Flux(1, b) ELSE {}
  IN [Transporting(b) EXCEPT !.reads = @ \cup midpoints \cup register,
                             !.computes = @ \cup register]

(* Reflux replaces coarse fluxes by those of the finer neighbours: by their  *)
(* interval register when they took steps of their own.                    *)
FineBank(b) == IF InInterval /\ option.coarseLevel < b.level + 1 THEN 1 ELSE 0
Refluxing(b) ==
  LET result == Run(StateFields, Other(Bank), b)
  IN Does(result \cup Flux(0, b) \cup UNION {Flux(FineBank(b), f) : f \in FineSides[b]}, result, {})

(* The source predictor, the forecast and the accepted source step.        *)
Predicting(b) ==
  Does(OwnValues(StateFields, b) \cup Run(Gravity, BankOf(b), b) \cup Step({"rate"}, 0, b),
       Step(StateFields, 1, b), {})
SourceStep(from, to, b) ==
  Does(Run(StateFields, from, b) \cup Step(StateFields, 0, b), Run(StateFields, to, b),
       Copy(Gravity, from, to, b))

(* A kick changes the gas only; the force of the exchange works on it too. *)
Kicking(b) ==
  LET tracked == Stage.op = "KickTracked"
      work == IF tracked THEN Once({"kickWork"}, b) ELSE {}
      impulse == IF option.coupled /\ (tracked => option.external)
                   THEN Step({"radiation"}, 0, b) \cup Step({"radiation"}, 1, b) \cup Step({"rate"}, 0, b)
                   ELSE {}
  IN Does(Run({"gas"} \cup Gravity, Bank, b) \cup impulse \cup work,
          Run({"gas"}, Other(Bank), b) \cup work, Carried({"radiation"} \cup Gravity, b))

(* The solver reads the gas of every block and publishes all fields.       *)
Solving(b) ==
  Does(UNION {Run({"gas"}, Bank, d) : d \in Leaves}, Run(Gravity, Other(Bank), b), Carried(StateFields, b))
Closing(b) ==
  LET sides == {b} \cup WorkSides[b]
      finer == {d \in sides : d.level > b.level}
  IN Does((UNION {Once({"oldGravity"}, d) \cup Run(Gravity, Bank, d) : d \in sides})
            \cup (UNION {Once({"massFlux"}, d) : d \in finer \cup {b}})
            \cup Once({"kickWork"}, b) \cup Run({"gas"}, Bank, b),
          Run({"gas"}, Other(Bank), b), Carried({"radiation"} \cup Gravity, b))

(* LocalExecutor::worker. *)
AccessOf(b) ==
  CASE Stage.op = "Backup" -> Does({}, {}, Copy(AllFields, Bank, 2, b))
    [] Stage.op = "Restore" -> Does({}, {}, Copy(AllFields, 2, Bank, b))
    [] Stage.op = "Normalize" ->
         Does({}, {}, IF BankOf(b) = Other(Bank) THEN {} ELSE Carried(AllFields, b))
    [] Stage.op = "ResetFlux" -> Does({}, Flux(1, b), {})
    [] Stage.op = "Timestep" -> Does(Run(AllFields, Bank, b), {}, {})
    [] Stage.op = "Advance" -> Advancing(b)
    [] Stage.op = "Probe" -> Probing(b)
    [] Stage.op = "Reflux" -> Refluxing(b)
    [] Stage.op = "PrepareGravityEnergy" ->
         Does({}, Once({"kickWork"}, b), {<<<<"run", "gravity", Bank, b>>, <<"run", "oldGravity", 0, b>>>>})
    [] Stage.op \in {"Kick", "KickTracked"} -> Kicking(b)
    [] Stage.op = "SolveGravity" -> Solving(b)
    [] Stage.op = "FinishGravityEnergy" -> Closing(b)
    [] Stage.op = "Save" -> Does({}, {}, SavedIn("saved", b))
    [] Stage.op = "SaveRadiationStep" -> Does({}, {}, SavedIn("step", b))
    [] Stage.op = "PredictRadiationStep" -> Predicting(b)
    [] Stage.op = "ForecastRadiationStep" -> SourceStep(Other(Bank), 3, b)
    [] Stage.op = "FinishRadiationStep" -> SourceStep(Bank, Other(Bank), b)
    [] Stage.op = "RestoreRadiationStep" ->
         Does({}, {}, {<<c[2], c[1]>> : c \in SavedIn("saved", b)})
    [] Stage.op = "CoupleRadiation" ->
         Does(Run(StateFields, Bank, b), Run(StateFields, Other(Bank), b), Carried(Gravity, b))

Reads(b) == access[b].reads \cup {c[1] : c \in access[b].copies}
Writes(b) == access[b].computes \cup {c[2] : c \in access[b].copies}
-----------------------------------------------------------------------------
(***************************************************************************)
(* Tasks.  LocalExecutor::begin lists the blocks of the stage and drops    *)
(* the caches that rollback, or a new probe, makes void.                   *)
(***************************************************************************)
Blocks == {b \in Leaves : Stage.level < 0 \/ TimeLevel(b) = Stage.level}
Voids == {"Probe", "Backup", "Restore", "RestoreRadiationStep", "Normalize"}
Begin ==
  /\ InCall /\ access = <<>>
  /\ access' = [b \in Blocks |-> AccessOf(b)]
  /\ tasks' = [b \in Leaves |-> IF b \in Blocks THEN "ready" ELSE "idle"]
  /\ cache' = [b \in Leaves |-> IF Stage.op \in Voids /\ b \in Blocks THEN <<>> ELSE cache[b]]
  /\ UNCHANGED <<option, mode, pc, bank, savedBank, levels, data, gasInvalid, failures>>

(* Between the first and the last commit of a task its output is in pieces. *)
Open(b) ==
  /\ tasks[b] = "ready"
  /\ tasks' = [tasks EXCEPT ![b] = "open"]
  /\ LET written == Writes(b) IN data' = [c \in DOMAIN data |-> IF c \in written THEN 0 ELSE data[c]]
  /\ UNCHANGED <<option, mode, pc, access, bank, savedBank, levels, cache, gasInvalid, failures>>

Result(b) ==
  LET source == [c \in {x[2] : x \in access[b].copies} |->
                   (CHOOSE x \in access[b].copies : x[2] = c)[1]]
  IN [c \in DOMAIN data |-> IF c \in DOMAIN source THEN data[source[c]]
                            ELSE IF c \in access[b].computes THEN pc + 1 ELSE data[c]]
Probed(b) == [key |-> HaloKey, halo |-> [f \in StateFields |-> HaloContent(f, b)]]
Close(b) ==
  /\ tasks[b] = "open"
  /\ tasks' = [tasks EXCEPT ![b] = "done"]
  /\ data' = Result(b)
  /\ cache' = (CASE Stage.op = "Probe" -> [cache EXCEPT ![b] = Probed(b)]
                 [] Stage.op = "Advance" -> [cache EXCEPT ![b] = <<>>]
                 [] OTHER -> cache)
  /\ UNCHANGED <<option, mode, pc, access, bank, savedBank, levels, gasInvalid, failures>>

(* One exception is enough to fail the stage; tasks that no worker claims    *)
(* any more stay ready.                                                    *)
Throw(b) ==
  /\ tasks[b] = "open" /\ failures < MaxFailures
  /\ \A other \in Leaves : tasks[other] # "thrown"
  /\ tasks' = [tasks EXCEPT ![b] = "thrown"]
  /\ failures' = failures + 1
  /\ UNCHANGED <<option, mode, pc, access, bank, savedBank, levels, data, cache, gasInvalid>>
-----------------------------------------------------------------------------
(***************************************************************************)
(* Stages.  Publication flips the bank of a level or of the whole mesh and *)
(* sets the markers that later stages go by.                               *)
(***************************************************************************)
Flips == {"Reflux", "FinishRadiationStep", "KickTracked", "Kick", "SolveGravity",
          "FinishGravityEnergy", "CoupleRadiation", "Normalize"}
FlipsLevel == Stage.op \in Flips /\ InInterval /\ Stage.op # "Normalize"
Published ==
  /\ bank' = (IF Stage.op \in Flips /\ ~FlipsLevel THEN Other(bank) ELSE bank)
  /\ LET l == Stage.level IN levels' =
       CASE Stage.op = "Backup" ->
              [k \in TimeLevels(option) |-> [bank |-> bank, begin |-> 0, pending |-> FALSE, predicted |-> FALSE]]
         [] Stage.op = "Normalize" -> <<>>
         [] Stage.op = "Timestep" -> [levels EXCEPT ![l].begin = Stage.at]
         [] Stage.op = "Advance" /\ InInterval -> [levels EXCEPT ![l].pending = ~option.coupled]
         [] Stage.op = "ForecastRadiationStep" -> [levels EXCEPT ![l].pending = TRUE, ![l].predicted = TRUE]
         [] FlipsLevel -> [levels EXCEPT ![l].pending = FALSE, ![l].bank = Other(Bank)]
         [] OTHER -> levels
  /\ gasInvalid' = (gasInvalid \/ (option.coupled /\ Stage.op \in {"Kick", "KickTracked"}))

(* What has served its purpose counts as unset: the bank published before,   *)
(* fluxes and forecasts of a finished step, midpoints of a finished        *)
(* transport, the registers of a closed energy interval.                   *)
Dropped(cond, store, fields, k, blocks) == IF cond THEN {store} \X fields \X {k} \X blocks ELSE {}
Spent ==
  LET inCoupled == option.coupled /\ InInterval
      finer == {b \in Leaves : TimeLevel(b) > Stage.level}
  IN Dropped(Stage.op \in Flips, "run", AllFields, Bank, Blocks)
       \cup Dropped(Stage.op = "Reflux", "run", {"flux"}, 0, Blocks)
       \cup Dropped(Stage.op = "Reflux", "run", {"flux"}, 1, finer)
       \cup Dropped(Stage.op = "Reflux" /\ inCoupled, "run", AllFields, 3, Blocks)
       \cup Dropped(Stage.op = "Advance" /\ inCoupled, "step", StateFields, 1, Leaves)
       \cup Dropped(Stage.op = "FinishRadiationStep", "step", AllFields, 0, Blocks)
       \cup Dropped(Stage.op = "FinishGravityEnergy", "run", Registers(option), 0, Blocks)

(* A call leaves nothing behind that the next one may rely on, except what   *)
(* is published.                                                           *)
OnlyPublished(k) ==
  LET kept == Cells("run", AllFields, {k})
  IN [c \in DOMAIN data |-> IF c \in kept /\ data[c] # 0 THEN 1 ELSE 0]

(* The coordinator goes on to stage p in mode m. *)
Enter(m, p) ==
  mode' = m /\ pc' = p /\ access' = <<>> /\ tasks' = [b \in Leaves |-> "idle"] /\ cache' = cache

Start ==
  /\ mode = "idle" /\ Enter("running", 1)
  /\ savedBank' = bank /\ gasInvalid' = FALSE /\ failures' = 0
  /\ UNCHANGED <<option, bank, levels, data>>

Done == access # <<>> /\ \A b \in Leaves : tasks[b] \in {"idle", "done"}
EndStage ==
  /\ Done /\ mode = "running" /\ pc < Len(StagesOf[option])
  /\ Enter("running", pc + 1) /\ Published
  /\ LET spent == Spent IN data' = [c \in DOMAIN data |-> IF c \in spent THEN 0 ELSE data[c]]
  /\ UNCHANGED <<option, savedBank, failures>>
Return ==
  /\ Done /\ mode = "running" /\ pc = Len(StagesOf[option])
  /\ Enter("idle", 1) /\ Published
  /\ data' = OnlyPublished(bank')
  /\ UNCHANGED <<option, savedBank, failures>>
-----------------------------------------------------------------------------
(***************************************************************************)
(* Failed stages: phase() throws when its tasks are drained.  An interval  *)
(* is restored from bank 2, a coupled call from storage of its own; the    *)
(* calls without either publish nothing, so that the caller may repeat     *)
(* them, except a tracked kick, which changes kickWork in place.           *)
(***************************************************************************)
Failed == (\E b \in Leaves : tasks[b] = "thrown") /\ \A b \in Leaves : tasks[b] # "open"
Torn == LET written == UNION {Writes(b) : b \in DOMAIN access}
        IN [c \in DOMAIN data |-> IF c \in written THEN 0 ELSE data[c]]

Restore ==
  /\ Failed /\ mode = "running" /\ InInterval
  /\ Enter("restoring", pc) /\ levels' = <<>> /\ data' = Torn
  /\ UNCHANGED <<option, bank, savedBank, gasInvalid, failures>>

BackupHeld == option.coupled /\ option.call = "advance" /\ (mode = "running" => pc > 1)
Recover ==
  /\ BackupHeld
  /\ \/ Failed /\ mode \in {"running", "restoring"} /\ ~InInterval /\ data' = Torn
     \/ Done /\ mode = "restoring" /\ data' = data
  /\ Enter("recovering", pc) /\ bank' = savedBank
  /\ UNCHANGED <<option, savedBank, levels, gasInvalid, failures>>

Retry ==
  /\ Failed /\ mode = "running" /\ ~InInterval /\ ~BackupHeld /\ Stage.op # "KickTracked"
  /\ Enter("running", IF Stage.op = "Reflux" THEN pc - 1 ELSE pc) /\ data' = Torn
  /\ UNCHANGED <<option, bank, savedBank, levels, gasInvalid, failures>>

RolledBack ==
  /\ Done /\ (mode = "recovering" \/ (mode = "restoring" /\ ~BackupHeld))
  /\ Enter("idle", 1) /\ data' = OnlyPublished(bank)
  /\ UNCHANGED <<option, bank, savedBank, levels, gasInvalid, failures>>

Lose ==
  /\ Failed
  /\ \/ mode = "recovering" \/ (mode = "restoring" /\ ~BackupHeld)
     \/ mode = "running" /\ ~BackupHeld /\ Stage.op = "KickTracked"
  /\ Enter("lost", 1) /\ data' = Torn
  /\ UNCHANGED <<option, bank, savedBank, levels, gasInvalid, failures>>
Lost == mode = "lost" /\ UNCHANGED vars
-----------------------------------------------------------------------------
Init ==
  /\ option \in Options
  /\ mode = "idle" /\ pc = 1 /\ tasks = [b \in Leaves |-> "idle"] /\ access = <<>>
  /\ bank = 0 /\ savedBank = 0 /\ levels = <<>>
  /\ data = [c \in Allocated |-> IF c \in Cells("run", AllFields, {0}) THEN 1 ELSE 0]
  /\ cache = [b \in Leaves |-> <<>>] /\ gasInvalid = FALSE /\ failures = 0

Next ==
  \/ Start \/ Begin \/ EndStage \/ Return
  \/ \E b \in Leaves : Open(b) \/ Close(b) \/ Throw(b)
  \/ Restore \/ Recover \/ Retry \/ RolledBack \/ Lose \/ Lost

Spec == Init /\ [][Next]_vars
-----------------------------------------------------------------------------
Active(b) == tasks[b] \in {"ready", "open"}

(* Types; and every bank a task names was allocated: otherwise the lookup    *)
(* throws "Invalid field identity or stage bank".                          *)
TypeOK ==
  /\ option \in Options /\ pc \in 1 .. Len(StagesOf[option])
  /\ mode \in {"idle", "running", "restoring", "recovering", "lost"}
  /\ tasks \in [Leaves -> {"idle", "ready", "open", "done", "thrown"}]
  /\ {bank, savedBank} \subseteq {0, 1} /\ gasInvalid \in BOOLEAN /\ failures \in 0 .. MaxFailures
  /\ DOMAIN data = Allocated /\ \A c \in Allocated : data[c] \in 0 .. Len(StagesOf[option]) + 1
  /\ DOMAIN cache = Leaves /\ (InInterval => DOMAIN levels = TimeLevels(option))
  /\ \A b \in DOMAIN access : Reads(b) \cup Writes(b) \subseteq Allocated

(* partition.hpp: "numerical reads/writes obey the caller's immutable-input/ *)
(* single-writer policy."  Whatever the order of the tasks of a stage, no  *)
(* block writes what the task of another block reads or writes meanwhile:  *)
(* not its halo, not the registers of its finer neighbours.                *)
StageIsolated ==
  \A a, b \in DOMAIN access : (a # b /\ tasks[a] = "open" /\ tasks[b] = "open") =>
    Writes(a) \cap (Reads(b) \cup Writes(b)) = {}

(* Every input of a task holds what an earlier stage computed for it: none   *)
(* is in pieces, unset, of a finished step or left by a failed call; when  *)
(* a call is rolled back, what it is restored from is still whole.         *)
InputsFresh ==
  \A b \in DOMAIN access : Active(b) =>
    \A c \in Reads(b) : data[c] # 0 \/ (tasks[b] = "open" /\ c \in Writes(b))

(* A halo taken from the cache is the halo the task would read now, although *)
(* the bank may have changed since the probe.                              *)
CachedHaloCurrent ==
  \A b \in DOMAIN access : Active(b) =>
    \A f \in Reused(b) :
      LET cached == cache[b].halo[f]
      IN {<<c[4], cached[c]>> : c \in DOMAIN cached} = {<<c[4], data[c]>> : c \in Halo({f}, b)}
InputsCurrent == InputsFresh /\ CachedHaloCurrent
=============================================================================
