----------------------------- MODULE Subcycling -----------------------------
(***************************************************************************)
(* One synchronization interval of a refined mesh: the refined path of     *)
(* Runtime::advanceUnlocked and the recursion Impl::advanceLevel, called by*)
(* advance or by advanceCoupled (Coupled), with the rollback of a failed   *)
(* interval and the second, outer rollback of advanceCoupled.              *)
(*                                                                         *)
(* Numbers are abstracted to the physical time they belong to: a bank of a *)
(* spatial level holds [at, kind].  Time is counted in ticks, the shortest *)
(* step that still advances floating-point time; a fraction of the parent  *)
(* interval is kept as a number of ticks.  Each phase is one step, as      *)
(* StageContract allows: it processes all its blocks or throws, and then   *)
(* may have written any part of its output.                                *)
(***************************************************************************)
EXTENDS Integers, FiniteSets

CONSTANTS
  Options,      \* the configurations to explore, records of
                \*   spatial: spatial levels that hold leaves
                \*   coarseLevel: config.timestep.coarseLevel
                \*   coupled: is coupledStep set (radiation-matter exchange)?
                \*   floored: does applyEosFloor act (Helmholtz equation of state)?
                \*   durations: intervals the caller may ask for, in ticks
  MaxTime       \* bound on the published time, in ticks

ASSUME OptionAssumption == \A o \in Options :
  /\ IsFiniteSet(o.spatial) /\ o.spatial \subseteq Nat
  /\ \E s, t \in o.spatial : s # t  \* timeRefinement()
  /\ o.coarseLevel \in Nat /\ {o.coupled, o.floored} \subseteq BOOLEAN
  /\ o.durations \subseteq Nat \ {0}
  /\ \A dt \in o.durations : \E k \in 0 .. dt : dt = 2^k  \* a fraction is halved exactly
ASSUME BoundAssumption == MaxTime \in Nat \ {0}

VARIABLES
  option,       \* the configuration and mesh of this interval
  mode,         \* idle, running, restoring and recovering (in the catch block of
                \* advanceUnlocked and of advanceCoupled), lost
  outcome,      \* none, returned, threw: how the last call ended
  pc, lev,      \* the next phase and the time level it belongs to
  bank, time,   \* Impl::bank and Impl::time: what is published
  levels,       \* Impl::levels, <<>> when cleared
  frame,        \* the locals of advanceLevel's activation at each level
  data,         \* per spatial level and bank, what the state fields hold
  reg, raw,     \* flux banks 1 and 0: interval register, last step's flux
  scratch, rates, \* the coupling storage: bank 0 a step's initial state, bank 1
                \* its midpoint; the levels whose source rates are known
  backup,       \* what advanceCoupled saved before its try block
  steps, savedSteps,      \* statistics.levelSteps and the copy of it
  transported, boundary   \* boundary transport of the interval, and booked

coupling == <<scratch, rates>>
call == <<outcome, backup>>
accounts == <<steps, savedSteps, transported, boundary, call>>
vars == <<option, mode, pc, lev, bank, time, levels, frame, data, reg, raw, coupling, accounts>>
-----------------------------------------------------------------------------
Spatial == option.spatial
CoarseLevel == option.coarseLevel
Coupled == option.coupled
Floored == option.floored

TimeLevel(s) == IF CoarseLevel > s THEN CoarseLevel ELSE s
TimeLevels == {TimeLevel(s) : s \in Spatial}
Coarsest == CHOOSE l \in TimeLevels : \A m \in TimeLevels : l <= m
IsFinest(l) == \A m \in TimeLevels : m <= l
Finer(l) == CHOOSE m \in TimeLevels : m > l /\ \A k \in TimeLevels : k > l => m <= k
Coarser(l) == CHOOSE m \in TimeLevels : m < l /\ \A k \in TimeLevels : k < l => k <= m
Members(l) == {s \in Spatial : TimeLevel(s) = l}

Own == Members(lev)
Now == frame[lev].begin + frame[lev].elapsed
End == Now + frame[lev].step

Bank == 0 .. 3
Other(b) == 1 - b
Kinds == {"state", "midpoint", "transport", "drive", "forecast", "probe", "torn", "unset"}
Content(t, k) == [at |-> t, kind |-> k]
Unset == Content(0, "unset")
NoScratch == [s \in Spatial |-> [b \in {0, 1} |-> Unset]]
Zero == [s \in Spatial |-> 0]
NoFrame == [begin |-> 0, duration |-> 1, step |-> 1, elapsed |-> 0]

(* data with new contents in one bank of some levels. *)
Stored(levs, b, content(_)) ==
  [s \in Spatial |-> IF s \in levs THEN [data[s] EXCEPT ![b[s]] = content(s)] ELSE data[s]]
OtherBanks == [s \in Spatial |-> Other(levels[TimeLevel(s)].bank)]

Init ==
  /\ option \in Options
  /\ mode = "idle" /\ outcome = "none" /\ pc = "start" /\ lev = Coarsest
  /\ bank = 0 /\ time = 0 /\ levels = <<>>
  /\ frame = [l \in TimeLevels |-> NoFrame]
  /\ data = [s \in Spatial |-> [b \in Bank |-> IF b = 0 THEN Content(0, "state") ELSE Unset]]
  /\ reg = [s \in Spatial |-> [from |-> 0, ticks |-> 0, of |-> 0]]
  /\ raw = [s \in Spatial |-> [from |-> 0, to |-> 0]]
  /\ scratch = NoScratch /\ rates = {}
  /\ backup = [bank |-> 0, time |-> 0, steps |-> Zero, boundary |-> Zero,
               state |-> [s \in Spatial |-> Unset]]
  /\ steps = Zero /\ savedSteps = Zero /\ transported = Zero /\ boundary = Zero

Running(p) == mode = "running" /\ pc = p
-----------------------------------------------------------------------------
(***************************************************************************)
(* A call of advance or advanceCoupled up to the root of the recursion.    *)
(* advanceCoupled first saves the published state in storage of its own,   *)
(* and probes every level into fresh coupling storage.                     *)
(***************************************************************************)

(* What earlier calls have left in the other banks counts as unset, so that  *)
(* nothing can rely on it.                                                 *)
OnlyPublished ==
  [s \in Spatial |-> [b \in Bank |-> IF b = bank THEN data[s][b] ELSE Unset]]

Start(dt) ==
  /\ mode = "idle" /\ time + dt <= MaxTime
  /\ mode' = "running" /\ outcome' = "none"
  /\ pc' = (IF Coupled THEN "checkpoint" ELSE "backup")
  /\ lev' = Coarsest
  /\ frame' = [frame EXCEPT ![Coarsest] =
                 [begin |-> time, duration |-> dt, step |-> dt, elapsed |-> 0]]
  /\ data' = OnlyPublished
  /\ savedSteps' = steps /\ transported' = Zero
  /\ scratch' = NoScratch /\ rates' = {}
  /\ UNCHANGED <<bank, time, levels, reg, raw, steps, boundary, backup>>

Checkpoint ==
  /\ Running("checkpoint") /\ pc' = "probeAll"
  /\ backup' = [bank |-> bank, time |-> time, steps |-> steps, boundary |-> boundary,
                state |-> [s \in Spatial |-> data[s][bank]]]
  /\ UNCHANGED <<mode, lev, bank, time, levels, frame, data, reg, raw, coupling,
                 steps, savedSteps, transported, boundary, outcome>>

(* A probe is a transport of length zero: it writes the unpublished bank and *)
(* the raw fluxes on the way to the rates.                                 *)
ProbeAll ==
  /\ Running("probeAll") /\ pc' = "backup"
  /\ data' = Stored(Spatial, [s \in Spatial |-> Other(bank)], LAMBDA s : Content(time, "probe"))
  /\ raw' = [s \in Spatial |-> [from |-> time, to |-> time]]
  /\ rates' = Spatial
  /\ UNCHANGED <<mode, lev, bank, time, levels, frame, reg, scratch, accounts>>

BackupSource == bank
Backup ==
  /\ Running("backup") /\ pc' = "entry"
  /\ data' = Stored(Spatial, [s \in Spatial |-> 2], LAMBDA s : data[s][BackupSource])
  /\ levels' = [l \in TimeLevels |-> [bank |-> bank, begin |-> 0, end |-> 0,
                                      pending |-> FALSE, predictor |-> FALSE]]
  /\ UNCHANGED <<mode, lev, bank, time, frame, reg, raw, coupling, accounts>>
-----------------------------------------------------------------------------
(***************************************************************************)
(* advanceLevel.                                                           *)
(***************************************************************************)

(* The registers of this level's blocks start the parent interval empty. *)
KeptRegister(s) == [reg[s] EXCEPT !.of = frame[lev].duration]  \* seeded fault
ClearedRegister(s) == [from |-> Now, ticks |-> 0, of |-> frame[lev].duration]
ResetFlux ==
  /\ Running("entry") /\ pc' = "cfl"
  /\ reg' = [s \in Spatial |-> IF s \in Own THEN ClearedRegister(s) ELSE reg[s]]
  /\ UNCHANGED <<mode, lev, bank, time, levels, frame, data, raw, coupling, accounts>>

(* while (fraction * duration > limit || fraction > 1 - elapsed) fraction /= 2, *)
(* from the last step; 0 when no whole number of ticks is left.            *)
Halvings(n) == {k \in 1 .. n : \E j \in 0 .. n : k * 2 ^ j = n}
Regrown(l, limit) ==  \* seeded fault
  LET fits == {k \in Halvings(frame[l].duration) :
                 k <= limit /\ k <= frame[l].duration - frame[l].elapsed}
  IN IF fits = {} THEN 0 ELSE CHOOSE k \in fits : \A m \in fits : m <= k
Fitted(l, limit) ==
  LET fits == {k \in Halvings(frame[l].step) :
                 k <= limit /\ k <= frame[l].duration - frame[l].elapsed}
  IN IF fits = {} THEN 0 ELSE CHOOSE k \in fits : \A m \in fits : m <= k

(* A step must advance the time: otherwise the call throws (Fails). *)
AnyStep(step) == TRUE  \* seeded fault
AdvancesTime(step) == step > 0

(* The stable step of a level: whatever its fields make it.                  *)
StableSteps == 1 .. MaxTime
Timestep ==
  /\ Running("cfl") /\ pc' = (IF Coupled THEN "save" ELSE "advance")
  /\ \E limit \in StableSteps :
       LET step == Fitted(lev, limit) IN
       /\ AdvancesTime(step)
       /\ frame' = [frame EXCEPT ![lev].step = step]
       /\ levels' = [levels EXCEPT ![lev].begin = Now, ![lev].end = Now + step]
  /\ UNCHANGED <<mode, lev, bank, time, data, reg, raw, coupling, accounts>>

(* The coupled predictor: save the level, probe it, predict every level. *)
SaveRadiationStep ==
  /\ Running("save") /\ pc' = "probe"
  /\ scratch' = [s \in Spatial |-> IF s \in Own
       THEN [scratch[s] EXCEPT ![0] = data[s][levels[TimeLevel(s)].bank]] ELSE scratch[s]]
  /\ UNCHANGED <<mode, lev, bank, time, levels, frame, data, reg, raw, rates, accounts>>

Probe ==
  /\ Running("probe") /\ pc' = "predict"
  /\ data' = Stored(Own, OtherBanks, LAMBDA s : Content(Now, "probe"))
  /\ raw' = [s \in Spatial |-> IF s \in Own THEN [from |-> Now, to |-> Now] ELSE raw[s]]
  /\ rates' = rates \cup Own
  /\ UNCHANGED <<mode, lev, bank, time, levels, frame, reg, scratch, accounts>>

InitialBank == 0  \* seeded fault
MidpointBank == 1
PredictRadiationStep ==
  /\ Running("predict") /\ pc' = "advance"
  /\ scratch' = [s \in Spatial |->
       [scratch[s] EXCEPT ![MidpointBank] = Content(Now, "midpoint")]]
  /\ UNCHANGED <<mode, lev, bank, time, levels, frame, data, reg, raw, rates, accounts>>

(* The bank of the later endpoint a halo read interpolates towards. *)
Endpoint(l) == IF levels[l].predictor THEN 3 ELSE Other(levels[l].bank)

(* pending = true, then the next finer level over this step, or the reflux. *)
Descend(predicted) ==
  LET opened == [levels EXCEPT ![lev].pending = TRUE, ![lev].predictor = predicted] IN
  /\ levels' = opened
  /\ IF IsFinest(lev)
       THEN pc' = "reflux" /\ UNCHANGED <<lev, frame>>
       ELSE /\ pc' = "entry" /\ lev' = Finer(lev)
            /\ frame' = [frame EXCEPT ![Finer(lev)] =
                 [begin |-> Now, duration |-> frame[lev].step,
                  step |-> frame[lev].step \div 2 ^ (Finer(lev) - lev), elapsed |-> 0]]

(* Advance with flux weight step / duration. *)
Advance ==
  /\ Running("advance")
  /\ data' = Stored(Own, OtherBanks, LAMBDA s : Content(End, "transport"))
  /\ raw' = [s \in Spatial |-> IF s \in Own THEN [from |-> Now, to |-> End] ELSE raw[s]]
  /\ reg' = [s \in Spatial |->
       IF s \in Own THEN [reg[s] EXCEPT !.ticks = @ + frame[lev].step] ELSE reg[s]]
  /\ transported' = [s \in Spatial |->
       IF s \in Own THEN transported[s] + frame[lev].step ELSE transported[s]]
  /\ IF Coupled THEN pc' = "forecast" /\ UNCHANGED <<lev, frame, levels>> ELSE Descend(FALSE)
  /\ UNCHANGED <<mode, bank, time, coupling, steps, savedSteps, boundary, call>>

(* The coupled forecast of the coarse endpoint, kept in bank 3. *)
ForecastRadiationStep ==
  /\ Running("forecast")
  /\ data' = Stored(Own, [s \in Spatial |-> 3], LAMBDA s : Content(End, "forecast"))
  /\ Descend(TRUE)
  /\ UNCHANGED <<mode, bank, time, reg, raw, coupling, accounts>>

(* completeLevelStep, elapsed += fraction, and the loop or the return.  The  *)
(* count of steps is bounded by MaxTime, as each of them takes a tick.      *)
NextElapsed == frame[lev].elapsed + frame[lev].step
CompleteStep ==
  /\ steps' = [s \in Spatial |-> IF s \in Own /\ steps[s] < MaxTime
                              THEN steps[s] + 1 ELSE steps[s]]
  /\ frame' = [frame EXCEPT ![lev].elapsed = NextElapsed]
  /\ IF NextElapsed < frame[lev].duration THEN pc' = "cfl" /\ UNCHANGED lev
     ELSE IF lev = Coarsest THEN pc' = "normalize" /\ UNCHANGED lev
     ELSE pc' = "reflux" /\ lev' = Coarser(lev)

(* state.bank ^= 1. *)
Unalternated(b) == b  \* seeded fault
Alternated(b) == Other(b)

(* Reflux corrects the provisional endpoint, which becomes the level's bank. *)
Reflux ==
  /\ Running("reflux")
  /\ data' = Stored(Own, OtherBanks, LAMBDA s : Content(End, IF Coupled THEN "drive" ELSE "state"))
  /\ levels' = [levels EXCEPT ![lev].pending = FALSE, ![lev].bank = Alternated(@)]
  /\ IF Coupled THEN pc' = "finish" /\ UNCHANGED <<steps, frame, lev>> ELSE CompleteStep
  /\ UNCHANGED <<mode, bank, time, reg, raw, coupling, savedSteps, transported, boundary, call>>

FinishRadiationStep ==
  /\ Running("finish")
  /\ data' = Stored(Own, OtherBanks, LAMBDA s : Content(End, "state"))
  /\ levels' = [levels EXCEPT ![lev].bank = Alternated(@)]
  /\ CompleteStep
  /\ UNCHANGED <<mode, bank, time, reg, raw, coupling, savedSteps, transported, boundary, call>>
-----------------------------------------------------------------------------
(* Every level's bank is copied to the unpublished one, then published. *)
Normalize ==
  /\ Running("normalize") /\ pc' = "publish"
  /\ data' = Stored(Spatial, [s \in Spatial |-> Other(bank)],
                    LAMBDA s : data[s][levels[TimeLevel(s)].bank])
  /\ UNCHANGED <<mode, lev, bank, time, levels, frame, reg, raw, coupling, accounts>>

Publish ==
  /\ Running("publish")
  /\ IF Floored THEN pc' = "floor" /\ UNCHANGED <<mode, outcome>>
                ELSE pc' = "start" /\ mode' = "idle" /\ outcome' = "returned"
  /\ bank' = Other(bank) /\ time' = time + frame[Coarsest].duration
  /\ boundary' = [s \in Spatial |-> boundary[s] + transported[s]]
  /\ levels' = <<>>
  /\ UNCHANGED <<lev, frame, data, reg, raw, coupling, steps, savedSteps, transported, backup>>

(* applyEosFloor repairs the published bank in place. *)
Floor ==
  /\ Running("floor") /\ pc' = "start" /\ mode' = "idle" /\ outcome' = "returned"
  /\ UNCHANGED <<lev, bank, time, levels, frame, data, reg, raw, coupling,
                 steps, savedSteps, transported, boundary, backup>>

(* The banks the next phase writes. *)
Written ==
  IF pc = "probeAll" THEN Spatial \X {Other(bank)}
  ELSE IF pc = "floor" THEN Spatial \X {bank}
  ELSE IF pc = "backup" THEN Spatial \X {2}
  ELSE IF pc \in {"probe", "advance", "reflux", "finish"} THEN {<<s, OtherBanks[s]>> : s \in Own}
  ELSE IF pc = "forecast" THEN Own \X {3}
  ELSE IF pc = "normalize"
    THEN {<<s, Other(bank)>> : s \in {u \in Spatial : levels[TimeLevel(u)].bank = bank}}
  ELSE {}
TornIn(cells) == [s \in Spatial |-> [b \in Bank |->
  IF <<s, b>> \in cells THEN Content(0, "torn") ELSE data[s][b]]]

(* A phase throws, a step cannot advance time, or a shadow refresh throws,    *)
(* and the recursion unwinds.                                              *)
(* The inner catch block surrounds the recursion up to the publication, the *)
(* outer one all that advanceCoupled does after its checkpoint.             *)
Handler ==
  IF pc \notin {"checkpoint", "probeAll", "backup", "floor"} THEN "restoring"
  ELSE IF Coupled /\ pc # "checkpoint" THEN "recovering"
  ELSE "idle"
Fails ==
  /\ mode = "running"
  /\ \E cells \in {{}, Written} : data' = TornIn(cells)
  /\ mode' = Handler /\ outcome' = "threw"
  /\ pc' = "start" /\ lev' = Coarsest /\ levels' = <<>>
  /\ frame' = [l \in TimeLevels |-> IF l = Coarsest THEN frame[l] ELSE NoFrame]
  /\ UNCHANGED <<bank, time, reg, raw, coupling,
                 steps, savedSteps, transported, boundary, backup>>

StatisticsKept == steps  \* seeded fault
RestoredSteps == savedSteps
Restore ==
  /\ mode = "restoring" /\ mode' = (IF Coupled THEN "recovering" ELSE "idle")
  /\ data' = Stored(Spatial, [s \in Spatial |-> bank], LAMBDA s : data[s][2])
  /\ steps' = RestoredSteps
  /\ UNCHANGED <<pc, lev, bank, time, levels, frame, reg, raw, coupling,
                 savedSteps, transported, boundary, call>>

(* The rollback itself throws: advanceCoupled still has its own copy,        *)
(* otherwise the exception ends the program's run.                         *)
RestoreFails ==
  /\ mode = "restoring" /\ mode' = (IF Coupled THEN "recovering" ELSE "lost")
  /\ \E cells \in {{}, Spatial \X {bank}} : data' = TornIn(cells)
  /\ UNCHANGED <<pc, lev, bank, time, levels, frame, reg, raw, coupling, accounts>>

(* The outer rollback puts back all that was published before the call.      *)
BankInForce == bank  \* seeded fault
RecoveryBank == backup.bank
RecoveredBoundary == backup.boundary
Recover ==
  /\ mode = "recovering" /\ mode' = "idle"
  /\ bank' = backup.bank /\ time' = backup.time
  /\ data' = Stored(Spatial, [s \in Spatial |-> RecoveryBank], LAMBDA s : backup.state[s])
  /\ steps' = backup.steps /\ boundary' = RecoveredBoundary
  /\ UNCHANGED <<pc, lev, levels, frame, reg, raw, coupling, savedSteps, transported, call>>

RecoverFails ==
  /\ mode = "recovering" /\ mode' = "lost"
  /\ bank' = backup.bank /\ time' = backup.time
  /\ \E cells \in {{}, Spatial \X {RecoveryBank}} : data' = TornIn(cells)
  /\ UNCHANGED <<pc, lev, levels, frame, reg, raw, coupling, accounts>>

Phase ==
  \/ Checkpoint \/ ProbeAll \/ Backup \/ ResetFlux \/ Timestep
  \/ SaveRadiationStep \/ Probe \/ PredictRadiationStep \/ Advance \/ ForecastRadiationStep
  \/ Reflux \/ FinishRadiationStep \/ Normalize \/ Publish \/ Floor
  \/ Fails \/ Restore \/ RestoreFails \/ Recover \/ RecoverFails

(* No call follows: MaxTime bounds the model, or the run has ended. *)
Finished ==
  /\ mode = "lost" \/ (mode = "idle" /\ \A dt \in option.durations : time + dt > MaxTime)
  /\ UNCHANGED vars

Next == ((\E dt \in option.durations : Start(dt)) \/ Phase \/ Finished) /\ UNCHANGED option

Spec == Init /\ [][Next]_vars

(* The coordinator is one thread: an interval it has begun goes on. *)
FairSpec == Spec /\ WF_vars(Phase /\ UNCHANGED option)
-----------------------------------------------------------------------------
Ticks == 0 .. MaxTime
TypeOK ==
  /\ option \in Options
  /\ mode \in {"idle", "running", "restoring", "recovering", "lost"} /\ lev \in TimeLevels
  /\ outcome \in {"none", "returned", "threw"}
  /\ pc \in {"start", "checkpoint", "probeAll", "floor", "backup", "entry", "cfl", "save", "probe", "predict",
             "advance", "forecast", "reflux", "finish", "normalize", "publish"}
  /\ bank \in {0, 1} /\ time \in Ticks
  /\ levels = <<>> \/ levels \in [TimeLevels -> [bank : {0, 1}, begin : Ticks, end : Ticks,
                                                pending : BOOLEAN, predictor : BOOLEAN]]
  /\ frame \in [TimeLevels -> [begin : Ticks, duration : Ticks, step : Ticks, elapsed : Ticks]]
  /\ data \in [Spatial -> [Bank -> [at : Ticks, kind : Kinds]]]
  /\ reg \in [Spatial -> [from : Ticks, ticks : Ticks, of : Ticks]]
  /\ raw \in [Spatial -> [from : Ticks, to : Ticks]]
  /\ scratch \in [Spatial -> [{0, 1} -> [at : Ticks, kind : Kinds]]] /\ rates \in SUBSET Spatial
  /\ backup.bank \in {0, 1} /\ backup.time \in Ticks
  /\ backup.state \in [Spatial -> [at : Ticks, kind : Kinds]]
  /\ \A counts \in {steps, savedSteps, backup.steps} : counts \in [Spatial -> Ticks]
  /\ \A t \in {transported, boundary, backup.boundary} : t \in [Spatial -> Ticks]

(* The time a phase of the recursion gives to phase(), which the halo-time   *)
(* check compares with every open interval; Normalize passes none.         *)
StageTime == IF pc \in {"reflux", "finish"} THEN End ELSE Now
InRecursion == mode = "running" /\ pc \notin {"start", "checkpoint", "probeAll", "backup",
                                                   "normalize", "publish", "floor"}

(* Every halo read of a substep finds its donors at the substep's own time:  *)
(* a level that is not advancing holds finished states of exactly that     *)
(* time, an advancing one holds both ends of an interval around it, the    *)
(* later one being the coupled forecast where there is one; and the check  *)
(* that throws "Halo time outside coarse predictor interval" never fires.  *)
HaloSynchronised ==
  /\ InRecursion => \A l \in TimeLevels : levels[l].pending =>
       levels[l].begin <= StageTime /\ StageTime <= levels[l].end
  /\ (mode = "running" /\ pc \in {"probe", "predict", "advance"}) =>
       \A s \in Spatial : LET l == TimeLevel(s) IN
         IF levels[l].pending
           THEN /\ data[s][levels[l].bank] = Content(levels[l].begin, "state")
                /\ Now > levels[l].begin =>
                     data[s][Endpoint(l)] =
                       Content(levels[l].end, IF Coupled THEN "forecast" ELSE "transport")
           ELSE data[s][levels[l].bank] = Content(Now, "state")

(* When a coarse step is refluxed, the fluxes of the finer neighbours cover  *)
(* exactly that step: through the interval register, whose weights then    *)
(* sum to one, across time levels, and through the step's own raw flux     *)
(* inside a time group.                                                    *)
RefluxCoversStep ==
  Running("reflux") => \A s \in Own :
    /\ raw[s] = [from |-> Now, to |-> End]
    /\ s + 1 \in Spatial =>
         IF TimeLevel(s + 1) > TimeLevel(s)
           THEN reg[s + 1] = [from |-> Now, ticks |-> frame[lev].step, of |-> frame[lev].step]
           ELSE raw[s + 1] = [from |-> Now, to |-> End]

(* The binary clock: a step always divides what is left of the parent        *)
(* interval, so the last one ends exactly at the parent's endpoint and no  *)
(* step is ever cut short.                                                 *)
StepsAligned ==
  InRecursion => \A l \in TimeLevels : (l <= lev /\ frame[l].step > 0) =>
    (frame[l].duration - frame[l].elapsed) % frame[l].step = 0

(* The coupled source steps of a level start from the state this very step   *)
(* saved, although every finer step since has predicted midpoints for all  *)
(* levels; its transport finds the midpoints and rates of every donor.     *)
SourceInputsReady ==
  /\ (Running("forecast") \/ Running("finish")) =>
       \A s \in Own : scratch[s][0] = Content(Now, "state")
  /\ (Running("advance") /\ Coupled) =>
       rates = Spatial /\ \A s \in Spatial : scratch[s][1] = Content(Now, "midpoint")

(* An interval ends, by publication, rollback or a failed rollback. *)
IntervalEnds == mode = "running" ~> mode # "running"

(* runtime.hpp: "On failure, drain work and preserve the previously published *)
(* state and time."  Both are back to what they were when the call began.  *)
FailedCallKeepsTime ==
  (mode = "idle" /\ outcome = "threw") =>
    /\ time = frame[Coarsest].begin
    /\ \A s \in Spatial : data[s][bank] = Content(time, "state")

(* From Backup on, bank 2 stands in for the published fields, which the      *)
(* levels overwrite as they alternate banks; during a coupled call the      *)
(* backup stands in for all that is published, until the call returns.     *)
CheckpointHeld ==
  mode = "restoring" \/
  (mode = "running" /\ pc \notin {"checkpoint", "probeAll", "backup", "floor"})
BackupHeld == Coupled /\ mode \in {"running", "restoring", "recovering"} /\ pc # "checkpoint"
Published(s) ==
  IF BackupHeld THEN backup.state[s] ELSE data[s][IF CheckpointHeld THEN 2 ELSE bank]
Contract == INSTANCE IntervalContract WITH
  spatial <- Spatial,
  clock <- IF BackupHeld THEN backup.time ELSE time,
  state <- [s \in Spatial |-> Published(s)],
  steps <- IF BackupHeld THEN backup.steps ELSE IF CheckpointHeld THEN savedSteps ELSE steps,
  boundary <- IF BackupHeld THEN backup.boundary ELSE boundary,
  lost <- mode = "lost"
KeepsIntervalContract == Contract!Spec
=============================================================================
