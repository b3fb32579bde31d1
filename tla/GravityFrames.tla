--------------------------- MODULE GravityFrames ---------------------------
(***************************************************************************)
(* Hierarchical gravity with subcycled transport (advanceGravityLevel).    *)
(* Every step of every time level opens a frame.  Its shell is the field   *)
(* between cells of which one is on that level and none is coarser: the    *)
(* field nested at this level less the field nested at the next.  While    *)
(* finer levels step inside it, their provisional source uses the shell at *)
(* the frame's beginning; closing the frame replaces what was applied by   *)
(* the average over both ends.                                             *)
(*                                                                         *)
(* Fields are given by the densities they were computed from, a source by  *)
(* the ticks it has acted for.  The exchange between two levels goes       *)
(* through the frames of the coarser; in the energy of the coarser it is   *)
(* first forecast, then deferred from each closing frame of the finer.     *)
(* Rotating frames carry a second potential through the same steps and are *)
(* left out, as are the halo and the shadow (Subcycling, RuntimeProtocol). *)
(***************************************************************************)
EXTENDS Integers, FiniteSets, FiniteSetsExt

CONSTANTS
  Options,     \* [levels, conventional, coupled]: time levels that hold
               \* leaves, gravity.timeIntegration, is there a coupledStep?
  Durations,   \* intervals the caller may ask for, in ticks
  MaxTime      \* bound: the published time, in ticks

ASSUME FramesAssumption ==
  /\ \A o \in Options :
       /\ o.levels \subseteq Nat /\ o.levels # {} /\ IsFiniteSet(o.levels)
       /\ {o.conventional, o.coupled} \subseteq BOOLEAN
  /\ Durations \subseteq Nat \ {0} /\ MaxTime \in Nat

VARIABLES
  option,
  pc, lev,               \* the next operation, and the level it works on
  time, bank,            \* published
  frame,                 \* [level -> its open step: begin, step; and its loop]
  levels,                \* [level -> bank, begin, end, pending]
  density,               \* [level -> [0..3 -> content]]; 2 backup, 3 predictor
  gravity,               \* [level -> [0..2 -> field]], as published
  cachedNested,          \* [level -> the last nested field and its time]
  nested, shell, force,  \* [level -> [endpoint -> field]], of the open frames
  impulse, flux,         \* [frame -> [level -> ticks]]
  applied,               \* [frame -> [level -> ticks, by frame]]
  deferred,              \* [level -> ticks, by frame]
  momentum, energy       \* [level -> ticks in its state, by frame]

frames == <<nested, shell, force, impulse, applied, flux>>
ledger == <<deferred, momentum, energy>>
published == <<time, bank>>
vars == <<option, pc, lev, time, bank, frame, levels, density, gravity, cachedNested, nested, shell,
          force, impulse, applied, flux, deferred, momentum, energy>>

TimeLevels == option.levels
Coarsest == Min(TimeLevels)
Nested(l) == {k \in TimeLevels : k >= l}
Finer(l) == Min(Nested(l + 1))
Coarser(l) == Max({k \in TimeLevels : k < l})
IsFinest(l) == Nested(l + 1) = {}

(* A frame is on the stack while the steps below it run.                   *)
Stack(l) == {f \in TimeLevels : f <= l}

Now == frame[lev].begin
End == Now + frame[lev].step

(***************************************************************************)
(* A density is of a time and raw until reflux; a field is the set of the  *)
(* <<level, density>> it was computed from.                                *)
(***************************************************************************)
Content(at, kind) == [at |-> at, kind |-> kind]
State(at) == Content(at, "state")
Unset == Content(0, "unset")
NoField == {}
Zero == [k \in TimeLevels |-> 0]
ZeroEach == [l \in TimeLevels |-> Zero]
NoFrame == [begin |-> 0, step |-> 0, from |-> 0, duration |-> 0, elapsed |-> 0]
NoFields == [l \in TimeLevels |-> [e \in {0, 1} |-> NoField]]

Visible(k) == density[k][levels[k].bank]

(* A source at time at: an open coarser level is taken between its state   *)
(* and its predictor.                                                      *)
Source(k, at) ==
  IF levels[k].pending /\ at > levels[k].begin
    THEN IF Visible(k) = State(levels[k].begin) /\ density[k][3] = Content(levels[k].end, "forecast")
            /\ at <= levels[k].end
         THEN Content(at, "between") ELSE Unset
    ELSE Visible(k)
FieldOf(sources, at) == {<<k, Source(k, at)>> : k \in sources}

Init ==
  /\ option \in Options
  /\ pc = "idle" /\ lev = Coarsest /\ time = 0 /\ bank = 0
  /\ frame = [l \in TimeLevels |-> NoFrame]
  /\ levels = [l \in TimeLevels |-> [bank |-> 0, begin |-> 0, end |-> 0, pending |-> FALSE]]
  /\ density = [l \in TimeLevels |-> [b \in 0..3 |-> IF b = 0 THEN State(0) ELSE Unset]]
  /\ gravity = [l \in TimeLevels |-> [b \in 0..2 |->
       IF b = 0 THEN {<<k, State(0)>> : k \in TimeLevels} ELSE NoField]]
  /\ cachedNested = [l \in TimeLevels |-> [at |-> -1, field |-> NoField]]
  /\ nested = NoFields /\ shell = NoFields /\ force = NoFields
  /\ impulse = ZeroEach /\ flux = ZeroEach /\ applied = [f \in TimeLevels |-> ZeroEach]
  /\ deferred = ZeroEach /\ momentum = ZeroEach /\ energy = ZeroEach
-----------------------------------------------------------------------------
(***************************************************************************)
(* advanceGravityUnlocked up to the root of the recursion: Backup and the  *)
(* interval's fields.                                                      *)
(***************************************************************************)
Begin(dt) ==
  /\ pc = "idle" /\ time + dt <= MaxTime
  /\ pc' = "cfl" /\ lev' = Coarsest
  /\ density' = [l \in TimeLevels |-> [density[l] EXCEPT ![2] = density[l][bank]]]
  /\ gravity' = [l \in TimeLevels |-> [gravity[l] EXCEPT ![2] = gravity[l][bank]]]
  /\ levels' = [l \in TimeLevels |-> [bank |-> bank, begin |-> 0, end |-> 0, pending |-> FALSE]]
  /\ frame' = [frame EXCEPT ![Coarsest] =
       [begin |-> time, step |-> dt, from |-> time, duration |-> dt, elapsed |-> 0]]
  /\ UNCHANGED <<option, published, cachedNested, frames, ledger>>

(* The loop of a level halves its last step until it is stable and fits;   *)
(* how often, its fields decide.                                           *)
Halvings(n) == {k \in 1..n : \E j \in 0..n : k * 2^j = n}
Timestep ==
  /\ pc = "cfl" /\ pc' = "open"
  /\ \E step \in Halvings(frame[lev].step) :
       /\ step <= frame[lev].duration - frame[lev].elapsed
       /\ frame' = [frame EXCEPT ![lev].step = step, ![lev].begin = frame[lev].from + frame[lev].elapsed]
  /\ UNCHANGED <<option, lev, published, levels, density, gravity, cachedNested, frames, ledger>>

(***************************************************************************)
(* nestedGravity keeps the last field of a level, by time.                 *)
(***************************************************************************)
AnyTime(l, at) == cachedNested[l].at >= 0  \* seeded fault
Reusable(l, at) == cachedNested[l].at = at
NestedGravity(l, at) == IF Reusable(l, at) THEN cachedNested[l].field ELSE FieldOf(Nested(l), at)

Needed(l) == {l} \cup (IF IsFinest(l) THEN {} ELSE {Finer(l)})
ShellGravity(endpoint, at) ==
  LET all == NestedGravity(lev, at)
      fast == IF IsFinest(lev) THEN NoField ELSE NestedGravity(Finer(lev), at)
  IN /\ cachedNested' = [l \in TimeLevels |-> IF l \in Needed(lev)
            THEN [at |-> at, field |-> NestedGravity(l, at)] ELSE cachedNested[l]]
     /\ nested' = [nested EXCEPT ![lev][endpoint] = all]
     /\ shell' = [shell EXCEPT ![lev][endpoint] = all \ fast]
     /\ force' = IF option.conventional
          THEN [force EXCEPT ![lev][endpoint] = FieldOf(TimeLevels, at)] ELSE force

(* A frame opens empty, and the work deferred to its blocks starts anew.   *)
KeptDeferred(l) == deferred[l]  \* seeded fault
FreshDeferred(l) == Zero
KeptImpulse(l) == impulse[l]  \* seeded fault
FreshImpulse(l) == Zero
Open ==
  /\ pc = "open" /\ pc' = "transport"
  /\ ShellGravity(0, Now)
  /\ impulse' = [impulse EXCEPT ![lev] = FreshImpulse(lev)]
  /\ applied' = [applied EXCEPT ![lev] = ZeroEach]
  /\ flux' = [flux EXCEPT ![lev] = Zero]
  /\ deferred' = [deferred EXCEPT ![lev] = FreshDeferred(lev)]
  /\ UNCHANGED <<option, lev, published, frame, levels, density, gravity, momentum, energy>>

(***************************************************************************)
(* Advance and provisionalGravity.  What the work of frame f on the blocks *)
(* of lev stands for: its own frame also forecasts the frames still to     *)
(* open below.  The predictor is made of one shell of each frame, or with  *)
(* conventional integration it is the whole field at the beginning.        *)
(***************************************************************************)
Carried(f, k) == IF f = lev THEN k >= lev ELSE k = f
Provisional(l, k) == IF \E f \in Stack(l) : Carried(f, k) THEN frame[l].step ELSE 0
Kicked(l, k) == IF option.conventional THEN (IF k = l THEN frame[l].step ELSE 0)
                ELSE IF k <= l THEN frame[l].step ELSE 0

Transport ==
  /\ pc = "transport" /\ pc' = "forecast"
  /\ levels' = [levels EXCEPT ![lev].begin = Now, ![lev].end = End]
  /\ density' = [density EXCEPT ![lev][1 - levels[lev].bank] = Content(End, "raw")]
  /\ applied' = [f \in TimeLevels |-> IF f \in Stack(lev)
       THEN [applied[f] EXCEPT ![lev] = [k \in TimeLevels |->
              @[k] + IF Carried(f, k) THEN frame[lev].step ELSE 0]] ELSE applied[f]]
  /\ flux' = [f \in TimeLevels |-> IF f \in Stack(lev)
       THEN [flux[f] EXCEPT ![lev] = @ + frame[lev].step] ELSE flux[f]]
  /\ impulse' = [f \in TimeLevels |-> IF f \in Stack(lev)
       THEN [impulse[f] EXCEPT ![lev] = @ + Kicked(lev, f)] ELSE impulse[f]]
  /\ momentum' = [momentum EXCEPT ![lev] = [k \in TimeLevels |-> @[k] + Kicked(lev, k)]]
  /\ energy' = [energy EXCEPT ![lev] = [k \in TimeLevels |-> @[k] + Provisional(lev, k)]]
  /\ UNCHANGED <<option, lev, published, frame, gravity, cachedNested, nested, shell, force, deferred>>

(* The halo predictor in bank 3; then the finer levels step, or reflux.    *)
Forecast ==
  /\ pc = "forecast"
  /\ density' = [density EXCEPT ![lev][3] = Content(End, "forecast")]
  /\ levels' = [levels EXCEPT ![lev].pending = TRUE]
  /\ IF IsFinest(lev)
       THEN pc' = "reflux" /\ UNCHANGED <<lev, frame>>
       ELSE /\ pc' = "cfl" /\ lev' = Finer(lev)
            /\ frame' = [frame EXCEPT ![Finer(lev)] =
                 [begin |-> Now, step |-> frame[lev].step \div 2^(Finer(lev) - lev),
                  from |-> Now, duration |-> frame[lev].step, elapsed |-> 0]]
  /\ UNCHANGED <<option, published, gravity, cachedNested, frames, ledger>>

Reflux ==
  /\ pc = "reflux" /\ pc' = "shell"
  /\ density' = [density EXCEPT ![lev][1 - levels[lev].bank] = State(End)]
  /\ levels' = [levels EXCEPT ![lev].pending = FALSE, ![lev].bank = 1 - @]
  /\ UNCHANGED <<option, lev, published, frame, gravity, cachedNested, frames, ledger>>

CloseShell ==
  /\ pc = "shell" /\ pc' = "close"
  /\ ShellGravity(1, End)
  /\ UNCHANGED <<option, lev, published, frame, levels, density, gravity, impulse, applied, flux, ledger>>

(***************************************************************************)
(* closeGravityFrame.  The blocks of this level and finer ones exchange    *)
(* through it; coarser ones see its work at their own close.               *)
(***************************************************************************)
CloseLedger ==
  LET l == lev
      settles(k) == IF option.conventional THEN k = l ELSE k >= l
  IN /\ momentum' = [k \in TimeLevels |-> IF settles(k)
          THEN [momentum[k] EXCEPT ![l] = @ + frame[l].step - impulse[l][k]] ELSE momentum[k]]
     /\ energy' = [k \in TimeLevels |-> IF k < l THEN energy[k]
          ELSE [m \in TimeLevels |-> energy[k][m] - applied[l][k][m]
                  + (IF m = l THEN flux[l][k] ELSE 0)
                  + (IF k = l THEN deferred[k][m] ELSE 0)]]
     /\ deferred' = [k \in TimeLevels |-> IF k < l
          THEN [deferred[k] EXCEPT ![l] = @ + frame[l].step] ELSE deferred[k]]

(* FinishRadiationStep writes the other bank of this level.  Then the      *)
(* field at the end is published for the next stable step of the levels    *)
(* inside the frame, and the loop goes on or returns.                      *)
Settled == IF option.coupled THEN 1 - levels[lev].bank ELSE levels[lev].bank
StepBank(k) == bank  \* seeded fault
CurrentBank(k) == IF k = lev THEN Settled ELSE levels[k].bank

NextElapsed == frame[lev].elapsed + frame[lev].step
CloseFrame ==
  /\ pc = "close"
  /\ CloseLedger
  /\ density' = [density EXCEPT ![lev][Settled] = Visible(lev)]
  /\ levels' = [levels EXCEPT ![lev].bank = Settled]
  /\ gravity' = [k \in TimeLevels |-> IF k \in Nested(lev)
       THEN [gravity[k] EXCEPT ![CurrentBank(k)] =
              nested[lev][1] \cup UNION {shell[f][0] : f \in Stack(lev) \ {lev}}]
       ELSE gravity[k]]
  /\ frame' = [frame EXCEPT ![lev].elapsed = NextElapsed]
  /\ IF NextElapsed < frame[lev].duration THEN pc' = "cfl" /\ UNCHANGED lev
     ELSE IF lev = Coarsest THEN pc' = "normalize" /\ UNCHANGED lev
     ELSE pc' = "reflux" /\ lev' = Coarser(lev)
  /\ UNCHANGED <<option, published, cachedNested, frames>>

(* The fields of the interval end with the call.                           *)
Return ==
  /\ pc' = "idle" /\ lev' = Coarsest
  /\ frame' = [l \in TimeLevels |-> NoFrame]
  /\ levels' = [l \in TimeLevels |-> [bank |-> 0, begin |-> 0, end |-> 0, pending |-> FALSE]]
  /\ cachedNested' = [l \in TimeLevels |-> [at |-> -1, field |-> NoField]]
  /\ nested' = NoFields /\ shell' = NoFields /\ force' = NoFields
  /\ impulse' = ZeroEach /\ flux' = ZeroEach /\ applied' = [f \in TimeLevels |-> ZeroEach]
  /\ deferred' = ZeroEach /\ momentum' = ZeroEach /\ energy' = ZeroEach

(* Normalize copies every level to the unpublished bank, which is          *)
(* published.                                                              *)
Normalize ==
  /\ pc = "normalize"
  /\ density' = [k \in TimeLevels |-> [density[k] EXCEPT ![1 - bank] = Visible(k)]]
  /\ gravity' = [k \in TimeLevels |-> [gravity[k] EXCEPT ![1 - bank] = gravity[k][levels[k].bank]]]
  /\ bank' = 1 - bank /\ time' = time + frame[Coarsest].duration
  /\ Return
  /\ UNCHANGED option

(* Anything may throw; Restore brings the backup into the published bank.  *)
Fail ==
  /\ pc # "idle"
  /\ density' = [k \in TimeLevels |-> [density[k] EXCEPT ![bank] = density[k][2]]]
  /\ gravity' = [k \in TimeLevels |-> [gravity[k] EXCEPT ![bank] = gravity[k][2]]]
  /\ Return
  /\ UNCHANGED <<option, published>>

Next ==
  \/ \E dt \in Durations : Begin(dt)
  \/ Timestep \/ Open \/ Transport \/ Forecast \/ Reflux \/ CloseShell \/ CloseFrame
  \/ Normalize \/ Fail

Spec == Init /\ [][Next]_vars
-----------------------------------------------------------------------------
Ticks == 0..MaxTime
IsLedger(x) == x \in [TimeLevels -> [TimeLevels -> Ticks]]

TypeOK ==
  /\ option \in Options /\ lev \in TimeLevels
  /\ pc \in {"idle", "cfl", "open", "transport", "forecast", "reflux", "shell", "close", "normalize"}
  /\ time \in Ticks /\ bank \in {0, 1}
  /\ \A l \in TimeLevels :
       /\ frame[l].elapsed <= frame[l].duration /\ frame[l].step <= frame[l].duration
       /\ levels[l].bank \in {0, 1} /\ levels[l].pending \in BOOLEAN
       /\ DOMAIN density[l] = 0..3 /\ DOMAIN gravity[l] = 0..2
       /\ cachedNested[l].at \in Ticks \cup {-1}
  /\ {nested, shell, force} \subseteq [TimeLevels -> [{0, 1} -> SUBSET (TimeLevels \X
       [at : Ticks, kind : {"state", "raw", "forecast", "between", "unset"}])]]
  /\ IsLedger(impulse) /\ IsLedger(flux) /\ IsLedger(deferred)
  /\ \A f, k \in TimeLevels : impulse[f][k] <= frame[f].step \/ pc \in {"cfl", "open"}
  /\ \A f \in TimeLevels : IsLedger(applied[f])

(***************************************************************************)
(* FieldsSynchronised: the shell of a frame is at each end computed from   *)
(* refluxed densities of that very time on its own level alone, although   *)
(* the nested fields it is a difference of are reused from the frames of   *)
(* other levels; and the whole field a conventional step uses takes open   *)
(* coarser levels at that time as well.                                    *)
(***************************************************************************)
WholeAt(field, at) ==
  /\ {s[1] : s \in field} = TimeLevels
  /\ \A s \in field : s[2] \in {State(at), Content(at, "between")} /\ (s[1] >= lev => s[2] = State(at))
SynchronisedAt(endpoint, at) ==
  /\ shell[lev][endpoint] = {<<lev, State(at)>>}
  /\ option.conventional => WholeAt(force[lev][endpoint], at)
FieldsSynchronised ==
  /\ pc = "transport" => SynchronisedAt(0, Now)
  /\ pc = "close" => SynchronisedAt(0, Now) /\ SynchronisedAt(1, End)

(***************************************************************************)
(* ExchangeBooked: whenever the coarsest level has closed a frame, gravity *)
(* has acted for exactly the elapsed time: the momentum of a level through *)
(* every frame that may hold it, its energy through every frame, coarser   *)
(* or finer, whatever was provisional, forecast or deferred on the way.    *)
(***************************************************************************)
ExchangeBooked ==
  pc \in {"cfl", "normalize"} /\ lev = Coarsest =>
    \A l, k \in TimeLevels :
      /\ energy[l][k] = frame[lev].elapsed
      /\ momentum[l][k] = IF k = l \/ (k < l /\ ~option.conventional) THEN frame[lev].elapsed ELSE 0

(***************************************************************************)
(* GravityCurrent: between calls the published gravity is the field of the *)
(* published densities; and when a level chooses its step, the field in    *)
(* its bank has every source level once, its own and the finer at the      *)
(* present time.                                                           *)
(***************************************************************************)
GravityCurrent ==
  /\ pc = "idle" => \A l \in TimeLevels : gravity[l][bank] = {<<k, State(time)>> : k \in TimeLevels}
  /\ pc = "cfl" =>
       LET field == gravity[lev][levels[lev].bank]
           now == frame[lev].from + frame[lev].elapsed
       IN /\ {<<k, State(now)>> : k \in Nested(lev)} \subseteq field
          /\ Cardinality(field) = Cardinality(TimeLevels) /\ {s[1] : s \in field} = TimeLevels
=============================================================================
