-------------------------- MODULE SubcyclingProofs --------------------------
(***************************************************************************)
(* Proofs about Subcycling, for every hierarchy of levels, every choice of *)
(* steps and every failure: the nested binary clock, and the counts, the   *)
(* boundary transport and the fluxes against that clock; then what the     *)
(* banks hold, what each source step reads, and that an interval is        *)
(* published whole or not at all (IntervalContract).                       *)
(***************************************************************************)
EXTENDS Subcycling, NatLemmas

(* The levels from the coarsest to lev are open; each has a clock.         *)
At(l) == frame[l].begin + frame[l].elapsed
EndOf(l) == At(l) + frame[l].step

Preparing == mode = "running" /\ pc \in {"checkpoint", "probeAll", "backup"}
Underway == mode = "running" /\ pc \notin {"checkpoint", "probeAll", "backup", "floor"}
Stepping == pc \in {"save", "probe", "predict", "advance", "forecast", "reflux", "finish"}
Moved == pc \in {"forecast", "reflux", "finish"}
FinerDone == pc \in {"reflux", "finish"}

(* The time of a level's own state, and the time its transport has reached. *)
StateTime(l) == IF l <= lev THEN At(l) ELSE IF FinerDone THEN EndOf(lev) ELSE At(lev)
Reached(l) == IF l < lev \/ (l = lev /\ Moved) THEN EndOf(l) ELSE StateTime(l)

Level == [bank : {0, 1}, begin : Ticks, end : Ticks, pending : BOOLEAN, predictor : BOOLEAN]
Control ==
  /\ mode = "running" <=> pc # "start"
  /\ ~InRecursion => lev = Coarsest
  /\ pc \in {"checkpoint", "probeAll", "save", "probe", "predict", "forecast", "finish"} => Coupled
  /\ mode = "recovering" => Coupled
  /\ pc = "floor" => Floored
  /\ Underway => levels \in [TimeLevels -> Level]

(* An open level's step is the interval of the next finer level.           *)
Nested(l) ==
  /\ frame[l].step > 0 /\ frame[l].elapsed + frame[l].step <= frame[l].duration
  /\ frame[Finer(l)].begin = At(l) /\ frame[Finer(l)].duration = frame[l].step
Within(l) == time <= frame[l].begin /\ frame[l].begin + frame[l].duration <= MaxTime
Clock ==
  /\ Underway =>
       /\ \A l \in TimeLevels : l < lev => Nested(l)
       /\ \A l \in TimeLevels : l <= lev => Within(l)
       /\ frame[lev].elapsed <= frame[lev].duration
       /\ Stepping => frame[lev].step > 0 /\ frame[lev].elapsed + frame[lev].step <= frame[lev].duration
       /\ pc \in {"entry", "cfl"} => frame[lev].elapsed < frame[lev].duration
       /\ pc = "entry" => frame[lev].elapsed = 0
       /\ pc \in {"normalize", "publish"} => frame[lev].elapsed = frame[lev].duration
  /\ Preparing => frame[Coarsest].elapsed = 0 /\ Within(Coarsest)
  /\ mode = "running" => frame[Coarsest].duration > 0
  /\ Preparing \/ Underway \/ mode = "restoring" => time = frame[Coarsest].begin
  /\ pc = "floor" => time = frame[Coarsest].begin + frame[Coarsest].duration
  /\ BackupHeld => backup.time = frame[Coarsest].begin

(* Powers of two, and steps that divide what is left.                      *)
IsPower(n) == \E k \in Nat : n = 2^k
Divides(k, n) == \E m \in Nat : n = m * k
Binary(l) ==
  /\ IsPower(frame[l].duration)
  /\ frame[l].step > 0 =>
       /\ IsPower(frame[l].step)
       /\ Divides(frame[l].step, frame[l].duration - frame[l].elapsed)
BinaryClock ==
  /\ Preparing => Binary(Coarsest)
  /\ Underway => \A l \in TimeLevels : l <= lev => Binary(l)

(* What is open among the published levels.                                *)
Opened(l) == l < lev \/ (l = lev /\ pc = "reflux")
LevelClock ==
  Underway => \A l \in TimeLevels :
    /\ levels[l].pending = Opened(l)
    /\ l < lev \/ (l = lev /\ Stepping) => levels[l].begin = At(l) /\ levels[l].end = EndOf(l)
    /\ Opened(l) => levels[l].predictor = Coupled

(* Boundary transport and step counts, against the clock.                  *)
Booked ==
  /\ mode # "lost" => \A s \in Spatial : boundary[s] = time
  /\ Preparing => \A s \in Spatial : transported[s] = 0
  /\ Underway => \A s \in Spatial : transported[s] = Reached(TimeLevel(s)) - time
  /\ BackupHeld => \A s \in Spatial : backup.boundary[s] = backup.time
Counted ==
  /\ mode = "idle" \/ Preparing => \A s \in Spatial : steps[s] <= time
  /\ Preparing => steps = savedSteps
  /\ Preparing \/ Underway \/ mode = "restoring" => \A s \in Spatial : savedSteps[s] <= time
  /\ Underway => \A s \in Spatial :
       /\ savedSteps[s] <= steps[s] /\ steps[s] <= StateTime(TimeLevel(s))
       /\ StateTime(TimeLevel(s)) > time => savedSteps[s] < steps[s]
  /\ pc = "floor" => \A s \in Spatial : savedSteps[s] < steps[s] /\ steps[s] <= time
  /\ BackupHeld => \A s \in Spatial : backup.steps[s] <= backup.time
  /\ BackupHeld /\ mode = "running" => backup.steps = savedSteps

(* The fluxes a reflux adds up.                                            *)
RawFlux ==
  Underway => \A s \in Spatial : TimeLevel(s) < lev \/ (TimeLevel(s) = lev /\ Moved) =>
    raw[s] = [from |-> At(TimeLevel(s)), to |-> EndOf(TimeLevel(s))]
Register ==
  Underway => \A s \in Spatial : TimeLevel(s) < lev \/ (TimeLevel(s) = lev /\ pc # "entry") =>
    /\ reg[s].from = frame[TimeLevel(s)].begin /\ reg[s].of = frame[TimeLevel(s)].duration
    /\ reg[s].from + reg[s].ticks = Reached(TimeLevel(s))
FinerRegister ==
  Underway => \A s \in Spatial : (pc = "reflux" /\ ~IsFinest(lev) /\ TimeLevel(s) = Finer(lev)) =>
    reg[s] = [from |-> Now, ticks |-> frame[lev].step, of |-> frame[lev].step]
Fluxes == RawFlux /\ Register /\ FinerRegister

Frames == TypeOK /\ Control /\ Clock /\ BinaryClock /\ LevelClock /\ Booked /\ Counted /\ Fluxes

-----------------------------------------------------------------------------
(* The levels of a configuration are a finite set of numbers.              *)
LEMMA LevelSet ==
  ASSUME option \in Options
  PROVE  /\ Spatial \subseteq Nat /\ CoarseLevel \in Nat
         /\ \A s \in Spatial : TimeLevel(s) \in TimeLevels
         /\ TimeLevels # {} /\ IsFiniteSet(TimeLevels)
         /\ \A l \in TimeLevels : l \in Nat
         /\ Coupled \in BOOLEAN /\ Floored \in BOOLEAN
<1>1. /\ IsFiniteSet(Spatial) /\ Spatial \subseteq Nat /\ Spatial # {} /\ CoarseLevel \in Nat
      /\ Coupled \in BOOLEAN /\ Floored \in BOOLEAN
  BY OptionAssumption DEF Spatial, CoarseLevel, Coupled, Floored
<1>2. \A s \in Spatial : TimeLevel(s) \in Nat
  BY <1>1 DEF TimeLevel
<1>3. IsFiniteSet(TimeLevels)
  <2>1. [s \in Spatial |-> TimeLevel(s)] \in Surjection(Spatial, TimeLevels)
    BY DEF Surjection, TimeLevels
  <2> QED
    BY <1>1, <2>1, FS_Surjection
<1> QED
  BY <1>1, <1>2, <1>3 DEF TimeLevels

(* There is a coarsest level. *)
LEMMA CoarsestLevel ==
  ASSUME option \in Options
  PROVE  Coarsest \in TimeLevels /\ \A l \in TimeLevels : Coarsest <= l
<1>1. \E x \in TimeLevels : \A y \in TimeLevels : x <= y
  <2>1. TimeLevels \in SUBSET Nat /\ TimeLevels # {}
    BY LevelSet
  <2> QED
    BY <2>1, Least
<1> QED
  BY <1>1 DEF Coarsest

(* The next finer level, where there is a finer one. *)
LEMMA FinerLevel ==
  ASSUME option \in Options, NEW l \in TimeLevels, NEW m \in TimeLevels, l < m
  PROVE  /\ Finer(l) \in TimeLevels /\ l < Finer(l) /\ Finer(l) <= m
         /\ \A k \in TimeLevels : k < Finer(l) => k <= l
<1> DEFINE T == {k \in TimeLevels : k > l}
<1>0. \A k \in TimeLevels : k \in Nat
  BY LevelSet
<1>1. \E x \in T : \A y \in T : x <= y
  <2>1. T \in SUBSET Nat /\ T # {}
    BY <1>0
  <2> HIDE DEF T
  <2> QED
    BY <2>1, Least
<1>2. \E x \in TimeLevels : x > l /\ \A k \in TimeLevels : k > l => x <= k
  BY <1>1
<1>3. Finer(l) \in TimeLevels /\ Finer(l) > l /\ \A k \in TimeLevels : k > l => Finer(l) <= k
  BY <1>2 DEF Finer
<1>4. \A k \in TimeLevels : k < Finer(l) => k <= l
  BY <1>0, <1>3
<1> QED
  BY <1>0, <1>3, <1>4

(* A level that is not the finest has a finer one. *)
LEMMA NotFinest ==
  ASSUME option \in Options, NEW l \in TimeLevels, ~IsFinest(l)
  PROVE  \E m \in TimeLevels : l < m
  BY LevelSet DEF IsFinest

(* The next coarser level, whose next finer level is this one. *)
LEMMA CoarserLevel ==
  ASSUME option \in Options, NEW l \in TimeLevels, l # Coarsest
  PROVE  /\ Coarser(l) \in TimeLevels /\ Coarser(l) < l
         /\ \A k \in TimeLevels : k < l => k <= Coarser(l)
         /\ Finer(Coarser(l)) = l /\ ~IsFinest(Coarser(l))
<1> DEFINE T == {k \in TimeLevels : k < l}
<1>0. \A k \in TimeLevels : k \in Nat
  BY LevelSet
<1>1. Coarsest \in T
  BY <1>0, CoarsestLevel
<1>2. \E x \in T : \A y \in T : y <= x
  <2>1. T \in SUBSET Nat /\ T # {} /\ l \in Nat /\ \A y \in T : y <= l
    BY <1>0, <1>1
  <2> HIDE DEF T
  <2> QED
    BY <2>1, Greatest
<1>3. \E x \in TimeLevels : x < l /\ \A k \in TimeLevels : k < l => k <= x
  BY <1>2
<1>4. Coarser(l) \in TimeLevels /\ Coarser(l) < l /\ \A k \in TimeLevels : k < l => k <= Coarser(l)
  BY <1>3 DEF Coarser
<1>5. /\ Finer(Coarser(l)) \in TimeLevels /\ Coarser(l) < Finer(Coarser(l)) /\ Finer(Coarser(l)) <= l
  BY <1>4, FinerLevel
<1>6. Finer(Coarser(l)) = l
  <2>1. ~(Finer(Coarser(l)) < l)
    BY <1>0, <1>4, <1>5
  <2> QED
    BY <1>0, <1>5, <2>1
<1>7. ~IsFinest(Coarser(l))
  BY <1>0, <1>4 DEF IsFinest
<1> QED
  BY <1>4, <1>6, <1>7

(* The configuration of an interval never changes. *)
LEMMA OptionKept ==
  ASSUME option' = option
  PROVE  /\ Spatial' = Spatial /\ Coupled' = Coupled /\ Floored' = Floored
         /\ TimeLevels' = TimeLevels /\ Coarsest' = Coarsest
         /\ \A s : TimeLevel(s)' = TimeLevel(s)
         /\ \A l : Finer(l)' = Finer(l) /\ Coarser(l)' = Coarser(l) /\ IsFinest(l)' = IsFinest(l)
         /\ \A l : Members(l)' = Members(l)
<1>1. /\ Spatial' = Spatial /\ Coupled' = Coupled /\ Floored' = Floored
      /\ \A s : TimeLevel(s)' = TimeLevel(s)
  BY DEF Spatial, Coupled, Floored, TimeLevel, CoarseLevel
<1>2. TimeLevels' = TimeLevels
  BY <1>1 DEF TimeLevels
<1>3. Coarsest' = Coarsest
  BY <1>2 DEF Coarsest
<1>4. \A l : Finer(l)' = Finer(l) /\ Coarser(l)' = Coarser(l) /\ IsFinest(l)' = IsFinest(l)
  BY <1>2 DEF Finer, Coarser, IsFinest
<1>5. \A l : Members(l)' = Members(l)
  BY <1>1 DEF Members
<1> QED
  BY <1>1, <1>2, <1>3, <1>4, <1>5

(* No step changes the configuration. *)
LEMMA NextKeepsOption == [Next]_vars => option' = option
  BY DEF Next, vars

-----------------------------------------------------------------------------
(* The type invariant in parts. *)
Frame == [begin : Ticks, duration : Ticks, step : Ticks, elapsed : Ticks]
Item == [at : Ticks, kind : Kinds]
ControlType ==
  /\ mode \in {"idle", "running", "restoring", "recovering", "lost"} /\ lev \in TimeLevels
  /\ outcome \in {"none", "returned", "threw"}
  /\ pc \in {"start", "checkpoint", "probeAll", "floor", "backup", "entry", "cfl", "save", "probe", "predict",
             "advance", "forecast", "reflux", "finish", "normalize", "publish"}
  /\ bank \in {0, 1} /\ time \in Ticks
LevelType == levels = <<>> \/ levels \in [TimeLevels -> Level]
FrameType == frame \in [TimeLevels -> Frame]
DataType == data \in [Spatial -> [Bank -> Item]]
FluxType == reg \in [Spatial -> [from : Ticks, ticks : Ticks, of : Ticks]] /\ raw \in [Spatial -> [from : Ticks, to : Ticks]]
CouplingType == scratch \in [Spatial -> [{0, 1} -> Item]] /\ rates \in SUBSET Spatial
BackupType ==
  /\ backup.bank \in {0, 1} /\ backup.time \in Ticks /\ backup.state \in [Spatial -> Item]
  /\ backup.steps \in [Spatial -> Ticks] /\ backup.boundary \in [Spatial -> Ticks]
CountType == steps \in [Spatial -> Ticks] /\ savedSteps \in [Spatial -> Ticks]
TransportType == transported \in [Spatial -> Ticks] /\ boundary \in [Spatial -> Ticks]

(* The type invariant has these parts. *)
LEMMA TypeParts ==
  ASSUME TypeOK
  PROVE  /\ option \in Options /\ ControlType /\ LevelType /\ FrameType /\ DataType /\ FluxType
         /\ CouplingType /\ BackupType /\ CountType /\ TransportType
<1>1. option \in Options /\ ControlType
  BY DEF TypeOK, ControlType
<1>2. LevelType /\ FrameType
  BY DEF TypeOK, LevelType, FrameType, Level, Frame
<1>3. DataType /\ FluxType /\ CouplingType
  BY DEF TypeOK, DataType, FluxType, CouplingType, Item
<1>4. BackupType
  BY DEF TypeOK, BackupType, Item
<1>5. CountType /\ TransportType
  BY DEF TypeOK, CountType, TransportType
<1> QED
  BY <1>1, <1>2, <1>3, <1>4, <1>5

(* They make up the type invariant. *)
LEMMA TypeWhole ==
  ASSUME option \in Options, ControlType, LevelType, FrameType, DataType, FluxType,
         CouplingType, BackupType, CountType, TransportType
  PROVE  TypeOK
  BY Zenon DEF TypeOK, ControlType, LevelType, FrameType, DataType, FluxType, CouplingType, BackupType,
            CountType, TransportType, Level, Frame, Item

(* They make it up in the next state, too. *)
LEMMA TypeWholeNext ==
  ASSUME option' \in Options, ControlType', LevelType', FrameType', DataType', FluxType',
         CouplingType', BackupType', CountType', TransportType'
  PROVE  TypeOK'
  BY Zenon DEF TypeOK, ControlType, LevelType, FrameType, DataType, FluxType, CouplingType, BackupType,
            CountType, TransportType, Level, Frame, Item

(* What a phase that writes one bank of some levels leaves in all of them. *)
LEMMA BankWritten ==
  ASSUME NEW V, NEW old \in [Spatial -> [Bank -> V]], NEW levs, NEW b \in [Spatial -> Bank],
         NEW value \in [Spatial -> V],
         NEW new,
         new = [s \in Spatial |-> IF s \in levs THEN [old[s] EXCEPT ![b[s]] = value[s]] ELSE old[s]]
  PROVE  /\ new \in [Spatial -> [Bank -> V]]
         /\ \A s \in Spatial : \A c \in Bank :
              new[s][c] = IF s \in levs /\ c = b[s] THEN value[s] ELSE old[s][c]
<1>1. ASSUME NEW s \in Spatial
      PROVE  /\ new[s] \in [Bank -> V]
             /\ \A c \in Bank : new[s][c] = IF s \in levs /\ c = b[s] THEN value[s] ELSE old[s][c]
  <2>1. new[s] = IF s \in levs THEN [old[s] EXCEPT ![b[s]] = value[s]] ELSE old[s]
    OBVIOUS
  <2> QED
    BY <2>1
<1> QED
  BY <1>1

(* The open levels' clocks stay within the interval. *)
LEMMA OpenClock ==
  ASSUME TypeOK, Control, Clock, Underway, NEW l \in TimeLevels, l <= lev
  PROVE  /\ frame[l].begin \in Nat /\ frame[l].elapsed \in Nat /\ frame[l].step \in Nat /\ frame[l].duration \in Nat
         /\ time \in Nat /\ MaxTime \in Nat /\ lev \in TimeLevels
         /\ frame[l].elapsed <= frame[l].duration
         /\ time <= frame[l].begin /\ frame[l].begin + frame[l].duration <= MaxTime
         /\ At(l) \in Nat /\ time <= At(l) /\ At(l) <= MaxTime
         /\ l < lev \/ Stepping => EndOf(l) \in Nat /\ At(l) < EndOf(l) /\ EndOf(l) <= MaxTime /\ frame[l].step > 0
                                   /\ frame[l].elapsed + frame[l].step <= frame[l].duration
<1>1. /\ frame[l].begin \in Nat /\ frame[l].elapsed \in Nat /\ frame[l].step \in Nat /\ frame[l].duration \in Nat
      /\ time \in Nat /\ lev \in TimeLevels
  BY TypeParts, BoundAssumption DEF FrameType, Frame, ControlType, Ticks
<1>2. MaxTime \in Nat /\ l \in Nat /\ lev \in Nat
  BY <1>1, TypeParts, LevelSet, BoundAssumption
<1>3. time <= frame[l].begin /\ frame[l].begin + frame[l].duration <= MaxTime
  BY DEF Clock, Within
<1>4. l < lev \/ l = lev
  BY <1>2
<1>5. frame[l].elapsed <= frame[l].duration
  <2>1. CASE l < lev
    <3>1. frame[l].elapsed + frame[l].step <= frame[l].duration
      BY <2>1 DEF Clock, Nested
    <3> QED
      BY <1>1, <3>1
  <2>2. CASE l = lev
    BY <2>2 DEF Clock
  <2> QED
    BY <1>4, <2>1, <2>2
<1>6. l < lev \/ Stepping => frame[l].step > 0 /\ frame[l].elapsed + frame[l].step <= frame[l].duration
  BY <1>4 DEF Clock, Nested
<1> QED
  BY <1>1, <1>2, <1>3, <1>5, <1>6 DEF At, EndOf

(* The step a level chooses fits what is left of its interval.             *)
LEMMA ChosenStep ==
  ASSUME TypeOK, Control, Clock, Timestep
  PROVE  /\ mode = "running" /\ pc = "cfl" /\ pc' = (IF Coupled THEN "save" ELSE "advance")
         /\ lev \in TimeLevels /\ At(lev) \in Nat
         /\ \E step \in Nat \ {0} :
              /\ step \in Halvings(frame[lev].step) /\ frame[lev].elapsed + step <= frame[lev].duration
              /\ step <= MaxTime /\ At(lev) + step <= MaxTime
              /\ frame' = [frame EXCEPT ![lev].step = step]
              /\ levels' = [levels EXCEPT ![lev].begin = At(lev), ![lev].end = At(lev) + step]
<1>1. mode = "running" /\ pc = "cfl" /\ pc' = (IF Coupled THEN "save" ELSE "advance")
  BY DEF Timestep, Running
<1>2. Underway
  BY <1>1 DEF Underway
<1>3. lev \in TimeLevels /\ lev \in Nat
  BY TypeParts, LevelSet DEF ControlType
<1>4. /\ frame[lev].begin \in Nat /\ frame[lev].elapsed \in Nat /\ frame[lev].step \in Nat
      /\ frame[lev].duration \in Nat /\ MaxTime \in Nat /\ At(lev) \in Nat
      /\ frame[lev].begin + frame[lev].duration <= MaxTime
  BY <1>2, <1>3, OpenClock
<1>5. PICK limit \in StableSteps :
        /\ AdvancesTime(Fitted(lev, limit))
        /\ frame' = [frame EXCEPT ![lev].step = Fitted(lev, limit)]
        /\ levels' = [levels EXCEPT ![lev].begin = Now, ![lev].end = Now + Fitted(lev, limit)]
  BY DEF Timestep
<1> DEFINE fits == {k \in Halvings(frame[lev].step) :
                      k <= limit /\ k <= frame[lev].duration - frame[lev].elapsed}
           step == Fitted(lev, limit)
<1>6. fits # {} /\ step = CHOOSE k \in fits : \A m \in fits : m <= k
  BY <1>5 DEF Fitted, AdvancesTime
<1>7. fits \in SUBSET Nat /\ \A k \in fits : k <= frame[lev].step
  BY <1>4 DEF Halvings
<1>8. step \in fits
  <2> HIDE DEF fits
  <2>1. \E k \in fits : \A m \in fits : m <= k
    BY <1>4, <1>6, <1>7, Greatest
  <2> QED
    BY <1>6, <2>1
<1>9. step \in Halvings(frame[lev].step) /\ step <= frame[lev].duration - frame[lev].elapsed /\ step \in Nat \ {0}
  BY <1>4, <1>8 DEF Halvings
<1>10. frame[lev].elapsed + step <= frame[lev].duration /\ step <= MaxTime /\ At(lev) + step <= MaxTime
  <2> HIDE DEF step
  <2> QED
    BY <1>4, <1>9 DEF At
<1>11. Now = At(lev)
  BY DEF Now, At
<1> HIDE DEF step
<1> QED
  BY <1>1, <1>3, <1>4, <1>5, <1>9, <1>10, <1>11 DEF step

-----------------------------------------------------------------------------
(* Going down to the next finer level, and coming back up.                 *)
LEMMA Descended ==
  ASSUME TypeOK, Control, Clock, Underway, Stepping, NEW predicted \in BOOLEAN, Descend(predicted)
  PROVE  /\ lev \in TimeLevels
         /\ levels' \in [TimeLevels -> Level]
         /\ \A l \in TimeLevels : l # lev => levels'[l] = levels[l]
         /\ levels'[lev].pending = TRUE /\ levels'[lev].predictor = predicted
         /\ levels'[lev].bank = levels[lev].bank
         /\ levels'[lev].begin = levels[lev].begin /\ levels'[lev].end = levels[lev].end
         /\ \/ IsFinest(lev) /\ pc' = "reflux" /\ lev' = lev /\ frame' = frame
            \/ /\ ~IsFinest(lev) /\ pc' = "entry" /\ lev' = Finer(lev)
               /\ Finer(lev) \in TimeLevels /\ lev < Finer(lev)
               /\ \A k \in TimeLevels : k < Finer(lev) => k <= lev
               /\ \E q \in Nat :
                    /\ q = frame[lev].step \div 2^(Finer(lev) - lev) /\ q <= frame[lev].step
                    /\ frame' = [frame EXCEPT ![Finer(lev)] =
                         [begin |-> At(lev), duration |-> frame[lev].step, step |-> q, elapsed |-> 0]]
<1>1. lev \in TimeLevels /\ lev \in Nat /\ option \in Options
  BY TypeParts, LevelSet DEF ControlType
<1>2. levels \in [TimeLevels -> Level]
  BY DEF Control
<1>3. levels' = [levels EXCEPT ![lev].pending = TRUE, ![lev].predictor = predicted]
  BY DEF Descend
<1>4. levels'[lev] = [levels[lev] EXCEPT !.pending = TRUE, !.predictor = predicted]
  BY <1>1, <1>2, <1>3
<1>5. levels[lev] \in Level
  BY <1>1, <1>2
<1>6. levels'[lev] \in Level
  BY <1>4, <1>5 DEF Level
<1>7. \A l \in TimeLevels : l # lev => levels'[l] = levels[l]
  BY <1>1, <1>2, <1>3
<1>8. levels' \in [TimeLevels -> Level]
  <2>1. levels' = [l \in TimeLevels |-> levels'[l]]
    BY <1>2, <1>3
  <2>2. \A l \in TimeLevels : levels'[l] \in Level
    BY <1>2, <1>6, <1>7
  <2> QED
    BY <2>1, <2>2
<1>9. /\ levels'[lev].pending = TRUE /\ levels'[lev].predictor = predicted
      /\ levels'[lev].bank = levels[lev].bank
      /\ levels'[lev].begin = levels[lev].begin /\ levels'[lev].end = levels[lev].end
  BY <1>4, <1>5 DEF Level
<1>10. CASE IsFinest(lev)
  <2>1. pc' = "reflux" /\ lev' = lev /\ frame' = frame
    BY <1>10 DEF Descend
  <2> QED
    BY <1>1, <1>7, <1>8, <1>9, <1>10, <2>1
<1>11. CASE ~IsFinest(lev)
  <2>1. PICK m \in TimeLevels : lev < m
    BY <1>1, <1>11, NotFinest
  <2>2. /\ Finer(lev) \in TimeLevels /\ lev < Finer(lev)
        /\ \A k \in TimeLevels : k < Finer(lev) => k <= lev
    BY <1>1, <2>1, FinerLevel
  <2>3. Finer(lev) \in Nat /\ frame[lev].step \in Nat
    BY <1>1, <2>2, LevelSet, OpenClock
  <2> DEFINE P == 2^(Finer(lev) - lev)
             q == frame[lev].step \div P
  <2>4. P \in Nat \ {0}
    <3>1. Finer(lev) - lev \in Nat
      BY <1>1, <2>2, <2>3
    <3> QED
      BY <3>1, Power
  <2>5. q \in Nat /\ q <= frame[lev].step
    <3> HIDE DEF P
    <3>1. q \in Nat /\ P * q <= frame[lev].step
      BY <2>3, <2>4, Quotient
    <3> HIDE DEF q
    <3>2. q <= P * q
      BY <2>4, <3>1
    <3> QED
      BY <2>3, <2>4, <3>1, <3>2
  <2>6. /\ pc' = "entry" /\ lev' = Finer(lev)
        /\ frame' = [frame EXCEPT ![Finer(lev)] =
             [begin |-> At(lev), duration |-> frame[lev].step, step |-> q, elapsed |-> 0]]
    BY <1>11 DEF Descend, Now, At
  <2> HIDE DEF P
  <2>7. q = frame[lev].step \div 2^(Finer(lev) - lev)
    BY DEF P
  <2> HIDE DEF q
  <2> QED
    BY <1>1, <1>7, <1>8, <1>9, <1>11, <2>2, <2>5, <2>6, <2>7
<1> QED
  BY <1>10, <1>11

(* CompleteStep goes on at its level, publishes, or returns to the coarser one. *)
LEMMA Completed ==
  ASSUME TypeOK, Control, Clock, Underway, Stepping, CompleteStep
  PROVE  /\ lev \in TimeLevels
         /\ frame' = [frame EXCEPT ![lev].elapsed = frame[lev].elapsed + frame[lev].step]
         /\ steps' = [s \in Spatial |-> IF TimeLevel(s) = lev /\ steps[s] < MaxTime THEN steps[s] + 1 ELSE steps[s]]
         /\ \/ /\ frame[lev].elapsed + frame[lev].step < frame[lev].duration
               /\ pc' = "cfl" /\ lev' = lev
            \/ /\ frame[lev].elapsed + frame[lev].step = frame[lev].duration
               /\ lev = Coarsest /\ pc' = "normalize" /\ lev' = lev
            \/ /\ frame[lev].elapsed + frame[lev].step = frame[lev].duration
               /\ lev # Coarsest /\ pc' = "reflux" /\ lev' = Coarser(lev)
               /\ Coarser(lev) \in TimeLevels /\ Coarser(lev) < lev /\ Finer(Coarser(lev)) = lev
               /\ ~IsFinest(Coarser(lev)) /\ \A k \in TimeLevels : k < lev => k <= Coarser(lev)
<1>1. lev \in TimeLevels /\ lev \in Nat /\ option \in Options
  BY TypeParts, LevelSet DEF ControlType
<1>2. /\ frame[lev].elapsed \in Nat /\ frame[lev].step \in Nat /\ frame[lev].duration \in Nat
      /\ frame[lev].elapsed + frame[lev].step <= frame[lev].duration
  BY <1>1, OpenClock
<1>3. frame' = [frame EXCEPT ![lev].elapsed = frame[lev].elapsed + frame[lev].step]
  BY DEF CompleteStep, NextElapsed
<1>4. steps' = [s \in Spatial |-> IF TimeLevel(s) = lev /\ steps[s] < MaxTime THEN steps[s] + 1 ELSE steps[s]]
  BY DEF CompleteStep, Own, Members
<1>5. CASE frame[lev].elapsed + frame[lev].step < frame[lev].duration
  BY <1>1, <1>3, <1>4, <1>5 DEF CompleteStep, NextElapsed
<1>6. CASE ~(frame[lev].elapsed + frame[lev].step < frame[lev].duration)
  <2>1. frame[lev].elapsed + frame[lev].step = frame[lev].duration
    BY <1>2, <1>6
  <2>2. lev = Coarsest => pc' = "normalize" /\ lev' = lev
    BY <1>6 DEF CompleteStep, NextElapsed
  <2>3. lev # Coarsest => /\ pc' = "reflux" /\ lev' = Coarser(lev)
                          /\ Coarser(lev) \in TimeLevels /\ Coarser(lev) < lev /\ Finer(Coarser(lev)) = lev
                          /\ ~IsFinest(Coarser(lev)) /\ \A k \in TimeLevels : k < lev => k <= Coarser(lev)
    BY <1>1, <1>6, CoarserLevel DEF CompleteStep, NextElapsed
  <2> QED
    BY <1>1, <1>3, <1>4, <2>1, <2>2, <2>3
<1> QED
  BY <1>5, <1>6

(* A refluxed level publishes its other bank. *)
LEMMA Alternation ==
  ASSUME TypeOK, Control, Underway, levels' = [levels EXCEPT ![lev].bank = Alternated(@)]
         \/ levels' = [levels EXCEPT ![lev].pending = FALSE, ![lev].bank = Alternated(@)]
  PROVE  /\ levels' \in [TimeLevels -> Level] /\ lev \in TimeLevels /\ levels \in [TimeLevels -> Level]
         /\ \A l \in TimeLevels : l # lev => levels'[l] = levels[l]
         /\ levels'[lev].bank = Other(levels[lev].bank) /\ Other(levels[lev].bank) \in {0, 1}
         /\ levels'[lev].begin = levels[lev].begin /\ levels'[lev].end = levels[lev].end
         /\ levels'[lev].predictor = levels[lev].predictor
<1>1. lev \in TimeLevels /\ levels \in [TimeLevels -> Level]
  BY TypeParts DEF Control, ControlType
<1>2. levels[lev] \in Level /\ levels[lev].bank \in {0, 1} /\ Other(levels[lev].bank) \in {0, 1}
  BY <1>1 DEF Level, Other
<1>3. \/ levels'[lev] = [levels[lev] EXCEPT !.bank = Other(levels[lev].bank)]
      \/ levels'[lev] = [levels[lev] EXCEPT !.pending = FALSE, !.bank = Other(levels[lev].bank)]
  BY <1>1 DEF Alternated
<1>4. /\ levels'[lev] \in Level
      /\ levels'[lev].bank = Other(levels[lev].bank)
      /\ levels'[lev].begin = levels[lev].begin /\ levels'[lev].end = levels[lev].end
      /\ levels'[lev].predictor = levels[lev].predictor
  BY <1>2, <1>3 DEF Level
<1>5. \A l \in TimeLevels : l # lev => levels'[l] = levels[l]
  BY <1>1
<1>6. levels' \in [TimeLevels -> Level]
  <2>1. levels' = [l \in TimeLevels |-> levels'[l]]
    BY <1>1
  <2>2. \A l \in TimeLevels : levels'[l] \in Level
    BY <1>1, <1>4, <1>5
  <2> QED
    BY <2>1, <2>2
<1> QED
  BY <1>1, <1>2, <1>4, <1>5, <1>6

(* What Timestep leaves of the levels and their clocks. *)
LEMMA Limited ==
  ASSUME TypeOK, Control, Clock, Timestep
  PROVE  /\ levels' \in [TimeLevels -> Level] /\ lev \in TimeLevels /\ levels \in [TimeLevels -> Level]
         /\ \A l \in TimeLevels : l # lev => levels'[l] = levels[l]
         /\ levels'[lev].bank = levels[lev].bank /\ levels'[lev].pending = levels[lev].pending
         /\ \E step \in Nat \ {0} :
              /\ step \in Halvings(frame[lev].step) /\ frame[lev].elapsed + step <= frame[lev].duration
              /\ step <= MaxTime /\ At(lev) + step <= MaxTime
              /\ frame' = [frame EXCEPT ![lev].step = step]
              /\ levels'[lev].begin = At(lev) /\ levels'[lev].end = At(lev) + step
<1>1. PICK step \in Nat \ {0} :
        /\ step \in Halvings(frame[lev].step) /\ frame[lev].elapsed + step <= frame[lev].duration
        /\ step <= MaxTime /\ At(lev) + step <= MaxTime
        /\ frame' = [frame EXCEPT ![lev].step = step]
        /\ levels' = [levels EXCEPT ![lev].begin = At(lev), ![lev].end = At(lev) + step]
  BY ChosenStep
<1>2. mode = "running" /\ pc = "cfl" /\ lev \in TimeLevels /\ At(lev) \in Nat
  BY ChosenStep
<1>3. levels \in [TimeLevels -> Level]
  BY <1>2 DEF Control, Underway
<1>4. levels'[lev] = [levels[lev] EXCEPT !.begin = At(lev), !.end = At(lev) + step]
  BY <1>1, <1>2, <1>3
<1>5. levels[lev] \in Level /\ At(lev) \in Ticks /\ At(lev) + step \in Ticks
  BY <1>1, <1>2, <1>3, BoundAssumption DEF Ticks
<1>6. /\ levels'[lev] \in Level
      /\ levels'[lev].bank = levels[lev].bank /\ levels'[lev].pending = levels[lev].pending
      /\ levels'[lev].begin = At(lev) /\ levels'[lev].end = At(lev) + step
  BY <1>4, <1>5 DEF Level
<1>7. \A l \in TimeLevels : l # lev => levels'[l] = levels[l]
  BY <1>1, <1>2, <1>3
<1>8. levels' \in [TimeLevels -> Level]
  <2>1. levels' = [l \in TimeLevels |-> levels'[l]]
    BY <1>1, <1>3
  <2>2. \A l \in TimeLevels : levels'[l] \in Level
    BY <1>3, <1>6, <1>7
  <2> QED
    BY <2>1, <2>2
<1> QED
  BY <1>1, <1>2, <1>3, <1>6, <1>7, <1>8

-----------------------------------------------------------------------------
(* The recursion's program counter. *)
LEMMA ControlStep ==
  ASSUME TypeOK, Control, Clock, Next
  PROVE  Control' /\ ControlType' /\ LevelType'
<1> USE DEF Running
<1>0. option' = option /\ option \in Options
  BY TypeParts DEF Next
<1>1. /\ TimeLevels' = TimeLevels /\ Coarsest' = Coarsest /\ Coupled' = Coupled /\ Floored' = Floored
      /\ Coarsest \in TimeLevels /\ Ticks' = Ticks /\ Level' = Level
  BY <1>0, OptionKept, CoarsestLevel DEF Ticks, Level
<1>2. ControlType /\ LevelType
  BY TypeParts
<1> DEFINE Plain == levels' = levels
<1>3. ASSUME levels' = levels \/ levels' = <<>>
      PROVE  LevelType'
  BY <1>1, <1>2, <1>3 DEF LevelType
<1>4. ASSUME levels' \in [TimeLevels -> Level]
      PROVE  LevelType'
  BY <1>1, <1>4 DEF LevelType
<1>5. MaxTime \in Nat /\ option.durations \subseteq Nat \ {0}
  BY <1>0, OptionAssumption, BoundAssumption
<1>6. CASE \E dt \in option.durations : Start(dt)
  BY <1>1, <1>2, <1>3, <1>6 DEF Start, Control, ControlType, InRecursion, Underway
<1>7. CASE Checkpoint
  BY <1>1, <1>2, <1>3, <1>7 DEF Checkpoint, Control, ControlType, InRecursion, Underway, accounts, coupling, call
<1>8. CASE ProbeAll
  BY <1>1, <1>2, <1>3, <1>8 DEF ProbeAll, Control, ControlType, InRecursion, Underway, accounts, coupling, call
<1>9. CASE Backup
  <2>1. levels' \in [TimeLevels -> Level]
    <3>1. 0 \in Ticks
      BY <1>5 DEF Ticks
    <3> QED
      BY <1>2, <1>9, <3>1 DEF Backup, Level, ControlType
  <2> QED
    BY <1>1, <1>2, <1>4, <1>9, <2>1 DEF Backup, Control, ControlType, InRecursion, Underway, accounts, coupling, call
<1>10. CASE ResetFlux
  BY <1>1, <1>2, <1>3, <1>10 DEF ResetFlux, Control, ControlType, InRecursion, Underway, accounts, coupling, call
<1>11. CASE Timestep
  <2>1. levels' \in [TimeLevels -> Level]
    BY <1>11, Limited
  <2>2. mode' = mode /\ lev' = lev /\ bank' = bank /\ time' = time /\ outcome' = outcome
    BY <1>11 DEF Timestep, accounts, call
  <2>3. mode = "running" /\ pc = "cfl" /\ pc' = (IF Coupled THEN "save" ELSE "advance")
    BY <1>11, ChosenStep
  <2> QED
    BY <1>1, <1>2, <1>4, <2>1, <2>2, <2>3 DEF Control, ControlType, InRecursion, Underway
<1>12. CASE SaveRadiationStep
  BY <1>1, <1>2, <1>3, <1>12 DEF SaveRadiationStep, Control, ControlType, InRecursion, Underway, accounts, coupling, call
<1>13. CASE Probe
  BY <1>1, <1>2, <1>3, <1>13 DEF Probe, Control, ControlType, InRecursion, Underway, accounts, coupling, call
<1>14. CASE PredictRadiationStep
  BY <1>1, <1>2, <1>3, <1>14 DEF PredictRadiationStep, Control, ControlType, InRecursion, Underway, accounts, coupling, call
<1>15. ASSUME mode = "running", Stepping, NEW predicted \in BOOLEAN, Descend(predicted),
              mode' = mode, bank' = bank, time' = time, outcome' = outcome
       PROVE  Control' /\ ControlType' /\ LevelType'
  <2>1. Underway
    BY <1>15 DEF Underway, Stepping
  <2>2. /\ lev \in TimeLevels /\ levels' \in [TimeLevels -> Level]
        /\ \/ pc' = "reflux" /\ lev' = lev
           \/ pc' = "entry" /\ lev' = Finer(lev) /\ Finer(lev) \in TimeLevels
    BY <1>15, <2>1, Descended
  <2> QED
    BY <1>1, <1>2, <1>4, <1>15, <2>2 DEF Control, ControlType, InRecursion, Underway
<1>16. CASE Advance
  <2>1. mode = "running" /\ pc = "advance" /\ mode' = mode /\ bank' = bank /\ time' = time /\ outcome' = outcome
    BY <1>16 DEF Advance, call
  <2>2. CASE Coupled
    BY <1>1, <1>2, <1>3, <1>16, <2>2 DEF Advance, Control, ControlType, InRecursion, Underway, call
  <2>3. CASE ~Coupled
    BY <1>15, <1>16, <2>1, <2>3 DEF Advance, Stepping
  <2> QED
    BY <2>2, <2>3
<1>17. CASE ForecastRadiationStep
  <2>1. mode = "running" /\ pc = "forecast" /\ mode' = mode /\ bank' = bank /\ time' = time /\ outcome' = outcome
    BY <1>17 DEF ForecastRadiationStep, accounts, call
  <2> QED
    BY <1>15, <1>17, <2>1 DEF ForecastRadiationStep, Stepping
<1>18. ASSUME mode = "running", pc \in {"reflux", "finish"}, CompleteStep, levels' \in [TimeLevels -> Level],
              mode' = mode, bank' = bank, time' = time, outcome' = outcome
       PROVE  Control' /\ ControlType' /\ LevelType'
  <2>1. Underway /\ Stepping
    BY <1>18 DEF Underway, Stepping
  <2>2. /\ lev \in TimeLevels
        /\ \/ pc' = "cfl" /\ lev' = lev
           \/ lev = Coarsest /\ pc' = "normalize" /\ lev' = lev
           \/ pc' = "reflux" /\ lev' = Coarser(lev) /\ Coarser(lev) \in TimeLevels
    BY <1>18, <2>1, Completed
  <2> QED
    BY <1>1, <1>2, <1>4, <1>18, <2>2 DEF Control, ControlType, InRecursion, Underway
<1>19. CASE Reflux
  <2>1. mode = "running" /\ pc = "reflux" /\ mode' = mode /\ bank' = bank /\ time' = time /\ outcome' = outcome
    BY <1>19 DEF Reflux, call
  <2>2. levels' \in [TimeLevels -> Level]
    <3>1. Underway /\ levels' = [levels EXCEPT ![lev].pending = FALSE, ![lev].bank = Alternated(@)]
      BY <1>19, <2>1 DEF Reflux, Underway
    <3> QED
      BY <3>1, Alternation
  <2>3. CASE Coupled
    <3>1. pc' = "finish" /\ lev' = lev
      BY <1>19, <2>3 DEF Reflux
    <3> QED
      BY <1>1, <1>2, <1>4, <2>1, <2>2, <2>3, <3>1 DEF Control, ControlType, InRecursion, Underway
  <2>4. CASE ~Coupled
    BY <1>18, <1>19, <2>1, <2>2, <2>4 DEF Reflux
  <2> QED
    BY <2>3, <2>4
<1>20. CASE FinishRadiationStep
  <2>1. mode = "running" /\ pc = "finish" /\ mode' = mode /\ bank' = bank /\ time' = time /\ outcome' = outcome
    BY <1>20 DEF FinishRadiationStep, call
  <2>2. levels' \in [TimeLevels -> Level]
    <3>1. Underway /\ levels' = [levels EXCEPT ![lev].bank = Alternated(@)]
      BY <1>20, <2>1 DEF FinishRadiationStep, Underway
    <3> QED
      BY <3>1, Alternation
  <2> QED
    BY <1>18, <1>20, <2>1, <2>2 DEF FinishRadiationStep
<1>21. CASE Normalize
  BY <1>1, <1>2, <1>3, <1>21 DEF Normalize, Control, ControlType, InRecursion, Underway, accounts, coupling, call
<1>22. CASE Publish
  <2>1. time + frame[Coarsest].duration \in Ticks
    <3>1. mode = "running" /\ pc = "publish" /\ Underway /\ lev = Coarsest
      BY <1>22 DEF Publish, Underway, Control, InRecursion
    <3>2. time = frame[Coarsest].begin
      BY <3>1 DEF Clock
    <3>3. /\ frame[Coarsest].begin \in Nat /\ frame[Coarsest].duration \in Nat
          /\ frame[Coarsest].begin + frame[Coarsest].duration <= MaxTime
      <4>1. Coarsest <= lev
        BY <1>0, <1>1, <3>1, LevelSet
      <4> QED
        BY <1>1, <3>1, <4>1, OpenClock
    <3> QED
      BY <1>5, <3>2, <3>3 DEF Ticks
  <2>2. bank' \in {0, 1}
    BY <1>2, <1>22 DEF Publish, Other, ControlType
  <2> QED
    BY <1>1, <1>2, <1>3, <1>22, <2>1, <2>2 DEF Publish, Control, ControlType, InRecursion, Underway
<1>23. CASE Floor
  BY <1>1, <1>2, <1>3, <1>23 DEF Floor, Control, ControlType, InRecursion, Underway, accounts, coupling, call
<1>24. CASE Fails
  BY <1>1, <1>2, <1>3, <1>24 DEF Fails, Handler, Control, ControlType, InRecursion, Underway
<1>25. CASE Restore \/ RestoreFails
  BY <1>1, <1>2, <1>3, <1>25 DEF Restore, RestoreFails, Control, ControlType, InRecursion, Underway, accounts, coupling, call
<1>26. CASE Recover \/ RecoverFails
  <2>1. backup.bank \in {0, 1} /\ backup.time \in Ticks
    BY TypeParts DEF BackupType
  <2> QED
    BY <1>1, <1>2, <1>3, <1>26, <2>1 DEF Recover, RecoverFails, Control, ControlType, InRecursion, Underway, accounts, coupling, call
<1>27. CASE Finished
  BY <1>1, <1>2, <1>3, <1>27 DEF Finished, vars, Control, ControlType, InRecursion, Underway, accounts, coupling, call
<1> QED
  BY <1>6, <1>7, <1>8, <1>9, <1>10, <1>11, <1>12, <1>13, <1>14, <1>16, <1>17, <1>19, <1>20, <1>21, <1>22, <1>23,
     <1>24, <1>25, <1>26, <1>27 DEF Next, Phase

-----------------------------------------------------------------------------
(* What the phases leave in the banks. *)
LEMMA LevelWritten ==
  ASSUME TypeOK, Control, Underway, option' = option, NEW item \in Item,
         data' = [s \in Spatial |-> IF s \in Own THEN [data[s] EXCEPT ![OtherBanks[s]] = item] ELSE data[s]]
  PROVE  /\ DataType' /\ lev \in TimeLevels
         /\ \A l \in TimeLevels : levels[l] \in Level
         /\ \A s \in Spatial : \A c \in Bank :
              data'[s][c] = IF TimeLevel(s) = lev /\ c = Other(levels[lev].bank) THEN item ELSE data[s][c]
<1>1. /\ option \in Options /\ data \in [Spatial -> [Bank -> Item]] /\ lev \in TimeLevels
      /\ levels \in [TimeLevels -> Level] /\ Spatial' = Spatial
  BY TypeParts, OptionKept DEF DataType, ControlType, Control
<1>2. \A s \in Spatial : TimeLevel(s) \in TimeLevels
  BY <1>1, LevelSet
<1>3. OtherBanks \in [Spatial -> Bank]
  <2>1. \A l \in TimeLevels : Other(levels[l].bank) \in Bank
    BY <1>1 DEF Level, Other, Bank
  <2> QED
    BY <1>2, <2>1 DEF OtherBanks
<1> DEFINE value == [s \in Spatial |-> item]
<1>4. value \in [Spatial -> Item]
  OBVIOUS
<1>5. data' = [s \in Spatial |-> IF s \in Own THEN [data[s] EXCEPT ![OtherBanks[s]] = value[s]] ELSE data[s]]
  OBVIOUS
<1> HIDE DEF value
<1>6. /\ data' \in [Spatial -> [Bank -> Item]]
      /\ \A s \in Spatial : \A c \in Bank :
           data'[s][c] = IF s \in Own /\ c = OtherBanks[s] THEN value[s] ELSE data[s][c]
  BY <1>1, <1>3, <1>4, <1>5, BankWritten
<1>7. DataType'
  BY <1>1, <1>6, BoundAssumption DEF DataType, Item, Ticks, Kinds, Bank
<1>8. \A s \in Spatial : s \in Own <=> TimeLevel(s) = lev
  BY DEF Own, Members
<1>9. \A s \in Spatial : value[s] = item
  BY DEF value
<1>10. \A s \in Spatial : OtherBanks[s] = Other(levels[TimeLevel(s)].bank)
  BY DEF OtherBanks
<1> QED
  BY <1>1, <1>6, <1>7, <1>8, <1>9, <1>10

(* A torn phase leaves the other banks alone. *)
LEMMA BankTorn ==
  ASSUME TypeOK, option' = option, NEW cells, data' = TornIn(cells)
  PROVE  /\ DataType'
         /\ \A s \in Spatial : \A c \in Bank : <<s, c>> \notin cells => data'[s][c] = data[s][c]
<1>1. data \in [Spatial -> [Bank -> Item]] /\ Spatial' = Spatial
  BY TypeParts, OptionKept DEF DataType
<1>2. Content(0, "torn") \in Item
  BY BoundAssumption DEF Content, Item, Ticks, Kinds
<1>3. data' \in [Spatial -> [Bank -> Item]]
  BY <1>1, <1>2 DEF TornIn
<1>4. DataType'
  BY <1>1, <1>3 DEF DataType, Item, Ticks, Kinds, Bank
<1> QED
  BY <1>1, <1>4 DEF TornIn

(* A content a phase writes is well formed. *)
LEMMA ItemFormed ==
  ASSUME NEW t \in Ticks, NEW k \in Kinds
  PROVE  Content(t, k) \in Item
  BY DEF Content, Item

(* The times of a substep are ticks of the interval. *)
LEMMA StepTimes ==
  ASSUME TypeOK, Control, Clock, Underway
  PROVE  /\ lev \in TimeLevels /\ Now \in Ticks /\ At(lev) = Now /\ EndOf(lev) = End
         /\ Stepping => End \in Ticks
<1>1. lev \in TimeLevels /\ lev <= lev
  BY TypeParts, LevelSet DEF ControlType
<1>2. Now = At(lev) /\ End = EndOf(lev)
  BY DEF Now, End, At, EndOf
<1>3. At(lev) \in Nat /\ At(lev) <= MaxTime /\ MaxTime \in Nat
  BY <1>1, OpenClock
<1>4. Stepping => EndOf(lev) \in Nat /\ EndOf(lev) <= MaxTime
  BY <1>1, OpenClock
<1> QED
  BY <1>1, <1>2, <1>3, <1>4 DEF Ticks

(* The phases that write the unpublished bank of one time level. *)
LEMMA SubstepWrites ==
  ASSUME TypeOK, Control, Clock, option' = option,
         Probe \/ Advance \/ Reflux \/ FinishRadiationStep
  PROVE  /\ DataType' /\ lev \in TimeLevels
         /\ \A l \in TimeLevels : levels[l] \in Level
         /\ \E item \in Item :
              /\ Probe => item = Content(Now, "probe")
              /\ Advance => item = Content(End, "transport")
              /\ Reflux => item = Content(End, IF Coupled THEN "drive" ELSE "state")
              /\ FinishRadiationStep => item = Content(End, "state")
              /\ \A s \in Spatial : \A c \in Bank :
                   data'[s][c] = IF TimeLevel(s) = lev /\ c = Other(levels[lev].bank) THEN item ELSE data[s][c]
<1>1. Underway /\ (~Probe => Stepping)
  BY DEF Probe, Advance, Reflux, FinishRadiationStep, Running, Underway, Stepping
<1>2. \E item \in Item :
        /\ Probe => item = Content(Now, "probe")
        /\ Advance => item = Content(End, "transport")
        /\ Reflux => item = Content(End, IF Coupled THEN "drive" ELSE "state")
        /\ FinishRadiationStep => item = Content(End, "state")
        /\ data' = [s \in Spatial |-> IF s \in Own THEN [data[s] EXCEPT ![OtherBanks[s]] = item] ELSE data[s]]
  <2>0. Now \in Ticks /\ (Stepping => End \in Ticks)
    BY <1>1, StepTimes
  <2>1. CASE Probe
    <3>1. data' = [s \in Spatial |-> IF s \in Own THEN [data[s] EXCEPT ![OtherBanks[s]] = Content(Now, "probe")] ELSE data[s]]
      BY <2>1 DEF Probe, Stored
    <3>2. ~Advance /\ ~Reflux /\ ~FinishRadiationStep
      BY <2>1 DEF Probe, Advance, Reflux, FinishRadiationStep, Running
    <3>3. Content(Now, "probe") \in Item
      BY <2>0, ItemFormed DEF Kinds
    <3> QED
      BY <3>1, <3>2, <3>3
  <2>2. CASE Advance
    <3>1. data' = [s \in Spatial |-> IF s \in Own THEN [data[s] EXCEPT ![OtherBanks[s]] = Content(End, "transport")] ELSE data[s]]
      BY <2>2 DEF Advance, Stored
    <3>2. ~Probe /\ ~Reflux /\ ~FinishRadiationStep
      BY <2>2 DEF Probe, Advance, Reflux, FinishRadiationStep, Running
    <3>3. Content(End, "transport") \in Item
      BY <1>1, <2>0, <3>2, ItemFormed DEF Kinds
    <3> QED
      BY <3>1, <3>2, <3>3
  <2>3. CASE Reflux
    <3>1. data' = [s \in Spatial |-> IF s \in Own THEN [data[s] EXCEPT ![OtherBanks[s]] =
                     Content(End, IF Coupled THEN "drive" ELSE "state")] ELSE data[s]]
      BY <2>3 DEF Reflux, Stored
    <3>2. ~Probe /\ ~Advance /\ ~FinishRadiationStep
      BY <2>3 DEF Probe, Advance, Reflux, FinishRadiationStep, Running
    <3>3. Content(End, IF Coupled THEN "drive" ELSE "state") \in Item
      BY <1>1, <2>0, <3>2, ItemFormed DEF Kinds
    <3> QED
      BY <3>1, <3>2, <3>3
  <2>4. CASE FinishRadiationStep
    <3>1. data' = [s \in Spatial |-> IF s \in Own THEN [data[s] EXCEPT ![OtherBanks[s]] = Content(End, "state")] ELSE data[s]]
      BY <2>4 DEF FinishRadiationStep, Stored
    <3>2. ~Probe /\ ~Advance /\ ~Reflux
      BY <2>4 DEF Probe, Advance, Reflux, FinishRadiationStep, Running
    <3>3. Content(End, "state") \in Item
      BY <1>1, <2>0, <3>2, ItemFormed DEF Kinds
    <3> QED
      BY <3>1, <3>2, <3>3
  <2> QED
    BY <2>1, <2>2, <2>3, <2>4
<1>3. PICK item \in Item :
        /\ Probe => item = Content(Now, "probe")
        /\ Advance => item = Content(End, "transport")
        /\ Reflux => item = Content(End, IF Coupled THEN "drive" ELSE "state")
        /\ FinishRadiationStep => item = Content(End, "state")
        /\ data' = [s \in Spatial |-> IF s \in Own THEN [data[s] EXCEPT ![OtherBanks[s]] = item] ELSE data[s]]
  BY <1>2
<1>4. /\ DataType' /\ lev \in TimeLevels
      /\ \A l \in TimeLevels : levels[l] \in Level
      /\ \A s \in Spatial : \A c \in Bank :
           data'[s][c] = IF TimeLevel(s) = lev /\ c = Other(levels[lev].bank) THEN item ELSE data[s][c]
  BY <1>1, <1>3, LevelWritten
<1> QED
  BY <1>3, <1>4

(* The forecast keeps a bank of its own. *)
LEMMA ForecastWrites ==
  ASSUME TypeOK, Control, Clock, option' = option, ForecastRadiationStep
  PROVE  /\ DataType'
         /\ \A s \in Spatial : \A c \in Bank :
              data'[s][c] = IF TimeLevel(s) = lev /\ c = 3 THEN Content(End, "forecast") ELSE data[s][c]
<1>1. Underway /\ Stepping
  BY DEF ForecastRadiationStep, Running, Underway, Stepping
<1>2. Content(End, "forecast") \in Item
  BY <1>1, StepTimes, ItemFormed DEF Kinds
<1> DEFINE value == [s \in Spatial |-> Content(End, "forecast")]
<1>3. value \in [Spatial -> Item] /\ \A s \in Spatial : value[s] = Content(End, "forecast")
  BY <1>2
<1> DEFINE banks == [s \in Spatial |-> 3]
<1>4. banks \in [Spatial -> Bank] /\ \A s \in Spatial : banks[s] = 3
  BY DEF Bank
<1>5. data' = [s \in Spatial |-> IF s \in Own THEN [data[s] EXCEPT ![banks[s]] = value[s]] ELSE data[s]]
  BY DEF ForecastRadiationStep, Stored
<1> HIDE DEF value, banks
<1>6. /\ data' \in [Spatial -> [Bank -> Item]]
      /\ \A s \in Spatial : \A c \in Bank :
           data'[s][c] = IF s \in Own /\ c = banks[s] THEN value[s] ELSE data[s][c]
  <2>1. data \in [Spatial -> [Bank -> Item]]
    BY TypeParts DEF DataType
  <2> QED
    BY <1>3, <1>4, <1>5, <2>1, BankWritten
<1>7. DataType'
  <2>1. Spatial' = Spatial
    BY TypeParts, OptionKept
  <2> QED
    BY <1>6, <2>1 DEF DataType, Item, Ticks, Kinds, Bank
<1>8. \A s \in Spatial : s \in Own <=> TimeLevel(s) = lev
  BY DEF Own, Members
<1> QED
  BY <1>3, <1>4, <1>6, <1>7, <1>8

(* The phases that write one bank of every level. *)
LEMMA WholeWrites ==
  ASSUME TypeOK, Control, Clock, option' = option
  PROVE  /\ ProbeAll => DataType' /\ \A s \in Spatial : \A c \in Bank :
              data'[s][c] = IF c = Other(bank) THEN Content(time, "probe") ELSE data[s][c]
         /\ Backup => DataType' /\ \A s \in Spatial : \A c \in Bank :
              data'[s][c] = IF c = 2 THEN data[s][bank] ELSE data[s][c]
         /\ Normalize => DataType' /\ \A s \in Spatial : \A c \in Bank :
              data'[s][c] = IF c = Other(bank) THEN data[s][levels[TimeLevel(s)].bank] ELSE data[s][c]
         /\ Restore => DataType' /\ \A s \in Spatial : \A c \in Bank :
              data'[s][c] = IF c = bank THEN data[s][2] ELSE data[s][c]
         /\ Recover => DataType' /\ \A s \in Spatial : \A c \in Bank :
              data'[s][c] = IF c = backup.bank THEN backup.state[s] ELSE data[s][c]
<1>1. /\ option \in Options /\ data \in [Spatial -> [Bank -> Item]] /\ time \in Ticks /\ bank \in {0, 1}
      /\ backup.bank \in {0, 1} /\ backup.state \in [Spatial -> Item]
  BY TypeParts DEF DataType, ControlType, BackupType
<1>2. bank \in Bank /\ Other(bank) \in Bank /\ backup.bank \in Bank /\ 2 \in Bank
  BY <1>1 DEF Other, Bank
<1>3. ASSUME data' \in [Spatial -> [Bank -> Item]]
      PROVE  DataType'
  <2>1. Spatial' = Spatial
    BY <1>1, OptionKept
  <2> QED
    BY <1>3, <2>1 DEF DataType, Item, Ticks, Kinds, Bank
<1>4. ASSUME ProbeAll
      PROVE  DataType' /\ \A s \in Spatial : \A c \in Bank :
               data'[s][c] = IF c = Other(bank) THEN Content(time, "probe") ELSE data[s][c]
  <2>1. data' = [s \in Spatial |-> [data[s] EXCEPT ![Other(bank)] = Content(time, "probe")]]
    BY <1>4 DEF ProbeAll, Stored
  <2>2. \A s \in Spatial : Content(time, "probe") \in Item
    BY <1>1, ItemFormed DEF Kinds
  <2>3. data' \in [Spatial -> [Bank -> Item]]
    BY <1>1, <1>2, <2>1, <2>2
  <2> QED
    BY <1>1, <1>3, <2>1, <2>3
<1>5. ASSUME Backup
      PROVE  DataType' /\ \A s \in Spatial : \A c \in Bank :
               data'[s][c] = IF c = 2 THEN data[s][bank] ELSE data[s][c]
  <2>1. data' = [s \in Spatial |-> [data[s] EXCEPT ![2] = data[s][bank]]]
    BY <1>5 DEF Backup, Stored, BackupSource
  <2>2. \A s \in Spatial : data[s][bank] \in Item
    BY <1>1, <1>2
  <2>3. data' \in [Spatial -> [Bank -> Item]]
    BY <1>1, <1>2, <2>1, <2>2
  <2> QED
    BY <1>1, <1>3, <2>1, <2>3
<1>6. ASSUME Normalize
      PROVE  DataType' /\ \A s \in Spatial : \A c \in Bank :
               data'[s][c] = IF c = Other(bank) THEN data[s][levels[TimeLevel(s)].bank] ELSE data[s][c]
  <2>0. \A s \in Spatial : levels[TimeLevel(s)].bank \in Bank
    <3>1. levels \in [TimeLevels -> Level]
      BY <1>6 DEF Normalize, Running, Underway, Control
    <3> QED
      BY <1>1, <3>1, LevelSet DEF Level, Bank
  <2>1. data' = [s \in Spatial |-> [data[s] EXCEPT ![Other(bank)] = data[s][levels[TimeLevel(s)].bank]]]
    BY <1>6 DEF Normalize, Stored
  <2>2. \A s \in Spatial : data[s][levels[TimeLevel(s)].bank] \in Item
    BY <1>1, <2>0
  <2>3. data' \in [Spatial -> [Bank -> Item]]
    BY <1>1, <1>2, <2>1, <2>2
  <2> QED
    BY <1>1, <1>3, <2>1, <2>3
<1>7. ASSUME Restore
      PROVE  DataType' /\ \A s \in Spatial : \A c \in Bank :
               data'[s][c] = IF c = bank THEN data[s][2] ELSE data[s][c]
  <2>1. data' = [s \in Spatial |-> [data[s] EXCEPT ![bank] = data[s][2]]]
    BY <1>7 DEF Restore, Stored
  <2>2. \A s \in Spatial : data[s][2] \in Item
    BY <1>1, <1>2
  <2>3. data' \in [Spatial -> [Bank -> Item]]
    BY <1>1, <1>2, <2>1, <2>2
  <2> QED
    BY <1>1, <1>3, <2>1, <2>3
<1>8. ASSUME Recover
      PROVE  DataType' /\ \A s \in Spatial : \A c \in Bank :
               data'[s][c] = IF c = backup.bank THEN backup.state[s] ELSE data[s][c]
  <2>1. data' = [s \in Spatial |-> [data[s] EXCEPT ![backup.bank] = backup.state[s]]]
    BY <1>8 DEF Recover, Stored, RecoveryBank
  <2>2. \A s \in Spatial : backup.state[s] \in Item
    BY <1>1
  <2>3. data' \in [Spatial -> [Bank -> Item]]
    BY <1>1, <1>2, <2>1, <2>2
  <2> QED
    BY <1>1, <1>3, <2>1, <2>3
<1> QED
  BY <1>4, <1>5, <1>6, <1>7, <1>8

(* Every step keeps the types of the data. *)
LEMMA DataStep ==
  ASSUME TypeOK, Control, Clock, Next
  PROVE  DataType'
<1>1. option' = option /\ option \in Options /\ DataType /\ Spatial' = Spatial
  BY TypeParts, OptionKept DEF Next
<1>2. ASSUME data' = data
      PROVE  DataType'
  BY <1>1, <1>2 DEF DataType, Item, Ticks, Kinds, Bank
<1>3. CASE \E dt \in option.durations : Start(dt)
  <2>1. Unset \in Item
    BY BoundAssumption DEF Unset, Content, Item, Ticks, Kinds
  <2>2. data' \in [Spatial -> [Bank -> Item]]
    BY <1>1, <1>3, <2>1 DEF Start, OnlyPublished, DataType
  <2> QED
    BY <1>1, <2>2 DEF DataType, Item, Ticks, Kinds, Bank
<1>4. CASE ProbeAll \/ Backup \/ Normalize \/ Restore \/ Recover
  BY <1>1, <1>4, WholeWrites
<1>5. CASE Probe \/ Advance \/ Reflux \/ FinishRadiationStep
  BY <1>1, <1>5, SubstepWrites
<1>6. CASE ForecastRadiationStep
  BY <1>1, <1>6, ForecastWrites
<1>7. CASE Fails \/ RestoreFails \/ RecoverFails
  BY <1>1, <1>7, BankTorn DEF Fails, RestoreFails, RecoverFails
<1>8. CASE Checkpoint \/ ResetFlux \/ Timestep \/ SaveRadiationStep \/ PredictRadiationStep \/ Publish \/ Floor
  BY <1>2, <1>8 DEF Checkpoint, ResetFlux, Timestep, SaveRadiationStep, PredictRadiationStep, Publish, Floor
<1>9. CASE Finished
  BY <1>2, <1>9 DEF Finished, vars
<1> QED
  BY <1>3, <1>4, <1>5, <1>6, <1>7, <1>8, <1>9 DEF Next, Phase

-----------------------------------------------------------------------------
(* The nested clock. *)
LEMMA FrameFields ==
  ASSUME TypeOK, NEW l \in TimeLevels
  PROVE  /\ frame \in [TimeLevels -> Frame] /\ l \in Nat /\ lev \in Nat
         /\ frame[l].begin \in Nat /\ frame[l].elapsed \in Nat /\ frame[l].step \in Nat /\ frame[l].duration \in Nat
         /\ MaxTime \in Nat /\ time \in Nat /\ lev \in TimeLevels /\ option \in Options
<1>1. frame \in [TimeLevels -> Frame] /\ lev \in TimeLevels /\ option \in Options /\ time \in Ticks
  BY TypeParts DEF FrameType, ControlType
<1>2. frame[l] \in Frame /\ MaxTime \in Nat
  BY <1>1, BoundAssumption
<1> QED
  BY <1>1, <1>2, LevelSet DEF Frame, Ticks

(* A descent keeps the clocks nested. *)
LEMMA DescendClock ==
  ASSUME TypeOK, Control, Clock, Underway, Stepping, option' = option, NEW predicted \in BOOLEAN, Descend(predicted),
         mode' = mode, time' = time, backup' = backup
  PROVE  Clock' /\ FrameType'
<1>1. /\ TimeLevels' = TimeLevels /\ Coarsest' = Coarsest /\ Coupled' = Coupled
      /\ \A l : Finer(l)' = Finer(l)
  BY OptionKept
<1>2. /\ lev \in TimeLevels /\ lev \in Nat /\ option \in Options /\ frame \in [TimeLevels -> Frame]
      /\ MaxTime \in Nat /\ time \in Nat
  BY TypeParts, FrameFields DEF ControlType
<1>3. \A l \in TimeLevels : l \in Nat /\ Coarsest <= l /\ Coarsest \in TimeLevels
  BY <1>2, LevelSet, CoarsestLevel
<1>4. CASE IsFinest(lev) /\ pc' = "reflux" /\ lev' = lev /\ frame' = frame
  <2>1. \A l \in TimeLevels : Nested(l)' = Nested(l) /\ Within(l)' = Within(l)
    BY <1>1, <1>4 DEF Nested, Within, At
  <2>2. FrameType'
    BY <1>1, <1>2, <1>4 DEF FrameType, Frame, Ticks
  <2> QED
    BY <1>1, <1>2, <1>4, <2>1, <2>2 DEF Clock, Underway, Preparing, Stepping, BackupHeld
<1>5. CASE /\ ~IsFinest(lev) /\ pc' = "entry" /\ lev' = Finer(lev)
           /\ Finer(lev) \in TimeLevels /\ lev < Finer(lev)
           /\ \A k \in TimeLevels : k < Finer(lev) => k <= lev
           /\ \E q \in Nat :
                /\ q = frame[lev].step \div 2^(Finer(lev) - lev) /\ q <= frame[lev].step
                /\ frame' = [frame EXCEPT ![Finer(lev)] =
                     [begin |-> At(lev), duration |-> frame[lev].step, step |-> q, elapsed |-> 0]]
  <2>1. PICK q \in Nat :
          /\ q <= frame[lev].step
          /\ frame' = [frame EXCEPT ![Finer(lev)] =
               [begin |-> At(lev), duration |-> frame[lev].step, step |-> q, elapsed |-> 0]]
    BY <1>5
  <2> DEFINE f == Finer(lev)
  <2>2. /\ f \in TimeLevels /\ f \in Nat /\ lev < f /\ lev' = f /\ Finer(lev) = f
        /\ \A k \in TimeLevels : k < f => k <= lev
    BY <1>3, <1>5
  <2> HIDE DEF f
  <2>3. /\ \A l \in TimeLevels : l # f => frame'[l] = frame[l]
        /\ frame'[f] = [begin |-> At(lev), duration |-> frame[lev].step, step |-> q, elapsed |-> 0]
        /\ DOMAIN frame' = TimeLevels
    BY <1>2, <2>1, <2>2
  <2>4. /\ At(lev) \in Nat /\ time <= At(lev) /\ frame[lev].step \in Nat /\ frame[lev].step > 0
        /\ At(lev) + frame[lev].step <= MaxTime /\ frame[lev].step <= MaxTime
    <3>1. lev <= lev
      BY <1>2
    <3>2. /\ At(lev) \in Nat /\ time <= At(lev) /\ frame[lev].step \in Nat /\ frame[lev].step > 0
          /\ EndOf(lev) <= MaxTime
      BY <1>2, <3>1, OpenClock
    <3> QED
      BY <1>2, <3>2 DEF EndOf
  <2>5. FrameType'
    <3>1. At(lev) \in Ticks /\ frame[lev].step \in Ticks /\ q \in Ticks /\ 0 \in Ticks
      BY <1>2, <2>1, <2>4 DEF Ticks
    <3>2. frame'[f] \in Frame
      BY <2>3, <3>1 DEF Frame
    <3>3. \A l \in TimeLevels : frame'[l] \in Frame
      BY <1>2, <2>3, <3>2
    <3>4. frame' = [l \in TimeLevels |-> frame'[l]]
      BY <1>2, <2>1
    <3>5. frame' \in [TimeLevels -> Frame]
      BY <3>3, <3>4
    <3> QED
      BY <1>1, <3>5 DEF FrameType, Frame, Ticks
  <2>6. \A l \in TimeLevels : l < lev => Nested(l)'
    <3> TAKE l \in TimeLevels
    <3> HAVE l < lev
    <3>1. Nested(l) /\ Finer(l) \in TimeLevels /\ Finer(l) <= lev
      BY <1>2, FinerLevel DEF Clock
    <3>2. frame'[l] = frame[l] /\ frame'[Finer(l)] = frame[Finer(l)]
      BY <1>2, <1>3, <2>2, <2>3, <3>1
    <3> QED
      BY <1>1, <3>1, <3>2 DEF Nested, At
  <2>7. \A l \in TimeLevels : l = lev => Nested(l)'
    <3> TAKE l \in TimeLevels
    <3> HAVE l = lev
    <3>1. frame'[l] = frame[l] /\ Finer(l) = f
      BY <1>2, <2>2, <2>3
    <3>2. frame[l].elapsed + frame[l].step <= frame[l].duration
      BY DEF Clock
    <3>3. frame'[Finer(l)].begin = frame[l].begin + frame[l].elapsed
      BY <2>3, <3>1 DEF At
    <3>4. frame'[Finer(l)].duration = frame[l].step /\ frame[l].step > 0
      BY <2>3, <2>4, <3>1
    <3> QED
      BY <1>1, <3>1, <3>2, <3>3, <3>4 DEF Nested, At
  <2>8. \A l \in TimeLevels : l < lev' => Nested(l)'
    BY <1>2, <1>3, <2>2, <2>6, <2>7
  <2>9. \A l \in TimeLevels : l <= lev' => Within(l)'
    <3> TAKE l \in TimeLevels
    <3> HAVE l <= lev'
    <3>1. CASE l = f
      BY <2>3, <2>4, <3>1 DEF Within
    <3>2. CASE l # f
      <4>1. l <= lev /\ frame'[l] = frame[l]
        BY <1>2, <1>3, <2>2, <2>3, <3>2
      <4>2. Within(l)
        BY <4>1 DEF Clock
      <4> QED
        BY <4>1, <4>2 DEF Within
    <3> QED
      BY <3>1, <3>2
  <2>10. frame'[f].elapsed = 0 /\ frame'[f].elapsed <= frame'[f].duration /\ frame'[f].elapsed < frame'[f].duration
    BY <2>3, <2>4
  <2>11. frame'[Coarsest] = frame[Coarsest]
    <3>1. Coarsest \in TimeLevels /\ Coarsest \in Nat /\ Coarsest <= lev
      BY <1>2, <1>3
    <3>2. Coarsest # f
      BY <1>2, <2>2, <3>1
    <3> QED
      BY <2>3, <3>1, <3>2
  <2>12. mode' = "running" /\ pc' = "entry" /\ mode = "running" /\ pc \notin {"checkpoint", "floor"}
    BY <1>5 DEF Underway
  <2>13. frame[Coarsest].duration > 0 /\ time = frame[Coarsest].begin /\ (Coupled => backup.time = frame[Coarsest].begin)
    BY <2>12 DEF Clock, BackupHeld
  <2> QED
    BY <1>1, <2>2, <2>5, <2>8, <2>9, <2>10, <2>11, <2>12, <2>13 DEF Clock, Underway, Preparing, Stepping, BackupHeld
<1> QED
  BY <1>4, <1>5, Descended

(* The end of a step keeps the clocks nested. *)
LEMMA CompleteClock ==
  ASSUME TypeOK, Control, Clock, Underway, Stepping, option' = option, CompleteStep,
         mode' = mode, time' = time, backup' = backup
  PROVE  Clock' /\ FrameType'
<1>1. /\ TimeLevels' = TimeLevels /\ Coarsest' = Coarsest /\ Coupled' = Coupled
      /\ \A l : Finer(l)' = Finer(l)
  BY OptionKept
<1>2. /\ lev \in TimeLevels /\ lev \in Nat /\ option \in Options /\ frame \in [TimeLevels -> Frame]
      /\ MaxTime \in Nat /\ time \in Nat
  BY TypeParts, FrameFields DEF ControlType
<1>3. \A l \in TimeLevels : l \in Nat /\ Coarsest <= l /\ Coarsest \in TimeLevels
  BY <1>2, LevelSet, CoarsestLevel
<1> DEFINE e == frame[lev].elapsed + frame[lev].step
<1>4. frame' = [frame EXCEPT ![lev].elapsed = e]
  BY Completed
<1>5. e \in Nat /\ e <= frame[lev].duration /\ frame[lev].duration \in Nat
  BY <1>2, OpenClock
<1> HIDE DEF e
<1>6. /\ \A l \in TimeLevels : l # lev => frame'[l] = frame[l]
      /\ frame'[lev] = [frame[lev] EXCEPT !.elapsed = e] /\ frame[lev] \in Frame
      /\ frame' = [l \in TimeLevels |-> frame'[l]]
  BY <1>2, <1>4
<1>7. /\ frame'[lev].elapsed = e /\ frame'[lev].duration = frame[lev].duration
      /\ frame'[lev].begin = frame[lev].begin /\ frame'[lev].step = frame[lev].step
  BY <1>6 DEF Frame
<1>8. FrameType'
  <2>1. e \in Ticks
    <3>1. frame[lev].duration <= MaxTime
      BY <1>6 DEF Frame, Ticks
    <3> QED
      BY <1>2, <1>5, <3>1 DEF Ticks
  <2>2. frame'[lev] \in Frame
    BY <1>6, <2>1 DEF Frame
  <2>3. \A l \in TimeLevels : frame'[l] \in Frame
    BY <1>2, <1>6, <2>2
  <2>4. frame' \in [TimeLevels -> Frame]
    BY <1>6, <2>3
  <2> QED
    BY <1>1, <2>4 DEF FrameType, Frame, Ticks
<1>9. \A l \in TimeLevels : l < lev => Nested(l)'
  <2> TAKE l \in TimeLevels
  <2> HAVE l < lev
  <2>1. Nested(l) /\ Finer(l) \in TimeLevels
    BY <1>2, FinerLevel DEF Clock
  <2>2. frame'[l] = frame[l]
    BY <1>2, <1>3, <1>6
  <2>3. frame'[Finer(l)].begin = frame[Finer(l)].begin /\ frame'[Finer(l)].duration = frame[Finer(l)].duration
    BY <1>6, <1>7, <2>1
  <2> QED
    BY <1>1, <2>1, <2>2, <2>3 DEF Nested, At
<1>10. \A l \in TimeLevels : l <= lev => Within(l)'
  <2> TAKE l \in TimeLevels
  <2> HAVE l <= lev
  <2>1. frame'[l].begin = frame[l].begin /\ frame'[l].duration = frame[l].duration
    BY <1>6, <1>7
  <2>2. Within(l)
    BY DEF Clock
  <2> QED
    BY <2>1, <2>2 DEF Within
<1>11. frame'[Coarsest].begin = frame[Coarsest].begin /\ frame'[Coarsest].duration = frame[Coarsest].duration
  BY <1>2, <1>3, <1>6, <1>7
<1>12. mode' = "running" /\ mode = "running" /\ pc \notin {"checkpoint", "floor"}
  BY DEF Underway
<1>13. frame[Coarsest].duration > 0 /\ time = frame[Coarsest].begin /\ (Coupled => backup.time = frame[Coarsest].begin)
  BY <1>12 DEF Clock, BackupHeld, Underway
<1>14. CASE e < frame[lev].duration /\ pc' = "cfl" /\ lev' = lev
  BY <1>1, <1>5, <1>7, <1>8, <1>9, <1>10, <1>11, <1>12, <1>13, <1>14 DEF Clock, Underway, Preparing, Stepping, BackupHeld
<1>15. CASE e = frame[lev].duration /\ lev = Coarsest /\ pc' = "normalize" /\ lev' = lev
  BY <1>1, <1>5, <1>7, <1>8, <1>9, <1>10, <1>11, <1>12, <1>13, <1>15 DEF Clock, Underway, Preparing, Stepping, BackupHeld
<1>16. CASE /\ lev # Coarsest /\ pc' = "reflux" /\ lev' = Coarser(lev)
            /\ Coarser(lev) \in TimeLevels /\ Coarser(lev) < lev
  <2> DEFINE c == Coarser(lev)
  <2>1. c \in TimeLevels /\ c \in Nat /\ c < lev /\ lev' = c /\ c # lev
    <3>1. c \in TimeLevels /\ c < lev /\ lev' = c
      BY <1>16
    <3> HIDE DEF c
    <3>2. c \in Nat
      BY <1>3, <3>1
    <3> QED
      BY <1>2, <3>1, <3>2
  <2> HIDE DEF c
  <2>2. \A l \in TimeLevels : l <= c => l < lev /\ l <= lev
    BY <1>2, <1>3, <2>1
  <2>3. \A l \in TimeLevels : l < lev' => Nested(l)'
    BY <1>2, <1>3, <1>9, <2>1
  <2>4. \A l \in TimeLevels : l <= lev' => Within(l)'
    BY <1>10, <2>1, <2>2
  <2>5. frame'[c] = frame[c] /\ frame[c].step > 0 /\ frame[c].elapsed + frame[c].step <= frame[c].duration
    BY <1>6, <2>1 DEF Clock, Nested
  <2>6. frame[c].elapsed <= frame[c].duration
    BY <2>1, <2>2, OpenClock
  <2>7. pc' = "reflux"
    BY <1>16
  <2> QED
    BY <1>1, <1>8, <1>11, <1>12, <1>13, <2>1, <2>3, <2>4, <2>5, <2>6, <2>7
       DEF Clock, Underway, Preparing, Stepping, BackupHeld
<1> QED
  BY <1>14, <1>15, <1>16, Completed DEF e

(* Every step keeps the clocks nested. *)
LEMMA ClockStep ==
  ASSUME TypeOK, Control, Clock, Next
  PROVE  Clock' /\ FrameType'
<1> USE DEF Running
<1>0. option' = option /\ option \in Options
  BY TypeParts DEF Next
<1>1. /\ TimeLevels' = TimeLevels /\ Coarsest' = Coarsest /\ Coupled' = Coupled
      /\ \A l : Finer(l)' = Finer(l)
  BY <1>0, OptionKept
<1>2. /\ lev \in TimeLevels /\ lev \in Nat /\ frame \in [TimeLevels -> Frame] /\ FrameType
      /\ MaxTime \in Nat /\ time \in Nat
  BY TypeParts, FrameFields DEF ControlType
<1>3. Coarsest \in TimeLevels /\ Coarsest \in Nat /\ \A l \in TimeLevels : l \in Nat /\ Coarsest <= l
  BY <1>0, LevelSet, CoarsestLevel
<1>4. ASSUME frame' = frame
      PROVE  /\ FrameType'
             /\ \A l \in TimeLevels : Nested(l)' = Nested(l)
             /\ time' = time => \A l \in TimeLevels : Within(l)' = Within(l)
  <2>1. FrameType'
    BY <1>1, <1>2, <1>4 DEF FrameType, Frame, Ticks
  <2> QED
    BY <1>1, <1>4, <2>1 DEF Nested, Within, At
<1>5. CASE \E dt \in option.durations : Start(dt)
  <2>1. PICK dt \in option.durations : Start(dt)
    BY <1>5
  <2>2. dt \in Nat \ {0}
    BY <1>0, OptionAssumption
  <2>3. /\ mode' = "running" /\ pc' \in {"checkpoint", "backup"} /\ (Coupled => pc' = "checkpoint")
        /\ time' = time /\ lev' = Coarsest /\ time + dt <= MaxTime
        /\ frame' = [frame EXCEPT ![Coarsest] = [begin |-> time, duration |-> dt, step |-> dt, elapsed |-> 0]]
    BY <2>1 DEF Start
  <2>4. frame'[Coarsest] = [begin |-> time, duration |-> dt, step |-> dt, elapsed |-> 0]
    BY <1>2, <1>3, <2>3
  <2>5. FrameType'
    <3>1. time \in Ticks /\ dt \in Ticks /\ 0 \in Ticks
      BY <1>2, <2>2, <2>3 DEF Ticks
    <3>2. [begin |-> time, duration |-> dt, step |-> dt, elapsed |-> 0] \in Frame
      BY <3>1 DEF Frame
    <3>3. frame' \in [TimeLevels -> Frame]
      BY <1>2, <2>3, <3>2
    <3> QED
      BY <1>1, <3>3 DEF FrameType, Frame, Ticks
  <2>6. Within(Coarsest)'
    BY <1>1, <1>2, <2>2, <2>3, <2>4 DEF Within
  <2>7. frame'[Coarsest].elapsed = 0 /\ frame'[Coarsest].duration > 0 /\ time' = frame'[Coarsest].begin
    BY <2>2, <2>3, <2>4
  <2> QED
    BY <1>1, <2>3, <2>5, <2>6, <2>7 DEF Clock, Underway, Preparing, BackupHeld
<1>6. CASE Checkpoint
  <2>1. /\ mode = "running" /\ pc = "checkpoint" /\ pc' = "probeAll" /\ mode' = mode /\ frame' = frame /\ time' = time
        /\ backup'.time = time /\ Preparing
    BY <1>6 DEF Checkpoint, Preparing
  <2>2. frame[Coarsest].elapsed = 0 /\ Within(Coarsest) /\ frame[Coarsest].duration > 0 /\ time = frame[Coarsest].begin
    BY <2>1 DEF Clock
  <2> QED
    BY <1>1, <1>3, <1>4, <2>1, <2>2 DEF Clock, Underway, Preparing, BackupHeld, Within
<1>7. CASE ProbeAll
  <2>1. /\ mode = "running" /\ pc = "probeAll" /\ pc' = "backup" /\ mode' = mode /\ frame' = frame /\ time' = time
        /\ backup' = backup
    BY <1>7 DEF ProbeAll, accounts, call
  <2> QED
    BY <1>1, <1>3, <1>4, <2>1 DEF Clock, Underway, Preparing, BackupHeld, Within
<1>8. CASE Backup
  <2>1. /\ mode = "running" /\ pc = "backup" /\ pc' = "entry" /\ mode' = mode /\ frame' = frame /\ time' = time
        /\ backup' = backup /\ lev' = lev /\ lev = Coarsest
    BY <1>8 DEF Backup, accounts, call, Control, InRecursion
  <2>2. /\ frame[Coarsest].elapsed = 0 /\ Within(Coarsest) /\ frame[Coarsest].duration > 0 /\ time = frame[Coarsest].begin
        /\ Coupled => backup.time = frame[Coarsest].begin
    BY <2>1 DEF Clock, Preparing, BackupHeld
  <2>3. \A l \in TimeLevels : ~(l < lev) /\ (l <= lev => l = Coarsest)
    BY <1>2, <1>3, <2>1
  <2>4. \A l \in TimeLevels : l <= lev => Within(l)'
    BY <1>4, <2>1, <2>2, <2>3
  <2>5. frame[Coarsest].elapsed <= frame[Coarsest].duration /\ frame[Coarsest].elapsed < frame[Coarsest].duration
    BY <1>3, <2>2, FrameFields
  <2> QED
    BY <1>1, <1>4, <2>1, <2>2, <2>3, <2>4, <2>5 DEF Clock, Underway, Preparing, Stepping, BackupHeld
<1>9. CASE ResetFlux \/ SaveRadiationStep \/ Probe \/ PredictRadiationStep
  <2>1. /\ mode = "running" /\ mode' = mode /\ frame' = frame /\ time' = time /\ backup' = backup /\ lev' = lev
        /\ pc \in {"entry", "save", "probe", "predict"}
        /\ pc' = (IF pc = "entry" THEN "cfl" ELSE IF pc = "save" THEN "probe" ELSE IF pc = "probe" THEN "predict" ELSE "advance")
    BY <1>9 DEF ResetFlux, SaveRadiationStep, Probe, PredictRadiationStep, accounts, call
  <2> QED
    BY <1>1, <1>4, <2>1 DEF Clock, Underway, Preparing, Stepping, BackupHeld
<1>10. CASE Timestep
  <2>1. /\ mode = "running" /\ mode' = mode /\ time' = time /\ backup' = backup /\ lev' = lev
        /\ pc = "cfl" /\ pc' \in {"save", "advance"}
    BY <1>10 DEF Timestep, accounts, call
  <2>2. PICK step \in Nat \ {0} :
          /\ frame[lev].elapsed + step <= frame[lev].duration
          /\ step <= MaxTime
          /\ frame' = [frame EXCEPT ![lev].step = step]
    BY <1>10, ChosenStep
  <2>3. /\ \A l \in TimeLevels : l # lev => frame'[l] = frame[l]
        /\ frame'[lev] = [frame[lev] EXCEPT !.step = step] /\ frame[lev] \in Frame
        /\ frame' = [l \in TimeLevels |-> frame'[l]]
    BY <1>2, <2>2
  <2>4. /\ frame'[lev].elapsed = frame[lev].elapsed /\ frame'[lev].duration = frame[lev].duration
        /\ frame'[lev].begin = frame[lev].begin /\ frame'[lev].step = step
    BY <2>3 DEF Frame
  <2>5. FrameType'
    <3>1. step \in Ticks
      BY <1>2, <2>2 DEF Ticks
    <3>2. frame'[lev] \in Frame
      BY <2>3, <3>1 DEF Frame
    <3>3. \A l \in TimeLevels : frame'[l] \in Frame
      BY <1>2, <2>3, <3>2
    <3>4. frame' \in [TimeLevels -> Frame]
      BY <2>3, <3>3
    <3> QED
      BY <1>1, <3>4 DEF FrameType, Frame, Ticks
  <2>6. Underway
    BY <2>1 DEF Underway
  <2>7. \A l \in TimeLevels : l < lev => Nested(l)'
    <3> TAKE l \in TimeLevels
    <3> HAVE l < lev
    <3>1. Nested(l) /\ Finer(l) \in TimeLevels
      BY <1>0, <1>2, <2>6, FinerLevel DEF Clock
    <3>2. frame'[l] = frame[l]
      BY <1>2, <1>3, <2>3
    <3>3. frame'[Finer(l)].begin = frame[Finer(l)].begin /\ frame'[Finer(l)].duration = frame[Finer(l)].duration
      BY <2>3, <2>4, <3>1
    <3> QED
      BY <1>1, <3>1, <3>2, <3>3 DEF Nested, At
  <2>8. \A l \in TimeLevels : l <= lev => Within(l)'
    <3> TAKE l \in TimeLevels
    <3> HAVE l <= lev
    <3>1. frame'[l].begin = frame[l].begin /\ frame'[l].duration = frame[l].duration
      BY <2>3, <2>4
    <3>2. Within(l)
      BY <2>6 DEF Clock
    <3> QED
      BY <2>1, <3>1, <3>2 DEF Within
  <2>9. frame'[Coarsest].begin = frame[Coarsest].begin /\ frame'[Coarsest].duration = frame[Coarsest].duration
    BY <1>3, <2>3, <2>4
  <2>10. /\ frame[Coarsest].duration > 0 /\ time = frame[Coarsest].begin /\ (Coupled => backup.time = frame[Coarsest].begin)
         /\ frame[lev].elapsed <= frame[lev].duration /\ frame[lev].elapsed < frame[lev].duration
    BY <2>1, <2>6 DEF Clock, BackupHeld
  <2>11. step > 0
    BY <2>2
  <2> QED
    BY <1>1, <2>1, <2>2, <2>4, <2>5, <2>7, <2>8, <2>9, <2>10, <2>11 DEF Clock, Underway, Preparing, Stepping, BackupHeld
<1>11. CASE Advance \/ ForecastRadiationStep
  <2>1. /\ mode = "running" /\ mode' = mode /\ time' = time /\ backup' = backup
        /\ pc \in {"advance", "forecast"} /\ Underway /\ Stepping
    BY <1>11 DEF Advance, ForecastRadiationStep, accounts, call, Underway, Stepping
  <2>2. CASE Advance /\ Coupled
    <3>1. pc' = "forecast" /\ lev' = lev /\ frame' = frame
      BY <2>2 DEF Advance
    <3> QED
      BY <1>1, <1>4, <2>1, <3>1 DEF Clock, Underway, Preparing, Stepping, BackupHeld
  <2>3. CASE ForecastRadiationStep \/ ~Coupled
    <3>1. PICK predicted \in BOOLEAN : Descend(predicted)
      BY <1>11, <2>3 DEF Advance, ForecastRadiationStep
    <3> QED
      BY <1>0, <2>1, <3>1, DescendClock
  <2> QED
    BY <1>11, <2>2, <2>3
<1>12. CASE Reflux \/ FinishRadiationStep
  <2>1. /\ mode = "running" /\ mode' = mode /\ time' = time /\ backup' = backup
        /\ pc \in {"reflux", "finish"} /\ Underway /\ Stepping
    BY <1>12 DEF Reflux, FinishRadiationStep, call, Underway, Stepping
  <2>2. CASE Reflux /\ Coupled
    <3>1. pc' = "finish" /\ lev' = lev /\ frame' = frame
      BY <2>2 DEF Reflux
    <3> QED
      BY <1>1, <1>4, <2>1, <3>1 DEF Clock, Underway, Preparing, Stepping, BackupHeld
  <2>3. CASE FinishRadiationStep \/ ~Coupled
    <3>1. CompleteStep
      BY <1>12, <2>3 DEF Reflux, FinishRadiationStep
    <3> QED
      BY <1>0, <2>1, <3>1, CompleteClock
  <2> QED
    BY <1>12, <2>2, <2>3
<1>13. CASE Normalize
  <2>1. /\ mode = "running" /\ mode' = mode /\ frame' = frame /\ time' = time /\ backup' = backup /\ lev' = lev
        /\ pc = "normalize" /\ pc' = "publish"
    BY <1>13 DEF Normalize, accounts, call
  <2> QED
    BY <1>1, <1>4, <2>1 DEF Clock, Underway, Preparing, Stepping, BackupHeld
<1>14. CASE Publish
  <2>1. /\ mode = "running" /\ pc = "publish" /\ frame' = frame /\ backup' = backup /\ lev' = lev
        /\ time' = time + frame[Coarsest].duration
        /\ \/ pc' = "floor" /\ mode' = mode
           \/ pc' = "start" /\ mode' = "idle"
    BY <1>14 DEF Publish
  <2>2. frame[Coarsest].duration > 0 /\ time = frame[Coarsest].begin /\ (Coupled => backup.time = frame[Coarsest].begin)
    BY <2>1 DEF Clock, BackupHeld, Underway
  <2> QED
    BY <1>1, <1>4, <2>1, <2>2 DEF Clock, Underway, Preparing, Stepping, BackupHeld
<1>15. CASE Floor
  <2>1. frame' = frame /\ pc' = "start" /\ mode' = "idle"
    BY <1>15 DEF Floor
  <2> QED
    BY <1>1, <1>4, <2>1 DEF Clock, Underway, Preparing, Stepping, BackupHeld
<1>16. CASE Fails
  <2>1. /\ mode = "running" /\ mode' = Handler /\ pc' = "start" /\ time' = time /\ backup' = backup
        /\ frame' = [l \in TimeLevels |-> IF l = Coarsest THEN frame[l] ELSE NoFrame]
    BY <1>16 DEF Fails
  <2>2. frame'[Coarsest] = frame[Coarsest]
    BY <1>3, <2>1
  <2>3. FrameType'
    <3>1. Preparing \/ Underway \/ pc = "floor"
      BY <2>1 DEF Preparing, Underway
    <3>2. CASE MaxTime > 0
      <4>1. NoFrame \in Frame
        BY <1>2, <3>2 DEF NoFrame, Frame, Ticks
      <4>2. frame' \in [TimeLevels -> Frame]
        BY <1>2, <2>1, <4>1
      <4> QED
        BY <1>1, <4>2 DEF FrameType, Frame, Ticks
    <3>3. CASE MaxTime = 0
      <4>1. frame[Coarsest].duration > 0 /\ frame[Coarsest].duration \in Ticks
        BY <1>2, <1>3, <2>1 DEF Clock, Frame
      <4> QED
        BY <3>3, <4>1 DEF Ticks
    <3> QED
      BY <1>2, <3>2, <3>3
  <2>4. mode' = "restoring" => time = frame[Coarsest].begin
    BY <2>1 DEF Handler, Clock, Preparing, Underway
  <2>5. Coupled /\ mode' \in {"restoring", "recovering"} => backup.time = frame[Coarsest].begin
    BY <2>1 DEF Handler, Clock, BackupHeld
  <2>6. mode' # "running"
    BY <2>1 DEF Handler
  <2> QED
    BY <1>1, <2>1, <2>2, <2>3, <2>4, <2>5, <2>6 DEF Clock, Underway, Preparing, BackupHeld
<1>17. CASE Restore \/ RestoreFails
  <2>1. /\ mode = "restoring" /\ mode' \in {"idle", "recovering", "lost"} /\ (mode' = "recovering" => Coupled)
        /\ frame' = frame /\ time' = time /\ backup' = backup /\ pc' = pc
    BY <1>17 DEF Restore, RestoreFails, accounts, call
  <2>2. pc = "start"
    BY <2>1 DEF Control
  <2> QED
    BY <1>1, <1>4, <2>1, <2>2 DEF Clock, Underway, Preparing, BackupHeld
<1>18. CASE Recover \/ RecoverFails
  <2>1. mode = "recovering" /\ mode' \in {"idle", "lost"} /\ frame' = frame /\ pc' = pc
    BY <1>18 DEF Recover, RecoverFails
  <2>2. pc = "start"
    BY <2>1 DEF Control
  <2> QED
    BY <1>1, <1>4, <2>1, <2>2 DEF Clock, Underway, Preparing, BackupHeld
<1>19. CASE Finished
  <2>1. frame' = frame /\ mode' = mode /\ pc' = pc /\ lev' = lev /\ time' = time /\ backup' = backup
    BY <1>19 DEF Finished, vars, accounts, call
  <2>2. mode \in {"idle", "lost"}
    BY <1>19 DEF Finished
  <2>3. pc = "start"
    BY <2>2 DEF Control
  <2> QED
    BY <1>1, <1>4, <2>1, <2>2, <2>3 DEF Clock, Underway, Preparing, BackupHeld
<1> QED
  BY <1>5, <1>6, <1>7, <1>8, <1>9, <1>10, <1>11, <1>12, <1>13, <1>14, <1>15, <1>16, <1>17, <1>18, <1>19 DEF Next, Phase

-----------------------------------------------------------------------------
(* Steps are binary fractions: halving, starting a finer interval from a   *)
(* step, and completing a step leave whole steps in what remains.          *)
LEMMA HalvedStep ==
  ASSUME NEW n \in Nat, IsPower(n), NEW k \in Nat \ {0}, k \in Halvings(n), NEW rest \in Nat, Divides(n, rest)
  PROVE  IsPower(k) /\ Divides(k, rest)
<1>1. PICK a \in Nat : n = 2^a
  BY DEF IsPower
<1>2. PICK j \in Nat : k * 2^j = n
  BY DEF Halvings
<1>3. j <= a /\ k = 2^(a - j)
  BY <1>1, <1>2, PowerFactor
<1>4. a - j \in Nat
  BY <1>3
<1>5. IsPower(k)
  BY <1>3, <1>4 DEF IsPower
<1>6. PICK m \in Nat : rest = m * n
  BY DEF Divides
<1> DEFINE P == 2^j
<1>7. P \in Nat
  BY Power
<1>8. k * P = n
  BY <1>2
<1> HIDE DEF P
<1>9. m * P \in Nat /\ rest = (m * P) * k
  <2>1. rest = m * (k * P)
    BY <1>6, <1>8
  <2>2. m * (k * P) = (m * P) * k
    BY <1>7
  <2> QED
    BY <1>7, <2>1, <2>2
<1>10. Divides(k, rest)
  BY <1>9 DEF Divides
<1> QED
  BY <1>5, <1>10

(* The first step of a finer level divides its interval. *)
LEMMA FinerStep ==
  ASSUME NEW n \in Nat, IsPower(n), NEW g \in Nat, NEW q \in Nat, q = n \div 2^g, q > 0
  PROVE  IsPower(q) /\ Divides(q, n)
<1>1. PICK a \in Nat : n = 2^a
  BY DEF IsPower
<1>2. 2^a \div 2^g # 0
  BY <1>1
<1>3. g <= a /\ 2^a \div 2^g = 2^(a - g) /\ 2^a = 2^g * 2^(a - g)
  BY <1>2, PowerQuotient
<1>4. a - g \in Nat
  BY <1>3
<1>5. q = 2^(a - g) /\ n = 2^g * q
  BY <1>1, <1>3
<1>6. IsPower(q)
  BY <1>4, <1>5 DEF IsPower
<1>7. 2^g \in Nat
  BY Power
<1>8. Divides(q, n)
  BY <1>5, <1>7 DEF Divides
<1> QED
  BY <1>6, <1>8

(* A step that divides what is left divides what is left after it. *)
LEMMA StepTaken ==
  ASSUME NEW k \in Nat, NEW done \in Nat, NEW whole \in Nat, k > 0, done + k <= whole, Divides(k, whole - done)
  PROVE  Divides(k, whole - (done + k))
<1>1. PICK m \in Nat : whole - done = m * k
  BY DEF Divides
<1>2. m # 0
  <2>1. CASE m = 0
    <3>1. whole - done = 0
      BY <1>1, <2>1
    <3> QED
      BY <3>1
  <2> QED
    BY <2>1
<1>3. m - 1 \in Nat /\ whole - (done + k) = (m - 1) * k
  <2>1. (m - 1) * k = m * k - k
    BY <1>2
  <2>2. whole - (done + k) = (whole - done) - k
    OBVIOUS
  <2> QED
    BY <1>1, <1>2, <2>1, <2>2
<1> QED
  BY <1>3 DEF Divides

(* Every step keeps the clocks binary. *)
LEMMA BinaryStep ==
  ASSUME TypeOK, Control, Clock, BinaryClock, Next
  PROVE  BinaryClock'
<1> USE DEF Running
<1>0. option' = option /\ option \in Options
  BY TypeParts DEF Next
<1>1. TimeLevels' = TimeLevels /\ Coarsest' = Coarsest
  BY <1>0, OptionKept
<1>2. /\ lev \in TimeLevels /\ lev \in Nat /\ frame \in [TimeLevels -> Frame]
      /\ MaxTime \in Nat /\ time \in Nat
  BY TypeParts, FrameFields DEF ControlType
<1>3. Coarsest \in TimeLevels /\ Coarsest \in Nat /\ \A l \in TimeLevels : l \in Nat /\ Coarsest <= l
  BY <1>0, LevelSet, CoarsestLevel
<1>4. \A l \in TimeLevels : frame'[l] = frame[l] => Binary(l)' = Binary(l)
  BY DEF Binary
<1>5. CASE \E dt \in option.durations : Start(dt)
  <2>1. PICK dt \in option.durations : Start(dt)
    BY <1>5
  <2>2. dt \in Nat \ {0} /\ \E k \in 0 .. dt : dt = 2^k
    BY <1>0, OptionAssumption
  <2>3. /\ pc' \in {"checkpoint", "backup"}
        /\ frame' = [frame EXCEPT ![Coarsest] = [begin |-> time, duration |-> dt, step |-> dt, elapsed |-> 0]]
    BY <2>1 DEF Start
  <2>4. frame'[Coarsest] = [begin |-> time, duration |-> dt, step |-> dt, elapsed |-> 0]
    BY <1>2, <1>3, <2>3
  <2>5. IsPower(dt)
    BY <2>2 DEF IsPower
  <2>6. Divides(dt, dt - 0)
    <3>1. dt - 0 = 1 * dt
      BY <2>2
    <3> QED
      BY <3>1 DEF Divides
  <2>7. \A l \in TimeLevels : l = Coarsest => Binary(l)'
    BY <2>4, <2>5, <2>6 DEF Binary
  <2> QED
    BY <1>1, <1>3, <2>3, <2>7 DEF BinaryClock, Underway
<1>6. CASE Checkpoint \/ ProbeAll \/ Backup
  <2>1. Preparing /\ frame' = frame /\ lev = Coarsest /\ lev' = lev
    BY <1>6 DEF Checkpoint, ProbeAll, Backup, Preparing, Control, InRecursion
  <2>2. \A l \in TimeLevels : l <= lev => l = Coarsest
    BY <1>2, <1>3, <2>1
  <2>3. \A l \in TimeLevels : l <= lev => Binary(l)'
    BY <1>4, <2>1, <2>2 DEF BinaryClock
  <2>4. Coarsest <= lev
    BY <1>2, <1>3
  <2> QED
    BY <1>1, <1>3, <2>1, <2>3, <2>4 DEF BinaryClock
<1>7. CASE /\ ResetFlux \/ SaveRadiationStep \/ Probe \/ PredictRadiationStep \/ Normalize
              \/ (Advance /\ Coupled) \/ (Reflux /\ Coupled)
  <2>1. Underway /\ frame' = frame /\ lev' = lev /\ ~Preparing'
    BY <1>7 DEF ResetFlux, SaveRadiationStep, Probe, PredictRadiationStep, Normalize, Advance, Reflux, Underway, Preparing
  <2> QED
    BY <1>1, <1>4, <2>1 DEF BinaryClock
<1>8. CASE Timestep
  <2>1. PICK step \in Nat \ {0} :
          /\ step \in Halvings(frame[lev].step) /\ frame[lev].elapsed + step <= frame[lev].duration
          /\ frame' = [frame EXCEPT ![lev].step = step]
    BY <1>8, ChosenStep
  <2>2. lev' = lev /\ Underway /\ ~Preparing'
    BY <1>8 DEF Timestep, Underway, Preparing
  <2>3. /\ frame'[lev].elapsed = frame[lev].elapsed /\ frame'[lev].duration = frame[lev].duration
        /\ frame'[lev].step = step
    <3>1. frame'[lev] = [frame[lev] EXCEPT !.step = step] /\ frame[lev] \in Frame
      BY <1>2, <2>1
    <3> QED
      BY <3>1 DEF Frame
  <2>4. Binary(lev) /\ lev <= lev
    BY <1>2, <2>2 DEF BinaryClock
  <2>5. /\ frame[lev].step \in Nat /\ frame[lev].duration \in Nat /\ frame[lev].elapsed \in Nat
        /\ frame[lev].duration - frame[lev].elapsed \in Nat
    <3>1. /\ frame[lev].step \in Nat /\ frame[lev].duration \in Nat /\ frame[lev].elapsed \in Nat
          /\ frame[lev].elapsed <= frame[lev].duration
      BY <1>2, <2>2, <2>4, OpenClock
    <3> QED
      BY <3>1
  <2>6. frame[lev].step > 0
    BY <2>1, <2>5 DEF Halvings
  <2>7. IsPower(step) /\ Divides(step, frame[lev].duration - frame[lev].elapsed)
    <3>1. IsPower(frame[lev].step) /\ Divides(frame[lev].step, frame[lev].duration - frame[lev].elapsed)
      BY <2>4, <2>6 DEF Binary
    <3> QED
      BY <2>1, <2>5, <3>1, HalvedStep
  <2>8. \A l \in TimeLevels : l = lev => Binary(l)'
    BY <2>3, <2>4, <2>7 DEF Binary
  <2>9. \A l \in TimeLevels : l <= lev => Binary(l)'
    <3>1. \A l \in TimeLevels : l # lev => frame'[l] = frame[l]
      BY <1>2, <2>1
    <3> QED
      BY <1>4, <2>2, <2>8, <3>1 DEF BinaryClock
  <2> QED
    BY <1>1, <2>2, <2>9 DEF BinaryClock
<1>9. CASE ForecastRadiationStep \/ (Advance /\ ~Coupled)
  <2>1. Underway /\ Stepping /\ mode' = mode
    BY <1>9 DEF Advance, ForecastRadiationStep, Underway, Stepping
  <2>2. PICK predicted \in BOOLEAN : Descend(predicted)
    BY <1>9 DEF Advance, ForecastRadiationStep
  <2>3. CASE pc' = "reflux" /\ lev' = lev /\ frame' = frame
    BY <1>1, <1>4, <2>1, <2>3 DEF BinaryClock, Preparing
  <2>4. CASE /\ pc' = "entry" /\ lev' = Finer(lev)
             /\ Finer(lev) \in TimeLevels /\ lev < Finer(lev)
             /\ \A k \in TimeLevels : k < Finer(lev) => k <= lev
             /\ \E q \in Nat :
                  /\ q = frame[lev].step \div 2^(Finer(lev) - lev) /\ q <= frame[lev].step
                  /\ frame' = [frame EXCEPT ![Finer(lev)] =
                       [begin |-> At(lev), duration |-> frame[lev].step, step |-> q, elapsed |-> 0]]
    <3>1. PICK q \in Nat :
            /\ q = frame[lev].step \div 2^(Finer(lev) - lev) /\ q <= frame[lev].step
            /\ frame' = [frame EXCEPT ![Finer(lev)] =
                 [begin |-> At(lev), duration |-> frame[lev].step, step |-> q, elapsed |-> 0]]
      BY <2>4
    <3> DEFINE f == Finer(lev)
               g == f - lev
               n == frame[lev].step
    <3>2. f \in TimeLevels /\ lev < f /\ \A k \in TimeLevels : k < f => k <= lev
      BY <2>4
    <3>3. frame'[f] = [begin |-> At(lev), duration |-> n, step |-> q, elapsed |-> 0]
      BY <1>2, <3>1, <3>2
    <3>4. \A l \in TimeLevels : l # f => frame'[l] = frame[l]
      BY <1>2, <3>1
    <3>5. q = n \div 2^g /\ lev' = f
      BY <2>4, <3>1
    <3> HIDE DEF f
    <3>6. g \in Nat
      BY <1>2, <1>3, <3>2
    <3> HIDE DEF g
    <3>7. Binary(lev) /\ frame[lev].step > 0 /\ n \in Nat
      BY <1>2, <2>1, OpenClock DEF BinaryClock
    <3>8. IsPower(n)
      BY <3>7 DEF Binary
    <3> HIDE DEF n
    <3>9. q > 0 => IsPower(q) /\ Divides(q, n - 0)
      <4>1. n - 0 = n
        BY <3>7
      <4> QED
        BY <3>5, <3>6, <3>7, <3>8, <4>1, FinerStep
    <3>10. \A l \in TimeLevels : l = f => Binary(l)'
      BY <3>3, <3>8, <3>9 DEF Binary
    <3>11. \A l \in TimeLevels : l <= f => Binary(l)'
      <4>1. \A l \in TimeLevels : l <= f /\ l # f => l <= lev
        BY <1>2, <1>3, <3>2
      <4> QED
        BY <1>4, <2>1, <3>4, <3>10, <4>1 DEF BinaryClock
    <3>12. ~Preparing'
      BY <2>4 DEF Preparing
    <3> QED
      BY <1>1, <3>5, <3>11, <3>12 DEF BinaryClock
  <2> QED
    BY <2>1, <2>2, <2>3, <2>4, Descended
<1>10. CASE FinishRadiationStep \/ (Reflux /\ ~Coupled)
  <2>1. Underway /\ Stepping /\ CompleteStep
    BY <1>10 DEF Reflux, FinishRadiationStep, Underway, Stepping
  <2>2. /\ frame' = [frame EXCEPT ![lev].elapsed = frame[lev].elapsed + frame[lev].step]
        /\ pc' \in {"cfl", "normalize", "reflux"}
        /\ lev' = lev \/ (lev' = Coarser(lev) /\ Coarser(lev) \in TimeLevels /\ Coarser(lev) < lev)
    BY <2>1, Completed
  <2>3. /\ frame'[lev].elapsed = frame[lev].elapsed + frame[lev].step /\ frame'[lev].duration = frame[lev].duration
        /\ frame'[lev].step = frame[lev].step
    <3>1. frame'[lev] = [frame[lev] EXCEPT !.elapsed = frame[lev].elapsed + frame[lev].step] /\ frame[lev] \in Frame
      BY <1>2, <2>2
    <3> QED
      BY <3>1 DEF Frame
  <2>4. /\ frame[lev].step \in Nat /\ frame[lev].duration \in Nat /\ frame[lev].elapsed \in Nat
        /\ frame[lev].elapsed + frame[lev].step <= frame[lev].duration /\ frame[lev].step > 0
    BY <1>2, <2>1, OpenClock
  <2>5. /\ IsPower(frame[lev].duration) /\ IsPower(frame[lev].step)
        /\ Divides(frame[lev].step, frame[lev].duration - frame[lev].elapsed)
    BY <1>2, <2>1, <2>4 DEF BinaryClock, Binary
  <2>6. Divides(frame[lev].step, frame[lev].duration - (frame[lev].elapsed + frame[lev].step))
    BY <2>4, <2>5, StepTaken
  <2>7. \A l \in TimeLevels : l = lev => Binary(l)'
    BY <2>3, <2>5, <2>6 DEF Binary
  <2>8. \A l \in TimeLevels : l <= lev => Binary(l)'
    <3>1. \A l \in TimeLevels : l # lev => frame'[l] = frame[l]
      BY <1>2, <2>2
    <3> QED
      BY <1>4, <2>1, <2>7, <3>1 DEF BinaryClock
  <2>9. \A l \in TimeLevels : l <= lev' => l <= lev
    BY <1>2, <1>3, <2>2
  <2> QED
    BY <1>1, <2>2, <2>8, <2>9 DEF BinaryClock, Preparing
<1>11. CASE Publish \/ Floor \/ Fails \/ Restore \/ RestoreFails \/ Recover \/ RecoverFails \/ Finished
  <2>1. mode = "idle" \/ mode = "restoring" \/ mode = "recovering" \/ mode = "lost" => pc = "start"
    BY DEF Control
  <2>2. ~Preparing' /\ ~Underway'
    BY <1>11, <2>1 DEF Publish, Floor, Fails, Handler, Restore, RestoreFails, Recover, RecoverFails, Finished, vars,
              Preparing, Underway
  <2> QED
    BY <2>2 DEF BinaryClock
<1> QED
  BY <1>5, <1>6, <1>7, <1>8, <1>9, <1>10, <1>11 DEF Next, Phase

-----------------------------------------------------------------------------
(* The clocks of all levels across a descent and a completed step.         *)
LEMMA DescentTimes ==
  ASSUME TypeOK, Control, Clock, Underway, Stepping, NEW predicted \in BOOLEAN, Descend(predicted)
  PROVE  \/ /\ IsFinest(lev) /\ pc' = "reflux" /\ lev' = lev /\ frame' = frame
            /\ \A l \in TimeLevels : l <= lev
         \/ /\ ~IsFinest(lev) /\ pc' = "entry" /\ lev' \in TimeLevels /\ lev' = Finer(lev) /\ lev < lev'
            /\ \A k \in TimeLevels : k < lev' <=> k <= lev
            /\ \A l \in TimeLevels : l # lev' => frame'[l] = frame[l]
            /\ \A l \in TimeLevels : l = lev' =>
                 /\ frame'[l].begin = At(lev) /\ frame'[l].duration = frame[lev].step /\ frame'[l].elapsed = 0
                 /\ At(l)' = At(lev)
<1>1. /\ lev \in TimeLevels /\ lev \in Nat /\ frame \in [TimeLevels -> Frame]
      /\ \A l \in TimeLevels : l \in Nat
  BY TypeParts, FrameFields, LevelSet DEF ControlType
<1>2. CASE IsFinest(lev) /\ pc' = "reflux" /\ lev' = lev /\ frame' = frame
  BY <1>2 DEF IsFinest
<1>3. CASE /\ ~IsFinest(lev) /\ pc' = "entry" /\ lev' = Finer(lev)
           /\ Finer(lev) \in TimeLevels /\ lev < Finer(lev)
           /\ \A k \in TimeLevels : k < Finer(lev) => k <= lev
           /\ \E q \in Nat :
                /\ q = frame[lev].step \div 2^(Finer(lev) - lev) /\ q <= frame[lev].step
                /\ frame' = [frame EXCEPT ![Finer(lev)] =
                     [begin |-> At(lev), duration |-> frame[lev].step, step |-> q, elapsed |-> 0]]
  <2>1. PICK q \in Nat :
          frame' = [frame EXCEPT ![Finer(lev)] =
             [begin |-> At(lev), duration |-> frame[lev].step, step |-> q, elapsed |-> 0]]
    BY <1>3
  <2> DEFINE f == Finer(lev)
  <2>2. f \in TimeLevels /\ lev < f /\ lev' = f /\ \A k \in TimeLevels : k < f => k <= lev
    BY <1>3
  <2>3. \A l \in TimeLevels : l # f => frame'[l] = frame[l]
    BY <1>1, <2>1
  <2>4. frame'[f] = [begin |-> At(lev), duration |-> frame[lev].step, step |-> q, elapsed |-> 0]
    BY <1>1, <2>1, <2>2
  <2>5. lev' = Finer(lev) /\ ~IsFinest(lev) /\ pc' = "entry"
    BY <1>3
  <2> HIDE DEF f
  <2>6. \A k \in TimeLevels : k < f <=> k <= lev
    BY <1>1, <2>2
  <2>7. At(lev) \in Nat
    BY <1>1, OpenClock
  <2>8. \A l \in TimeLevels : l = f =>
          /\ frame'[l].begin = At(lev) /\ frame'[l].duration = frame[lev].step /\ frame'[l].elapsed = 0
          /\ At(l)' = At(lev)
    <3> TAKE l \in TimeLevels
    <3> HAVE l = f
    <3>1. frame'[l].begin = At(lev) /\ frame'[l].duration = frame[lev].step /\ frame'[l].elapsed = 0
      BY <2>4
    <3>2. At(l)' = frame'[l].begin + frame'[l].elapsed
      BY DEF At
    <3>3. At(l)' = At(lev)
      BY <2>7, <3>1, <3>2
    <3> QED
      BY <3>1, <3>3
  <2> QED
    BY <2>2, <2>3, <2>5, <2>6, <2>8
<1> QED
  BY <1>2, <1>3, Descended

(* The times of the levels when a step ends. *)
LEMMA CompletionTimes ==
  ASSUME TypeOK, Control, Clock, Underway, Stepping, CompleteStep
  PROVE  /\ \A l \in TimeLevels : l # lev => frame'[l] = frame[l]
         /\ frame'[lev].begin = frame[lev].begin /\ frame'[lev].duration = frame[lev].duration
         /\ frame'[lev].step = frame[lev].step
         /\ \A l \in TimeLevels : l = lev => At(l)' = EndOf(lev)
         /\ \/ pc' \in {"cfl", "normalize"} /\ lev' = lev
            \/ /\ pc' = "reflux" /\ lev' \in TimeLevels /\ lev' < lev /\ EndOf(lev') = EndOf(lev)
               /\ Finer(lev') = lev /\ ~IsFinest(lev')
               /\ frame[lev].begin = At(lev') /\ frame[lev].duration = frame[lev'].step
               /\ frame[lev].elapsed + frame[lev].step = frame[lev].duration
               /\ \A k \in TimeLevels : k < lev <=> k <= lev'
<1>1. /\ lev \in TimeLevels /\ lev \in Nat /\ frame \in [TimeLevels -> Frame]
      /\ \A l \in TimeLevels : l \in Nat
  BY TypeParts, FrameFields, LevelSet DEF ControlType
<1>2. frame' = [frame EXCEPT ![lev].elapsed = frame[lev].elapsed + frame[lev].step]
  BY Completed
<1>3. \A l \in TimeLevels : l # lev => frame'[l] = frame[l]
  BY <1>1, <1>2
<1>4. /\ frame'[lev].begin = frame[lev].begin /\ frame'[lev].duration = frame[lev].duration
      /\ frame'[lev].step = frame[lev].step /\ frame'[lev].elapsed = frame[lev].elapsed + frame[lev].step
  <2>1. frame'[lev] = [frame[lev] EXCEPT !.elapsed = frame[lev].elapsed + frame[lev].step] /\ frame[lev] \in Frame
    BY <1>1, <1>2
  <2> QED
    BY <2>1 DEF Frame
<1>5. frame[lev].begin \in Nat /\ frame[lev].elapsed \in Nat /\ frame[lev].step \in Nat
  BY <1>1, FrameFields
<1>6. \A l \in TimeLevels : l = lev => At(l)' = EndOf(lev)
  BY <1>4, <1>5 DEF At, EndOf
<1>7. CASE pc' \in {"cfl", "normalize"} /\ lev' = lev
  BY <1>3, <1>4, <1>6, <1>7
<1>8. CASE /\ frame[lev].elapsed + frame[lev].step = frame[lev].duration
           /\ lev # Coarsest /\ pc' = "reflux" /\ lev' = Coarser(lev)
           /\ Coarser(lev) \in TimeLevels /\ Coarser(lev) < lev /\ Finer(Coarser(lev)) = lev
           /\ ~IsFinest(Coarser(lev)) /\ \A k \in TimeLevels : k < lev => k <= Coarser(lev)
  <2> DEFINE c == Coarser(lev)
  <2>1. /\ c \in TimeLevels /\ c < lev /\ Finer(c) = lev /\ ~IsFinest(c) /\ lev' = c /\ pc' = "reflux"
        /\ \A k \in TimeLevels : k < lev => k <= c
    BY <1>8
  <2> HIDE DEF c
  <2>2. \A k \in TimeLevels : k < lev <=> k <= c
    BY <1>1, <2>1
  <2>3. frame[lev].begin = At(c) /\ frame[lev].duration = frame[c].step
    BY <2>1 DEF Clock, Nested
  <2>4. At(c) \in Nat /\ frame[c].step \in Nat
    <3>1. c <= lev
      BY <1>1, <2>1
    <3> QED
      BY <2>1, <3>1, OpenClock
  <2>5. EndOf(c) = EndOf(lev)
    <3>1. EndOf(lev) = frame[lev].begin + (frame[lev].elapsed + frame[lev].step)
      BY <1>5 DEF EndOf, At
    <3>2. EndOf(c) = At(c) + frame[c].step
      BY DEF EndOf
    <3> QED
      BY <1>8, <2>3, <3>1, <3>2
  <2> QED
    BY <1>3, <1>4, <1>6, <1>8, <2>1, <2>2, <2>3, <2>5
<1> QED
  BY <1>7, <1>8, Completed

(* A level's own time moves when it completes a step, the time its fluxes  *)
(* have reached when it transports.                                        *)
LEMMA TimesKept ==
  ASSUME TypeOK, Control, Clock, option' = option, Underway,
         \/ ResetFlux \/ Timestep \/ SaveRadiationStep \/ Probe \/ PredictRadiationStep \/ Advance
         \/ ForecastRadiationStep \/ Reflux \/ FinishRadiationStep \/ Normalize
  PROVE  \A l \in TimeLevels :
           /\ StateTime(l)' = IF (FinishRadiationStep \/ (Reflux /\ ~Coupled)) /\ l = lev THEN EndOf(lev) ELSE StateTime(l)
           /\ Reached(l)' = IF Advance /\ l = lev THEN EndOf(lev) ELSE Reached(l)
<1> USE DEF Running
<1>1. /\ lev \in TimeLevels /\ lev \in Nat /\ frame \in [TimeLevels -> Frame]
      /\ \A l \in TimeLevels : l \in Nat
  BY TypeParts, FrameFields, LevelSet DEF ControlType
<1>2. CASE ResetFlux \/ SaveRadiationStep \/ Probe \/ PredictRadiationStep \/ Normalize
  <2>1. /\ frame' = frame /\ lev' = lev /\ ~Reflux /\ ~FinishRadiationStep /\ ~Advance
        /\ pc \in {"entry", "save", "probe", "predict", "normalize"} /\ pc' \in {"cfl", "probe", "predict", "advance", "publish"}
    BY <1>2 DEF ResetFlux, SaveRadiationStep, Probe, PredictRadiationStep, Normalize, Advance, Reflux, FinishRadiationStep
  <2> QED
    BY <2>1 DEF StateTime, Reached, FinerDone, Moved, At, EndOf
<1>3. CASE Timestep
  <2>1. PICK step \in Nat \ {0} : frame' = [frame EXCEPT ![lev].step = step]
    BY <1>3, ChosenStep
  <2>2. /\ lev' = lev /\ pc = "cfl" /\ pc' \in {"save", "advance"} /\ ~Reflux /\ ~FinishRadiationStep /\ ~Advance
    BY <1>3 DEF Timestep, Reflux, FinishRadiationStep, Advance
  <2>3. \A l \in TimeLevels : l # lev => frame'[l] = frame[l]
    BY <1>1, <2>1
  <2>4. frame'[lev].begin = frame[lev].begin /\ frame'[lev].elapsed = frame[lev].elapsed
    <3>1. frame'[lev] = [frame[lev] EXCEPT !.step = step] /\ frame[lev] \in Frame
      BY <1>1, <2>1
    <3> QED
      BY <3>1 DEF Frame
  <2>5. \A l \in TimeLevels : At(l)' = At(l) /\ (l # lev => EndOf(l)' = EndOf(l))
    BY <2>3, <2>4 DEF At, EndOf
  <2>6. \A l \in TimeLevels : StateTime(l)' = StateTime(l)
    BY <1>1, <2>2, <2>3, <2>4 DEF StateTime, FinerDone, At
  <2>7. \A l \in TimeLevels : Reached(l)' = Reached(l)
    BY <1>1, <2>2, <2>5, <2>6 DEF Reached, Moved
  <2> QED
    BY <2>2, <2>6, <2>7
<1>4. CASE Advance /\ Coupled
  <2>1. frame' = frame /\ lev' = lev /\ pc = "advance" /\ pc' = "forecast" /\ ~Reflux /\ ~FinishRadiationStep
    BY <1>4 DEF Advance, Reflux, FinishRadiationStep
  <2>2. \A l \in TimeLevels : StateTime(l)' = StateTime(l)
    BY <2>1 DEF StateTime, FinerDone, At, EndOf
  <2>3. \A l \in TimeLevels : Reached(l)' = IF l = lev THEN EndOf(lev) ELSE Reached(l)
    BY <1>1, <2>1, <2>2 DEF Reached, Moved, At, EndOf
  <2> QED
    BY <1>4, <2>1, <2>2, <2>3
<1>5. CASE (Advance /\ ~Coupled) \/ ForecastRadiationStep
  <2>1. /\ Stepping /\ pc \in {"advance", "forecast"} /\ (pc = "advance" <=> Advance)
        /\ ~Reflux /\ ~FinishRadiationStep
    BY <1>5 DEF Advance, ForecastRadiationStep, Reflux, FinishRadiationStep, Stepping
  <2>2. PICK predicted \in BOOLEAN : Descend(predicted)
    BY <1>5 DEF Advance, ForecastRadiationStep
  <2>3. CASE pc' = "reflux" /\ lev' = lev /\ frame' = frame /\ \A l \in TimeLevels : l <= lev
    <3>1. \A l \in TimeLevels : StateTime(l)' = StateTime(l)
      BY <2>1, <2>3 DEF StateTime, At
    <3>2. \A l \in TimeLevels : Reached(l)' = IF Advance /\ l = lev THEN EndOf(lev) ELSE Reached(l)
      BY <1>1, <2>1, <2>3, <3>1 DEF Reached, Moved, At, EndOf
    <3> QED
      BY <2>1, <3>1, <3>2
  <2>4. CASE /\ pc' = "entry" /\ lev' \in TimeLevels /\ lev < lev'
             /\ \A k \in TimeLevels : k < lev' <=> k <= lev
             /\ \A l \in TimeLevels : l # lev' => frame'[l] = frame[l]
             /\ \A l \in TimeLevels : l = lev' => At(l)' = At(lev)
    <3>1. \A l \in TimeLevels : l # lev' => At(l)' = At(l) /\ EndOf(l)' = EndOf(l)
      BY <2>4 DEF At, EndOf
    <3>2. \A l \in TimeLevels : StateTime(l)' = IF l <= lev' THEN At(l)' ELSE At(lev)
      <4>1. At(lev)' = At(lev)
        BY <2>4
      <4> QED
        BY <2>4, <4>1 DEF StateTime, FinerDone
    <3>3. \A l \in TimeLevels : StateTime(l) = IF l <= lev THEN At(l) ELSE At(lev)
      BY <2>1 DEF StateTime, FinerDone
    <3>4. \A l \in TimeLevels : StateTime(l)' = StateTime(l)
      <4> TAKE l \in TimeLevels
      <4>1. CASE l < lev'
        BY <1>1, <2>4, <3>1, <3>2, <3>3, <4>1
      <4>2. CASE l = lev'
        BY <1>1, <2>4, <3>2, <3>3, <4>2
      <4>3. CASE lev' < l
        BY <1>1, <2>4, <3>2, <3>3, <4>3
      <4> QED
        BY <1>1, <2>4, <4>1, <4>2, <4>3
    <3>5. \A l \in TimeLevels : Reached(l)' = IF l <= lev THEN EndOf(l) ELSE StateTime(l)
      BY <1>1, <2>4, <3>1, <3>4 DEF Reached, Moved
    <3>6. \A l \in TimeLevels : Reached(l) = IF l < lev \/ (l = lev /\ ~Advance) THEN EndOf(l) ELSE StateTime(l)
      BY <2>1 DEF Reached, Moved
    <3>7. \A l \in TimeLevels : Reached(l)' = IF Advance /\ l = lev THEN EndOf(lev) ELSE Reached(l)
      BY <1>1, <3>5, <3>6
    <3> QED
      BY <2>1, <3>4, <3>7
  <2> QED
    BY <2>1, <2>2, <2>3, <2>4, DescentTimes
<1>6. CASE Reflux /\ Coupled
  <2>1. frame' = frame /\ lev' = lev /\ pc = "reflux" /\ pc' = "finish" /\ ~Advance /\ ~FinishRadiationStep
    BY <1>6 DEF Advance, Reflux, FinishRadiationStep
  <2> QED
    BY <1>6, <2>1 DEF StateTime, Reached, FinerDone, Moved, At, EndOf
<1>7. CASE FinishRadiationStep \/ (Reflux /\ ~Coupled)
  <2>1. Stepping /\ pc \in {"reflux", "finish"} /\ CompleteStep /\ ~Advance
    BY <1>7 DEF Advance, Reflux, FinishRadiationStep, Stepping
  <2>2. /\ \A l \in TimeLevels : l # lev => frame'[l] = frame[l]
        /\ frame'[lev].step = frame[lev].step
        /\ \A l \in TimeLevels : l = lev => At(l)' = EndOf(lev)
    BY <2>1, CompletionTimes
  <2>3. \A l \in TimeLevels : l # lev => At(l)' = At(l) /\ EndOf(l)' = EndOf(l)
    BY <2>2 DEF At, EndOf
  <2>4. \A l \in TimeLevels : StateTime(l) = IF l <= lev THEN At(l) ELSE EndOf(lev)
    BY <2>1 DEF StateTime, FinerDone
  <2>5. \A l \in TimeLevels : Reached(l) = IF l <= lev THEN EndOf(l) ELSE EndOf(lev)
    BY <1>1, <2>1, <2>4 DEF Reached, Moved
  <2>6. CASE pc' \in {"cfl", "normalize"} /\ lev' = lev
    <3>1. \A l \in TimeLevels : StateTime(l)' = IF l <= lev THEN At(l)' ELSE EndOf(lev)
      <4>1. At(lev)' = EndOf(lev)
        BY <1>1, <2>2, <2>6
      <4> QED
        BY <2>6, <4>1 DEF StateTime, FinerDone
    <3>2. \A l \in TimeLevels : StateTime(l)' = IF l = lev THEN EndOf(lev) ELSE StateTime(l)
      BY <1>1, <2>2, <2>3, <2>4, <3>1
    <3>3. \A l \in TimeLevels : Reached(l)' = IF l < lev THEN EndOf(l) ELSE StateTime(l)'
      BY <1>1, <2>3, <2>6 DEF Reached, Moved
    <3>4. \A l \in TimeLevels : Reached(l)' = Reached(l)
      BY <1>1, <2>4, <2>5, <3>2, <3>3
    <3> QED
      BY <1>7, <2>1, <3>2, <3>4
  <2>7. CASE /\ pc' = "reflux" /\ lev' \in TimeLevels /\ lev' < lev /\ EndOf(lev') = EndOf(lev)
             /\ \A k \in TimeLevels : k < lev <=> k <= lev'
    <3>1. EndOf(lev)' = EndOf(lev)
      <4>1. lev' # lev
        BY <1>1, <2>7
      <4> QED
        BY <2>2, <2>7, <4>1 DEF EndOf, At
    <3>2. \A l \in TimeLevels : StateTime(l)' = IF l <= lev' THEN At(l)' ELSE EndOf(lev)
      BY <2>7, <3>1 DEF StateTime, FinerDone
    <3>3. \A l \in TimeLevels : StateTime(l)' = IF l = lev THEN EndOf(lev) ELSE StateTime(l)
      BY <1>1, <2>3, <2>4, <2>7, <3>2
    <3>4. \A l \in TimeLevels : Reached(l)' = IF l <= lev' THEN EndOf(l) ELSE StateTime(l)'
      BY <1>1, <2>3, <2>7 DEF Reached, Moved
    <3>5. \A l \in TimeLevels : Reached(l)' = Reached(l)
      BY <1>1, <2>4, <2>5, <2>7, <3>3, <3>4
    <3> QED
      BY <1>7, <2>1, <3>3, <3>5
  <2> QED
    BY <2>1, <2>6, <2>7, CompletionTimes
<1> QED
  BY <1>2, <1>3, <1>4, <1>5, <1>6, <1>7

-----------------------------------------------------------------------------
(* Which levels are open, and over which interval. *)
LEMMA LevelClockStep ==
  ASSUME TypeOK, Control, Clock, LevelClock, Next
  PROVE  LevelClock'
<1> USE DEF Running
<1>0. option' = option /\ option \in Options
  BY TypeParts DEF Next
<1>1. TimeLevels' = TimeLevels /\ Coupled' = Coupled
  BY <1>0, OptionKept
<1>2. /\ lev \in TimeLevels /\ lev \in Nat /\ frame \in [TimeLevels -> Frame]
      /\ \A l \in TimeLevels : l \in Nat
  BY <1>0, TypeParts, FrameFields, LevelSet DEF ControlType
<1>3. CASE Backup
  <2>1. /\ lev' = lev /\ lev = Coarsest /\ pc' = "entry"
        /\ levels' = [l \in TimeLevels |-> [bank |-> bank, begin |-> 0, end |-> 0, pending |-> FALSE, predictor |-> FALSE]]
    BY <1>3 DEF Backup, Control, InRecursion
  <2>2. \A l \in TimeLevels : ~(l < lev') /\ ~Opened(l)'
    BY <1>0, <1>2, <2>1, CoarsestLevel DEF Opened
  <2>3. \A l \in TimeLevels : levels'[l].pending = Opened(l)'
    <3> TAKE l \in TimeLevels
    <3>1. levels'[l].pending = FALSE
      BY <2>1
    <3>2. Opened(l)' = FALSE
      BY <2>2 DEF Opened
    <3> QED
      BY <3>1, <3>2
  <2>4. \A l \in TimeLevels : ~(l < lev' \/ (l = lev' /\ Stepping'))
    BY <2>1, <2>2 DEF Stepping
  <2> QED
    BY <1>1, <2>2, <2>3, <2>4 DEF LevelClock
<1>4. CASE ResetFlux \/ SaveRadiationStep \/ Probe \/ PredictRadiationStep \/ Normalize \/ (Advance /\ Coupled)
  <2>1. /\ frame' = frame /\ lev' = lev /\ levels' = levels /\ Underway /\ pc # "reflux" /\ pc' # "reflux"
        /\ Stepping' => Stepping
    BY <1>4 DEF ResetFlux, SaveRadiationStep, Probe, PredictRadiationStep, Normalize, Advance, Underway, Stepping
  <2>2. \A l \in TimeLevels : Opened(l)' = Opened(l)
    BY <2>1 DEF Opened
  <2>3. \A l \in TimeLevels : At(l)' = At(l) /\ EndOf(l)' = EndOf(l)
    BY <2>1 DEF At, EndOf
  <2> QED
    BY <1>1, <2>1, <2>2, <2>3 DEF LevelClock
<1>5. CASE Timestep
  <2>1. lev' = lev /\ Underway /\ pc = "cfl" /\ pc' \in {"save", "advance"}
    BY <1>5 DEF Timestep, Underway
  <2>2. \A l \in TimeLevels : l # lev => levels'[l] = levels[l]
    BY <1>5, Limited
  <2>3. levels'[lev].pending = levels[lev].pending
    BY <1>5, Limited
  <2>4. PICK step \in Nat \ {0} :
          /\ frame' = [frame EXCEPT ![lev].step = step]
          /\ levels'[lev].begin = At(lev) /\ levels'[lev].end = At(lev) + step
    BY <1>5, Limited
  <2>5. \A l \in TimeLevels : l # lev => At(l)' = At(l) /\ EndOf(l)' = EndOf(l)
    BY <1>2, <2>4 DEF At, EndOf
  <2>6. \A l \in TimeLevels : l = lev => At(l)' = At(lev) /\ EndOf(l)' = At(lev) + step
    <3>1. frame'[lev] = [frame[lev] EXCEPT !.step = step] /\ frame[lev] \in Frame
      BY <1>2, <2>4
    <3>2. frame'[lev].begin = frame[lev].begin /\ frame'[lev].elapsed = frame[lev].elapsed /\ frame'[lev].step = step
      BY <3>1 DEF Frame
    <3> QED
      BY <3>2 DEF At, EndOf
  <2>7. \A l \in TimeLevels : Opened(l)' = Opened(l) /\ (Opened(l) => l < lev)
    BY <2>1 DEF Opened
  <2>8. \A l \in TimeLevels : levels'[l].pending = Opened(l)'
    BY <2>1, <2>2, <2>3, <2>7 DEF LevelClock
  <2>9. \A l \in TimeLevels : l < lev \/ l = lev => levels'[l].begin = At(l)' /\ levels'[l].end = EndOf(l)'
    <3> TAKE l \in TimeLevels
    <3>1. CASE l = lev
      BY <2>4, <2>6, <3>1
    <3>2. CASE l # lev
      BY <2>1, <2>2, <2>5, <3>2 DEF LevelClock
    <3> QED
      BY <3>1, <3>2
  <2>10. \A l \in TimeLevels : Opened(l)' => levels'[l].predictor = Coupled
    BY <1>2, <2>1, <2>2, <2>7 DEF LevelClock
  <2> QED
    BY <1>1, <2>1, <2>8, <2>9, <2>10 DEF LevelClock
<1>6. CASE (Advance /\ ~Coupled) \/ ForecastRadiationStep
  <2>1. Stepping /\ Underway /\ pc \in {"advance", "forecast"}
    BY <1>6 DEF Advance, ForecastRadiationStep, Stepping, Underway
  <2>2. PICK predicted \in BOOLEAN : Descend(predicted) /\ predicted = Coupled
    <3>1. ForecastRadiationStep => Coupled
      BY DEF ForecastRadiationStep, Control
    <3>2. Coupled \in BOOLEAN
      BY <1>0, LevelSet
    <3> QED
      BY <1>6, <3>1, <3>2 DEF Advance, ForecastRadiationStep
  <2>3. /\ \A l \in TimeLevels : l # lev => levels'[l] = levels[l]
        /\ levels'[lev].pending = TRUE /\ levels'[lev].predictor = Coupled
        /\ levels'[lev].begin = levels[lev].begin /\ levels'[lev].end = levels[lev].end
    BY <2>1, <2>2, Descended
  <2>4. levels[lev].begin = At(lev) /\ levels[lev].end = EndOf(lev)
    BY <1>2, <2>1 DEF LevelClock
  <2>5. \A l \in TimeLevels : Opened(l) <=> l < lev
    BY <2>1 DEF Opened
  <2>6. CASE pc' = "reflux" /\ lev' = lev /\ frame' = frame
    <3>1. \A l \in TimeLevels : Opened(l)' <=> l < lev \/ l = lev
      BY <2>6 DEF Opened
    <3>2. \A l \in TimeLevels : At(l)' = At(l) /\ EndOf(l)' = EndOf(l)
      BY <2>6 DEF At, EndOf
    <3>3. \A l \in TimeLevels : levels'[l].pending = Opened(l)'
      <4> TAKE l \in TimeLevels
      <4>1. CASE l = lev
        <5>1. Opened(l)' = TRUE
          BY <3>1, <4>1 DEF Opened
        <5> QED
          BY <2>3, <4>1, <5>1
      <4>2. CASE l # lev
        <5>1. levels[l].pending = Opened(l) /\ Opened(l)' = Opened(l)
          BY <2>1, <2>5, <2>6, <3>1, <4>2 DEF LevelClock, Opened
        <5> QED
          BY <2>3, <4>2, <5>1
      <4> QED
        BY <4>1, <4>2
    <3>4. \A l \in TimeLevels : l < lev \/ l = lev => levels'[l].begin = At(l)' /\ levels'[l].end = EndOf(l)'
      BY <1>2, <2>1, <2>3, <2>4, <3>2 DEF LevelClock
    <3>5. \A l \in TimeLevels : Opened(l)' => levels'[l].predictor = Coupled
      BY <1>2, <2>1, <2>3, <2>5, <3>1 DEF LevelClock
    <3> QED
      BY <1>1, <2>6, <3>3, <3>4, <3>5 DEF LevelClock
  <2>7. CASE /\ pc' = "entry" /\ lev' \in TimeLevels /\ lev < lev'
             /\ \A k \in TimeLevels : k < lev' <=> k <= lev
             /\ \A l \in TimeLevels : l # lev' => frame'[l] = frame[l]
    <3>1. \A l \in TimeLevels : Opened(l)' <=> l < lev \/ l = lev
      BY <1>2, <2>7 DEF Opened
    <3>2. \A l \in TimeLevels : l < lev \/ l = lev => At(l)' = At(l) /\ EndOf(l)' = EndOf(l)
      BY <1>2, <2>7 DEF At, EndOf
    <3>3. \A l \in TimeLevels : levels'[l].pending = Opened(l)'
      <4> TAKE l \in TimeLevels
      <4>1. CASE l = lev
        <5>1. Opened(l)' = TRUE
          BY <3>1, <4>1 DEF Opened
        <5> QED
          BY <2>3, <4>1, <5>1
      <4>2. CASE l # lev
        <5>1. levels[l].pending = Opened(l) /\ Opened(l)' = Opened(l)
          BY <2>1, <2>5, <3>1, <4>2 DEF LevelClock, Opened
        <5> QED
          BY <2>3, <4>2, <5>1
      <4> QED
        BY <4>1, <4>2
    <3>4. \A l \in TimeLevels : l < lev' => levels'[l].begin = At(l)' /\ levels'[l].end = EndOf(l)'
      BY <1>2, <2>1, <2>3, <2>4, <2>7, <3>2 DEF LevelClock
    <3>5. \A l \in TimeLevels : Opened(l)' => levels'[l].predictor = Coupled
      BY <1>2, <2>1, <2>3, <2>5, <3>1 DEF LevelClock
    <3> QED
      BY <1>1, <2>7, <3>3, <3>4, <3>5 DEF LevelClock, Stepping
  <2> QED
    BY <2>1, <2>2, <2>6, <2>7, DescentTimes
<1>7. CASE Reflux \/ FinishRadiationStep
  <2>1. Stepping /\ Underway /\ pc \in {"reflux", "finish"} /\ (pc = "reflux" <=> Reflux)
    BY <1>7 DEF Reflux, FinishRadiationStep, Stepping, Underway
  <2>2. \/ levels' = [levels EXCEPT ![lev].bank = Alternated(@)]
        \/ levels' = [levels EXCEPT ![lev].pending = FALSE, ![lev].bank = Alternated(@)]
    BY <1>7 DEF Reflux, FinishRadiationStep
  <2>3. /\ \A l \in TimeLevels : l # lev => levels'[l] = levels[l]
        /\ levels'[lev].begin = levels[lev].begin /\ levels'[lev].end = levels[lev].end
        /\ levels \in [TimeLevels -> Level]
    BY <2>1, <2>2, Alternation
  <2>4. levels'[lev].pending = FALSE
    <3>1. CASE Reflux
      <4>1. levels' = [levels EXCEPT ![lev].pending = FALSE, ![lev].bank = Alternated(@)]
        BY <3>1 DEF Reflux
      <4>2. levels'[lev] = [levels[lev] EXCEPT !.pending = FALSE, !.bank = Alternated(@)] /\ levels[lev] \in Level
        BY <1>2, <2>3, <4>1
      <4> QED
        BY <4>2 DEF Level
    <3>2. CASE FinishRadiationStep
      <4>1. levels' = [levels EXCEPT ![lev].bank = Alternated(@)]
        BY <3>2 DEF FinishRadiationStep
      <4>2. levels'[lev] = [levels[lev] EXCEPT !.bank = Alternated(@)] /\ levels[lev] \in Level
        BY <1>2, <2>3, <4>1
      <4>3. levels'[lev].pending = levels[lev].pending
        BY <4>2 DEF Level
      <4>4. pc = "finish" /\ ~(lev < lev)
        BY <1>2, <3>2 DEF FinishRadiationStep
      <4>5. ~Opened(lev)
        BY <4>4 DEF Opened
      <4>6. levels[lev].pending = Opened(lev)
        BY <1>2, <2>1 DEF LevelClock
      <4> QED
        BY <4>3, <4>5, <4>6 DEF Opened
    <3> QED
      BY <1>7, <3>1, <3>2
  <2>5. levels[lev].begin = At(lev) /\ levels[lev].end = EndOf(lev)
    BY <1>2, <2>1 DEF LevelClock
  <2>6. \A l \in TimeLevels : l # lev => (levels[l].pending = Opened(l)) /\ (Opened(l) <=> l < lev)
    BY <2>1 DEF LevelClock, Opened
  <2>7. CASE Reflux /\ Coupled
    <3>1. pc' = "finish" /\ lev' = lev /\ frame' = frame
      BY <2>7 DEF Reflux
    <3>2. \A l \in TimeLevels : Opened(l)' <=> l < lev
      BY <3>1 DEF Opened
    <3>3. \A l \in TimeLevels : At(l)' = At(l) /\ EndOf(l)' = EndOf(l)
      BY <3>1 DEF At, EndOf
    <3>4. \A l \in TimeLevels : levels'[l].pending = Opened(l)'
      <4> TAKE l \in TimeLevels
      <4>1. CASE l = lev
        <5>1. Opened(l)' = FALSE
          BY <1>2, <3>2, <4>1 DEF Opened
        <5> QED
          BY <2>4, <4>1, <5>1
      <4>2. CASE l # lev
        <5>1. levels[l].pending = Opened(l) /\ Opened(l)' = Opened(l)
          BY <2>6, <3>2, <4>2 DEF Opened
        <5> QED
          BY <2>3, <4>2, <5>1
      <4> QED
        BY <4>1, <4>2
    <3>5. \A l \in TimeLevels : l < lev \/ l = lev => levels'[l].begin = At(l)' /\ levels'[l].end = EndOf(l)'
      BY <1>2, <2>1, <2>3, <2>5, <3>3 DEF LevelClock
    <3>6. \A l \in TimeLevels : Opened(l)' => levels'[l].predictor = Coupled
      BY <1>2, <2>1, <2>3, <2>6, <3>2 DEF LevelClock
    <3> QED
      BY <1>1, <3>1, <3>4, <3>5, <3>6 DEF LevelClock
  <2>8. CASE FinishRadiationStep \/ (Reflux /\ ~Coupled)
    <3>1. CompleteStep
      BY <2>8 DEF Reflux, FinishRadiationStep
    <3>2. \A l \in TimeLevels : l # lev => At(l)' = At(l) /\ EndOf(l)' = EndOf(l)
      BY <2>1, <3>1, CompletionTimes DEF At, EndOf
    <3>3. \A l \in TimeLevels : Opened(l)' <=> l < lev
      <4>1. CASE pc' \in {"cfl", "normalize"} /\ lev' = lev
        BY <4>1 DEF Opened
      <4>2. CASE pc' = "reflux" /\ lev' \in TimeLevels /\ \A k \in TimeLevels : k < lev <=> k <= lev'
        BY <1>2, <4>2 DEF Opened
      <4> QED
        BY <2>1, <3>1, <4>1, <4>2, CompletionTimes
    <3>4. \A l \in TimeLevels : levels'[l].pending = Opened(l)'
      <4> TAKE l \in TimeLevels
      <4>1. CASE l = lev
        <5>1. Opened(l)' = FALSE
          BY <1>2, <3>3, <4>1 DEF Opened
        <5> QED
          BY <2>4, <4>1, <5>1
      <4>2. CASE l # lev
        <5>1. levels[l].pending = Opened(l) /\ Opened(l)' = Opened(l)
          BY <2>6, <3>3, <4>2 DEF Opened
        <5> QED
          BY <2>3, <4>2, <5>1
      <4> QED
        BY <4>1, <4>2
    <3>5. \A l \in TimeLevels : l < lev => levels'[l].begin = At(l)' /\ levels'[l].end = EndOf(l)'
      BY <1>2, <2>1, <2>3, <3>2 DEF LevelClock
    <3>6. \A l \in TimeLevels : Opened(l)' => levels'[l].predictor = Coupled
      BY <1>2, <2>1, <2>3, <2>6, <3>3 DEF LevelClock
    <3>7. \A l \in TimeLevels : l < lev' \/ (l = lev' /\ Stepping') => l < lev
      <4>1. CASE pc' \in {"cfl", "normalize"} /\ lev' = lev
        BY <4>1 DEF Stepping
      <4>2. CASE pc' = "reflux" /\ lev' \in TimeLevels /\ \A k \in TimeLevels : k < lev <=> k <= lev'
        BY <1>2, <4>2
      <4> QED
        BY <2>1, <3>1, <4>1, <4>2, CompletionTimes
    <3> QED
      BY <1>1, <3>4, <3>5, <3>6, <3>7 DEF LevelClock
  <2> QED
    BY <1>7, <2>7, <2>8
<1>8. CASE (\E dt \in option.durations : Start(dt)) \/ Checkpoint \/ ProbeAll
  <2>1. ~Underway'
    BY <1>8 DEF Start, Checkpoint, ProbeAll, Underway
  <2> QED
    BY <2>1 DEF LevelClock
<1>9. CASE Publish \/ Floor \/ Fails \/ Restore \/ RestoreFails \/ Recover \/ RecoverFails \/ Finished
  <2>1. mode = "idle" \/ mode = "restoring" \/ mode = "recovering" \/ mode = "lost" => pc = "start"
    BY DEF Control
  <2>2. ~Underway'
    BY <1>9, <2>1 DEF Publish, Floor, Fails, Handler, Restore, RestoreFails, Recover, RecoverFails, Finished, vars, Underway
  <2> QED
    BY <2>2 DEF LevelClock
<1> QED
  BY <1>3, <1>4, <1>5, <1>6, <1>7, <1>8, <1>9 DEF Next, Phase

-----------------------------------------------------------------------------
(* The levels' times lie within the interval, from its start to its end.   *)
LEMMA TimeBounds ==
  ASSUME TypeOK, Control, Clock, Underway, NEW l \in TimeLevels
  PROVE  /\ StateTime(l) \in Nat /\ Reached(l) \in Nat /\ time \in Nat /\ MaxTime \in Nat
         /\ time <= StateTime(l) /\ StateTime(l) <= Reached(l) /\ Reached(l) <= MaxTime
<1>1. l \in Nat /\ lev \in Nat /\ lev \in TimeLevels /\ time \in Nat /\ MaxTime \in Nat /\ lev <= lev
  BY FrameFields
<1>2. FinerDone => Stepping
  BY DEF FinerDone, Stepping
<1>3. /\ At(lev) \in Nat /\ time <= At(lev) /\ At(lev) <= MaxTime
      /\ Stepping => EndOf(lev) \in Nat /\ At(lev) < EndOf(lev) /\ EndOf(lev) <= MaxTime
  BY <1>1, OpenClock
<1>4. CASE l < lev
  <2>1. /\ At(l) \in Nat /\ time <= At(l) /\ At(l) <= MaxTime
        /\ EndOf(l) \in Nat /\ At(l) < EndOf(l) /\ EndOf(l) <= MaxTime
    BY <1>1, <1>4, OpenClock
  <2>2. StateTime(l) = At(l) /\ Reached(l) = EndOf(l)
    BY <1>1, <1>4 DEF StateTime, Reached
  <2> QED
    BY <1>1, <2>1, <2>2
<1>5. CASE l = lev
  <2>1. StateTime(l) = At(lev) /\ Reached(l) = IF Moved THEN EndOf(lev) ELSE At(lev)
    BY <1>1, <1>5 DEF StateTime, Reached
  <2>2. Moved => Stepping
    BY DEF Moved, Stepping
  <2> QED
    BY <1>1, <1>3, <2>1, <2>2
<1>6. CASE lev < l
  <2>1. StateTime(l) = (IF FinerDone THEN EndOf(lev) ELSE At(lev)) /\ Reached(l) = StateTime(l)
    BY <1>1, <1>6 DEF StateTime, Reached
  <2> QED
    BY <1>1, <1>2, <1>3, <2>1
<1> QED
  BY <1>1, <1>4, <1>5, <1>6

(* Every level is at the end of the interval when it is published. *)
LEMMA FinalTimes ==
  ASSUME TypeOK, Control, Clock, Underway, pc \in {"normalize", "publish"}
  PROVE  /\ lev = Coarsest /\ Coarsest \in TimeLevels /\ At(Coarsest) = time + frame[Coarsest].duration
         /\ frame[Coarsest].duration \in Nat \ {0}
         /\ \A l \in TimeLevels : StateTime(l) = At(Coarsest) /\ Reached(l) = At(Coarsest)
<1>1. option \in Options /\ lev = Coarsest
  BY TypeParts DEF Control, InRecursion
<1>2. Coarsest \in TimeLevels /\ \A l \in TimeLevels : l \in Nat /\ Coarsest <= l
  BY <1>1, CoarsestLevel, LevelSet
<1>3. frame[Coarsest].elapsed = frame[Coarsest].duration /\ time = frame[Coarsest].begin /\ frame[Coarsest].duration > 0
  BY <1>1 DEF Clock, Underway
<1>4. frame[Coarsest].duration \in Nat \ {0} /\ At(Coarsest) = time + frame[Coarsest].duration
  BY <1>2, <1>3, FrameFields DEF At
<1>5. \A l \in TimeLevels : StateTime(l) = At(Coarsest)
  BY <1>1, <1>2 DEF StateTime, FinerDone
<1>6. \A l \in TimeLevels : Reached(l) = At(Coarsest)
  BY <1>1, <1>2, <1>5 DEF Reached, Moved
<1> QED
  BY <1>1, <1>2, <1>4, <1>5, <1>6

(* Every level is at its beginning when the recursion is entered. *)
LEMMA FirstTimes ==
  ASSUME TypeOK, Control, Clock, Backup, option' = option
  PROVE  /\ \A l \in TimeLevels : StateTime(l)' = time /\ Reached(l)' = time
         /\ mode = "running" /\ pc = "backup" /\ mode' = "running" /\ pc' = "entry" /\ lev' = Coarsest /\ time' = time
<1>1. option \in Options /\ Coarsest \in TimeLevels /\ \A l \in TimeLevels : l \in Nat /\ Coarsest <= l
  BY TypeParts, CoarsestLevel, LevelSet
<1>2. /\ mode = "running" /\ pc = "backup" /\ mode' = "running" /\ pc' = "entry" /\ lev' = lev /\ lev = Coarsest
      /\ frame' = frame /\ time' = time
  BY DEF Backup, Running, Control, InRecursion
<1>3. frame[Coarsest].elapsed = 0 /\ time = frame[Coarsest].begin
  BY <1>2 DEF Clock, Preparing
<1>4. At(Coarsest) = time
  BY <1>1, <1>3, FrameFields DEF At
<1>5. \A l \in TimeLevels : StateTime(l)' = time
  BY <1>1, <1>2, <1>4 DEF StateTime, FinerDone, At
<1>6. \A l \in TimeLevels : Reached(l)' = time
  BY <1>1, <1>2, <1>5 DEF Reached, Moved
<1> QED
  BY <1>2, <1>5, <1>6

(* Boundary transport. *)
LEMMA BookedStep ==
  ASSUME TypeOK, Control, Clock, Booked, Next
  PROVE  Booked' /\ TransportType'
<1> USE DEF Running
<1>0. option' = option /\ option \in Options
  BY TypeParts DEF Next
<1>1. /\ Spatial' = Spatial /\ Coupled' = Coupled /\ (\A s : TimeLevel(s)' = TimeLevel(s)) /\ Ticks' = Ticks
      /\ \A s \in Spatial : TimeLevel(s) \in TimeLevels
  BY <1>0, OptionKept, LevelSet DEF Ticks
<1>2. /\ transported \in [Spatial -> Ticks] /\ boundary \in [Spatial -> Ticks] /\ backup.boundary \in [Spatial -> Ticks]
      /\ time \in Nat /\ MaxTime \in Nat /\ lev \in Nat /\ lev \in TimeLevels
  BY TypeParts, FrameFields DEF TransportType, BackupType, ControlType
<1>3. ASSUME transported' = transported, boundary' = boundary
      PROVE  TransportType'
  BY <1>1, <1>2, <1>3 DEF TransportType
<1>4. pc = "start" <=> mode # "running"
  BY DEF Control
<1>5. CASE \E dt \in option.durations : Start(dt)
  <2>1. /\ mode = "idle" /\ mode' = "running" /\ (pc' = IF Coupled THEN "checkpoint" ELSE "backup")
        /\ transported' = Zero /\ boundary' = boundary /\ time' = time
    BY <1>5 DEF Start
  <2>2. TransportType'
    <3>1. 0 \in Ticks
      BY <1>2 DEF Ticks
    <3> QED
      BY <1>1, <1>2, <2>1, <3>1 DEF TransportType, Zero
  <2> QED
    BY <1>1, <2>1, <2>2 DEF Booked, Preparing, Underway, BackupHeld, Zero
<1>6. CASE Checkpoint
  <2>1. /\ mode = "running" /\ pc = "checkpoint" /\ mode' = mode /\ pc' = "probeAll"
        /\ transported' = transported /\ boundary' = boundary /\ time' = time
        /\ backup'.boundary = boundary /\ backup'.time = time
    BY <1>6 DEF Checkpoint
  <2> QED
    BY <1>1, <1>3, <2>1 DEF Booked, Preparing, Underway, BackupHeld
<1>7. CASE ProbeAll
  <2>1. /\ mode = "running" /\ pc = "probeAll" /\ mode' = mode /\ pc' = "backup"
        /\ transported' = transported /\ boundary' = boundary /\ time' = time /\ backup' = backup
    BY <1>7 DEF ProbeAll, accounts, call
  <2> QED
    BY <1>1, <1>3, <2>1 DEF Booked, Preparing, Underway, BackupHeld
<1>8. CASE Backup
  <2>1. /\ mode = "running" /\ pc = "backup" /\ mode' = mode /\ pc' = "entry"
        /\ transported' = transported /\ boundary' = boundary /\ time' = time /\ backup' = backup
    BY <1>8 DEF Backup, accounts, call
  <2>2. \A s \in Spatial : transported'[s] = Reached(TimeLevel(s))' - time'
    <3>1. \A s \in Spatial : transported[s] = 0
      BY <2>1 DEF Booked, Preparing
    <3>2. \A s \in Spatial : Reached(TimeLevel(s))' = time
      <4>1. \A l \in TimeLevels : Reached(l)' = time
        BY <1>0, <1>8, FirstTimes
      <4>2. \A s \in Spatial : Reached(TimeLevel(s)') = Reached(TimeLevel(s))
        BY <1>1
      <4> QED
        BY <1>1, <4>1
    <3> QED
      BY <1>2, <2>1, <3>1, <3>2
  <2> QED
    BY <1>1, <1>3, <2>1, <2>2 DEF Booked, Preparing, Underway, BackupHeld
<1>9. CASE \/ ResetFlux \/ Timestep \/ SaveRadiationStep \/ Probe \/ PredictRadiationStep \/ Advance
           \/ ForecastRadiationStep \/ Reflux \/ FinishRadiationStep \/ Normalize
  <2>1. /\ Underway /\ mode = "running" /\ mode' = mode /\ boundary' = boundary /\ time' = time /\ backup' = backup
        /\ ~Preparing' /\ pc # "checkpoint"
    BY <1>9 DEF ResetFlux, Timestep, SaveRadiationStep, Probe, PredictRadiationStep, Advance, ForecastRadiationStep,
       Reflux, FinishRadiationStep, Normalize, Descend, CompleteStep, accounts, call, Underway, Preparing
  <2>2. \A l \in TimeLevels : Reached(l)' = IF Advance /\ l = lev THEN EndOf(lev) ELSE Reached(l)
    BY <1>0, <1>9, <2>1, TimesKept
  <2>3. \A s \in Spatial : Reached(TimeLevel(s))' =
          IF Advance /\ TimeLevel(s) = lev THEN EndOf(lev) ELSE Reached(TimeLevel(s))
    BY <1>1, <2>2
  <2>4. CASE ~Advance
    <3>1. transported' = transported
      BY <1>9, <2>4 DEF ResetFlux, Timestep, SaveRadiationStep, Probe, PredictRadiationStep, ForecastRadiationStep,
         Reflux, FinishRadiationStep, Normalize, accounts
    <3> QED
      BY <1>1, <1>3, <2>1, <2>3, <2>4, <3>1 DEF Booked, BackupHeld
  <2>5. CASE Advance
    <3>1. /\ transported' = [s \in Spatial |-> IF s \in Own THEN transported[s] + frame[lev].step ELSE transported[s]]
          /\ pc = "advance"
      BY <2>5 DEF Advance
    <3>2. /\ EndOf(lev) = At(lev) + frame[lev].step /\ frame[lev].step \in Nat /\ At(lev) \in Nat
          /\ EndOf(lev) <= MaxTime /\ time <= At(lev)
      <4>1. Stepping /\ lev <= lev
        BY <1>2, <3>1 DEF Stepping
      <4> QED
        BY <1>2, <2>1, <4>1, OpenClock DEF EndOf
    <3>3. \A s \in Spatial : transported[s] = Reached(TimeLevel(s)) - time
      BY <2>1 DEF Booked
    <3>4. \A s \in Spatial : TimeLevel(s) = lev => Reached(TimeLevel(s)) = At(lev)
      BY <1>2, <3>1 DEF Reached, StateTime, Moved
    <3>5. \A s \in Spatial : transported'[s] = Reached(TimeLevel(s))' - time
      <4> TAKE s \in Spatial
      <4>1. CASE TimeLevel(s) = lev
        <5>1. transported'[s] = transported[s] + frame[lev].step
          BY <3>1, <4>1 DEF Own, Members
        <5>2. transported[s] = At(lev) - time
          BY <3>3, <3>4, <4>1
        <5> QED
          BY <1>2, <2>3, <2>5, <3>2, <4>1, <5>1, <5>2
      <4>2. CASE TimeLevel(s) # lev
        BY <2>3, <3>1, <3>3, <4>2 DEF Own, Members
      <4> QED
        BY <4>1, <4>2
    <3>6. TransportType'
      <4>1. \A s \in Spatial : transported'[s] \in Ticks
        <5> TAKE s \in Spatial
        <5>1. CASE TimeLevel(s) = lev
          <6>1. transported'[s] = (At(lev) + frame[lev].step) - time
            BY <2>3, <2>5, <3>2, <3>5, <5>1
          <6> QED
            BY <1>2, <3>2, <6>1 DEF Ticks
        <5>2. CASE TimeLevel(s) # lev
          <6>1. transported'[s] = transported[s]
            BY <2>3, <3>3, <3>5, <5>2
          <6> QED
            BY <1>2, <6>1
        <5> QED
          BY <5>1, <5>2
      <4>2. transported' = [s \in Spatial |-> transported'[s]]
        BY <3>1
      <4>3. transported' \in [Spatial -> Ticks]
        BY <4>1, <4>2
      <4> QED
        BY <1>1, <1>2, <2>1, <4>3 DEF TransportType
    <3> QED
      BY <1>1, <2>1, <3>5, <3>6 DEF Booked, BackupHeld
  <2> QED
    BY <2>4, <2>5
<1>10. CASE Publish
  <2>1. /\ mode = "running" /\ pc = "publish" /\ Underway
        /\ transported' = transported /\ boundary' = [s \in Spatial |-> boundary[s] + transported[s]]
        /\ backup' = backup /\ time' = time + frame[Coarsest].duration
        /\ ~Preparing' /\ ~Underway'
    BY <1>10 DEF Publish, Underway, Preparing
  <2>2. /\ At(Coarsest) = time + frame[Coarsest].duration /\ frame[Coarsest].duration \in Nat
        /\ \A l \in TimeLevels : Reached(l) = At(Coarsest)
    BY <2>1, FinalTimes
  <2>3. \A s \in Spatial : boundary[s] = time /\ transported[s] = At(Coarsest) - time
    BY <1>1, <2>1, <2>2 DEF Booked
  <2>4. \A s \in Spatial : boundary'[s] = time'
    BY <1>2, <2>1, <2>2, <2>3
  <2>5. TransportType'
    <3>1. time' \in Ticks
      BY ControlStep DEF ControlType, Ticks
    <3>2. boundary' = [s \in Spatial |-> time']
      BY <2>1, <2>4
    <3>3. boundary' \in [Spatial -> Ticks]
      BY <3>1, <3>2
    <3> QED
      BY <1>1, <1>2, <2>1, <3>3 DEF TransportType
  <2> QED
    BY <1>1, <2>1, <2>4, <2>5 DEF Booked, BackupHeld
<1>11. CASE Floor \/ Fails
  <2>1. /\ mode = "running" /\ mode' # "running" /\ transported' = transported /\ boundary' = boundary /\ time' = time
        /\ backup' = backup /\ (BackupHeld' => BackupHeld)
    BY <1>1, <1>11 DEF Floor, Fails, Handler, BackupHeld
  <2> QED
    BY <1>1, <1>3, <2>1 DEF Booked, Preparing, Underway
<1>12. CASE Restore \/ RestoreFails
  <2>1. /\ mode = "restoring" /\ mode' # "running" /\ transported' = transported /\ boundary' = boundary /\ time' = time
        /\ backup' = backup /\ (BackupHeld' => BackupHeld)
    BY <1>1, <1>4, <1>12 DEF Restore, RestoreFails, accounts, call, BackupHeld
  <2> QED
    BY <1>1, <1>3, <2>1 DEF Booked, Preparing, Underway
<1>13. CASE Recover
  <2>1. /\ mode = "recovering" /\ mode' = "idle" /\ transported' = transported /\ boundary' = backup.boundary
        /\ time' = backup.time /\ backup' = backup
    BY <1>13 DEF Recover, RecoveredBoundary, call
  <2>2. BackupHeld
    BY <1>4, <2>1 DEF BackupHeld, Control
  <2>3. \A s \in Spatial : boundary'[s] = time'
    BY <2>1, <2>2 DEF Booked
  <2>4. TransportType'
    BY <1>1, <1>2, <2>1 DEF TransportType
  <2> QED
    BY <1>1, <2>1, <2>3, <2>4 DEF Booked, Preparing, Underway, BackupHeld
<1>14. CASE RecoverFails
  <2>1. mode' = "lost" /\ transported' = transported /\ boundary' = boundary
    BY <1>14 DEF RecoverFails, accounts
  <2> QED
    BY <1>3, <2>1 DEF Booked, Preparing, Underway, BackupHeld
<1>15. CASE Finished
  <2>1. /\ mode' = mode /\ transported' = transported /\ boundary' = boundary /\ time' = time /\ mode \in {"idle", "lost"}
    BY <1>15 DEF Finished, vars, accounts
  <2> QED
    BY <1>1, <1>3, <2>1 DEF Booked, Preparing, Underway, BackupHeld
<1> QED
  BY <1>5, <1>6, <1>7, <1>8, <1>9, <1>10, <1>11, <1>12, <1>13, <1>14, <1>15 DEF Next, Phase

-----------------------------------------------------------------------------
(* Step counts. *)
LEMMA CountedStep ==
  ASSUME TypeOK, Control, Clock, Counted, Next
  PROVE  Counted' /\ CountType'
<1> USE DEF Running
<1>0. option' = option /\ option \in Options
  BY TypeParts DEF Next
<1>1. /\ Spatial' = Spatial /\ Coupled' = Coupled /\ (\A s : TimeLevel(s)' = TimeLevel(s)) /\ Ticks' = Ticks
      /\ \A s \in Spatial : TimeLevel(s) \in TimeLevels
  BY <1>0, OptionKept, LevelSet DEF Ticks
<1>2. /\ steps \in [Spatial -> Ticks] /\ savedSteps \in [Spatial -> Ticks] /\ backup.steps \in [Spatial -> Ticks]
      /\ time \in Nat /\ MaxTime \in Nat /\ lev \in Nat /\ lev \in TimeLevels
  BY TypeParts, FrameFields DEF CountType, BackupType, ControlType
<1>3. \A s \in Spatial : steps[s] \in Nat /\ savedSteps[s] \in Nat /\ backup.steps[s] \in Nat
  BY <1>2 DEF Ticks
<1>4. ASSUME steps' = steps, savedSteps' \in {steps, savedSteps}
      PROVE  CountType'
  BY <1>1, <1>2, <1>4 DEF CountType
<1>5. pc = "start" <=> mode # "running"
  BY DEF Control
<1>6. CASE \E dt \in option.durations : Start(dt)
  <2>1. /\ mode = "idle" /\ mode' = "running" /\ (pc' = IF Coupled THEN "checkpoint" ELSE "backup")
        /\ steps' = steps /\ savedSteps' = steps /\ time' = time
    BY <1>6 DEF Start
  <2> QED
    BY <1>1, <1>4, <2>1 DEF Counted, Preparing, Underway, BackupHeld
<1>7. CASE Checkpoint
  <2>1. /\ mode = "running" /\ pc = "checkpoint" /\ mode' = mode /\ pc' = "probeAll"
        /\ steps' = steps /\ savedSteps' = savedSteps /\ time' = time
        /\ backup'.steps = steps /\ backup'.time = time
    BY <1>7 DEF Checkpoint
  <2> QED
    BY <1>1, <1>4, <2>1 DEF Counted, Preparing, Underway, BackupHeld
<1>8. CASE ProbeAll
  <2>1. /\ mode = "running" /\ pc = "probeAll" /\ mode' = mode /\ pc' = "backup"
        /\ steps' = steps /\ savedSteps' = savedSteps /\ time' = time /\ backup' = backup
    BY <1>8 DEF ProbeAll, accounts, call
  <2> QED
    BY <1>1, <1>4, <2>1 DEF Counted, Preparing, Underway, BackupHeld
<1>9. CASE Backup
  <2>1. /\ mode = "running" /\ pc = "backup" /\ mode' = mode /\ pc' = "entry"
        /\ steps' = steps /\ savedSteps' = savedSteps /\ time' = time /\ backup' = backup
    BY <1>9 DEF Backup, accounts, call
  <2>2. \A s \in Spatial : StateTime(TimeLevel(s))' = time
    <3>1. \A l \in TimeLevels : StateTime(l)' = time
      BY <1>0, <1>9, FirstTimes
    <3> QED
      BY <1>1, <3>1
  <2>3. \A s \in Spatial : steps[s] <= time /\ savedSteps[s] = steps[s]
    BY <2>1 DEF Counted, Preparing
  <2>4. \A s \in Spatial :
       /\ savedSteps'[s] <= steps'[s] /\ steps'[s] <= StateTime(TimeLevel(s))'
       /\ StateTime(TimeLevel(s))' > time' => savedSteps'[s] < steps'[s]
    BY <1>2, <1>3, <2>1, <2>2, <2>3
  <2> QED
    BY <1>1, <1>4, <2>1, <2>3, <2>4 DEF Counted, Preparing, Underway, BackupHeld
<1>10. CASE \/ ResetFlux \/ Timestep \/ SaveRadiationStep \/ Probe \/ PredictRadiationStep \/ Advance
           \/ ForecastRadiationStep \/ Reflux \/ FinishRadiationStep \/ Normalize
  <2>1. /\ Underway /\ mode = "running" /\ mode' = mode /\ savedSteps' = savedSteps /\ time' = time /\ backup' = backup
        /\ ~Preparing' /\ pc # "checkpoint" /\ pc' # "floor"
    BY <1>10 DEF ResetFlux, Timestep, SaveRadiationStep, Probe, PredictRadiationStep, Advance, ForecastRadiationStep,
       Reflux, FinishRadiationStep, Normalize, Descend, CompleteStep, accounts, call, Underway, Preparing
  <2> DEFINE Completing == FinishRadiationStep \/ (Reflux /\ ~Coupled)
  <2>2. \A s \in Spatial : StateTime(TimeLevel(s))' =
          IF Completing /\ TimeLevel(s) = lev THEN EndOf(lev) ELSE StateTime(TimeLevel(s))
    <3>1. \A l \in TimeLevels : StateTime(l)' = IF Completing /\ l = lev THEN EndOf(lev) ELSE StateTime(l)
      BY <1>0, <1>10, <2>1, TimesKept
    <3> HIDE DEF Completing
    <3> QED
      BY <1>1, <3>1
  <2>3. \A s \in Spatial :
       /\ savedSteps[s] <= time /\ savedSteps[s] <= steps[s] /\ steps[s] <= StateTime(TimeLevel(s))
       /\ StateTime(TimeLevel(s)) > time => savedSteps[s] < steps[s]
    BY <2>1 DEF Counted
  <2>4. CASE ~Completing
    <3>1. steps' = steps
      BY <1>10, <2>4 DEF ResetFlux, Timestep, SaveRadiationStep, Probe, PredictRadiationStep, Advance, ForecastRadiationStep,
         Reflux, Normalize, accounts
    <3> QED
      BY <1>1, <1>4, <2>1, <2>2, <2>3, <2>4, <3>1 DEF Counted, BackupHeld
  <2>5. CASE Completing
    <3>1. Stepping /\ CompleteStep /\ lev <= lev
      BY <1>2, <2>5 DEF Reflux, FinishRadiationStep, Stepping
    <3>2. steps' = [s \in Spatial |-> IF TimeLevel(s) = lev /\ steps[s] < MaxTime THEN steps[s] + 1 ELSE steps[s]]
      BY <2>1, <3>1, Completed
    <3>3. EndOf(lev) \in Nat /\ At(lev) \in Nat /\ time <= At(lev) /\ At(lev) < EndOf(lev) /\ EndOf(lev) <= MaxTime
      BY <1>2, <2>1, <3>1, OpenClock
    <3> HIDE DEF Completing
    <3>4. ASSUME NEW s \in Spatial
          PROVE  /\ savedSteps[s] <= steps'[s] /\ steps'[s] <= StateTime(TimeLevel(s))' /\ steps'[s] \in Ticks
                 /\ StateTime(TimeLevel(s))' > time => savedSteps[s] < steps'[s]
      <4>1. CASE TimeLevel(s) = lev
        <5>1. StateTime(TimeLevel(s)) = At(lev)
          BY <1>2, <4>1 DEF StateTime
        <5>2. steps[s] <= At(lev) /\ steps[s] \in Nat /\ savedSteps[s] \in Nat /\ savedSteps[s] <= steps[s]
          BY <1>3, <2>3, <5>1
        <5>3. steps'[s] = steps[s] + 1
          BY <1>2, <3>2, <3>3, <4>1, <5>2
        <5>4. steps'[s] <= EndOf(lev) /\ steps'[s] \in 0 .. MaxTime /\ savedSteps[s] < steps'[s]
          BY <1>2, <3>3, <5>2, <5>3
        <5> QED
          BY <2>2, <2>5, <4>1, <5>2, <5>4 DEF Ticks
      <4>2. CASE TimeLevel(s) # lev
        <5>1. steps'[s] = steps[s] /\ StateTime(TimeLevel(s))' = StateTime(TimeLevel(s))
          BY <2>2, <3>2, <4>2
        <5> QED
          BY <1>2, <2>3, <5>1
      <4> QED
        BY <4>1, <4>2
    <3>5. CountType'
      <4>1. steps' = [s \in Spatial |-> steps'[s]]
        BY <3>2
      <4>2. steps' \in [Spatial -> Ticks]
        BY <3>4, <4>1
      <4> QED
        BY <1>1, <1>2, <2>1, <4>2 DEF CountType
    <3> QED
      BY <1>1, <2>1, <2>3, <3>4, <3>5 DEF Counted, BackupHeld
  <2> QED
    BY <2>4, <2>5
<1>11. CASE Publish
  <2>1. /\ mode = "running" /\ pc = "publish" /\ Underway /\ steps' = steps /\ savedSteps' = savedSteps
        /\ backup' = backup /\ time' = time + frame[Coarsest].duration
        /\ ~Preparing' /\ ~Underway' /\ mode' \in {"running", "idle"}
    BY <1>11 DEF Publish, Underway, Preparing
  <2>2. /\ At(Coarsest) = time + frame[Coarsest].duration /\ frame[Coarsest].duration \in Nat \ {0}
        /\ \A l \in TimeLevels : StateTime(l) = At(Coarsest)
    BY <2>1, FinalTimes
  <2>3. At(Coarsest) = time' /\ time' > time
    BY <1>2, <2>1, <2>2
  <2>4. \A s \in Spatial : StateTime(TimeLevel(s)) = time'
    BY <1>1, <2>2, <2>3
  <2>5. \A s \in Spatial : steps[s] <= time' /\ savedSteps[s] < steps[s]
    BY <2>1, <2>3, <2>4 DEF Counted
  <2> QED
    BY <1>1, <1>4, <2>1, <2>5 DEF Counted, BackupHeld
<1>12. CASE Floor
  <2>1. /\ mode = "running" /\ pc = "floor" /\ mode' = "idle" /\ steps' = steps /\ savedSteps' = savedSteps /\ time' = time
        /\ pc' = "start"
    BY <1>12 DEF Floor
  <2> QED
    BY <1>1, <1>4, <2>1 DEF Counted, Preparing, Underway, BackupHeld
<1>13. CASE Fails
  <2>1. /\ mode = "running" /\ mode' = Handler /\ steps' = steps /\ savedSteps' = savedSteps /\ time' = time
        /\ pc' = "start" /\ backup' = backup
    BY <1>13 DEF Fails
  <2>2. CASE mode' = "restoring"
    <3>1. Underway /\ (BackupHeld' => BackupHeld)
      BY <1>1, <2>1, <2>2 DEF Handler, Underway, BackupHeld
    <3> QED
      BY <1>1, <1>4, <2>1, <2>2, <3>1 DEF Counted, Preparing, Underway
  <2>3. CASE mode' = "recovering"
    <3>1. BackupHeld
      BY <2>1, <2>3 DEF Handler, BackupHeld
    <3> QED
      BY <1>1, <1>4, <2>1, <2>3, <3>1 DEF Counted, Preparing, Underway
  <2>4. CASE mode' = "idle"
    <3>1. pc \in {"checkpoint", "probeAll", "backup", "floor"}
      BY <2>1, <2>4 DEF Handler
    <3>2. \A s \in Spatial : steps[s] <= time
      BY <2>1, <3>1 DEF Counted, Preparing
    <3> QED
      BY <1>1, <1>4, <2>1, <2>4, <3>2 DEF Counted, Preparing, Underway, BackupHeld
  <2> QED
    BY <2>1, <2>2, <2>3, <2>4 DEF Handler
<1>14. CASE Restore
  <2>1. /\ mode = "restoring" /\ mode' \in {"idle", "recovering"} /\ steps' = savedSteps /\ savedSteps' = savedSteps /\ time' = time
        /\ pc' = "start" /\ backup' = backup /\ (BackupHeld' => BackupHeld)
    BY <1>1, <1>5, <1>14 DEF Restore, RestoredSteps, call, BackupHeld
  <2>2. CountType'
    BY <1>1, <1>2, <2>1 DEF CountType
  <2> QED
    BY <1>1, <2>1, <2>2 DEF Counted, Preparing, Underway
<1>15. CASE RestoreFails
  <2>1. /\ mode = "restoring" /\ mode' \in {"lost", "recovering"} /\ steps' = steps /\ savedSteps' = savedSteps /\ time' = time
        /\ pc' = "start" /\ backup' = backup /\ (BackupHeld' => BackupHeld)
    BY <1>1, <1>5, <1>15 DEF RestoreFails, accounts, call, BackupHeld
  <2> QED
    BY <1>1, <1>4, <2>1 DEF Counted, Preparing, Underway
<1>16. CASE Recover
  <2>1. /\ mode = "recovering" /\ mode' = "idle" /\ steps' = backup.steps /\ savedSteps' = savedSteps
        /\ time' = backup.time /\ pc' = "start"
    BY <1>5, <1>16 DEF Recover
  <2>2. BackupHeld
    BY <1>5, <2>1 DEF BackupHeld, Control
  <2>3. CountType'
    BY <1>1, <1>2, <2>1 DEF CountType
  <2> QED
    BY <1>1, <2>1, <2>2, <2>3 DEF Counted, Preparing, Underway, BackupHeld
<1>17. CASE RecoverFails
  <2>1. mode' = "lost" /\ pc' = "start" /\ steps' = steps /\ savedSteps' = savedSteps
    BY <1>5, <1>17 DEF RecoverFails, accounts
  <2> QED
    BY <1>4, <2>1 DEF Counted, Preparing, Underway, BackupHeld
<1>18. CASE Finished
  <2>1. /\ mode' = mode /\ steps' = steps /\ savedSteps' = savedSteps /\ time' = time /\ mode \in {"idle", "lost"} /\ pc' = pc
    BY <1>18 DEF Finished, vars, accounts
  <2>2. pc = "start"
    BY <1>5, <2>1
  <2> QED
    BY <1>1, <1>4, <2>1, <2>2 DEF Counted, Preparing, Underway, BackupHeld
<1> QED
  BY <1>6, <1>7, <1>8, <1>9, <1>10, <1>11, <1>12, <1>13, <1>14, <1>15, <1>16, <1>17, <1>18 DEF Next, Phase

(* The backup and the coupling storage. *)
LEMMA StorageStep ==
  ASSUME TypeOK, Control, Clock, Next
  PROVE  BackupType' /\ CouplingType'
<1> USE DEF Running
<1>0. option' = option /\ option \in Options
  BY TypeParts DEF Next
<1>1. Spatial' = Spatial /\ Ticks' = Ticks /\ Item' = Item
  BY <1>0, OptionKept DEF Ticks, Item, Kinds
<1>2. BackupType /\ CouplingType /\ 0 \in Ticks /\ time \in Ticks /\ bank \in {0, 1}
      /\ data \in [Spatial -> [Bank -> Item]] /\ steps \in [Spatial -> Ticks] /\ boundary \in [Spatial -> Ticks]
  BY TypeParts, BoundAssumption DEF Ticks, ControlType, DataType, CountType, TransportType
<1>3. ASSUME backup' = backup
      PROVE  BackupType'
  BY <1>1, <1>2, <1>3 DEF BackupType
<1>4. ASSUME scratch' = scratch, rates' = rates
      PROVE  CouplingType'
  BY <1>1, <1>2, <1>4 DEF CouplingType
<1>5. CASE \E dt \in option.durations : Start(dt)
  <2>1. backup' = backup /\ scratch' = NoScratch /\ rates' = {}
    BY <1>5 DEF Start
  <2>2. Unset \in Item
    BY <1>2, ItemFormed DEF Unset, Kinds
  <2>3. CouplingType'
    BY <1>1, <2>1, <2>2 DEF CouplingType, NoScratch
  <2> QED
    BY <1>3, <2>1, <2>3
<1>6. CASE Checkpoint
  <2>1. /\ scratch' = scratch /\ rates' = rates
        /\ backup' = [bank |-> bank, time |-> time, steps |-> steps, boundary |-> boundary,
                      state |-> [s \in Spatial |-> data[s][bank]]]
    BY <1>6 DEF Checkpoint, coupling
  <2>2. [s \in Spatial |-> data[s][bank]] \in [Spatial -> Item]
    BY <1>2 DEF Bank
  <2>3. BackupType'
    BY <1>1, <1>2, <2>1, <2>2 DEF BackupType
  <2> QED
    BY <1>4, <2>1, <2>3
<1>7. CASE ProbeAll
  BY <1>1, <1>2, <1>3, <1>7 DEF ProbeAll, accounts, call, CouplingType
<1>8. CASE SaveRadiationStep
  <2>1. /\ backup' = backup /\ rates' = rates
        /\ scratch' = [s \in Spatial |-> IF s \in Own
             THEN [scratch[s] EXCEPT ![0] = data[s][levels[TimeLevel(s)].bank]] ELSE scratch[s]]
    BY <1>8 DEF SaveRadiationStep, accounts, call
  <2>2. levels \in [TimeLevels -> Level]
    BY <1>8 DEF SaveRadiationStep, Control, Underway
  <2>3. \A s \in Spatial : data[s][levels[TimeLevel(s)].bank] \in Item
    BY <1>0, <1>2, <2>2, LevelSet DEF Level, Bank
  <2>4. scratch' \in [Spatial -> [{0, 1} -> Item]]
    BY <1>2, <2>1, <2>3 DEF CouplingType
  <2>5. CouplingType'
    BY <1>1, <1>2, <2>1, <2>4 DEF CouplingType
  <2> QED
    BY <1>3, <2>1, <2>5
<1>9. CASE Probe
  BY <1>1, <1>2, <1>3, <1>9 DEF Probe, accounts, call, CouplingType, Own, Members
<1>10. CASE PredictRadiationStep
  <2>1. /\ backup' = backup /\ rates' = rates
        /\ scratch' = [s \in Spatial |-> [scratch[s] EXCEPT ![1] = Content(Now, "midpoint")]]
    BY <1>10 DEF PredictRadiationStep, accounts, call, MidpointBank
  <2>2. Content(Now, "midpoint") \in Item
    <3>1. Underway
      BY <1>10 DEF PredictRadiationStep, Underway
    <3> QED
      BY <3>1, StepTimes, ItemFormed DEF Kinds
  <2>3. scratch' \in [Spatial -> [{0, 1} -> Item]]
    BY <1>2, <2>1, <2>2 DEF CouplingType
  <2>4. CouplingType'
    BY <1>1, <1>2, <2>1, <2>3 DEF CouplingType
  <2> QED
    BY <1>3, <2>1, <2>4
<1>11. CASE \/ Backup \/ ResetFlux \/ Timestep \/ Advance \/ ForecastRadiationStep \/ Reflux \/ FinishRadiationStep
            \/ Normalize \/ Publish \/ Floor \/ Fails \/ Restore \/ RestoreFails \/ Recover \/ RecoverFails \/ Finished
  <2>1. backup' = backup /\ scratch' = scratch /\ rates' = rates
    BY <1>11 DEF Backup, ResetFlux, Timestep, Advance, ForecastRadiationStep, Reflux, FinishRadiationStep,
       Normalize, Publish, Floor, Fails, Restore, RestoreFails, Recover, RecoverFails, Finished, vars, accounts, call, coupling
  <2> QED
    BY <1>3, <1>4, <2>1
<1> QED
  BY <1>5, <1>6, <1>7, <1>8, <1>9, <1>10, <1>11 DEF Next, Phase

-----------------------------------------------------------------------------
(* The fluxes. *)
LEMMA FluxesStep ==
  ASSUME TypeOK, Control, Clock, Fluxes, Next
  PROVE  Fluxes' /\ FluxType'
<1> USE DEF Running
<1> DEFINE Raw == [from : Ticks, to : Ticks]
           Reg == [from : Ticks, ticks : Ticks, of : Ticks]
<1>0. option' = option /\ option \in Options
  BY TypeParts DEF Next
<1>1. /\ Spatial' = Spatial /\ Coupled' = Coupled /\ (\A s : TimeLevel(s)' = TimeLevel(s)) /\ Ticks' = Ticks
      /\ (\A l : IsFinest(l)' = IsFinest(l) /\ Finer(l)' = Finer(l))
      /\ \A s \in Spatial : TimeLevel(s) \in TimeLevels
  BY <1>0, OptionKept, LevelSet DEF Ticks
<1>2. /\ reg \in [Spatial -> Reg] /\ raw \in [Spatial -> Raw] /\ time \in Nat /\ MaxTime \in Nat /\ 0 \in Ticks
      /\ lev \in Nat /\ lev \in TimeLevels /\ time \in Ticks /\ \A l \in TimeLevels : l \in Nat
  BY <1>0, TypeParts, FrameFields, LevelSet DEF FluxType, ControlType, Ticks
<1>3. frame \in [TimeLevels -> Frame]
  BY <1>2, FrameFields
<1>4. pc = "start" <=> mode # "running"
  BY DEF Control
<1>5. ASSUME reg' \in [Spatial -> Reg], raw' \in [Spatial -> Raw]
      PROVE  FluxType'
  BY <1>1, <1>5 DEF FluxType
<1> HIDE DEF Raw, Reg
<1>6. \A s \in Spatial : s \in Own <=> TimeLevel(s) = lev
  BY DEF Own, Members
<1>7. ASSUME Underway, \/ ResetFlux \/ Timestep \/ SaveRadiationStep \/ Probe \/ PredictRadiationStep
                       \/ ForecastRadiationStep \/ Reflux \/ FinishRadiationStep \/ Normalize
      PROVE  \A s \in Spatial : Reached(TimeLevel(s))' = Reached(TimeLevel(s))
  <2>1. ~Advance
    BY <1>7 DEF Advance, ResetFlux, Timestep, SaveRadiationStep, Probe, PredictRadiationStep, ForecastRadiationStep,
       Reflux, FinishRadiationStep, Normalize
  <2>2. \A l \in TimeLevels : Reached(l)' = Reached(l)
    BY <1>0, <1>7, <2>1, TimesKept
  <2> QED
    BY <1>1, <2>2
<1>8. CASE (\E dt \in option.durations : Start(dt)) \/ Checkpoint
  <2>1. ~Underway' /\ reg' = reg /\ raw' = raw
    BY <1>8 DEF Start, Checkpoint, Underway
  <2> QED
    BY <1>2, <1>5, <2>1 DEF Fluxes, RawFlux, Register, FinerRegister
<1>9. CASE ProbeAll
  <2>1. ~Underway' /\ reg' = reg /\ raw' = [s \in Spatial |-> [from |-> time, to |-> time]]
    BY <1>9 DEF ProbeAll, Underway
  <2>2. raw' \in [Spatial -> Raw]
    BY <1>2, <2>1 DEF Raw
  <2> QED
    BY <1>2, <1>5, <2>1, <2>2 DEF Fluxes, RawFlux, Register, FinerRegister
<1>10. CASE Backup
  <2>1. pc' = "entry" /\ reg' = reg /\ raw' = raw /\ lev' = Coarsest
    BY <1>10 DEF Backup, Control, InRecursion
  <2>2. \A s \in Spatial : ~(TimeLevel(s) < lev')
    <3>1. \A l \in TimeLevels : l \in Nat /\ Coarsest \in Nat /\ Coarsest <= l
      BY <1>0, <1>2, CoarsestLevel
    <3>2. \A l \in TimeLevels : ~(l < Coarsest)
      BY <3>1
    <3> QED
      BY <1>1, <2>1, <3>2
  <2> QED
    BY <1>1, <1>2, <1>5, <2>1, <2>2 DEF Fluxes, RawFlux, Register, FinerRegister, Moved
<1>11. CASE ResetFlux
  <2>1. /\ pc = "entry" /\ pc' = "cfl" /\ raw' = raw /\ lev' = lev /\ frame' = frame /\ Underway
        /\ reg' = [s \in Spatial |-> IF s \in Own THEN [from |-> Now, ticks |-> 0, of |-> frame[lev].duration] ELSE reg[s]]
    BY <1>11 DEF ResetFlux, ClearedRegister, Underway
  <2>2. Now = frame[lev].begin /\ Reached(lev) = Now /\ Now \in Ticks /\ frame[lev].duration \in Ticks
    <3>1. frame[lev].elapsed = 0
      BY <2>1 DEF Clock
    <3>2. frame[lev].begin \in Nat
      BY <1>2, FrameFields
    <3>3. Reached(lev) = At(lev)
      BY <1>2, <2>1 DEF Reached, StateTime, Moved
    <3>4. Now \in Ticks /\ Now = At(lev)
      BY <2>1, StepTimes
    <3> QED
      BY <1>2, <1>3, <3>1, <3>2, <3>3, <3>4 DEF Now, Frame
  <2>3. reg' \in [Spatial -> Reg]
    <3>1. [from |-> Now, ticks |-> 0, of |-> frame[lev].duration] \in Reg
      BY <1>2, <2>2 DEF Reg
    <3> QED
      BY <1>2, <2>1, <3>1
  <2>4. RawFlux'
    BY <1>1, <2>1 DEF Fluxes, RawFlux, Moved, At, EndOf
  <2>5. Register'
    <3>1. \A s \in Spatial : TimeLevel(s) = lev =>
            /\ reg'[s].from = frame[TimeLevel(s)].begin /\ reg'[s].of = frame[TimeLevel(s)].duration
            /\ reg'[s].from + reg'[s].ticks = Reached(TimeLevel(s))
      <4> TAKE s \in Spatial
      <4> HAVE TimeLevel(s) = lev
      <4>1. reg'[s] = [from |-> Now, ticks |-> 0, of |-> frame[lev].duration]
        BY <1>6, <2>1
      <4>2. Now \in Nat
        BY <2>2 DEF Ticks
      <4> QED
        BY <2>2, <4>1, <4>2
    <3>2. \A s \in Spatial : TimeLevel(s) < lev =>
            /\ reg'[s].from = frame[TimeLevel(s)].begin /\ reg'[s].of = frame[TimeLevel(s)].duration
            /\ reg'[s].from + reg'[s].ticks = Reached(TimeLevel(s))
      BY <1>1, <1>2, <1>6, <2>1 DEF Fluxes, Register
    <3>3. \A s \in Spatial : Reached(TimeLevel(s))' = Reached(TimeLevel(s))
      BY <1>7, <1>11, <2>1
    <3> QED
      BY <1>1, <2>1, <3>1, <3>2, <3>3 DEF Register
  <2>6. FinerRegister'
    BY <2>1 DEF FinerRegister
  <2> QED
    BY <1>2, <1>5, <2>1, <2>3, <2>4, <2>5, <2>6 DEF Fluxes
<1>12. CASE Timestep
  <2>1. pc = "cfl" /\ pc' \in {"save", "advance"} /\ raw' = raw /\ reg' = reg /\ lev' = lev /\ Underway
    BY <1>12 DEF Timestep, Underway
  <2>2. PICK step \in Nat : frame' = [frame EXCEPT ![lev].step = step]
    BY <1>12, ChosenStep
  <2>3. \A l \in TimeLevels : l # lev => frame'[l] = frame[l]
    BY <1>3, <2>2
  <2>4. \A l \in TimeLevels : frame'[l].begin = frame[l].begin /\ frame'[l].duration = frame[l].duration
    <3>1. frame'[lev] = [frame[lev] EXCEPT !.step = step] /\ frame[lev] \in Frame
      BY <1>2, <1>3, <2>2
    <3>2. frame'[lev].begin = frame[lev].begin /\ frame'[lev].duration = frame[lev].duration
      BY <3>1 DEF Frame
    <3> QED
      BY <2>3, <3>2
  <2>5. RawFlux'
    <3>1. \A s \in Spatial : TimeLevel(s) < lev =>
            raw[s] = [from |-> At(TimeLevel(s)), to |-> EndOf(TimeLevel(s))]
      BY <2>1 DEF Fluxes, RawFlux
    <3>2. \A l \in TimeLevels : l < lev => At(l)' = At(l) /\ EndOf(l)' = EndOf(l)
      <4>1. \A l \in TimeLevels : l < lev => frame'[l] = frame[l]
        BY <1>2, <2>3
      <4> QED
        BY <4>1 DEF At, EndOf
    <3>3. \A s \in Spatial : TimeLevel(s) < lev =>
            raw'[s] = [from |-> At(TimeLevel(s))', to |-> EndOf(TimeLevel(s))']
      BY <1>1, <2>1, <3>1, <3>2
    <3> QED
      BY <1>1, <2>1, <3>3 DEF RawFlux, Moved
  <2>6. Register'
    <3>1. \A s \in Spatial : Reached(TimeLevel(s))' = Reached(TimeLevel(s))
      BY <1>7, <1>12, <2>1
    <3> QED
      BY <1>1, <2>1, <2>4, <3>1 DEF Fluxes, Register
  <2>7. FinerRegister'
    BY <2>1 DEF FinerRegister
  <2> QED
    BY <1>2, <1>5, <2>1, <2>5, <2>6, <2>7 DEF Fluxes
<1>13. CASE SaveRadiationStep \/ PredictRadiationStep \/ Normalize
  <2>1. /\ raw' = raw /\ reg' = reg /\ lev' = lev /\ frame' = frame /\ Underway
        /\ pc \in {"save", "predict", "normalize"} /\ pc' \in {"probe", "advance", "publish"}
    BY <1>13 DEF SaveRadiationStep, PredictRadiationStep, Normalize, Underway
  <2>2. RawFlux'
    BY <1>1, <2>1 DEF Fluxes, RawFlux, Moved, At, EndOf
  <2>3. Register'
    <3>1. \A s \in Spatial : Reached(TimeLevel(s))' = Reached(TimeLevel(s))
      BY <1>7, <1>13, <2>1
    <3> QED
      BY <1>1, <2>1, <3>1 DEF Fluxes, Register
  <2>4. FinerRegister'
    BY <2>1 DEF FinerRegister
  <2> QED
    BY <1>2, <1>5, <2>1, <2>2, <2>3, <2>4 DEF Fluxes
<1>14. CASE Probe
  <2>1. /\ raw' = [s \in Spatial |-> IF s \in Own THEN [from |-> Now, to |-> Now] ELSE raw[s]]
        /\ reg' = reg /\ lev' = lev /\ frame' = frame /\ Underway /\ pc = "probe" /\ pc' = "predict"
    BY <1>14 DEF Probe, Underway
  <2>2. RawFlux'
    BY <1>1, <1>2, <1>6, <2>1 DEF Fluxes, RawFlux, Moved, At, EndOf
  <2>3. Register'
    <3>1. \A s \in Spatial : Reached(TimeLevel(s))' = Reached(TimeLevel(s))
      BY <1>7, <1>14, <2>1
    <3> QED
      BY <1>1, <2>1, <3>1 DEF Fluxes, Register
  <2>4. FinerRegister'
    BY <2>1 DEF FinerRegister
  <2>5. raw' \in [Spatial -> Raw]
    <3>1. Now \in Ticks
      BY <2>1, StepTimes
    <3> QED
      BY <1>2, <2>1, <3>1 DEF Raw
  <2> QED
    BY <1>2, <1>5, <2>1, <2>2, <2>3, <2>4, <2>5 DEF Fluxes
<1>15. CASE Advance
  <2>1. /\ Underway /\ Stepping /\ pc = "advance"
        /\ raw' = [s \in Spatial |-> IF s \in Own THEN [from |-> Now, to |-> End] ELSE raw[s]]
        /\ reg' = [s \in Spatial |-> IF s \in Own THEN [reg[s] EXCEPT !.ticks = @ + frame[lev].step] ELSE reg[s]]
    BY <1>15 DEF Advance, Underway, Stepping
  <2>2. /\ Now = At(lev) /\ End = EndOf(lev) /\ Now \in Ticks /\ End \in Ticks
        /\ EndOf(lev) = At(lev) + frame[lev].step /\ frame[lev].step \in Nat /\ At(lev) \in Nat
    <3>1. lev <= lev
      BY <1>2
    <3> QED
      BY <1>2, <2>1, <3>1, StepTimes, OpenClock DEF EndOf
  <2>3. \A s \in Spatial : TimeLevel(s) = lev => raw'[s] = [from |-> At(lev), to |-> EndOf(lev)]
    BY <1>6, <2>1, <2>2
  <2>4. \A s \in Spatial : TimeLevel(s) # lev => raw'[s] = raw[s] /\ reg'[s] = reg[s]
    BY <1>6, <2>1
  <2>5. \A s \in Spatial : TimeLevel(s) = lev =>
          /\ reg'[s] \in Reg
          /\ reg'[s].from = frame[lev].begin /\ reg'[s].of = frame[lev].duration
          /\ reg'[s].from + reg'[s].ticks = EndOf(lev)
    <3> TAKE s \in Spatial
    <3> HAVE TimeLevel(s) = lev
    <3>1. reg[s].from = frame[lev].begin /\ reg[s].of = frame[lev].duration /\ reg[s].from + reg[s].ticks = At(lev)
      <4>1. Reached(lev) = At(lev)
        BY <1>2, <2>1 DEF Reached, StateTime, Moved
      <4>2. /\ reg[s].from = frame[TimeLevel(s)].begin /\ reg[s].of = frame[TimeLevel(s)].duration
            /\ reg[s].from + reg[s].ticks = Reached(TimeLevel(s))
        BY <2>1 DEF Fluxes, Register
      <4> QED
        BY <4>1, <4>2
    <3>2. reg'[s] = [reg[s] EXCEPT !.ticks = reg[s].ticks + frame[lev].step] /\ reg[s] \in Reg
      BY <1>2, <1>6, <2>1
    <3>3. reg[s].from \in Nat /\ reg[s].ticks \in Nat
      BY <3>2 DEF Reg, Ticks
    <3>4. /\ reg'[s].from = reg[s].from /\ reg'[s].of = reg[s].of /\ reg'[s].ticks = reg[s].ticks + frame[lev].step
      BY <3>2 DEF Reg
    <3>5. reg'[s].from + reg'[s].ticks = EndOf(lev)
      BY <2>2, <3>1, <3>3, <3>4
    <3>6. reg[s].ticks + frame[lev].step \in Ticks
      <4>1. EndOf(lev) \in Nat /\ EndOf(lev) <= MaxTime
        BY <2>2 DEF Ticks
      <4> QED
        BY <1>2, <2>2, <3>3, <3>4, <3>5, <4>1 DEF Ticks
    <3>7. reg'[s] \in Reg
      BY <3>2, <3>6 DEF Reg
    <3> QED
      BY <3>1, <3>4, <3>5, <3>7
  <2>6. FluxType'
    <3>1. raw' \in [Spatial -> Raw]
      BY <1>2, <2>1, <2>2 DEF Raw
    <3>2. reg' \in [Spatial -> Reg]
      <4>1. reg' = [s \in Spatial |-> reg'[s]]
        BY <2>1
      <4>2. \A s \in Spatial : reg'[s] \in Reg
        BY <1>2, <2>4, <2>5
      <4> QED
        BY <4>1, <4>2
    <3> QED
      BY <1>5, <3>1, <3>2
  <2>7. \A s \in Spatial : Reached(TimeLevel(s))' = IF TimeLevel(s) = lev THEN EndOf(lev) ELSE Reached(TimeLevel(s))
    <3>1. \A l \in TimeLevels : Reached(l)' = IF l = lev THEN EndOf(lev) ELSE Reached(l)
      BY <1>0, <1>15, <2>1, TimesKept
    <3> QED
      BY <1>1, <3>1
  <2>8. ASSUME \A l \in TimeLevels : l < lev \/ l = lev =>
                 /\ At(l)' = At(l) /\ EndOf(l)' = EndOf(l)
                 /\ frame'[l].begin = frame[l].begin /\ frame'[l].duration = frame[l].duration,
               \A l \in TimeLevels : l < lev' \/ (l = lev' /\ pc' # "entry") => l < lev \/ l = lev,
               pc' = "reflux" => IsFinest(lev')
        PROVE  Fluxes'
    <3>1. \A s \in Spatial : TimeLevel(s) < lev =>
            /\ raw[s] = [from |-> At(TimeLevel(s)), to |-> EndOf(TimeLevel(s))]
            /\ reg[s].from = frame[TimeLevel(s)].begin /\ reg[s].of = frame[TimeLevel(s)].duration
            /\ reg[s].from + reg[s].ticks = Reached(TimeLevel(s))
      BY <2>1 DEF Fluxes, RawFlux, Register
    <3>2. \A s \in Spatial : TimeLevel(s) < lev \/ TimeLevel(s) = lev =>
            raw'[s] = [from |-> At(TimeLevel(s))', to |-> EndOf(TimeLevel(s))']
      <4>1. \A s \in Spatial : TimeLevel(s) < lev \/ TimeLevel(s) = lev =>
              raw'[s] = [from |-> At(TimeLevel(s)), to |-> EndOf(TimeLevel(s))]
        BY <2>3, <2>4, <3>1
      <4>2. \A s \in Spatial : TimeLevel(s) < lev \/ TimeLevel(s) = lev =>
              At(TimeLevel(s))' = At(TimeLevel(s)) /\ EndOf(TimeLevel(s))' = EndOf(TimeLevel(s))
        BY <1>1, <2>8
      <4> QED
        BY <4>1, <4>2
    <3>3. \A s \in Spatial : TimeLevel(s) < lev \/ TimeLevel(s) = lev =>
            /\ reg'[s].from = frame'[TimeLevel(s)].begin /\ reg'[s].of = frame'[TimeLevel(s)].duration
            /\ reg'[s].from + reg'[s].ticks = Reached(TimeLevel(s))'
      BY <1>1, <2>4, <2>5, <2>7, <2>8, <3>1
    <3>4. RawFlux'
      BY <1>1, <2>8, <3>2 DEF RawFlux, Moved
    <3>5. Register'
      BY <1>1, <2>8, <3>3 DEF Register
    <3>6. FinerRegister'
      BY <1>1, <2>8 DEF FinerRegister
    <3> QED
      BY <3>4, <3>5, <3>6 DEF Fluxes
  <2>9. CASE Coupled
    <3>1. frame' = frame /\ lev' = lev /\ pc' = "forecast"
      BY <1>15, <2>9 DEF Advance
    <3> QED
      BY <2>6, <2>8, <3>1 DEF At, EndOf
  <2>10. CASE ~Coupled
    <3>1. Descend(FALSE)
      BY <1>15, <2>10 DEF Advance
    <3>2. CASE IsFinest(lev) /\ pc' = "reflux" /\ lev' = lev /\ frame' = frame
      BY <2>6, <2>8, <3>2 DEF At, EndOf
    <3>3. CASE /\ pc' = "entry" /\ lev' \in TimeLevels /\ lev < lev'
               /\ \A k \in TimeLevels : k < lev' <=> k <= lev
               /\ \A l \in TimeLevels : l # lev' => frame'[l] = frame[l]
      <4>1. \A l \in TimeLevels : l < lev \/ l = lev => frame'[l] = frame[l]
        BY <1>2, <3>3
      <4>2. \A l \in TimeLevels : l < lev' => l < lev \/ l = lev
        BY <1>2, <3>3
      <4> QED
        BY <2>6, <2>8, <3>3, <4>1, <4>2 DEF At, EndOf
    <3> QED
      BY <2>1, <3>1, <3>2, <3>3, DescentTimes
  <2> QED
    BY <2>9, <2>10
<1>16. CASE ForecastRadiationStep
  <2>1. Underway /\ Stepping /\ pc = "forecast" /\ raw' = raw /\ reg' = reg /\ Descend(TRUE)
    BY <1>16 DEF ForecastRadiationStep, Underway, Stepping, accounts
  <2>2. \A s \in Spatial : Reached(TimeLevel(s))' = Reached(TimeLevel(s))
    BY <1>7, <1>16, <2>1
  <2>3. \A s \in Spatial : TimeLevel(s) < lev \/ TimeLevel(s) = lev =>
          /\ raw[s] = [from |-> At(TimeLevel(s)), to |-> EndOf(TimeLevel(s))]
          /\ reg[s].from = frame[TimeLevel(s)].begin /\ reg[s].of = frame[TimeLevel(s)].duration
          /\ reg[s].from + reg[s].ticks = Reached(TimeLevel(s))
    BY <2>1 DEF Fluxes, RawFlux, Register, Moved
  <2>4. CASE IsFinest(lev) /\ pc' = "reflux" /\ lev' = lev /\ frame' = frame
    <3>1. RawFlux'
      BY <1>1, <2>1, <2>3, <2>4 DEF RawFlux, At, EndOf
    <3>2. Register'
      BY <1>1, <2>1, <2>2, <2>3, <2>4 DEF Register
    <3>3. FinerRegister'
      BY <1>1, <2>4 DEF FinerRegister
    <3> QED
      BY <1>2, <1>5, <2>1, <3>1, <3>2, <3>3 DEF Fluxes
  <2>5. CASE /\ pc' = "entry" /\ lev' \in TimeLevels /\ lev < lev'
             /\ \A k \in TimeLevels : k < lev' <=> k <= lev
             /\ \A l \in TimeLevels : l # lev' => frame'[l] = frame[l]
    <3>1. \A s \in Spatial : TimeLevel(s) < lev' => TimeLevel(s) < lev \/ TimeLevel(s) = lev
      <4>1. \A l \in TimeLevels : l < lev' => l < lev \/ l = lev
        BY <1>2, <2>5
      <4> QED
        BY <1>1, <4>1
    <3>2. \A l \in TimeLevels : l < lev \/ l = lev =>
            /\ At(l)' = At(l) /\ EndOf(l)' = EndOf(l)
            /\ frame'[l].begin = frame[l].begin /\ frame'[l].duration = frame[l].duration
      <4>1. \A l \in TimeLevels : l < lev \/ l = lev => frame'[l] = frame[l]
        BY <1>2, <2>5
      <4> QED
        BY <4>1 DEF At, EndOf
    <3>3. RawFlux'
      <4>1. \A s \in Spatial : TimeLevel(s) < lev' =>
              raw'[s] = [from |-> At(TimeLevel(s))', to |-> EndOf(TimeLevel(s))']
        BY <1>1, <2>1, <2>3, <3>1, <3>2
      <4> QED
        BY <1>1, <2>5, <4>1 DEF RawFlux, Moved
    <3>4. Register'
      <4>1. \A s \in Spatial : TimeLevel(s) < lev' =>
              /\ reg'[s].from = frame'[TimeLevel(s)].begin /\ reg'[s].of = frame'[TimeLevel(s)].duration
              /\ reg'[s].from + reg'[s].ticks = Reached(TimeLevel(s))'
        BY <1>1, <2>1, <2>2, <2>3, <3>1, <3>2
      <4> QED
        BY <1>1, <2>5, <4>1 DEF Register
    <3>5. FinerRegister'
      BY <2>5 DEF FinerRegister
    <3> QED
      BY <1>2, <1>5, <2>1, <3>3, <3>4, <3>5 DEF Fluxes
  <2> QED
    BY <2>1, <2>4, <2>5, DescentTimes
<1>17. CASE Reflux /\ Coupled
  <2>1. /\ raw' = raw /\ reg' = reg /\ lev' = lev /\ frame' = frame /\ Underway /\ pc = "reflux" /\ pc' = "finish"
    BY <1>17 DEF Reflux, Underway
  <2>2. RawFlux'
    BY <1>1, <2>1 DEF Fluxes, RawFlux, Moved, At, EndOf
  <2>3. Register'
    <3>1. \A s \in Spatial : Reached(TimeLevel(s))' = Reached(TimeLevel(s))
      BY <1>7, <1>17, <2>1
    <3> QED
      BY <1>1, <2>1, <3>1 DEF Fluxes, Register
  <2>4. FinerRegister'
    BY <2>1 DEF FinerRegister
  <2> QED
    BY <1>2, <1>5, <2>1, <2>2, <2>3, <2>4 DEF Fluxes
<1>18. CASE FinishRadiationStep \/ (Reflux /\ ~Coupled)
  <2>1. /\ Underway /\ Stepping /\ pc \in {"reflux", "finish"} /\ raw' = raw /\ reg' = reg /\ CompleteStep
    BY <1>18 DEF Reflux, FinishRadiationStep, Underway, Stepping
  <2>2. \A s \in Spatial : Reached(TimeLevel(s))' = Reached(TimeLevel(s))
    BY <1>7, <1>18, <2>1
  <2>3. \A s \in Spatial : TimeLevel(s) < lev \/ TimeLevel(s) = lev =>
          /\ raw[s] = [from |-> At(TimeLevel(s)), to |-> EndOf(TimeLevel(s))]
          /\ reg[s].from = frame[TimeLevel(s)].begin /\ reg[s].of = frame[TimeLevel(s)].duration
          /\ reg[s].from + reg[s].ticks = Reached(TimeLevel(s))
    BY <2>1 DEF Fluxes, RawFlux, Register, Moved
  <2>4. /\ \A l \in TimeLevels : l # lev => frame'[l] = frame[l]
        /\ frame'[lev].begin = frame[lev].begin /\ frame'[lev].duration = frame[lev].duration
    BY <2>1, CompletionTimes
  <2>5. \A s \in Spatial : TimeLevel(s) < lev =>
          raw'[s] = [from |-> At(TimeLevel(s))', to |-> EndOf(TimeLevel(s))']
    <3>1. \A l \in TimeLevels : l < lev => At(l)' = At(l) /\ EndOf(l)' = EndOf(l)
      <4>1. \A l \in TimeLevels : l < lev => frame'[l] = frame[l]
        BY <1>2, <2>4
      <4> QED
        BY <4>1 DEF At, EndOf
    <3> QED
      BY <1>1, <2>1, <2>3, <3>1
  <2>6. \A s \in Spatial : TimeLevel(s) < lev \/ TimeLevel(s) = lev =>
          /\ reg'[s].from = frame'[TimeLevel(s)].begin /\ reg'[s].of = frame'[TimeLevel(s)].duration
          /\ reg'[s].from + reg'[s].ticks = Reached(TimeLevel(s))'
    <3>1. \A l \in TimeLevels : frame'[l].begin = frame[l].begin /\ frame'[l].duration = frame[l].duration
      BY <2>4
    <3> QED
      BY <1>1, <2>1, <2>2, <2>3, <3>1
  <2>7. CASE pc' \in {"cfl", "normalize"} /\ lev' = lev
    <3>1. RawFlux'
      BY <1>1, <2>5, <2>7 DEF RawFlux, Moved
    <3>2. Register'
      BY <1>1, <2>6, <2>7 DEF Register
    <3>3. FinerRegister'
      BY <2>7 DEF FinerRegister
    <3> QED
      BY <1>2, <1>5, <2>1, <3>1, <3>2, <3>3 DEF Fluxes
  <2>8. CASE /\ pc' = "reflux" /\ lev' \in TimeLevels /\ lev' < lev /\ EndOf(lev') = EndOf(lev)
             /\ Finer(lev') = lev
             /\ frame[lev].begin = At(lev') /\ frame[lev].duration = frame[lev'].step
             /\ frame[lev].elapsed + frame[lev].step = frame[lev].duration
             /\ \A k \in TimeLevels : k < lev <=> k <= lev'
    <3>1. \A s \in Spatial : TimeLevel(s) < lev' \/ TimeLevel(s) = lev' => TimeLevel(s) < lev
      <4>1. \A l \in TimeLevels : l < lev' \/ l = lev' => l < lev
        <5>1. lev' \in TimeLevels /\ lev' < lev /\ lev \in TimeLevels /\ \A l \in TimeLevels : l \in Nat
          BY <1>2, <2>8
        <5>2. lev' \in Nat /\ lev \in Nat /\ lev' < lev
          BY <5>1
        <5> QED
          BY <5>1, <5>2
      <4> QED
        BY <1>1, <4>1
    <3>2. RawFlux'
      BY <1>1, <2>5, <3>1 DEF RawFlux
    <3>3. Register'
      BY <1>1, <2>6, <3>1 DEF Register
    <3>4. frame'[lev'] = frame[lev']
      <4>1. lev' # lev
        BY <1>2, <2>8
      <4> QED
        BY <2>4, <2>8, <4>1
    <3>5. Now' = At(lev')
      BY <3>4 DEF Now, At
    <3>6. \A s \in Spatial : TimeLevel(s) = lev =>
            reg[s] = [from |-> At(lev'), ticks |-> frame[lev'].step, of |-> frame[lev'].step]
      <4> TAKE s \in Spatial
      <4> HAVE TimeLevel(s) = lev
      <4>1. reg[s].from = frame[lev].begin /\ reg[s].of = frame[lev].duration /\ reg[s].from + reg[s].ticks = Reached(lev)
        BY <2>3
      <4>2. Reached(lev) = EndOf(lev)
        BY <2>1 DEF Reached, Moved
      <4>3. reg[s] \in Reg
        BY <1>2
      <4>4. reg[s].ticks \in Nat /\ reg[s].from \in Nat
        BY <4>3 DEF Reg, Ticks
      <4>5. frame[lev].begin \in Nat /\ frame[lev].elapsed \in Nat /\ frame[lev].step \in Nat
        BY <1>2, FrameFields
      <4>6. EndOf(lev) = frame[lev].begin + (frame[lev].elapsed + frame[lev].step)
        BY <4>5 DEF EndOf, At
      <4>7. reg[s].ticks = frame[lev].elapsed + frame[lev].step
        <5>1. frame[lev].begin + reg[s].ticks = frame[lev].begin + (frame[lev].elapsed + frame[lev].step)
          BY <4>1, <4>2, <4>6
        <5> QED
          BY <4>4, <4>5, <5>1
      <4>8. reg[s].from = At(lev') /\ reg[s].of = frame[lev'].step /\ reg[s].ticks = frame[lev'].step
        BY <2>8, <4>1, <4>7
      <4> QED
        BY <4>3, <4>8 DEF Reg
    <3>7. FinerRegister'
      <4>1. \A s \in Spatial : TimeLevel(s) = Finer(lev') =>
              reg'[s] = [from |-> Now', ticks |-> frame'[lev'].step, of |-> frame'[lev'].step]
        BY <2>1, <2>8, <3>4, <3>5, <3>6
      <4> QED
        BY <1>1, <4>1 DEF FinerRegister
    <3> QED
      BY <1>2, <1>5, <2>1, <3>2, <3>3, <3>7 DEF Fluxes
  <2> QED
    BY <2>1, <2>7, <2>8, CompletionTimes
<1>19. CASE Publish \/ Floor \/ Fails \/ Restore \/ RestoreFails \/ Recover \/ RecoverFails \/ Finished
  <2>1. ~Underway' /\ reg' = reg /\ raw' = raw
    BY <1>4, <1>19 DEF Publish, Floor, Fails, Handler, Restore, RestoreFails, Recover, RecoverFails, Finished, vars, Underway
  <2> QED
    BY <1>2, <1>5, <2>1 DEF Fluxes, RawFlux, Register, FinerRegister
<1> QED
  BY <1>8, <1>9, <1>10, <1>11, <1>12, <1>13, <1>14, <1>15, <1>16, <1>17, <1>18, <1>19 DEF Next, Phase

-----------------------------------------------------------------------------
(* The first layer of the invariant: clocks, counts and fluxes. *)
LEMMA FirstFrames == Init => Frames
<1> SUFFICES ASSUME Init PROVE Frames
  OBVIOUS
<1>1. /\ option \in Options /\ mode = "idle" /\ outcome = "none" /\ pc = "start" /\ lev = Coarsest
      /\ bank = 0 /\ time = 0 /\ levels = <<>> /\ steps = Zero /\ savedSteps = Zero /\ transported = Zero /\ boundary = Zero
  BY DEF Init
<1>2. Coarsest \in TimeLevels /\ 0 \in Ticks /\ 1 \in Ticks /\ Content(0, "state") \in Item /\ Unset \in Item
  <2>1. 0 \in Ticks /\ 1 \in Ticks
    BY BoundAssumption DEF Ticks
  <2> QED
    BY <1>1, <2>1, CoarsestLevel, ItemFormed DEF Unset, Kinds
<1>3. TypeOK
  <2>1. ControlType /\ LevelType
    BY <1>1, <1>2 DEF ControlType, LevelType
  <2>2. FrameType
    BY <1>2 DEF Init, FrameType, Frame, NoFrame
  <2>3. DataType
    BY <1>2 DEF Init, DataType
  <2>4. FluxType
    BY <1>2 DEF Init, FluxType
  <2>5. CouplingType
    BY <1>2 DEF Init, CouplingType, NoScratch
  <2>6. BackupType
    BY <1>2 DEF Init, BackupType, Zero
  <2>7. CountType /\ TransportType
    BY <1>1, <1>2 DEF CountType, TransportType, Zero
  <2> QED
    BY <1>1, <2>1, <2>2, <2>3, <2>4, <2>5, <2>6, <2>7, TypeWhole
<1>4. Control
  BY <1>1 DEF Control, InRecursion, Underway
<1>5. Clock
  BY <1>1 DEF Clock, Underway, Preparing, BackupHeld
<1>6. BinaryClock /\ LevelClock /\ Fluxes
  BY <1>1 DEF BinaryClock, LevelClock, Fluxes, RawFlux, Register, FinerRegister, Underway, Preparing
<1>7. Booked /\ Counted
  BY <1>1 DEF Booked, Counted, Underway, Preparing, BackupHeld, Zero
<1> QED
  BY <1>3, <1>4, <1>5, <1>6, <1>7 DEF Frames

(* A step that changes nothing keeps them. *)
LEMMA FramesStutter == Frames /\ UNCHANGED vars => Frames'
<1> SUFFICES ASSUME Frames, UNCHANGED vars PROVE Frames'
  OBVIOUS
<1>1. /\ option' = option /\ mode' = mode /\ pc' = pc /\ lev' = lev /\ bank' = bank /\ time' = time /\ levels' = levels
      /\ frame' = frame /\ data' = data /\ reg' = reg /\ raw' = raw /\ scratch' = scratch /\ rates' = rates
      /\ steps' = steps /\ savedSteps' = savedSteps /\ transported' = transported /\ boundary' = boundary
      /\ outcome' = outcome /\ backup' = backup
  BY DEF vars, accounts, call, coupling
<1>2. /\ TimeLevels' = TimeLevels /\ Spatial' = Spatial /\ Coupled' = Coupled /\ Floored' = Floored /\ Coarsest' = Coarsest
      /\ (\A l : Finer(l)' = Finer(l) /\ IsFinest(l)' = IsFinest(l)) /\ (\A s : TimeLevel(s)' = TimeLevel(s))
      /\ Ticks' = Ticks /\ Level' = Level
  BY <1>1, OptionKept DEF Ticks, Level
<1>3. TypeOK'
  <2>1. /\ option \in Options /\ ControlType /\ LevelType /\ FrameType /\ DataType /\ FluxType
        /\ CouplingType /\ BackupType /\ CountType /\ TransportType
    BY TypeParts DEF Frames
  <2>2. option' \in Options /\ ControlType' /\ LevelType'
    BY <1>1, <1>2, <2>1 DEF ControlType, LevelType, vars
  <2>3. FrameType' /\ DataType' /\ FluxType'
    BY <1>1, <1>2, <2>1 DEF FrameType, Frame, DataType, Bank, Item, Kinds, FluxType
  <2>4. CouplingType' /\ BackupType' /\ CountType' /\ TransportType'
    BY <1>1, <1>2, <2>1 DEF CouplingType, BackupType, CountType, TransportType, Item, Kinds
  <2> QED
    BY <2>2, <2>3, <2>4, TypeWholeNext
<1>4. Underway' = Underway /\ Preparing' = Preparing /\ InRecursion' = InRecursion /\ BackupHeld' = BackupHeld
  BY <1>1, <1>2 DEF Underway, Preparing, InRecursion, BackupHeld
<1>5. \A l \in TimeLevels : /\ At(l)' = At(l) /\ EndOf(l)' = EndOf(l) /\ StateTime(l)' = StateTime(l)
                            /\ Reached(l)' = Reached(l) /\ Opened(l)' = Opened(l)
  BY <1>1, <1>2 DEF At, EndOf, StateTime, Reached, Opened, FinerDone, Moved
<1>6. Control'
  BY <1>1, <1>2, <1>4 DEF Frames, Control
<1>7. Clock'
  <2>1. \A l \in TimeLevels : Nested(l)' = Nested(l) /\ Within(l)' = Within(l)
    BY <1>1, <1>2, <1>5 DEF Nested, Within, At
  <2> QED
    BY <1>1, <1>2, <1>4, <2>1 DEF Frames, Clock, Stepping, Within
<1>8. BinaryClock'
  BY <1>1, <1>2, <1>4 DEF Frames, BinaryClock, Binary
<1>9. LevelClock'
  BY <1>1, <1>2, <1>4, <1>5 DEF Frames, LevelClock, Stepping
<1>10. ASSUME option \in Options
       PROVE  \A s \in Spatial : /\ TimeLevel(s) \in TimeLevels
                                 /\ StateTime(TimeLevel(s))' = StateTime(TimeLevel(s))
                                 /\ Reached(TimeLevel(s))' = Reached(TimeLevel(s))
                                 /\ At(TimeLevel(s))' = At(TimeLevel(s)) /\ EndOf(TimeLevel(s))' = EndOf(TimeLevel(s))
  <2>1. \A s \in Spatial : TimeLevel(s) \in TimeLevels
    BY <1>10, LevelSet
  <2> QED
    BY <1>2, <1>5, <2>1
<1>11. option \in Options
  BY DEF Frames, TypeOK
<1>12. Booked' /\ Counted'
  BY <1>1, <1>2, <1>4, <1>10, <1>11 DEF Frames, Booked, Counted
<1>13. Fluxes'
  <2>1. Now' = Now
    BY <1>1 DEF Now
  <2> QED
    BY <1>1, <1>2, <1>4, <1>10, <1>11, <2>1 DEF Frames, Fluxes, RawFlux, Register, FinerRegister, Moved
<1> QED
  BY <1>3, <1>6, <1>7, <1>8, <1>9, <1>12, <1>13 DEF Frames

(* Every step keeps them. *)
LEMMA FramesStep == Frames /\ [Next]_vars => Frames'
<1> SUFFICES ASSUME Frames, Next PROVE Frames'
  BY FramesStutter
<1>1. TypeOK /\ Control /\ Clock /\ BinaryClock /\ LevelClock /\ Booked /\ Counted /\ Fluxes
  BY DEF Frames
<1>2. Control' /\ ControlType' /\ LevelType'
  BY <1>1, ControlStep
<1>3. Clock' /\ FrameType'
  BY <1>1, ClockStep
<1>4. BinaryClock' /\ LevelClock'
  BY <1>1, BinaryStep, LevelClockStep
<1>5. Booked' /\ TransportType'
  BY <1>1, BookedStep
<1>6. Counted' /\ CountType'
  BY <1>1, CountedStep
<1>7. Fluxes' /\ FluxType'
  BY <1>1, FluxesStep
<1>8. DataType' /\ BackupType' /\ CouplingType'
  BY <1>1, DataStep, StorageStep
<1>9. option' \in Options
  BY <1>1, NextKeepsOption, TypeParts
<1>10. TypeOK'
  BY <1>2, <1>3, <1>5, <1>6, <1>7, <1>8, <1>9, TypeWholeNext
<1> QED
  BY <1>2, <1>3, <1>4, <1>5, <1>6, <1>7, <1>10 DEF Frames

(* The clocks, the counts and the fluxes keep their invariant for ever,    *)
(* whatever steps the levels choose and wherever a phase fails.            *)
LEMMA FramesAlways == Spec => []Frames
  BY FirstFrames, FramesStep, PTL DEF Spec

(* Every variable keeps its type: no time leaves the interval, and no      *)
(* level, bank or register is read outside what Backup and advanceLevel    *)
(* have set up.                                                            *)
THEOREM SubcyclingTypes == Spec => []TypeOK
<1>1. Frames => TypeOK
  BY DEF Frames
<1> QED
  BY <1>1, FramesAlways, PTL

(* A multiple leaves no remainder. *)
LEMMA WholeSteps ==
  ASSUME NEW k \in Nat \ {0}, NEW m \in Nat
  PROVE  (m * k) % k = 0
  OBVIOUS

(* Every step divides what is left of the parent's interval, at every      *)
(* level and after any number of halvings, so the last one ends exactly at *)
(* the parent's endpoint (advanceLevel's loop over binary fractions).      *)
THEOREM StepsStayAligned == Spec => []StepsAligned
<1>1. Frames => StepsAligned
  <2> SUFFICES ASSUME Frames, InRecursion, NEW l \in TimeLevels, l <= lev, frame[l].step > 0
               PROVE  (frame[l].duration - frame[l].elapsed) % frame[l].step = 0
    BY DEF StepsAligned
  <2>1. Underway
    BY DEF InRecursion, Underway
  <2>2. Divides(frame[l].step, frame[l].duration - frame[l].elapsed)
    BY <2>1 DEF Frames, BinaryClock, Binary
  <2>3. PICK m \in Nat : frame[l].duration - frame[l].elapsed = m * frame[l].step
    BY <2>2 DEF Divides
  <2>4. frame[l].step \in Nat \ {0}
    BY FrameFields DEF Frames
  <2> QED
    BY <2>3, <2>4, WholeSteps
<1> QED
  BY <1>1, FramesAlways, PTL

(* A reflux finds, in the register across time levels and in the raw       *)
(* fluxes inside a time group, fluxes over exactly the coarse step it      *)
(* corrects (resetFlux, advance and reflux of transport.cpp).              *)
THEOREM RefluxIsCovered == Spec => []RefluxCoversStep
<1>1. Frames => RefluxCoversStep
  <2> SUFFICES ASSUME Frames, mode = "running", pc = "reflux", NEW s \in Own
               PROVE  /\ raw[s] = [from |-> Now, to |-> End]
                      /\ s + 1 \in Spatial =>
                           IF TimeLevel(s + 1) > TimeLevel(s)
                             THEN reg[s + 1] = [from |-> Now, ticks |-> frame[lev].step, of |-> frame[lev].step]
                             ELSE raw[s + 1] = [from |-> Now, to |-> End]
    BY DEF RefluxCoversStep, Running
  <2>1. Underway /\ Moved /\ Fluxes /\ Now = At(lev) /\ End = EndOf(lev)
    BY DEF Frames, Underway, Moved, Now, End, At, EndOf
  <2>2. s \in Spatial /\ s \in Nat /\ TimeLevel(s) = lev /\ option \in Options /\ CoarseLevel \in Nat
    BY LevelSet DEF Own, Members, Frames, TypeOK
  <2>3. \A u \in Spatial : TimeLevel(u) = lev => raw[u] = [from |-> Now, to |-> End]
    BY <2>1 DEF Fluxes, RawFlux
  <2>4. raw[s] = [from |-> Now, to |-> End]
    BY <2>2, <2>3
  <2>5. ASSUME s + 1 \in Spatial, TimeLevel(s + 1) > TimeLevel(s)
        PROVE  reg[s + 1] = [from |-> Now, ticks |-> frame[lev].step, of |-> frame[lev].step]
    <3>1. TimeLevel(s + 1) = lev + 1 /\ lev \in Nat
      BY <2>2, <2>5 DEF TimeLevel
    <3>2. lev \in TimeLevels /\ TimeLevel(s + 1) \in TimeLevels /\ lev < TimeLevel(s + 1)
      BY <2>2, <2>5, LevelSet
    <3>3. Finer(lev) \in TimeLevels /\ lev < Finer(lev) /\ Finer(lev) <= TimeLevel(s + 1) /\ Finer(lev) \in Nat
      BY <2>2, <3>2, FinerLevel, LevelSet
    <3>4. TimeLevel(s + 1) = Finer(lev)
      BY <3>1, <3>3
    <3>5. ~IsFinest(lev)
      BY <3>1, <3>2 DEF IsFinest
    <3> QED
      BY <2>1, <2>5, <3>4, <3>5 DEF Fluxes, FinerRegister
  <2>6. ASSUME s + 1 \in Spatial, ~(TimeLevel(s + 1) > TimeLevel(s))
        PROVE  raw[s + 1] = [from |-> Now, to |-> End]
    <3>1. TimeLevel(s + 1) = TimeLevel(s)
      BY <2>2, <2>6 DEF TimeLevel
    <3> QED
      BY <2>2, <2>3, <2>6, <3>1
  <2> QED
    BY <2>4, <2>5, <2>6
<1> QED
  BY <1>1, FramesAlways, PTL
-----------------------------------------------------------------------------
(* What the banks hold, where the equation-of-state floor acts inside the  *)
(* catch block of advanceCoupled.                                          *)
FloorCaught == Floored => Coupled

(* The copies of the published state, while levels overwrite it.           *)
PublishedState ==
  mode = "idle" \/ Preparing \/ pc = "floor" => \A s \in Spatial : data[s][bank] = Content(time, "state")
Copied ==
  /\ CheckpointHeld => \A s \in Spatial : data[s][2] = Content(time, "state")
  /\ BackupHeld => \A s \in Spatial : backup.state[s] = Content(backup.time, "state")
  /\ mode = "idle" /\ outcome = "threw" => time = frame[Coarsest].begin
Saved == PublishedState /\ Copied

(* A level's bank holds its state, except between the reflux of a coupled  *)
(* step and its second source step.                                        *)
OwnState ==
  Underway => \A s \in Spatial : ~(TimeLevel(s) = lev /\ pc = "finish") =>
    data[s][levels[TimeLevel(s)].bank] = Content(StateTime(TimeLevel(s)), "state")

(* The later end of an open level's interval.                              *)
Ahead ==
  Underway => \A s \in Spatial : TimeLevel(s) < lev =>
    data[s][Endpoint(TimeLevel(s))] =
      Content(EndOf(TimeLevel(s)), IF Coupled THEN "forecast" ELSE "transport")

Normalized ==
  Underway /\ pc = "publish" => \A s \in Spatial : data[s][Other(bank)] = Content(At(Coarsest), "state")

(* What the coupled source steps read.                                     *)
StepStart ==
  Underway /\ Coupled => \A s \in Spatial :
    (TimeLevel(s) < lev \/ (TimeLevel(s) = lev /\ Stepping /\ pc # "save")) =>
      scratch[s][0] = Content(At(TimeLevel(s)), "state")
Predicted ==
  /\ Coupled /\ mode = "running" /\ (InRecursion \/ pc = "backup") => rates = Spatial
  /\ Coupled /\ Running("advance") => \A s \in Spatial : scratch[s][1] = Content(Now, "midpoint")

Banks == FloorCaught /\ Saved /\ OwnState /\ Ahead /\ Normalized /\ StepStart /\ Predicted


-----------------------------------------------------------------------------
(* Banks differ from the ones the levels alternate.                        *)
LEMMA BankNumbers ==
  ASSUME NEW b \in {0, 1}
  PROVE  /\ Other(b) \in {0, 1} /\ Other(b) # b /\ Other(Other(b)) = b
         /\ b \in Bank /\ Other(b) \in Bank /\ b # 2 /\ Other(b) # 2 /\ b # 3 /\ Other(b) # 3
         /\ 2 \in Bank /\ 3 \in Bank
  BY DEF Other, Bank

(* What the invariant of the clocks says of the current state. *)
LEMMA Setting ==
  ASSUME Frames, option' = option
  PROVE  /\ TypeOK /\ Control /\ Clock /\ option \in Options /\ bank \in {0, 1} /\ backup.bank \in {0, 1}
         /\ lev \in TimeLevels /\ Coarsest \in TimeLevels /\ time \in Nat
         /\ \A s \in Spatial : TimeLevel(s) \in TimeLevels
         /\ \A l \in TimeLevels : l \in Nat
         /\ Spatial' = Spatial /\ Coupled' = Coupled /\ Floored' = Floored /\ Coarsest' = Coarsest
         /\ TimeLevels' = TimeLevels /\ \A s : TimeLevel(s)' = TimeLevel(s)
         /\ Underway => \A l \in TimeLevels : levels[l].bank \in {0, 1}
         /\ mode = "running" <=> pc # "start"
<1>1. TypeOK /\ Control /\ Clock
  BY DEF Frames
<1>2. option \in Options /\ ControlType /\ BackupType
  BY <1>1, TypeParts
<1>3. /\ bank \in {0, 1} /\ backup.bank \in {0, 1} /\ lev \in TimeLevels
  BY <1>2 DEF ControlType, BackupType
<1>4. /\ Coarsest \in TimeLevels
      /\ \A s \in Spatial : TimeLevel(s) \in TimeLevels
      /\ \A l \in TimeLevels : l \in Nat
  BY <1>2, LevelSet, CoarsestLevel
<1>5. time \in Nat
  BY <1>1, <1>4, FrameFields
<1>6. Underway => \A l \in TimeLevels : levels[l].bank \in {0, 1}
  BY <1>1 DEF Control, Level
<1>7. mode = "running" <=> pc # "start"
  BY <1>1 DEF Control
<1>8. /\ Spatial' = Spatial /\ Coupled' = Coupled /\ Floored' = Floored /\ Coarsest' = Coarsest
      /\ TimeLevels' = TimeLevels /\ \A s : TimeLevel(s)' = TimeLevel(s)
  BY OptionKept
<1> QED
  BY <1>1, <1>2, <1>3, <1>4, <1>5, <1>6, <1>7, <1>8

(* A failing phase tears neither copy of the published state. *)
LEMMA FailureSpares ==
  ASSUME Frames, option' = option, Fails, NEW s \in Spatial
  PROVE  /\ CheckpointHeld => data'[s][2] = data[s][2]
         /\ pc \in {"checkpoint", "probeAll", "backup"} => data'[s][bank] = data[s][bank]
<1>1. /\ TypeOK /\ bank \in {0, 1} /\ mode = "running" /\ TimeLevel(s) \in TimeLevels
      /\ Underway => \A l \in TimeLevels : levels[l].bank \in {0, 1}
  BY Setting DEF Fails
<1>2. /\ Other(bank) # bank /\ bank # 2 /\ Other(bank) # 2 /\ bank \in Bank /\ 2 \in Bank
      /\ Underway => Other(levels[TimeLevel(s)].bank) # 2
  BY <1>1, BankNumbers
<1>3. PICK cells \in {{}, Written} : data' = TornIn(cells)
  BY DEF Fails
<1>4. \A c \in Bank : <<s, c>> \notin cells => data'[s][c] = data[s][c]
  BY <1>1, <1>3, BankTorn
<1>5. CheckpointHeld => <<s, 2>> \notin Written
  <2> SUFFICES ASSUME CheckpointHeld PROVE <<s, 2>> \notin Written
    OBVIOUS
  <2>1. Underway /\ pc \notin {"probeAll", "floor", "backup"}
    BY <1>1 DEF CheckpointHeld, Underway
  <2>2. OtherBanks[s] # 2
    BY <1>2, <2>1 DEF OtherBanks
  <2> QED
    BY <1>2, <2>1, <2>2 DEF Written
<1>6. pc \in {"checkpoint", "probeAll", "backup"} => <<s, bank>> \notin Written
  BY <1>2 DEF Written
<1> QED
  BY <1>2, <1>3, <1>4, <1>5, <1>6


(* The copies of the published state survive every step: the levels write  *)
(* other banks, Publish finds the new state in the bank it publishes, and  *)
(* every rollback puts the old one back.                                   *)
LEMMA SavedStep ==
  ASSUME Frames, FloorCaught, Saved, Normalized, Next
  PROVE  Saved'
<1>0. option' = option
  BY DEF Next
<1>1. /\ TypeOK /\ Control /\ Clock /\ option \in Options /\ bank \in {0, 1} /\ backup.bank \in {0, 1}
      /\ Spatial' = Spatial /\ Coupled' = Coupled /\ Floored' = Floored /\ Coarsest' = Coarsest /\ time \in Nat
      /\ mode = "running" <=> pc # "start"
  BY <1>0, Setting
<1>2. /\ Other(bank) \in {0, 1} /\ Other(bank) # bank /\ bank \in Bank /\ Other(bank) \in Bank
      /\ bank # 2 /\ Other(bank) # 2 /\ 2 \in Bank
      /\ backup.bank \in Bank /\ backup.bank # 2
  BY <1>1, BankNumbers
<1>3. PublishedState /\ Copied
  BY DEF Saved
<1>4. \A t, k : Content(t, k)' = Content(t, k)
  BY DEF Content
<1>5. CASE \E dt \in option.durations : Start(dt)
  <2>1. /\ mode = "idle" /\ mode' = "running" /\ pc' = (IF Coupled THEN "checkpoint" ELSE "backup")
        /\ data' = OnlyPublished /\ time' = time /\ bank' = bank /\ backup' = backup
    BY <1>5 DEF Start
  <2>2. \A s \in Spatial : data'[s][bank] = data[s][bank]
    BY <1>2, <2>1 DEF OnlyPublished
  <2>3. PublishedState'
    BY <1>1, <1>3, <2>1, <2>2 DEF PublishedState
  <2>4. Copied'
    BY <1>1, <2>1 DEF Copied, CheckpointHeld, BackupHeld
  <2> QED
    BY <2>3, <2>4 DEF Saved
<1>6. CASE Checkpoint
  <2>1. /\ mode = "running" /\ pc = "checkpoint" /\ pc' = "probeAll" /\ mode' = mode /\ data' = data /\ time' = time /\ bank' = bank
        /\ backup' = [bank |-> bank, time |-> time, steps |-> steps, boundary |-> boundary,
                      state |-> [s \in Spatial |-> data[s][bank]]]
    BY <1>6 DEF Checkpoint, Running
  <2>2. \A s \in Spatial : data[s][bank] = Content(time, "state")
    BY <1>3, <2>1 DEF PublishedState, Preparing
  <2>3. PublishedState'
    BY <1>1, <2>1, <2>2 DEF PublishedState
  <2>4. \A s \in Spatial : backup'.state[s] = Content(backup'.time, "state")
    BY <2>1, <2>2
  <2>5. Copied'
    BY <1>1, <2>1, <2>4 DEF Copied, CheckpointHeld
  <2> QED
    BY <2>3, <2>5 DEF Saved
<1>7. CASE ProbeAll
  <2>1. /\ mode = "running" /\ pc = "probeAll" /\ pc' = "backup" /\ mode' = mode /\ time' = time /\ bank' = bank
        /\ backup' = backup
    BY <1>7 DEF ProbeAll, Running, accounts, call
  <2>2. \A s \in Spatial : data'[s][bank] = data[s][bank]
    BY <1>0, <1>1, <1>2, <1>7, WholeWrites
  <2>3. PublishedState'
    BY <1>1, <1>3, <2>1, <2>2 DEF PublishedState, Preparing
  <2>4. Copied'
    BY <1>1, <1>3, <2>1 DEF Copied, CheckpointHeld, BackupHeld
  <2> QED
    BY <2>3, <2>4 DEF Saved
<1>8. CASE Backup
  <2>1. /\ mode = "running" /\ pc = "backup" /\ pc' = "entry" /\ mode' = mode /\ time' = time /\ bank' = bank
        /\ backup' = backup
    BY <1>8 DEF Backup, Running, accounts, call
  <2>2. \A s \in Spatial : data'[s][2] = data[s][bank] /\ data[s][bank] = Content(time, "state")
    BY <1>0, <1>1, <1>2, <1>3, <1>8, <2>1, WholeWrites DEF PublishedState, Preparing
  <2>3. PublishedState'
    BY <2>1 DEF PublishedState, Preparing
  <2>4. Copied'
    BY <1>1, <1>3, <2>1, <2>2 DEF Copied, BackupHeld
  <2> QED
    BY <2>3, <2>4 DEF Saved
<1>9. CASE \/ ResetFlux \/ Timestep \/ SaveRadiationStep \/ Probe \/ PredictRadiationStep \/ Advance
           \/ ForecastRadiationStep \/ Reflux \/ FinishRadiationStep \/ Normalize
  <2>1. /\ mode = "running" /\ mode' = mode /\ time' = time /\ bank' = bank /\ backup' = backup
        /\ pc \notin {"checkpoint", "probeAll", "backup", "floor"}
        /\ pc' \notin {"checkpoint", "probeAll", "backup", "floor"}
    BY <1>9 DEF ResetFlux, Timestep, SaveRadiationStep, Probe, PredictRadiationStep, Advance, ForecastRadiationStep,
                Reflux, FinishRadiationStep, Normalize, CompleteStep, Descend, Running, accounts, call
  <2>2. Underway /\ CheckpointHeld /\ CheckpointHeld' /\ ~Preparing' /\ (BackupHeld' => BackupHeld)
    BY <1>1, <2>1 DEF Underway, CheckpointHeld, Preparing, BackupHeld
  <2>3. \A s \in Spatial : data'[s][2] = data[s][2]
    <3>1. CASE ResetFlux \/ Timestep \/ SaveRadiationStep \/ PredictRadiationStep
      BY <3>1 DEF ResetFlux, Timestep, SaveRadiationStep, PredictRadiationStep
    <3>2. CASE Probe \/ Advance \/ Reflux \/ FinishRadiationStep
      <4>1. \A l \in TimeLevels : Other(levels[l].bank) # 2
        BY <1>0, <2>2, Setting, BankNumbers
      <4>2. Other(levels[lev].bank) # 2
        BY <1>0, <4>1, Setting
      <4> QED
        BY <1>0, <1>1, <1>2, <3>2, <4>2, SubstepWrites
    <3>3. CASE ForecastRadiationStep
      BY <1>0, <1>1, <1>2, <3>3, ForecastWrites
    <3>4. CASE Normalize
      BY <1>0, <1>1, <1>2, <3>4, WholeWrites
    <3> QED
      BY <1>9, <3>1, <3>2, <3>3, <3>4
  <2>4. PublishedState'
    BY <2>1, <2>2 DEF PublishedState
  <2>5. Copied'
    BY <1>1, <1>3, <2>1, <2>2, <2>3 DEF Copied
  <2> QED
    BY <2>4, <2>5 DEF Saved
<1>10. CASE Publish
  <2>1. /\ mode = "running" /\ pc = "publish" /\ data' = data /\ backup' = backup
        /\ bank' = Other(bank) /\ time' = time + frame[Coarsest].duration
        /\ \/ Floored /\ pc' = "floor" /\ mode' = mode
           \/ mode' = "idle" /\ outcome' = "returned"
    BY <1>10 DEF Publish, Running, call
  <2>2. Underway /\ time' = At(Coarsest)
    <3>1. Underway
      BY <2>1 DEF Underway
    <3> QED
      BY <1>1, <2>1, <3>1, FinalTimes
  <2>3. \A s \in Spatial : data'[s][Other(bank)] = Content(time', "state")
    BY <2>1, <2>2 DEF Normalized
  <2>4. PublishedState'
    BY <1>1, <2>1, <2>3 DEF PublishedState
  <2>5. Copied'
    BY <1>1, <1>3, <2>1 DEF Copied, CheckpointHeld, BackupHeld
  <2> QED
    BY <2>4, <2>5 DEF Saved
<1>11. CASE Floor
  <2>1. /\ mode = "running" /\ pc = "floor" /\ pc' = "start" /\ mode' = "idle" /\ outcome' = "returned"
        /\ data' = data /\ time' = time /\ bank' = bank
    BY <1>11 DEF Floor, Running
  <2>2. PublishedState' /\ Copied'
    BY <1>1, <1>3, <2>1 DEF PublishedState, Copied, CheckpointHeld, BackupHeld
  <2> QED
    BY <2>2 DEF Saved
<1>12. CASE Fails
  <2>1. /\ mode = "running" /\ pc # "start" /\ pc' = "start" /\ mode' = Handler /\ time' = time /\ bank' = bank
        /\ backup' = backup /\ frame'[Coarsest] = frame[Coarsest]
    <3>1. Coarsest \in TimeLevels
      BY <1>0, Setting
    <3> QED
      BY <1>1, <1>12, <3>1 DEF Fails
  <2>2. pc = "floor" => Coupled
    BY <1>1 DEF Control, FloorCaught
  <2>3. PublishedState'
    <3> SUFFICES ASSUME mode' = "idle" PROVE \A s \in Spatial : data'[s][bank] = Content(time, "state")
      BY <1>1, <2>1 DEF PublishedState, Preparing
    <3>1. pc \in {"checkpoint", "probeAll", "backup"}
      BY <2>1, <2>2 DEF Handler
    <3>2. \A s \in Spatial : data[s][bank] = Content(time, "state")
      BY <1>3, <2>1, <3>1 DEF PublishedState, Preparing
    <3> QED
      BY <1>0, <1>12, <3>1, <3>2, FailureSpares
  <2>4. CheckpointHeld' => \A s \in Spatial : data'[s][2] = Content(time, "state")
    <3> SUFFICES ASSUME mode' = "restoring" PROVE \A s \in Spatial : data'[s][2] = Content(time, "state")
      BY <2>1 DEF CheckpointHeld, Handler
    <3>1. CheckpointHeld
      BY <2>1 DEF CheckpointHeld, Handler
    <3>2. \A s \in Spatial : data[s][2] = Content(time, "state")
      BY <1>3, <3>1 DEF Copied
    <3> QED
      BY <1>0, <1>12, <3>1, <3>2, FailureSpares
  <2>5. BackupHeld' => BackupHeld
    BY <1>1, <2>1 DEF BackupHeld, Handler
  <2>6. mode' = "idle" => time = frame[Coarsest].begin
    BY <1>1, <2>1, <2>2 DEF Handler, Clock, Preparing
  <2>7. Copied'
    BY <1>1, <1>3, <2>1, <2>4, <2>5, <2>6 DEF Copied
  <2> QED
    BY <2>3, <2>7 DEF Saved
<1>13. CASE Restore
  <2>1. /\ mode = "restoring" /\ mode' = (IF Coupled THEN "recovering" ELSE "idle") /\ pc' = pc /\ time' = time /\ bank' = bank
        /\ backup' = backup /\ frame' = frame /\ pc = "start"
    BY <1>1, <1>13 DEF Restore, call
  <2>2. \A s \in Spatial : data'[s][bank] = Content(time, "state")
    BY <1>0, <1>1, <1>2, <1>3, <1>13, <2>1, WholeWrites DEF Copied, CheckpointHeld
  <2>3. PublishedState'
    BY <1>1, <2>1, <2>2 DEF PublishedState
  <2>4. Copied'
    BY <1>1, <1>3, <2>1 DEF Copied, CheckpointHeld, BackupHeld, Clock
  <2> QED
    BY <2>3, <2>4 DEF Saved
<1>14. CASE RestoreFails
  <2>1. /\ mode = "restoring" /\ mode' = (IF Coupled THEN "recovering" ELSE "lost") /\ pc' = pc /\ time' = time /\ bank' = bank
        /\ backup' = backup /\ frame' = frame /\ pc = "start"
    BY <1>1, <1>14 DEF RestoreFails, accounts, call
  <2>2. PublishedState' /\ Copied'
    BY <1>1, <1>3, <2>1 DEF PublishedState, Preparing, Copied, CheckpointHeld, BackupHeld
  <2> QED
    BY <2>2 DEF Saved
<1>15. CASE Recover
  <2>1. /\ mode = "recovering" /\ mode' = "idle" /\ pc' = pc /\ time' = backup.time /\ bank' = backup.bank
        /\ backup' = backup /\ frame' = frame /\ pc = "start" /\ Coupled
    BY <1>1, <1>15 DEF Recover, Control, call
  <2>2. BackupHeld
    BY <2>1 DEF BackupHeld
  <2>3. \A s \in Spatial : data'[s][backup.bank] = Content(backup.time, "state")
    BY <1>0, <1>1, <1>2, <1>3, <1>15, <2>2, WholeWrites DEF Copied
  <2>4. PublishedState'
    BY <1>1, <2>1, <2>3 DEF PublishedState
  <2>5. Copied'
    BY <1>1, <2>1, <2>2 DEF Copied, CheckpointHeld, BackupHeld, Clock
  <2> QED
    BY <2>4, <2>5 DEF Saved
<1>16. CASE RecoverFails
  <2>1. mode' = "lost" /\ pc' = "start"
    BY <1>1, <1>16 DEF RecoverFails
  <2>2. PublishedState' /\ Copied'
    BY <2>1 DEF PublishedState, Preparing, Copied, CheckpointHeld, BackupHeld
  <2> QED
    BY <2>2 DEF Saved
<1>17. CASE Finished
  <2>1. /\ mode' = mode /\ pc' = pc /\ time' = time /\ bank' = bank /\ backup' = backup /\ frame' = frame /\ data' = data
        /\ outcome' = outcome
    BY <1>17 DEF Finished, vars, accounts, call
  <2>2. PublishedState' /\ Copied'
    BY <1>1, <1>3, <2>1 DEF PublishedState, Preparing, Copied, CheckpointHeld, BackupHeld
  <2> QED
    BY <2>2 DEF Saved
<1> QED
  BY <1>5, <1>6, <1>7, <1>8, <1>9, <1>10, <1>11, <1>12, <1>13, <1>14, <1>15, <1>16, <1>17 DEF Next, Phase


-----------------------------------------------------------------------------
(* The phases of an interval that has its checkpoint. *)
Substep ==
  \/ ResetFlux \/ Timestep \/ SaveRadiationStep \/ Probe \/ PredictRadiationStep \/ Advance
  \/ ForecastRadiationStep \/ Reflux \/ FinishRadiationStep \/ Normalize

(* The levels are under way after Backup or one of these phases only. *)
LEMMA UnderwaySteps ==
  ASSUME Frames, Next, Underway'
  PROVE  Backup \/ (Substep /\ Underway)
<1>1. mode = "running" <=> pc # "start"
  BY DEF Frames, Control
<1>2. CASE Substep
  <2>1. Underway
    BY <1>2 DEF Substep, ResetFlux, Timestep, SaveRadiationStep, Probe, PredictRadiationStep, Advance,
                ForecastRadiationStep, Reflux, FinishRadiationStep, Normalize, Running, Underway
  <2> QED
    BY <1>2, <2>1
<1>3. CASE (\E dt \in option.durations : Start(dt)) \/ Checkpoint \/ ProbeAll
  <2>1. pc' \in {"checkpoint", "probeAll", "backup"}
    BY <1>3 DEF Start, Checkpoint, ProbeAll
  <2> QED
    BY <2>1 DEF Underway
<1>4. CASE Publish \/ Floor
  <2>1. pc' = "floor" \/ mode' = "idle"
    BY <1>4 DEF Publish, Floor
  <2> QED
    BY <2>1 DEF Underway
<1>5. CASE Fails \/ Restore \/ RestoreFails \/ Recover \/ RecoverFails
  <2>1. mode' # "running"
    BY <1>5 DEF Fails, Handler, Restore, RestoreFails, Recover, RecoverFails
  <2> QED
    BY <2>1 DEF Underway
<1>6. CASE Finished
  <2>1. mode' # "running"
    BY <1>6 DEF Finished, vars
  <2> QED
    BY <2>1 DEF Underway
<1> QED
  BY <1>2, <1>3, <1>4, <1>5, <1>6 DEF Next, Phase, Substep

(* The times of the levels move at the end of a step only. *)
LEMMA SubstepTimes ==
  ASSUME Frames, option' = option, Underway, Substep
  PROVE  \A s \in Spatial :
           StateTime(TimeLevel(s))' = IF (FinishRadiationStep \/ (Reflux /\ ~Coupled)) /\ TimeLevel(s) = lev
                                        THEN EndOf(lev) ELSE StateTime(TimeLevel(s))
<1>1. /\ TypeOK /\ Control /\ Clock /\ \A s \in Spatial : TimeLevel(s) \in TimeLevels
      /\ \A s : TimeLevel(s)' = TimeLevel(s)
  BY Setting
<1>2. \A l \in TimeLevels :
        StateTime(l)' = IF (FinishRadiationStep \/ (Reflux /\ ~Coupled)) /\ l = lev THEN EndOf(lev) ELSE StateTime(l)
  BY <1>1, TimesKept DEF Substep
<1> QED
  BY <1>1, <1>2

(* Only the level that advances has its flags or its banks written, and    *)
(* its own bank is neither written nor left before the step's end.         *)
LEMMA SubstepLevels ==
  ASSUME Frames, option' = option, Underway, Substep
  PROVE  /\ \A l \in TimeLevels : l # lev => levels'[l] = levels[l]
         /\ levels'[lev].bank = IF Reflux \/ FinishRadiationStep THEN Other(levels[lev].bank) ELSE levels[lev].bank
<1>1. TypeOK /\ Control /\ Clock /\ lev \in TimeLevels
  BY Setting
<1>2. /\ Reflux => pc = "reflux"
      /\ FinishRadiationStep => pc = "finish"
  BY DEF Reflux, FinishRadiationStep, Running
<1>3. CASE ResetFlux \/ SaveRadiationStep \/ Probe \/ PredictRadiationStep \/ Normalize
  <2>1. levels' = levels /\ pc \notin {"reflux", "finish"}
    BY <1>3 DEF ResetFlux, SaveRadiationStep, Probe, PredictRadiationStep, Normalize, Running
  <2> QED
    BY <1>2, <2>1
<1>4. CASE Timestep
  <2>1. pc \notin {"reflux", "finish"}
    BY <1>4 DEF Timestep, Running
  <2> QED
    BY <1>1, <1>2, <1>4, <2>1, Limited
<1>5. CASE Advance \/ ForecastRadiationStep
  <2>1. Stepping /\ pc \notin {"reflux", "finish"}
    BY <1>5 DEF Advance, ForecastRadiationStep, Running, Stepping
  <2>2. levels' = levels \/ \E predicted \in BOOLEAN : Descend(predicted)
    BY <1>5 DEF Advance, ForecastRadiationStep
  <2>3. CASE levels' = levels
    BY <1>2, <2>1, <2>3
  <2>4. CASE \E predicted \in BOOLEAN : Descend(predicted)
    <3>1. PICK predicted \in BOOLEAN : Descend(predicted)
      BY <2>4
    <3> QED
      BY <1>1, <1>2, <2>1, <3>1, Descended
  <2> QED
    BY <2>2, <2>3, <2>4
<1>6. CASE Reflux \/ FinishRadiationStep
  <2>1. \/ levels' = [levels EXCEPT ![lev].bank = Alternated(@)]
        \/ levels' = [levels EXCEPT ![lev].pending = FALSE, ![lev].bank = Alternated(@)]
    BY <1>6 DEF Reflux, FinishRadiationStep
  <2> QED
    BY <1>1, <1>6, <2>1, Alternation
<1> QED
  BY <1>3, <1>4, <1>5, <1>6 DEF Substep

(* What a phase leaves in the banks of one level. *)
LEMMA SubstepData ==
  ASSUME Frames, option' = option, Underway, Substep, NEW s \in Spatial
  PROVE  /\ data'[s][levels[TimeLevel(s)].bank] = data[s][levels[TimeLevel(s)].bank]
         /\ TimeLevel(s) # lev /\ ~Normalize => \A c \in Bank : data'[s][c] = data[s][c]
         /\ TimeLevel(s) = lev =>
              /\ Advance => data'[s][Other(levels[lev].bank)] = Content(End, "transport")
              /\ ForecastRadiationStep => data'[s][3] = Content(End, "forecast")
              /\ Reflux => data'[s][Other(levels[lev].bank)] = Content(End, IF Coupled THEN "drive" ELSE "state")
              /\ FinishRadiationStep => data'[s][Other(levels[lev].bank)] = Content(End, "state")
<1>1. /\ TypeOK /\ Control /\ Clock /\ lev \in TimeLevels /\ TimeLevel(s) \in TimeLevels
      /\ \A l \in TimeLevels : levels[l].bank \in {0, 1}
  BY Setting
<1>2. /\ levels[lev].bank \in Bank /\ Other(levels[lev].bank) \in Bank /\ Other(levels[lev].bank) # levels[lev].bank
      /\ levels[TimeLevel(s)].bank \in Bank /\ levels[TimeLevel(s)].bank # 3 /\ 3 \in Bank
  <2>1. \A l \in TimeLevels : /\ levels[l].bank \in Bank /\ Other(levels[l].bank) \in Bank
                              /\ Other(levels[l].bank) # levels[l].bank /\ levels[l].bank # 3 /\ 3 \in Bank
    BY <1>1, BankNumbers
  <2> QED
    BY <1>1, <2>1
<1>3. CASE ResetFlux \/ Timestep \/ SaveRadiationStep \/ PredictRadiationStep
  <2>1. data' = data /\ pc \notin {"advance", "forecast", "reflux", "finish"}
    BY <1>3 DEF ResetFlux, Timestep, SaveRadiationStep, PredictRadiationStep, Running
  <2> QED
    BY <2>1 DEF Advance, ForecastRadiationStep, Reflux, FinishRadiationStep, Running
<1>4. CASE Normalize
  <2>1. \A c \in Bank : data'[s][c] = IF c = Other(bank) THEN data[s][levels[TimeLevel(s)].bank] ELSE data[s][c]
    BY <1>1, <1>4, WholeWrites
  <2>2. pc = "normalize"
    BY <1>4 DEF Normalize, Running
  <2> QED
    BY <1>2, <1>4, <2>1, <2>2 DEF Advance, ForecastRadiationStep, Reflux, FinishRadiationStep, Running
<1>5. CASE ForecastRadiationStep
  <2>1. \A c \in Bank : data'[s][c] = IF TimeLevel(s) = lev /\ c = 3 THEN Content(End, "forecast") ELSE data[s][c]
    BY <1>1, <1>5, ForecastWrites
  <2>2. pc = "forecast"
    BY <1>5 DEF ForecastRadiationStep, Running
  <2> QED
    BY <1>2, <2>1, <2>2 DEF Advance, Reflux, FinishRadiationStep, Running
<1>6. CASE Probe \/ Advance \/ Reflux \/ FinishRadiationStep
  <2>1. PICK item \in Item :
          /\ Advance => item = Content(End, "transport")
          /\ Reflux => item = Content(End, IF Coupled THEN "drive" ELSE "state")
          /\ FinishRadiationStep => item = Content(End, "state")
          /\ \A u \in Spatial : \A c \in Bank :
               data'[u][c] = IF TimeLevel(u) = lev /\ c = Other(levels[lev].bank) THEN item ELSE data[u][c]
    BY <1>1, <1>6, SubstepWrites
  <2>2. pc # "forecast"
    BY <1>6 DEF Probe, Advance, Reflux, FinishRadiationStep, Running
  <2>3. \A c \in Bank : data'[s][c] = IF TimeLevel(s) = lev /\ c = Other(levels[lev].bank) THEN item ELSE data[s][c]
    BY <2>1
  <2>4. data'[s][levels[TimeLevel(s)].bank] = data[s][levels[TimeLevel(s)].bank]
    BY <1>2, <2>3
  <2>5. ~ForecastRadiationStep
    BY <2>2 DEF ForecastRadiationStep, Running
  <2> QED
    BY <1>2, <2>1, <2>3, <2>4, <2>5
<1> QED
  BY <1>3, <1>4, <1>5, <1>6 DEF Substep

(* Every level's bank holds the level's state. *)
LEMMA OwnStateStep ==
  ASSUME Frames, Saved, OwnState, Next
  PROVE  OwnState'
<1>0. option' = option
  BY DEF Next
<1>1. /\ TypeOK /\ Control /\ Clock /\ option \in Options /\ bank \in {0, 1} /\ lev \in TimeLevels
      /\ Spatial' = Spatial /\ \A s \in Spatial : TimeLevel(s) \in TimeLevels
      /\ \A s : TimeLevel(s)' = TimeLevel(s)
  BY <1>0, Setting
<1> SUFFICES ASSUME Underway', NEW s \in Spatial, ~(TimeLevel(s) = lev' /\ pc' = "finish")
             PROVE  data'[s][levels'[TimeLevel(s)].bank] = Content(StateTime(TimeLevel(s))', "state")
  BY <1>1 DEF OwnState, Content
<1>2. CASE Backup
  <2>1. \A l \in TimeLevels : StateTime(l)' = time /\ levels'[l].bank = bank
    BY <1>0, <1>1, <1>2, FirstTimes DEF Backup
  <2>2. StateTime(TimeLevel(s))' = time /\ levels'[TimeLevel(s)].bank = bank
    BY <1>1, <2>1
  <2>3. bank \in Bank /\ bank # 2
    BY <1>1, BankNumbers
  <2>4. data'[s][bank] = data[s][bank]
    BY <1>0, <1>1, <1>2, <2>3, WholeWrites
  <2>5. data[s][bank] = Content(time, "state")
    BY <1>2 DEF Saved, PublishedState, Preparing, Backup, Running
  <2> QED
    BY <2>2, <2>4, <2>5
<1>3. CASE Substep /\ Underway
  <2>1. /\ \A l \in TimeLevels : l # lev => levels'[l] = levels[l]
        /\ levels'[lev].bank = IF Reflux \/ FinishRadiationStep THEN Other(levels[lev].bank) ELSE levels[lev].bank
    BY <1>0, <1>3, SubstepLevels
  <2>2. StateTime(TimeLevel(s))' = IF (FinishRadiationStep \/ (Reflux /\ ~Coupled)) /\ TimeLevel(s) = lev
                                     THEN EndOf(lev) ELSE StateTime(TimeLevel(s))
    BY <1>0, <1>3, SubstepTimes
  <2>3. End = EndOf(lev)
    BY <1>1, <1>3, StepTimes
  <2>4. CASE (Reflux \/ FinishRadiationStep) /\ TimeLevel(s) = lev
    <3>1. FinishRadiationStep \/ ~Coupled
      BY <2>4 DEF Reflux
    <3>2. data'[s][Other(levels[lev].bank)] = Content(End, "state")
      BY <1>0, <1>3, <2>4, <3>1, SubstepData
    <3> QED
      BY <2>1, <2>2, <2>3, <2>4, <3>1, <3>2
  <2>5. CASE ~((Reflux \/ FinishRadiationStep) /\ TimeLevel(s) = lev)
    <3>1. data'[s][levels[TimeLevel(s)].bank] = data[s][levels[TimeLevel(s)].bank]
      BY <1>0, <1>3, SubstepData
    <3>2. levels'[TimeLevel(s)].bank = levels[TimeLevel(s)].bank /\ StateTime(TimeLevel(s))' = StateTime(TimeLevel(s))
      BY <1>1, <2>1, <2>2, <2>5
    <3>3. ~(TimeLevel(s) = lev /\ pc = "finish")
      <4>1. pc = "finish" => FinishRadiationStep
        BY <1>3 DEF Substep, ResetFlux, Timestep, SaveRadiationStep, Probe, PredictRadiationStep, Advance,
                    ForecastRadiationStep, Reflux, Normalize, Running
      <4> QED
        BY <2>5, <4>1
    <3>4. data[s][levels[TimeLevel(s)].bank] = Content(StateTime(TimeLevel(s)), "state")
      BY <1>3, <3>3 DEF OwnState
    <3> QED
      BY <3>1, <3>2, <3>4
  <2> QED
    BY <2>4, <2>5
<1> QED
  BY <1>2, <1>3, UnderwaySteps


-----------------------------------------------------------------------------
(* The levels that are open after a phase were open before it, with the    *)
(* same clock, except for a level that has just begun to descend.          *)
LEMMA SubstepOuter ==
  ASSUME Frames, option' = option, Underway, Substep, NEW l \in TimeLevels, l < lev'
  PROVE  /\ ~Normalize /\ frame'[l] = frame[l]
         /\ \/ l < lev
            \/ /\ l = lev /\ (Advance => ~Coupled /\ levels'[l].predictor = FALSE)
               /\ (ForecastRadiationStep => levels'[l].predictor = TRUE) /\ (Advance \/ ForecastRadiationStep)
<1>1. /\ TypeOK /\ Control /\ Clock /\ lev \in TimeLevels /\ Coarsest \in TimeLevels /\ option \in Options
      /\ \A k \in TimeLevels : k \in Nat
  BY Setting
<1>2. CASE ResetFlux \/ SaveRadiationStep \/ Probe \/ PredictRadiationStep
  BY <1>2 DEF ResetFlux, SaveRadiationStep, Probe, PredictRadiationStep, Normalize, Running
<1>3. CASE Normalize
  <2>1. lev' = lev /\ lev = Coarsest
    BY <1>1, <1>3 DEF Normalize, Running, Control, InRecursion
  <2>2. Coarsest <= l
    BY <1>1, CoarsestLevel
  <2> QED
    BY <1>1, <2>1, <2>2
<1>4. CASE Timestep
  <2>1. lev' = lev /\ ~Normalize
    BY <1>4 DEF Timestep, Normalize, Running
  <2>2. l < lev /\ l # lev
    BY <1>1, <2>1
  <2>3. PICK step \in Nat : frame' = [frame EXCEPT ![lev].step = step]
    BY <1>1, <1>4, Limited
  <2>4. frame'[l] = frame[l]
    <3>1. frame \in [TimeLevels -> Frame]
      BY <1>1, FrameFields
    <3> QED
      BY <2>2, <2>3, <3>1
  <2> QED
    BY <2>1, <2>2, <2>4
<1>5. CASE Advance \/ ForecastRadiationStep
  <2>1. Stepping /\ ~Normalize /\ ~(Advance /\ ForecastRadiationStep)
    BY <1>5 DEF Advance, ForecastRadiationStep, Normalize, Running, Stepping
  <2>2. CASE Advance /\ Coupled
    BY <2>1, <2>2 DEF Advance
  <2>3. CASE ForecastRadiationStep \/ ~Coupled
    <3>1. PICK predicted \in BOOLEAN : /\ Descend(predicted)
                                       /\ (Advance => predicted = FALSE) /\ (ForecastRadiationStep => predicted = TRUE)
      BY <1>5, <2>1, <2>3 DEF Advance, ForecastRadiationStep
    <3>2. levels'[lev].predictor = predicted
      BY <1>1, <2>1, <3>1, Descended
    <3>3. \/ lev' = lev /\ frame' = frame
          \/ /\ lev < lev' /\ \A k \in TimeLevels : k < lev' <=> k <= lev
             /\ \A k \in TimeLevels : k # lev' => frame'[k] = frame[k]
      BY <1>1, <2>1, <3>1, DescentTimes
    <3>4. CASE lev' = lev /\ frame' = frame
      BY <2>1, <3>4
    <3>5. CASE /\ lev < lev' /\ \A k \in TimeLevels : k < lev' <=> k <= lev
               /\ \A k \in TimeLevels : k # lev' => frame'[k] = frame[k]
      <4>1. l <= lev
        BY <3>5
      <4>2. l # lev'
        BY <1>1
      <4>3. frame'[l] = frame[l]
        BY <3>5, <4>2
      <4>4. l < lev \/ l = lev
        BY <1>1, <4>1
      <4> QED
        BY <1>5, <2>1, <2>3, <3>1, <3>2, <4>3, <4>4
    <3> QED
      BY <3>3, <3>4, <3>5
  <2> QED
    BY <1>5, <2>2, <2>3
<1>6. CASE Reflux /\ Coupled
  BY <1>6 DEF Reflux, Normalize, Running
<1>7. CASE (Reflux /\ ~Coupled) \/ FinishRadiationStep
  <2>1. CompleteStep /\ Stepping /\ ~Normalize
    BY <1>7 DEF Reflux, FinishRadiationStep, Normalize, Running, Stepping
  <2>2. /\ \A k \in TimeLevels : k # lev => frame'[k] = frame[k]
        /\ lev' = lev \/ (lev' \in TimeLevels /\ lev' < lev)
    BY <1>1, <2>1, CompletionTimes
  <2>3. l < lev /\ l # lev
    BY <1>1, <2>2
  <2> QED
    BY <2>1, <2>2, <2>3
<1> QED
  BY <1>2, <1>3, <1>4, <1>5, <1>6, <1>7 DEF Substep

(* The later end of every open level's interval is in place. *)
LEMMA AheadStep ==
  ASSUME Frames, Ahead, Next
  PROVE  Ahead'
<1>0. option' = option
  BY DEF Next
<1>1. /\ TypeOK /\ Control /\ Clock /\ option \in Options /\ lev \in TimeLevels /\ Coarsest \in TimeLevels
      /\ Spatial' = Spatial /\ Coupled' = Coupled /\ \A s \in Spatial : TimeLevel(s) \in TimeLevels
      /\ \A s : TimeLevel(s)' = TimeLevel(s)
      /\ \A k \in TimeLevels : k \in Nat
  BY <1>0, Setting
<1> SUFFICES ASSUME Underway', NEW s \in Spatial, TimeLevel(s) < lev'
             PROVE  data'[s][Endpoint(TimeLevel(s))'] =
                      Content(EndOf(TimeLevel(s))', IF Coupled THEN "forecast" ELSE "transport")
  BY <1>1 DEF Ahead, Content
<1>2. CASE Backup
  <2>1. lev' = Coarsest
    BY <1>0, <1>1, <1>2, FirstTimes
  <2>2. Coarsest <= TimeLevel(s)
    BY <1>1, CoarsestLevel
  <2> QED
    BY <1>1, <2>1, <2>2
<1>3. CASE Substep /\ Underway
  <2>1. \A l \in TimeLevels : l < lev' =>
          /\ ~Normalize /\ frame'[l] = frame[l]
          /\ \/ l < lev
             \/ /\ l = lev /\ (Advance => ~Coupled /\ levels'[l].predictor = FALSE)
                /\ (ForecastRadiationStep => levels'[l].predictor = TRUE) /\ (Advance \/ ForecastRadiationStep)
    BY <1>0, <1>3, SubstepOuter
  <2>2. EndOf(TimeLevel(s))' = EndOf(TimeLevel(s))
    <3>1. \A l \in TimeLevels : l < lev' => EndOf(l)' = EndOf(l)
      BY <2>1 DEF EndOf, At
    <3> QED
      BY <1>1, <3>1
  <2>3. /\ \A l \in TimeLevels : l # lev => levels'[l] = levels[l]
        /\ levels'[lev].bank = IF Reflux \/ FinishRadiationStep THEN Other(levels[lev].bank) ELSE levels[lev].bank
    BY <1>0, <1>3, SubstepLevels
  <2>4. CASE TimeLevel(s) < lev
    <3>1. TimeLevel(s) # lev /\ ~Normalize
      BY <1>1, <2>1, <2>4
    <3>2. \A l \in TimeLevels : l # lev => Endpoint(l)' = Endpoint(l)
      BY <2>3 DEF Endpoint, Other
    <3>3. Endpoint(TimeLevel(s))' = Endpoint(TimeLevel(s))
      BY <1>1, <3>1, <3>2
    <3>4. Endpoint(TimeLevel(s)) \in Bank
      <4>1. \A l \in TimeLevels : Endpoint(l) \in Bank
        <5>1. \A l \in TimeLevels : levels[l].bank \in {0, 1}
          BY <1>0, <1>3, Setting
        <5> QED
          BY <5>1 DEF Endpoint, Other, Bank
      <4> QED
        BY <1>1, <4>1
    <3>5. data'[s][Endpoint(TimeLevel(s))] = data[s][Endpoint(TimeLevel(s))]
      BY <1>0, <1>3, <3>1, <3>4, SubstepData
    <3> QED
      BY <1>3, <2>2, <2>4, <3>3, <3>5 DEF Ahead
  <2>5. CASE ~(TimeLevel(s) < lev)
    <3>1. /\ TimeLevel(s) = lev /\ (Advance => ~Coupled /\ levels'[lev].predictor = FALSE)
          /\ (ForecastRadiationStep => levels'[lev].predictor = TRUE) /\ (Advance \/ ForecastRadiationStep)
      BY <1>1, <2>1, <2>5
    <3>2. End = EndOf(lev)
      BY <1>1, <1>3, StepTimes
    <3>3. \A l \in TimeLevels : Endpoint(l)' = IF levels'[l].predictor THEN 3 ELSE Other(levels'[l].bank)
      BY DEF Endpoint, Other
    <3>4. Endpoint(TimeLevel(s))' = IF levels'[lev].predictor THEN 3 ELSE Other(levels'[lev].bank)
      BY <1>1, <3>1, <3>3
    <3>5. CASE Advance
      <4>1. Endpoint(TimeLevel(s))' = Other(levels[lev].bank) /\ ~Coupled
        BY <2>3, <3>1, <3>4, <3>5 DEF Advance, Reflux, FinishRadiationStep, Running
      <4>2. data'[s][Other(levels[lev].bank)] = Content(End, "transport")
        BY <1>0, <1>3, <3>1, <3>5, SubstepData
      <4> QED
        BY <2>2, <3>1, <3>2, <4>1, <4>2
    <3>6. CASE ForecastRadiationStep
      <4>1. Coupled
        BY <1>1, <3>6 DEF ForecastRadiationStep, Running, Control
      <4>2. data'[s][3] = Content(End, "forecast")
        BY <1>0, <1>3, <3>1, <3>6, SubstepData
      <4> QED
        BY <2>2, <3>1, <3>2, <3>4, <3>6, <4>1, <4>2
    <3> QED
      BY <3>1, <3>5, <3>6
  <2> QED
    BY <2>4, <2>5
<1> QED
  BY <1>2, <1>3, UnderwaySteps

(* The unpublished bank of every level holds the end of the interval. *)
LEMMA NormalizedStep ==
  ASSUME Frames, OwnState, Next
  PROVE  Normalized'
<1>0. option' = option
  BY DEF Next
<1>1. /\ TypeOK /\ Control /\ Clock /\ option \in Options /\ lev \in TimeLevels /\ Coarsest \in TimeLevels
      /\ bank \in {0, 1} /\ Coarsest' = Coarsest
      /\ Spatial' = Spatial /\ \A s \in Spatial : TimeLevel(s) \in TimeLevels
  BY <1>0, Setting
<1> SUFFICES ASSUME Underway', pc' = "publish", NEW s \in Spatial
             PROVE  data'[s][Other(bank')] = Content(At(Coarsest)', "state")
  BY <1>1 DEF Normalized, Content, Other
<1>2. CASE Backup
  BY <1>2 DEF Backup
<1>3. CASE Substep /\ Underway
  <2>1. CASE Normalize
    <3>1. /\ data'[s][Other(bank)] = data[s][levels[TimeLevel(s)].bank] /\ bank' = bank /\ pc = "normalize"
      <4>1. Other(bank) \in Bank
        BY <1>1, BankNumbers
      <4>2. \A c \in Bank : data'[s][c] = IF c = Other(bank) THEN data[s][levels[TimeLevel(s)].bank] ELSE data[s][c]
        BY <1>0, <1>1, <2>1, WholeWrites
      <4> QED
        BY <2>1, <4>1, <4>2 DEF Normalize, Running
    <3>2. data[s][levels[TimeLevel(s)].bank] = Content(StateTime(TimeLevel(s)), "state")
      BY <1>3, <3>1 DEF OwnState
    <3>3. StateTime(TimeLevel(s)) = At(Coarsest)
      BY <1>1, <1>3, <3>1, FinalTimes
    <3>4. At(Coarsest)' = At(Coarsest)
      BY <1>1, <2>1 DEF At, Normalize
    <3> QED
      BY <3>1, <3>2, <3>3, <3>4
  <2>2. CASE ~Normalize
    <3>1. pc' # "publish"
      BY <1>3, <2>2 DEF Substep, ResetFlux, Timestep, SaveRadiationStep, Probe, PredictRadiationStep, Advance,
                        ForecastRadiationStep, Reflux, FinishRadiationStep, Descend, CompleteStep
    <3> QED
      BY <3>1
  <2> QED
    BY <2>1, <2>2
<1> QED
  BY <1>2, <1>3, UnderwaySteps


-----------------------------------------------------------------------------
(* A level in the middle of a coupled step was there before the phase too, *)
(* or is about to be saved, with the same clock.                           *)
LEMMA CoupledOpen ==
  ASSUME Frames, option' = option, Underway, Substep, Coupled, NEW l \in TimeLevels,
         l < lev' \/ (l = lev' /\ pc' \in {"probe", "predict", "advance", "forecast", "reflux", "finish"})
  PROVE  frame'[l] = frame[l] /\ (l < lev \/ (l = lev /\ Stepping))
<1>1. /\ TypeOK /\ Control /\ Clock /\ lev \in TimeLevels /\ Coarsest \in TimeLevels
      /\ \A k \in TimeLevels : k \in Nat
  BY Setting
<1>2. CASE l < lev'
  <2>1. frame'[l] = frame[l] /\ (l < lev \/ (l = lev /\ (Advance \/ ForecastRadiationStep)))
    BY <1>2, SubstepOuter
  <2>2. Advance \/ ForecastRadiationStep => Stepping
    BY DEF Advance, ForecastRadiationStep, Running, Stepping
  <2> QED
    BY <2>1, <2>2
<1>3. CASE l = lev' /\ pc' \in {"probe", "predict", "advance", "forecast", "reflux", "finish"}
  <2>1. CASE ResetFlux \/ Timestep \/ Normalize
    <3>1. pc' \notin {"probe", "predict", "advance", "forecast", "reflux", "finish"}
      BY <2>1 DEF ResetFlux, Timestep, Normalize
    <3> QED
      BY <1>3, <3>1
  <2>2. CASE SaveRadiationStep \/ Probe \/ PredictRadiationStep \/ Advance \/ Reflux
    BY <1>3, <2>2 DEF SaveRadiationStep, Probe, PredictRadiationStep, Advance, Reflux, Running, Stepping
  <2>3. CASE ForecastRadiationStep
    <3>1. Stepping /\ \E predicted \in BOOLEAN : Descend(predicted)
      BY <2>3 DEF ForecastRadiationStep, Running, Stepping
    <3>2. \/ lev' = lev /\ frame' = frame
          \/ pc' = "entry"
      BY <1>1, <3>1, DescentTimes
    <3> QED
      BY <1>3, <3>1, <3>2
  <2>4. CASE FinishRadiationStep
    <3>1. Stepping /\ CompleteStep
      BY <2>4 DEF FinishRadiationStep, Running, Stepping
    <3>2. /\ \A k \in TimeLevels : k # lev => frame'[k] = frame[k]
          /\ pc' \in {"cfl", "normalize"} \/ (lev' \in TimeLevels /\ lev' < lev)
      BY <1>1, <3>1, CompletionTimes
    <3>3. l < lev /\ l # lev
      BY <1>1, <1>3, <3>2
    <3> QED
      BY <3>2, <3>3
  <2> QED
    BY <2>1, <2>2, <2>3, <2>4 DEF Substep
<1> QED
  BY <1>2, <1>3

(* The saved start of a coupled step is the state it started from. *)
LEMMA StepStartStep ==
  ASSUME Frames, OwnState, StepStart, Next
  PROVE  StepStart'
<1>0. option' = option
  BY DEF Next
<1>1. /\ TypeOK /\ Control /\ Clock /\ option \in Options /\ lev \in TimeLevels /\ Coarsest \in TimeLevels
      /\ Spatial' = Spatial /\ Coupled' = Coupled /\ \A s \in Spatial : TimeLevel(s) \in TimeLevels
      /\ \A s : TimeLevel(s)' = TimeLevel(s)
      /\ \A k \in TimeLevels : k \in Nat
  BY <1>0, Setting
<1> SUFFICES ASSUME Underway', Coupled, NEW s \in Spatial,
                    TimeLevel(s) < lev' \/ (TimeLevel(s) = lev' /\ Stepping' /\ pc' # "save")
             PROVE  scratch'[s][0] = Content(At(TimeLevel(s))', "state")
  BY <1>1 DEF StepStart, Content
<1>2. CASE Backup
  <2>1. lev' = Coarsest /\ pc' = "entry"
    BY <1>0, <1>1, <1>2, FirstTimes
  <2>2. Coarsest <= TimeLevel(s)
    BY <1>1, CoarsestLevel
  <2> QED
    BY <1>1, <2>1, <2>2 DEF Stepping
<1>3. CASE Substep /\ Underway
  <2>1. /\ frame'[TimeLevel(s)] = frame[TimeLevel(s)]
        /\ TimeLevel(s) < lev \/ (TimeLevel(s) = lev /\ Stepping)
    <3>1. \A l \in TimeLevels :
            l < lev' \/ (l = lev' /\ pc' \in {"probe", "predict", "advance", "forecast", "reflux", "finish"}) =>
              frame'[l] = frame[l] /\ (l < lev \/ (l = lev /\ Stepping))
      BY <1>0, <1>3, CoupledOpen
    <3>2. TimeLevel(s) < lev'
          \/ (TimeLevel(s) = lev' /\ pc' \in {"probe", "predict", "advance", "forecast", "reflux", "finish"})
      BY DEF Stepping
    <3> QED
      BY <1>1, <3>1, <3>2
  <2>2. At(TimeLevel(s))' = At(TimeLevel(s))
    <3>1. \A l \in TimeLevels : frame'[l] = frame[l] => At(l)' = At(l)
      BY DEF At
    <3> QED
      BY <1>1, <2>1, <3>1
  <2>3. /\ scratch \in [Spatial -> [{0, 1} -> Item]] /\ 0 \in {0, 1} /\ 1 \in {0, 1}
    BY <1>1, TypeParts DEF CouplingType
  <2>4. CASE SaveRadiationStep /\ TimeLevel(s) = lev
    <3>1. s \in Own /\ pc = "save"
      BY <2>4 DEF Own, Members, SaveRadiationStep, Running
    <3>2. scratch'[s][0] = data[s][levels[TimeLevel(s)].bank]
      BY <2>3, <2>4, <3>1 DEF SaveRadiationStep
    <3>3. data[s][levels[TimeLevel(s)].bank] = Content(StateTime(TimeLevel(s)), "state")
      BY <1>3, <3>1 DEF OwnState
    <3>4. StateTime(TimeLevel(s)) = At(TimeLevel(s))
      BY <1>1, <2>4 DEF StateTime
    <3> QED
      BY <2>2, <3>2, <3>3, <3>4
  <2>5. CASE ~(SaveRadiationStep /\ TimeLevel(s) = lev)
    <3>1. scratch'[s][0] = scratch[s][0]
      <4>1. CASE SaveRadiationStep
        <5>1. s \notin Own
          BY <2>5, <4>1 DEF Own, Members
        <5> QED
          BY <4>1, <5>1 DEF SaveRadiationStep
      <4>2. CASE PredictRadiationStep
        <5>1. scratch'[s] = [scratch[s] EXCEPT ![1] = Content(Now, "midpoint")]
          BY <4>2 DEF PredictRadiationStep, MidpointBank
        <5>2. scratch[s] \in [{0, 1} -> Item]
          BY <2>3
        <5> QED
          BY <5>1, <5>2
      <4>3. CASE ~SaveRadiationStep /\ ~PredictRadiationStep
        BY <1>3, <4>3 DEF Substep, ResetFlux, Timestep, Probe, Advance, ForecastRadiationStep, Reflux,
                          FinishRadiationStep, Normalize, coupling
      <4> QED
        BY <4>1, <4>2, <4>3
    <3>2. TimeLevel(s) < lev \/ (TimeLevel(s) = lev /\ Stepping /\ pc # "save")
      <4>1. pc = "save" => SaveRadiationStep
        BY <1>3 DEF Substep, ResetFlux, Timestep, Probe, PredictRadiationStep, Advance, ForecastRadiationStep, Reflux,
                    FinishRadiationStep, Normalize, Running
      <4> QED
        BY <2>1, <2>5, <4>1
    <3>3. scratch[s][0] = Content(At(TimeLevel(s)), "state")
      BY <1>3, <3>2 DEF StepStart
    <3> QED
      BY <2>2, <3>1, <3>3
  <2> QED
    BY <2>4, <2>5
<1> QED
  BY <1>2, <1>3, UnderwaySteps

(* The rates are known for every level from the first probe on, and the    *)
(* midpoints of every level before a coupled transport.                    *)
LEMMA PredictedStep ==
  ASSUME Frames, Predicted, Next
  PROVE  Predicted'
<1>0. option' = option
  BY DEF Next
<1>1. /\ TypeOK /\ Control /\ Clock /\ Spatial' = Spatial /\ Coupled' = Coupled
      /\ (mode = "running" <=> pc # "start")
  BY <1>0, Setting
<1>2. ASSUME Coupled, mode' = "running", InRecursion' \/ pc' = "backup"
      PROVE  rates' = Spatial
  <2>1. CASE (\E dt \in option.durations : Start(dt)) \/ Checkpoint
    <3>1. pc' \in {"checkpoint", "probeAll"}
      BY <1>2, <2>1 DEF Start, Checkpoint
    <3> QED
      BY <1>2, <3>1 DEF InRecursion
  <2>2. CASE ProbeAll
    BY <2>2 DEF ProbeAll
  <2>3. CASE Backup
    <3>1. rates = Spatial
      BY <1>2, <2>3 DEF Predicted, Backup, Running
    <3> QED
      BY <2>3, <3>1 DEF Backup, coupling
  <2>4. CASE Substep
    <3>1. CASE Normalize
      <4>1. pc' = "publish"
        BY <3>1 DEF Normalize
      <4> QED
        BY <1>2, <4>1 DEF InRecursion
    <3>2. CASE ~Normalize
      <4>1. InRecursion
        BY <2>4, <3>2 DEF Substep, ResetFlux, Timestep, SaveRadiationStep, Probe, PredictRadiationStep, Advance,
                          ForecastRadiationStep, Reflux, FinishRadiationStep, Running, InRecursion
      <4>2. rates = Spatial
        BY <1>2, <4>1 DEF Predicted, InRecursion
      <4>3. rates' = rates \/ rates' = rates \cup Own
        BY <2>4, <3>2 DEF Substep, ResetFlux, Timestep, SaveRadiationStep, Probe, PredictRadiationStep, Advance,
                          ForecastRadiationStep, Reflux, FinishRadiationStep, coupling
      <4> QED
        BY <4>2, <4>3 DEF Own, Members
    <3> QED
      BY <3>1, <3>2
  <2>5. CASE Publish \/ Floor
    <3>1. pc' = "floor" \/ mode' = "idle"
      BY <2>5 DEF Publish, Floor
    <3> QED
      BY <1>2, <3>1 DEF InRecursion
  <2>6. CASE Fails \/ Restore \/ RestoreFails \/ Recover \/ RecoverFails
    <3>1. mode' # "running"
      BY <2>6 DEF Fails, Handler, Restore, RestoreFails, Recover, RecoverFails
    <3> QED
      BY <1>2, <3>1
  <2>7. CASE Finished
    <3>1. mode' # "running"
      BY <2>7 DEF Finished, vars
    <3> QED
      BY <1>2, <3>1
  <2> QED
    BY <2>1, <2>2, <2>3, <2>4, <2>5, <2>6, <2>7 DEF Next, Phase, Substep
<1>3. ASSUME Coupled, mode' = "running", pc' = "advance", NEW s \in Spatial
      PROVE  scratch'[s][1] = Content(Now', "midpoint")
  <2>1. Underway'
    BY <1>3 DEF Underway
  <2>2. PredictRadiationStep
    <3>1. Frames /\ Next /\ ~Backup
      BY <1>3 DEF Backup
    <3>2. Substep
      BY <2>1, <3>1, UnderwaySteps
    <3> QED
      BY <1>3, <3>2 DEF Substep, ResetFlux, Timestep, SaveRadiationStep, Probe, Advance, ForecastRadiationStep, Reflux,
                        FinishRadiationStep, Normalize, Descend, CompleteStep
  <2>3. Now' = Now
    BY <2>2 DEF PredictRadiationStep, Now
  <2>4. scratch[s] \in [{0, 1} -> Item]
    BY <1>1, TypeParts DEF CouplingType
  <2>5. scratch'[s] = [scratch[s] EXCEPT ![1] = Content(Now, "midpoint")]
    BY <2>2 DEF PredictRadiationStep, MidpointBank
  <2> QED
    BY <2>3, <2>4, <2>5
<1> QED
  BY <1>1, <1>2, <1>3 DEF Predicted, Running, Content


-----------------------------------------------------------------------------
(* At the start the published bank holds the initial state. *)
LEMMA FirstBanks == Init /\ FloorCaught => Banks
<1> SUFFICES ASSUME Init, FloorCaught PROVE Banks
  OBVIOUS
<1>1. /\ mode = "idle" /\ outcome = "none" /\ pc = "start" /\ bank = 0 /\ time = 0
      /\ data = [s \in Spatial |-> [b \in Bank |-> IF b = 0 THEN Content(0, "state") ELSE Unset]]
  BY DEF Init
<1>2. ~Underway /\ ~CheckpointHeld /\ ~BackupHeld
  BY <1>1 DEF Underway, CheckpointHeld, BackupHeld
<1>3. Saved
  <2>1. \A s \in Spatial : data[s][0] = Content(0, "state")
    BY <1>1 DEF Bank
  <2> QED
    BY <1>1, <1>2, <2>1 DEF Saved, PublishedState, Copied
<1>4. OwnState /\ Ahead /\ Normalized /\ StepStart
  BY <1>2 DEF OwnState, Ahead, Normalized, StepStart
<1>5. Predicted
  BY <1>1 DEF Predicted, Running
<1> QED
  BY <1>3, <1>4, <1>5 DEF Banks

(* A step that changes nothing keeps the banks. *)
LEMMA BanksStutter == Frames /\ Banks /\ UNCHANGED vars => Banks'
<1> SUFFICES ASSUME Frames, Banks, UNCHANGED vars PROVE Banks'
  OBVIOUS
<1>1. /\ option' = option /\ mode' = mode /\ pc' = pc /\ lev' = lev /\ bank' = bank /\ time' = time /\ levels' = levels
      /\ frame' = frame /\ data' = data /\ scratch' = scratch /\ rates' = rates /\ outcome' = outcome /\ backup' = backup
  BY DEF vars, accounts, call, coupling
<1>2. /\ Spatial' = Spatial /\ Coupled' = Coupled /\ Floored' = Floored /\ Coarsest' = Coarsest /\ Coarsest \in TimeLevels
      /\ \A s : TimeLevel(s)' = TimeLevel(s)
      /\ \A s \in Spatial : TimeLevel(s) \in TimeLevels
      /\ \A b : Other(b)' = Other(b)
      /\ \A t, k : Content(t, k)' = Content(t, k)
  BY <1>1, Setting DEF Other, Content
<1>3. /\ Underway' = Underway /\ Preparing' = Preparing /\ InRecursion' = InRecursion /\ BackupHeld' = BackupHeld
      /\ CheckpointHeld' = CheckpointHeld /\ Stepping' = Stepping /\ Now' = Now
  BY <1>1, <1>2 DEF Underway, Preparing, InRecursion, BackupHeld, CheckpointHeld, Stepping, Now
<1>4. \A l \in TimeLevels : /\ At(l)' = At(l) /\ EndOf(l)' = EndOf(l) /\ StateTime(l)' = StateTime(l)
                            /\ Endpoint(l)' = Endpoint(l)
  BY <1>1, <1>2 DEF At, EndOf, StateTime, FinerDone, Endpoint, Other
<1>5. /\ At(Coarsest)' = At(Coarsest)
      /\ \A s \in Spatial : /\ At(TimeLevel(s))' = At(TimeLevel(s)) /\ EndOf(TimeLevel(s))' = EndOf(TimeLevel(s))
                            /\ StateTime(TimeLevel(s))' = StateTime(TimeLevel(s))
                            /\ Endpoint(TimeLevel(s))' = Endpoint(TimeLevel(s))
  BY <1>2, <1>4
<1>6. FloorCaught'
  BY <1>2 DEF Banks, FloorCaught
<1>7. Saved'
  BY <1>1, <1>2, <1>3 DEF Banks, Saved, PublishedState, Copied
<1>8. OwnState' /\ Ahead'
  BY <1>1, <1>2, <1>3, <1>5 DEF Banks, OwnState, Ahead
<1>9. Normalized' /\ StepStart'
  BY <1>1, <1>2, <1>3, <1>5 DEF Banks, Normalized, StepStart
<1>10. Predicted'
  BY <1>1, <1>2, <1>3 DEF Banks, Predicted, Running
<1> QED
  BY <1>6, <1>7, <1>8, <1>9, <1>10 DEF Banks

(* Every step keeps the banks. *)
LEMMA BanksStep == Frames /\ Banks /\ [Next]_vars => Banks'
<1> SUFFICES ASSUME Frames, Banks, Next PROVE Banks'
  BY BanksStutter
<1>1. FloorCaught /\ Saved /\ OwnState /\ Ahead /\ Normalized /\ StepStart /\ Predicted
  BY DEF Banks
<1>2. FloorCaught'
  <2>1. option' = option
    BY DEF Next
  <2>2. Coupled' = Coupled /\ Floored' = Floored
    BY <2>1, OptionKept
  <2> QED
    BY <1>1, <2>2 DEF FloorCaught
<1>3. Saved' /\ OwnState' /\ Ahead' /\ Normalized' /\ StepStart' /\ Predicted'
  BY <1>1, SavedStep, OwnStateStep, AheadStep, NormalizedStep, StepStartStep, PredictedStep
<1> QED
  BY <1>2, <1>3 DEF Banks

(* The banks keep their invariant for ever. *)
LEMMA BanksAlways == Spec /\ FloorCaught => [](Frames /\ Banks)
<1>1. Init /\ FloorCaught => Frames /\ Banks
  BY FirstFrames, FirstBanks
<1>2. Frames /\ Banks /\ [Next]_vars => (Frames /\ Banks)'
  BY FramesStep, BanksStep
<1> QED
  BY <1>1, <1>2, PTL DEF Spec

-----------------------------------------------------------------------------
(* The intervals of the open levels are nested. *)
LEMMA OpenIntervals ==
  ASSUME Frames, Underway, NEW l \in TimeLevels, l < lev
  PROVE  /\ At(l) \in Nat /\ At(lev) \in Nat /\ EndOf(l) \in Nat /\ At(l) <= At(lev) /\ At(lev) <= EndOf(l)
         /\ Stepping => EndOf(lev) \in Nat /\ At(lev) <= EndOf(lev) /\ EndOf(lev) <= EndOf(l)
<1>0. /\ TypeOK /\ Control /\ Clock /\ option \in Options /\ lev \in TimeLevels /\ \A k \in TimeLevels : k \in Nat
  <2>1. TypeOK /\ Control /\ Clock
    BY DEF Frames
  <2> QED
    BY <2>1, TypeParts, LevelSet DEF ControlType
<1> DEFINE Last == IF Stepping THEN EndOf(lev) ELSE At(lev)
           Outside == {k \in TimeLevels : k < lev /\ ~(At(k) <= At(lev) /\ Last <= EndOf(k))}
<1>1. \A k \in TimeLevels : k <= lev =>
        /\ frame[k].begin \in Nat /\ frame[k].elapsed \in Nat /\ frame[k].step \in Nat /\ frame[k].duration \in Nat
        /\ frame[k].elapsed <= frame[k].duration
        /\ At(k) = frame[k].begin + frame[k].elapsed /\ EndOf(k) = At(k) + frame[k].step
        /\ k < lev \/ Stepping => frame[k].elapsed + frame[k].step <= frame[k].duration
  <2>1. \A k \in TimeLevels : k <= lev =>
          /\ frame[k].begin \in Nat /\ frame[k].elapsed \in Nat /\ frame[k].step \in Nat /\ frame[k].duration \in Nat
          /\ frame[k].elapsed <= frame[k].duration
    BY <1>0, OpenClock
  <2>2. \A k \in TimeLevels : k < lev => frame[k].elapsed + frame[k].step <= frame[k].duration
    BY <1>0 DEF Clock, Nested
  <2>3. Stepping => frame[lev].elapsed + frame[lev].step <= frame[lev].duration
    BY <1>0 DEF Clock
  <2>4. \A k \in TimeLevels : k <= lev => k < lev \/ k = lev
    BY <1>0
  <2> QED
    BY <2>1, <2>2, <2>3, <2>4 DEF At, EndOf
<1>2. \A k \in TimeLevels : k < lev =>
        /\ Finer(k) \in TimeLevels /\ k < Finer(k) /\ Finer(k) <= lev
        /\ frame[Finer(k)].begin = At(k) /\ frame[Finer(k)].duration = frame[k].step
  <2>1. \A k \in TimeLevels : k < lev => Finer(k) \in TimeLevels /\ k < Finer(k) /\ Finer(k) <= lev
    BY <1>0, FinerLevel
  <2> QED
    BY <1>0, <2>1 DEF Clock, Nested
<1>3. Last \in Nat /\ At(lev) \in Nat /\ At(lev) <= Last
  <2>1. lev <= lev
    BY <1>0
  <2>2. /\ frame[lev].begin \in Nat /\ frame[lev].elapsed \in Nat /\ frame[lev].step \in Nat
        /\ At(lev) = frame[lev].begin + frame[lev].elapsed /\ EndOf(lev) = At(lev) + frame[lev].step
    BY <1>0, <1>1, <2>1
  <2>3. At(lev) \in Nat /\ EndOf(lev) \in Nat /\ At(lev) <= EndOf(lev) /\ At(lev) <= At(lev)
    BY <2>2
  <2> QED
    BY <2>3
<1>4. ASSUME NEW k \in Outside, \A j \in Outside : j <= k
      PROVE  FALSE
  <2>1. k \in TimeLevels /\ k < lev /\ k \in Nat
    BY <1>0
  <2> DEFINE f == Finer(k)
  <2>2. f \in TimeLevels /\ k < f /\ f <= lev /\ frame[f].begin = At(k) /\ frame[f].duration = frame[k].step /\ f \in Nat /\ lev \in Nat
    BY <1>0, <1>2, <2>1
  <2> HIDE DEF f
  <2>3. f \notin Outside
    BY <1>4, <2>1, <2>2
  <2>4. (At(f) <= At(lev) /\ Last <= EndOf(f)) \/ f = lev
    BY <2>2, <2>3
  <2>5. /\ frame[f].elapsed \in Nat /\ frame[f].step \in Nat /\ frame[f].duration \in Nat
        /\ At(f) = frame[f].begin + frame[f].elapsed /\ EndOf(f) = At(f) + frame[f].step
        /\ frame[f].elapsed <= frame[f].duration
        /\ f < lev \/ Stepping => frame[f].elapsed + frame[f].step <= frame[f].duration
    <3>1. f \in TimeLevels /\ f <= lev
      BY <2>2
    <3> QED
      BY <1>1, <3>1
  <2>6. At(k) \in Nat /\ frame[k].step \in Nat /\ EndOf(k) = At(k) + frame[k].step
    <3>1. k <= lev /\ k \in TimeLevels
      BY <1>0, <2>1
    <3>2. /\ frame[k].begin \in Nat /\ frame[k].elapsed \in Nat /\ frame[k].step \in Nat
          /\ At(k) = frame[k].begin + frame[k].elapsed /\ EndOf(k) = At(k) + frame[k].step
      BY <1>1, <3>1
    <3> HIDE DEF Last
    <3> QED
      BY <3>2
  <2> HIDE DEF Last
  <2>7. CASE f < lev
    <3>1. At(f) <= At(lev) /\ Last <= EndOf(f)
      BY <2>2, <2>4, <2>7
    <3>2. At(k) <= At(f) /\ EndOf(f) <= EndOf(k) /\ At(f) \in Nat /\ EndOf(f) \in Nat /\ EndOf(k) \in Nat
      BY <2>2, <2>5, <2>6, <2>7
    <3>3. At(k) <= At(lev) /\ Last <= EndOf(k)
      BY <1>3, <2>6, <3>1, <3>2
    <3> QED
      BY <3>3
  <2>8. CASE f = lev
    <3>1. At(k) <= At(lev) /\ At(lev) <= EndOf(k) /\ (Stepping => EndOf(lev) <= EndOf(k))
      BY <2>2, <2>5, <2>6, <2>8
    <3>2. Last <= EndOf(k)
      BY <3>1 DEF Last
    <3> QED
      BY <3>1, <3>2
  <2> QED
    BY <2>2, <2>7, <2>8
<1>5. Outside = {}
  <2> SUFFICES ASSUME Outside # {} PROVE FALSE
    OBVIOUS
  <2>1. Outside \in SUBSET Nat /\ lev \in Nat /\ \A k \in Outside : k <= lev
    BY <1>0
  <2> HIDE DEF Outside
  <2>2. \E x \in Outside : \A y \in Outside : y <= x
    BY <2>1, Greatest
  <2> QED
    BY <1>4, <2>2
<1>6. At(l) <= At(lev) /\ Last <= EndOf(l)
  <2>1. l \notin Outside
    BY <1>5
  <2> QED
    BY <2>1
<1>7. At(l) \in Nat /\ EndOf(l) \in Nat
  BY <1>0, <1>1
<1>8. Stepping => Last = EndOf(lev)
  OBVIOUS
<1> HIDE DEF Last
<1> QED
  BY <1>3, <1>6, <1>7, <1>8


(* A phase's halo donors are all at the phase's own time: where the floor  *)
(* is caught, a level that is not advancing holds a finished state of      *)
(* exactly that time, an advancing one both ends of an interval around it, *)
(* and the check "Halo time outside coarse predictor interval" of          *)
(* stages.cpp never fires.                                                 *)
THEOREM HalosAreSynchronised == Spec /\ FloorCaught => []HaloSynchronised
<1>1. Frames /\ Banks => HaloSynchronised
  <2> SUFFICES ASSUME Frames, Banks PROVE HaloSynchronised
    OBVIOUS
  <2>1. /\ TypeOK /\ Control /\ Clock /\ option \in Options /\ lev \in TimeLevels
        /\ \A s \in Spatial : TimeLevel(s) \in TimeLevels
        /\ \A k \in TimeLevels : k \in Nat
    <3>1. TypeOK /\ Control /\ Clock
      BY DEF Frames
    <3> QED
      BY <3>1, TypeParts, LevelSet DEF ControlType
  <2>2. InRecursion => Underway
    BY DEF InRecursion, Underway
  <2>3. Underway => \A l \in TimeLevels :
          /\ levels[l].pending = Opened(l)
          /\ l < lev \/ (l = lev /\ Stepping) => levels[l].begin = At(l) /\ levels[l].end = EndOf(l)
    BY DEF Frames, LevelClock
  <2>4. Now = At(lev) /\ End = EndOf(lev)
    BY DEF Now, End, At, EndOf
  <2>5. ASSUME InRecursion, NEW l \in TimeLevels, levels[l].pending
        PROVE  levels[l].begin <= StageTime /\ StageTime <= levels[l].end
    <3>1. Opened(l) /\ Underway
      BY <2>2, <2>3, <2>5
    <3>2. CASE l < lev
      <4>1. /\ At(l) \in Nat /\ At(lev) \in Nat /\ EndOf(l) \in Nat /\ At(l) <= At(lev) /\ At(lev) <= EndOf(l)
            /\ Stepping => EndOf(lev) \in Nat /\ At(lev) <= EndOf(lev) /\ EndOf(lev) <= EndOf(l)
        BY <3>1, <3>2, OpenIntervals
      <4>2. levels[l].begin = At(l) /\ levels[l].end = EndOf(l)
        BY <2>3, <3>1, <3>2
      <4>3. StageTime = At(lev) \/ (StageTime = EndOf(lev) /\ Stepping)
        BY <2>4 DEF StageTime, Stepping
      <4>4. CASE StageTime = At(lev)
        BY <4>1, <4>2, <4>4
      <4>5. CASE StageTime = EndOf(lev) /\ Stepping
        <5>1. At(l) <= EndOf(lev) /\ EndOf(lev) <= EndOf(l)
          BY <4>1, <4>5
        <5> QED
          BY <4>2, <4>5, <5>1
      <4> QED
        BY <4>3, <4>4, <4>5
    <3>3. CASE ~(l < lev)
      <4>1. l = lev /\ pc = "reflux"
        BY <3>1, <3>3 DEF Opened
      <4>2. Stepping /\ StageTime = EndOf(lev)
        BY <2>4, <4>1 DEF Stepping, StageTime
      <4>3. levels[l].begin = At(lev) /\ levels[l].end = EndOf(lev)
        BY <2>3, <3>1, <4>1, <4>2
      <4>4. /\ At(lev) \in Nat /\ EndOf(lev) \in Nat /\ At(lev) < EndOf(lev)
        <5>1. lev <= lev
          BY <2>1
        <5> QED
          BY <2>1, <3>1, <4>2, <5>1, OpenClock
      <4>5. At(lev) <= EndOf(lev) /\ EndOf(lev) <= EndOf(lev)
        BY <4>4
      <4> QED
        BY <4>2, <4>3, <4>5
    <3> QED
      BY <3>2, <3>3
  <2>6. ASSUME mode = "running", pc \in {"probe", "predict", "advance"}, NEW s \in Spatial
        PROVE  IF levels[TimeLevel(s)].pending
                 THEN /\ data[s][levels[TimeLevel(s)].bank] = Content(levels[TimeLevel(s)].begin, "state")
                      /\ Now > levels[TimeLevel(s)].begin =>
                           data[s][Endpoint(TimeLevel(s))] =
                             Content(levels[TimeLevel(s)].end, IF Coupled THEN "forecast" ELSE "transport")
                 ELSE data[s][levels[TimeLevel(s)].bank] = Content(Now, "state")
    <3>1. Underway /\ ~FinerDone /\ pc # "finish"
      BY <2>6 DEF Underway, FinerDone
    <3>2. data[s][levels[TimeLevel(s)].bank] = Content(StateTime(TimeLevel(s)), "state")
      BY <3>1 DEF Banks, OwnState
    <3>3. levels[TimeLevel(s)].pending <=> TimeLevel(s) < lev
      <4>1. \A l \in TimeLevels : levels[l].pending <=> l < lev
        BY <2>3, <2>6, <3>1 DEF Opened
      <4> QED
        BY <2>1, <4>1
    <3>4. CASE TimeLevel(s) < lev
      <4>1. levels[TimeLevel(s)].begin = At(TimeLevel(s)) /\ levels[TimeLevel(s)].end = EndOf(TimeLevel(s))
        BY <2>1, <2>3, <3>1, <3>4
      <4>2. StateTime(TimeLevel(s)) = At(TimeLevel(s))
        BY <2>1, <3>4 DEF StateTime
      <4>3. data[s][Endpoint(TimeLevel(s))] = Content(EndOf(TimeLevel(s)), IF Coupled THEN "forecast" ELSE "transport")
        BY <3>1, <3>4 DEF Banks, Ahead
      <4> QED
        BY <3>2, <3>3, <3>4, <4>1, <4>2, <4>3
    <3>5. CASE ~(TimeLevel(s) < lev)
      <4>1. StateTime(TimeLevel(s)) = At(lev)
        <5>1. TimeLevel(s) <= lev => TimeLevel(s) = lev
          BY <2>1, <3>5
        <5> QED
          BY <3>1, <5>1 DEF StateTime
      <4> QED
        BY <2>4, <3>2, <3>3, <3>5, <4>1
    <3> QED
      BY <3>4, <3>5
  <2> QED
    BY <2>5, <2>6 DEF HaloSynchronised
<1> QED
  BY <1>1, BanksAlways, PTL

(* A coupled source step starts from the state that very step saved, and   *)
(* its transport finds rates and midpoints for every level                 *)
(* (saveRadiationStep, predictRadiationStep, finishRadiationStep).         *)
THEOREM SourcesAreReady == Spec /\ FloorCaught => []SourceInputsReady
<1>1. Frames /\ Banks => SourceInputsReady
  <2> SUFFICES ASSUME Frames, Banks PROVE SourceInputsReady
    OBVIOUS
  <2>1. Now = At(lev)
    BY DEF Now, At
  <2>2. ASSUME Running("forecast") \/ Running("finish"), NEW s \in Own
        PROVE  scratch[s][0] = Content(Now, "state")
    <3>1. Underway /\ Stepping /\ pc # "save" /\ Coupled
      BY <2>2 DEF Running, Underway, Stepping, Frames, Control
    <3>2. s \in Spatial /\ TimeLevel(s) = lev
      BY DEF Own, Members
    <3>3. scratch[s][0] = Content(At(TimeLevel(s)), "state")
      BY <3>1, <3>2 DEF Banks, StepStart
    <3> QED
      BY <2>1, <3>2, <3>3
  <2>3. ASSUME Running("advance"), Coupled
        PROVE  rates = Spatial /\ \A s \in Spatial : scratch[s][1] = Content(Now, "midpoint")
    <3>1. mode = "running" /\ InRecursion
      BY <2>3 DEF Running, InRecursion
    <3> QED
      BY <2>3, <3>1 DEF Banks, Predicted
  <2> QED
    BY <2>2, <2>3 DEF SourceInputsReady
<1> QED
  BY <1>1, BanksAlways, PTL

(* runtime.hpp, "On failure, drain work and preserve the previously        *)
(* published state and time": a call that threw leaves both as it found    *)
(* them.                                                                   *)
THEOREM FailedCallsKeepTheState == Spec /\ FloorCaught => []FailedCallKeepsTime
<1>1. Frames /\ Banks => FailedCallKeepsTime
  BY DEF Banks, Saved, PublishedState, Copied, FailedCallKeepsTime
<1> QED
  BY <1>1, BanksAlways, PTL


-----------------------------------------------------------------------------
(* What the contract sees: the published time and accounts, or the copies  *)
(* of them that a call under way would go back to.                         *)
ShownTime == IF BackupHeld THEN backup.time ELSE time
ShownSteps == IF BackupHeld THEN backup.steps ELSE IF CheckpointHeld THEN savedSteps ELSE steps
ShownBoundary == IF BackupHeld THEN backup.boundary ELSE boundary

(* A step that changes nothing of what the contract sees stutters. *)
LEMMA Unnoticed ==
  ASSUME option' = option, ShownTime' = ShownTime, ShownSteps' = ShownSteps, ShownBoundary' = ShownBoundary,
         \A s \in Spatial : Published(s)' = Published(s), mode' = "lost" <=> mode = "lost"
  PROVE  [Contract!Next]_(Contract!vars)
<1>1. Spatial' = Spatial
  BY OptionKept
<1>2. [s \in Spatial |-> Published(s)]' = [s \in Spatial |-> Published(s)]
  BY <1>1
<1>3. (mode = "lost")' = (mode = "lost")
  BY Zenon
<1> QED
  BY <1>1, <1>2, <1>3, Zenon DEF Contract!vars, ShownTime, ShownSteps, ShownBoundary

(* A step that moves all of it to a later time publishes. *)
LEMMA Announced ==
  ASSUME option' = option, mode # "lost", mode' # "lost", ShownTime' > ShownTime,
         \A s \in Spatial : Published(s)' = Content(ShownTime', "state"),
         ShownBoundary' = [s \in Spatial |-> ShownTime'],
         \A s \in Spatial : ShownSteps'[s] > ShownSteps[s]
  PROVE  [Contract!Next]_(Contract!vars)
<1>1. Spatial' = Spatial
  BY OptionKept
<1>2. [s \in Spatial |-> Published(s)]' = [s \in Spatial |-> [at |-> ShownTime', kind |-> "state"]]
  BY <1>1 DEF Content
<1>3. (mode = "lost")' = (mode = "lost")
  BY Zenon
<1>4. Contract!Publish
  BY <1>1, <1>2, <1>3 DEF Contract!Publish, Contract!Settled, ShownTime, ShownSteps, ShownBoundary
<1> QED
  BY <1>4 DEF Contract!Next

(* A failed rollback is the only step that breaks the promise. *)
LEMMA Broken ==
  ASSUME option' = option, mode # "lost", mode' = "lost", ShownTime' = ShownTime
  PROVE  [Contract!Next]_(Contract!vars)
<1>1. Spatial' = Spatial
  BY OptionKept
<1>2. Contract!Lose
  BY <1>1 DEF Contract!Lose, ShownTime
<1> QED
  BY <1>2 DEF Contract!Next

(* The step that publishes: Publish, or the floor after it. *)
LEMMA PublicationStep ==
  ASSUME Frames, Banks, Frames', Banks', option' = option, ~BackupHeld', ~CheckpointHeld', mode' = "idle",
         ShownTime = frame[Coarsest].begin, time' = frame[Coarsest].begin + frame[Coarsest].duration, mode = "running",
         steps' = steps, \A s \in Spatial : ShownSteps[s] < steps[s]
  PROVE  [Contract!Next]_(Contract!vars)
<1>1. /\ ShownTime' = time' /\ ShownBoundary' = boundary' /\ ShownSteps' = steps'
      /\ \A s \in Spatial : Published(s)' = data'[s][bank']
  BY DEF ShownTime, ShownBoundary, ShownSteps, Published
<1>2. /\ TypeOK /\ Clock /\ Coarsest \in TimeLevels /\ Spatial' = Spatial
      /\ \A t, k : Content(t, k)' = Content(t, k)
  BY Setting DEF Content
<1>3. \A s \in Spatial : data'[s][bank'] = Content(time', "state")
  BY <1>2 DEF Banks, Saved, PublishedState
<1>4. boundary' = [s \in Spatial |-> time']
  <2>1. \A s \in Spatial : boundary'[s] = time'
    BY <1>2 DEF Frames, Booked
  <2>2. boundary' \in [Spatial -> Ticks']
    <3>0. TypeOK'
      BY DEF Frames
    <3>1. TransportType'
      BY <3>0 DEF TypeOK, TransportType
    <3> QED
      BY <1>2, <3>1 DEF TransportType
  <2> QED
    BY <2>1, <2>2
<1>5. time' > ShownTime
  <2>1. frame[Coarsest].begin \in Nat /\ frame[Coarsest].duration \in Nat
    BY <1>2, FrameFields
  <2>2. frame[Coarsest].duration > 0
    BY <1>2 DEF Clock
  <2> QED
    BY <2>1, <2>2
<1>6. \A s \in Spatial : ShownSteps'[s] > ShownSteps[s]
  <2>1. \A s \in Spatial : steps[s] \in Nat
    <3>1. steps \in [Spatial -> Ticks] /\ MaxTime \in Nat
      BY <1>2, TypeParts, BoundAssumption DEF CountType
    <3> QED
      BY <3>1 DEF Ticks
  <2>2. \A s \in Spatial : ShownSteps[s] \in Nat
    <3>1. /\ steps \in [Spatial -> Ticks] /\ savedSteps \in [Spatial -> Ticks] /\ backup.steps \in [Spatial -> Ticks]
          /\ MaxTime \in Nat
      BY <1>2, TypeParts, BoundAssumption DEF CountType, BackupType
    <3>2. ShownSteps \in [Spatial -> Ticks]
      BY <3>1 DEF ShownSteps
    <3> QED
      BY <3>1, <3>2 DEF Ticks
  <2> QED
    BY <1>1, <2>1, <2>2
<1> QED
  BY <1>1, <1>3, <1>4, <1>5, <1>6, Announced


(* Every step of an interval is one step of the contract, or none of it. *)
LEMMA ContractStep ==
  ASSUME Frames, Banks, Frames', Banks', Next
  PROVE  [Contract!Next]_(Contract!vars)
<1>0. option' = option
  BY DEF Next
<1>1. /\ TypeOK /\ Control /\ Clock /\ option \in Options /\ bank \in {0, 1} /\ backup.bank \in {0, 1}
      /\ Spatial' = Spatial /\ (Coupled' <=> Coupled) /\ Coarsest' = Coarsest /\ Coarsest \in TimeLevels
      /\ (mode = "running" <=> pc # "start")
  <2>1. Coupled' = Coupled
    BY <1>0, OptionKept
  <2> QED
    BY <1>0, <2>1, Setting
<1>2. bank \in Bank /\ 2 \in Bank /\ Other(bank) # bank /\ bank # 2
  BY <1>1, BankNumbers
<1>3. FloorCaught /\ PublishedState /\ Copied
  BY DEF Banks, Saved
<1>4. ASSUME BackupHeld, BackupHeld', backup' = backup, mode # "lost", mode' # "lost"
      PROVE  [Contract!Next]_(Contract!vars)
  BY <1>0, <1>4, Unnoticed DEF ShownTime, ShownSteps, ShownBoundary, Published
<1>5. ASSUME ~BackupHeld, ~BackupHeld', CheckpointHeld', CheckpointHeld, time' = time, savedSteps' = savedSteps,
             boundary' = boundary, mode # "lost", mode' # "lost", \A s \in Spatial : data'[s][2] = data[s][2]
      PROVE  [Contract!Next]_(Contract!vars)
  BY <1>0, <1>5, Unnoticed DEF ShownTime, ShownSteps, ShownBoundary, Published
<1>6. ASSUME ~BackupHeld, ~BackupHeld', ~CheckpointHeld', ~CheckpointHeld, time' = time, steps' = steps,
             boundary' = boundary, mode # "lost", mode' # "lost", bank' = bank,
             \A s \in Spatial : data'[s][bank] = data[s][bank]
      PROVE  [Contract!Next]_(Contract!vars)
  BY <1>0, <1>6, Unnoticed DEF ShownTime, ShownSteps, ShownBoundary, Published
<1>7. CASE \E dt \in option.durations : Start(dt)
  <2>1. /\ mode = "idle" /\ mode' = "running" /\ pc' = (IF Coupled THEN "checkpoint" ELSE "backup")
        /\ data' = OnlyPublished /\ time' = time /\ bank' = bank /\ steps' = steps /\ boundary' = boundary
    BY <1>7 DEF Start
  <2>2. \A s \in Spatial : data'[s][bank] = data[s][bank]
    BY <1>2, <2>1 DEF OnlyPublished
  <2>3. ~BackupHeld /\ ~BackupHeld' /\ ~CheckpointHeld' /\ ~CheckpointHeld
    BY <1>1, <2>1 DEF BackupHeld, CheckpointHeld
  <2> QED
    BY <1>6, <2>1, <2>2, <2>3
<1>8. CASE Checkpoint
  <2>1. /\ mode = "running" /\ pc = "checkpoint" /\ pc' = "probeAll" /\ mode' = mode /\ Coupled
        /\ backup' = [bank |-> bank, time |-> time, steps |-> steps, boundary |-> boundary,
                      state |-> [s \in Spatial |-> data[s][bank]]]
    BY <1>1, <1>8 DEF Checkpoint, Running, Control
  <2>2. ~BackupHeld /\ BackupHeld' /\ ~CheckpointHeld
    BY <1>1, <2>1 DEF BackupHeld, CheckpointHeld
  <2>3. ShownTime' = ShownTime /\ ShownSteps' = ShownSteps /\ ShownBoundary' = ShownBoundary
    BY <2>1, <2>2 DEF ShownTime, ShownSteps, ShownBoundary
  <2>4. \A s \in Spatial : Published(s)' = Published(s)
    BY <2>1, <2>2 DEF Published
  <2> QED
    BY <1>0, <2>1, <2>3, <2>4, Unnoticed
<1>9. CASE ProbeAll
  <2>1. /\ mode = "running" /\ pc = "probeAll" /\ pc' = "backup" /\ mode' = mode /\ backup' = backup /\ Coupled
    BY <1>1, <1>9 DEF ProbeAll, Running, accounts, call, Control
  <2>2. BackupHeld /\ BackupHeld'
    BY <1>1, <2>1 DEF BackupHeld
  <2> QED
    BY <1>4, <2>1, <2>2
<1>10. CASE Backup
  <2>1. /\ mode = "running" /\ pc = "backup" /\ pc' = "entry" /\ mode' = mode /\ backup' = backup /\ time' = time
        /\ steps' = steps /\ savedSteps' = savedSteps /\ boundary' = boundary /\ bank' = bank
    BY <1>10 DEF Backup, Running, accounts, call
  <2>2. CASE Coupled
    <3>1. BackupHeld /\ BackupHeld'
      BY <1>1, <2>1, <2>2 DEF BackupHeld
    <3> QED
      BY <1>4, <2>1, <3>1
  <2>3. CASE ~Coupled
    <3>1. ~BackupHeld /\ ~BackupHeld' /\ ~CheckpointHeld /\ CheckpointHeld'
      BY <1>1, <2>1, <2>3 DEF BackupHeld, CheckpointHeld
    <3>2. steps = savedSteps
      BY <2>1 DEF Frames, Counted, Preparing
    <3>3. \A s \in Spatial : data'[s][2] = data[s][bank]
      BY <1>0, <1>1, <1>2, <1>10, WholeWrites
    <3>4. ShownTime' = ShownTime /\ ShownSteps' = ShownSteps /\ ShownBoundary' = ShownBoundary
      BY <2>1, <3>1, <3>2 DEF ShownTime, ShownSteps, ShownBoundary
    <3>5. \A s \in Spatial : Published(s)' = Published(s)
      BY <3>1, <3>3 DEF Published
    <3> QED
      BY <1>0, <2>1, <3>4, <3>5, Unnoticed
  <2> QED
    BY <2>2, <2>3
<1>11. CASE Substep
  <2>1. /\ mode = "running" /\ mode' = mode /\ time' = time /\ backup' = backup
        /\ savedSteps' = savedSteps /\ boundary' = boundary
        /\ pc \notin {"checkpoint", "probeAll", "backup", "floor"}
        /\ pc' \notin {"checkpoint", "probeAll", "backup", "floor"}
    BY <1>11 DEF Substep, ResetFlux, Timestep, SaveRadiationStep, Probe, PredictRadiationStep, Advance,
                 ForecastRadiationStep, Reflux, FinishRadiationStep, Normalize, CompleteStep, Descend, Running,
                 accounts, call
  <2>2. CASE Coupled
    <3>1. BackupHeld /\ BackupHeld'
      BY <1>1, <2>1, <2>2 DEF BackupHeld
    <3> QED
      BY <1>4, <2>1, <3>1
  <2>3. CASE ~Coupled
    <3>1. ~BackupHeld /\ ~BackupHeld' /\ CheckpointHeld /\ CheckpointHeld'
      BY <1>1, <2>1, <2>3 DEF BackupHeld, CheckpointHeld
    <3>2. \A s \in Spatial : data[s][2] = Content(time, "state")
      BY <1>3, <3>1 DEF Copied
    <3>3. \A s \in Spatial : data'[s][2] = Content(time, "state")
      BY <1>1, <2>1, <3>1 DEF Banks, Saved, Copied, Content
    <3>4. \A s \in Spatial : data'[s][2] = data[s][2]
      BY <3>2, <3>3
    <3> QED
      BY <1>5, <2>1, <3>1, <3>4
  <2> QED
    BY <2>2, <2>3
<1>12. CASE Publish
  <2>1. /\ mode = "running" /\ pc = "publish" /\ backup' = backup /\ steps' = steps
        /\ time' = time + frame[Coarsest].duration
        /\ \/ Floored /\ pc' = "floor" /\ mode' = mode
           \/ ~Floored /\ pc' = "start" /\ mode' = "idle"
    BY <1>12 DEF Publish, Running, call
  <2>2. CASE Floored
    <3>1. Coupled /\ pc' = "floor" /\ mode' = mode
      BY <1>3, <2>1, <2>2 DEF FloorCaught
    <3>2. BackupHeld /\ BackupHeld'
      BY <1>1, <2>1, <3>1 DEF BackupHeld
    <3> QED
      BY <1>4, <2>1, <3>1, <3>2
  <2>3. CASE ~Floored
    <3>1. mode' = "idle" /\ ~BackupHeld' /\ ~CheckpointHeld'
      BY <2>1, <2>3 DEF BackupHeld, CheckpointHeld
    <3>2. Underway /\ CheckpointHeld
      BY <2>1 DEF Underway, CheckpointHeld
    <3>3. time = frame[Coarsest].begin /\ ShownTime = frame[Coarsest].begin
      BY <1>1, <3>2 DEF Clock, ShownTime
    <3>4. \A s \in Spatial : savedSteps[s] < steps[s]
      <4>1. /\ At(Coarsest) = time + frame[Coarsest].duration /\ frame[Coarsest].duration \in Nat \ {0}
            /\ \A l \in TimeLevels : StateTime(l) = At(Coarsest)
        BY <1>1, <2>1, <3>2, FinalTimes
      <4>2. \A s \in Spatial : TimeLevel(s) \in TimeLevels
        BY <1>1, LevelSet
      <4>3. time \in Nat
        BY <1>1, FrameFields
      <4>4. \A s \in Spatial : StateTime(TimeLevel(s)) > time
        BY <4>1, <4>2, <4>3
      <4> QED
        BY <3>2, <4>4 DEF Frames, Counted
    <3>5. ShownSteps = savedSteps
      BY <2>1, <3>2 DEF ShownSteps, Frames, Counted
    <3> QED
      BY <1>0, <2>1, <3>1, <3>3, <3>4, <3>5, PublicationStep
  <2> QED
    BY <2>2, <2>3
<1>13. CASE Floor
  <2>1. /\ mode = "running" /\ pc = "floor" /\ mode' = "idle" /\ steps' = steps /\ time' = time /\ pc' = "start"
    BY <1>13 DEF Floor, Running
  <2>2. Coupled /\ BackupHeld /\ ~BackupHeld' /\ ~CheckpointHeld'
    BY <1>1, <1>3, <2>1 DEF BackupHeld, CheckpointHeld, Control, FloorCaught
  <2>3. ShownTime = frame[Coarsest].begin /\ time = frame[Coarsest].begin + frame[Coarsest].duration
    BY <1>1, <2>1, <2>2 DEF ShownTime, Clock
  <2>4. \A s \in Spatial : savedSteps[s] < steps[s]
    BY <2>1 DEF Frames, Counted
  <2>5. ShownSteps = savedSteps
    BY <2>1, <2>2 DEF ShownSteps, Frames, Counted
  <2> QED
    BY <1>0, <2>1, <2>2, <2>3, <2>4, <2>5, PublicationStep
<1>14. CASE Fails
  <2>1. /\ mode = "running" /\ pc # "start" /\ pc' = "start" /\ mode' = Handler /\ time' = time /\ bank' = bank
        /\ backup' = backup /\ steps' = steps /\ savedSteps' = savedSteps /\ boundary' = boundary
    BY <1>1, <1>14 DEF Fails
  <2>2. CASE Coupled /\ pc # "checkpoint"
    <3>1. BackupHeld /\ BackupHeld' /\ mode' # "lost"
      BY <1>1, <2>1, <2>2 DEF BackupHeld, Handler
    <3> QED
      BY <1>4, <2>1, <3>1
  <2>3. CASE ~Coupled \/ pc = "checkpoint"
    <3>1. ~BackupHeld /\ ~BackupHeld'
      BY <1>1, <2>1, <2>3 DEF BackupHeld, Handler
    <3>2. CASE CheckpointHeld
      <4>1. mode' = "restoring" /\ CheckpointHeld'
        BY <2>1, <3>2 DEF CheckpointHeld, Handler
      <4>2. \A s \in Spatial : data'[s][2] = data[s][2]
        BY <1>0, <1>14, <3>2, FailureSpares
      <4> QED
        BY <1>5, <2>1, <3>1, <3>2, <4>1, <4>2
    <3>3. CASE ~CheckpointHeld
      <4>1. pc \in {"checkpoint", "probeAll", "backup"}
        BY <1>1, <1>3, <2>1, <2>3, <3>3 DEF CheckpointHeld, Control, FloorCaught
      <4>2. mode' = "idle" /\ ~CheckpointHeld'
        <5>1. pc = "probeAll" => Coupled
          BY <1>1 DEF Control
        <5> QED
          BY <2>1, <2>3, <4>1, <5>1 DEF Handler, CheckpointHeld
      <4>3. \A s \in Spatial : data'[s][bank] = data[s][bank]
        BY <1>0, <1>14, <4>1, FailureSpares
      <4> QED
        BY <1>6, <2>1, <3>1, <3>3, <4>2, <4>3
    <3> QED
      BY <3>2, <3>3
  <2> QED
    BY <2>2, <2>3
<1>15. CASE Restore
  <2>1. /\ mode = "restoring" /\ mode' = (IF Coupled THEN "recovering" ELSE "idle") /\ time' = time /\ bank' = bank
        /\ backup' = backup /\ steps' = savedSteps /\ boundary' = boundary /\ pc = "start" /\ pc' = pc
    BY <1>1, <1>15 DEF Restore, RestoredSteps, call
  <2>2. CASE Coupled
    <3>1. BackupHeld /\ BackupHeld' /\ mode' # "lost"
      BY <1>1, <2>1, <2>2 DEF BackupHeld
    <3> QED
      BY <1>4, <2>1, <3>1
  <2>3. CASE ~Coupled
    <3>1. ~BackupHeld /\ ~BackupHeld' /\ CheckpointHeld /\ ~CheckpointHeld' /\ mode' # "lost"
      BY <1>1, <2>1, <2>3 DEF BackupHeld, CheckpointHeld
    <3>2. \A s \in Spatial : data'[s][bank] = data[s][2]
      BY <1>0, <1>1, <1>2, <1>15, WholeWrites
    <3>3. ShownTime' = ShownTime /\ ShownSteps' = ShownSteps /\ ShownBoundary' = ShownBoundary
      BY <2>1, <3>1 DEF ShownTime, ShownSteps, ShownBoundary
    <3>4. \A s \in Spatial : Published(s)' = Published(s)
      BY <2>1, <3>1, <3>2 DEF Published
    <3> QED
      BY <1>0, <2>1, <3>1, <3>3, <3>4, Unnoticed
  <2> QED
    BY <2>2, <2>3
<1>16. CASE RestoreFails
  <2>1. /\ mode = "restoring" /\ mode' = (IF Coupled THEN "recovering" ELSE "lost") /\ time' = time
        /\ backup' = backup /\ pc = "start" /\ pc' = pc
    BY <1>1, <1>16 DEF RestoreFails, accounts, call
  <2>2. CASE Coupled
    <3>1. BackupHeld /\ BackupHeld' /\ mode' # "lost"
      BY <1>1, <2>1, <2>2 DEF BackupHeld
    <3> QED
      BY <1>4, <2>1, <3>1
  <2>3. CASE ~Coupled
    <3>1. ~BackupHeld /\ ~BackupHeld'
      BY <1>1, <2>1, <2>3 DEF BackupHeld
    <3>2. ShownTime' = ShownTime
      BY <2>1, <3>1 DEF ShownTime
    <3> QED
      BY <1>0, <2>1, <2>3, <3>2, Broken
  <2> QED
    BY <2>2, <2>3
<1>17. CASE Recover
  <2>1. /\ mode = "recovering" /\ mode' = "idle" /\ time' = backup.time /\ bank' = backup.bank
        /\ steps' = backup.steps /\ boundary' = backup.boundary /\ pc = "start" /\ pc' = pc /\ Coupled
    BY <1>1, <1>17 DEF Recover, RecoveredBoundary, Control
  <2>2. BackupHeld /\ ~BackupHeld' /\ ~CheckpointHeld'
    BY <1>1, <2>1 DEF BackupHeld, CheckpointHeld
  <2>3. \A s \in Spatial : data'[s][backup.bank] = backup.state[s]
    <3>1. backup.bank \in Bank
      BY <1>1, BankNumbers
    <3> QED
      BY <1>0, <1>1, <1>17, <3>1, WholeWrites
  <2>4. ShownTime' = ShownTime /\ ShownSteps' = ShownSteps /\ ShownBoundary' = ShownBoundary
    BY <2>1, <2>2 DEF ShownTime, ShownSteps, ShownBoundary
  <2>5. \A s \in Spatial : Published(s)' = Published(s)
    BY <2>1, <2>2, <2>3 DEF Published
  <2> QED
    BY <1>0, <2>1, <2>4, <2>5, Unnoticed
<1>18. CASE RecoverFails
  <2>1. /\ mode = "recovering" /\ mode' = "lost" /\ time' = backup.time /\ pc = "start" /\ Coupled
    BY <1>1, <1>18 DEF RecoverFails, Control
  <2>2. BackupHeld /\ ~BackupHeld'
    BY <1>1, <2>1 DEF BackupHeld
  <2>3. ShownTime' = ShownTime
    BY <2>1, <2>2 DEF ShownTime
  <2> QED
    BY <1>0, <2>1, <2>3, Broken
<1>19. CASE Finished
  <2>1. /\ mode' = mode /\ pc' = pc /\ time' = time /\ bank' = bank /\ backup' = backup /\ data' = data
        /\ steps' = steps /\ savedSteps' = savedSteps /\ boundary' = boundary
    BY <1>19 DEF Finished, vars, accounts, call
  <2>2. (BackupHeld' <=> BackupHeld) /\ (CheckpointHeld' <=> CheckpointHeld)
    BY <1>1, <2>1 DEF BackupHeld, CheckpointHeld
  <2>3. ShownTime' = ShownTime /\ ShownSteps' = ShownSteps /\ ShownBoundary' = ShownBoundary
    BY <2>1, <2>2 DEF ShownTime, ShownSteps, ShownBoundary
  <2>4. \A s \in Spatial : Published(s)' = Published(s)
    BY <2>1, <2>2 DEF Published
  <2> QED
    BY <1>0, <2>1, <2>3, <2>4, Unnoticed
<1> QED
  BY <1>7, <1>8, <1>9, <1>10, <1>11, <1>12, <1>13, <1>14, <1>15, <1>16, <1>17, <1>18, <1>19 DEF Next, Phase, Substep

(* A step that changes nothing is none of the contract. *)
LEMMA ContractStutter == UNCHANGED vars => UNCHANGED Contract!vars
<1> SUFFICES ASSUME UNCHANGED vars PROVE UNCHANGED Contract!vars
  OBVIOUS
<1>1. /\ option' = option /\ mode' = mode /\ pc' = pc /\ time' = time /\ bank' = bank /\ backup' = backup /\ data' = data
      /\ steps' = steps /\ savedSteps' = savedSteps /\ boundary' = boundary
  BY DEF vars, accounts, call
<1>2. Spatial' = Spatial /\ Coupled' = Coupled
  BY <1>1, OptionKept
<1>3. (BackupHeld' <=> BackupHeld) /\ (CheckpointHeld' <=> CheckpointHeld)
  BY <1>1, <1>2 DEF BackupHeld, CheckpointHeld
<1>4. ShownTime' = ShownTime /\ ShownSteps' = ShownSteps /\ ShownBoundary' = ShownBoundary
  BY <1>1, <1>3 DEF ShownTime, ShownSteps, ShownBoundary
<1>5. [s \in Spatial |-> Published(s)]' = [s \in Spatial |-> Published(s)]
  BY <1>1, <1>2, <1>3 DEF Published
<1>6. (mode = "lost")' = (mode = "lost")
  BY <1>1
<1> QED
  BY <1>2, <1>4, <1>5, <1>6, Zenon DEF Contract!vars, ShownTime, ShownSteps, ShownBoundary

(* runtime.hpp, advance: the fields, the clock, the boundary account and   *)
(* the level statistics are published together, when every level has       *)
(* reached the end of the interval, or stay as they were.                  *)
THEOREM IntervalsKeepTheContract == Spec /\ FloorCaught => KeepsIntervalContract
<1>1. Init /\ FloorCaught => Contract!Init
  <2> SUFFICES ASSUME Init, FloorCaught PROVE Contract!Init
    OBVIOUS
  <2>1. /\ mode = "idle" /\ pc = "start" /\ time = 0 /\ bank = 0 /\ steps = Zero /\ boundary = Zero
    BY DEF Init
  <2>2. ~BackupHeld /\ ~CheckpointHeld
    BY <2>1 DEF BackupHeld, CheckpointHeld
  <2>3. \A s \in Spatial : data[s][bank] = Content(time, "state")
    BY <2>1, FirstBanks DEF Banks, Saved, PublishedState
  <2>4. [s \in Spatial |-> Published(s)] = [s \in Spatial |-> [at |-> 0, kind |-> "state"]]
    BY <2>1, <2>2, <2>3 DEF Published, Content
  <2>5. (mode = "lost") = FALSE
    BY <2>1
  <2> QED
    BY <2>1, <2>2, <2>4, <2>5 DEF Contract!Init, Contract!Settled, Zero
<1>2. Frames /\ Banks /\ (Frames /\ Banks)' /\ [Next]_vars => [Contract!Next]_(Contract!vars)
  BY ContractStep, ContractStutter
<1> QED
  BY <1>1, <1>2, BanksAlways, PTL DEF Spec, KeepsIntervalContract, Contract!Spec
=============================================================================
