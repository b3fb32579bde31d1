------------------------ MODULE GravityFramesProofs ------------------------
(***************************************************************************)
(* Proofs about GravityFrames, for every set of time levels, with gaps or  *)
(* without, every choice of stable steps, both integrations, with and      *)
(* without radiation coupling, and every failure.                          *)
(***************************************************************************)
EXTENDS GravityFrames, NatLemmas, FunctionTheorems

(* The state of every frame that has been opened, as a number of ticks.    *)
At(l) == frame[l].from + frame[l].elapsed
Upto(l) == frame[l].begin + frame[l].step

Underway == pc # "idle"
Choosing == pc \in {"cfl", "open"}
Opened == pc \in {"transport", "forecast", "reflux", "shell", "close"}
Closing == pc \in {"reflux", "shell", "close"}
IsOpen(l) == l < lev \/ (l = lev /\ Opened)

(* The time of a level's density, the time to which gravity has acted on   *)
(* it, and the time to which its frames have closed.                       *)
StateTime(l) ==
  IF l < lev THEN frame[l].begin
  ELSE IF pc \in {"shell", "close"} \/ (l > lev /\ pc = "reflux") THEN Upto(lev) ELSE At(lev)
Reached(l) ==
  IF l < lev THEN Upto(l) ELSE IF Closing \/ (l = lev /\ pc = "forecast") THEN Upto(lev) ELSE At(lev)
Closed(l) == IF l < lev THEN frame[l].begin ELSE IF l > lev /\ Closing THEN Upto(lev) ELSE At(lev)

-----------------------------------------------------------------------------
(* The nested clock: an open level's step is the interval of the next      *)
(* finer one.                                                              *)
Frame == [begin : Ticks, step : Ticks, from : Ticks, duration : Ticks, elapsed : Ticks]
Control ==
  /\ option \in Options /\ lev \in TimeLevels /\ time \in Ticks /\ bank \in {0, 1}
  /\ pc \in {"idle", "cfl", "open", "transport", "forecast", "reflux", "shell", "close", "normalize"}
  /\ frame \in [TimeLevels -> Frame]
  /\ \A l \in TimeLevels : frame[l].elapsed <= frame[l].duration /\ frame[l].step <= frame[l].duration
  /\ ~Underway => lev = Coarsest /\ frame = [l \in TimeLevels |-> NoFrame]
Started(l) == frame[l].begin = At(l) /\ Upto(l) <= frame[l].from + frame[l].duration
Inside(h, f) == frame[f].begin <= frame[h].from /\ frame[h].from + frame[h].duration <= Upto(f)
Clock ==
  Underway =>
    /\ \A f \in TimeLevels : f < lev =>
         Started(f) /\ frame[Finer(f)].from = frame[f].begin /\ frame[Finer(f)].duration = frame[f].step
    /\ \A f, h \in TimeLevels : f < h /\ h <= lev => Inside(h, f)
    /\ frame[Coarsest].from = time
    /\ \A f \in TimeLevels : f <= lev => time <= frame[f].from /\ frame[f].from + frame[f].duration <= MaxTime
    /\ pc \notin {"cfl", "normalize"} => Started(lev)
    /\ pc = "normalize" => lev = Coarsest /\ frame[lev].elapsed = frame[lev].duration
Timed == Control /\ Clock

(* What the banks hold: every level its state, an open one its predictor   *)
(* as well, and the backup what was published.                             *)
Contents == [at : Ticks, kind : {"state", "raw", "forecast", "between", "unset"}]
Level == [bank : {0, 1}, begin : Ticks, end : Ticks, pending : BOOLEAN]
Predicted(f) ==
  /\ levels[f].begin = frame[f].begin /\ levels[f].end = Upto(f) /\ levels[f].pending
  /\ density[f][3] = Content(Upto(f), "forecast")
BanksType == levels \in [TimeLevels -> Level] /\ density \in [TimeLevels -> [0..3 -> Contents]]
BanksHold ==
  /\ ~Underway => \A l \in TimeLevels : density[l][bank] = State(time)
  /\ Underway =>
       /\ \A l \in TimeLevels : density[l][2] = State(time) /\ Visible(l) = State(StateTime(l))
       /\ \A f \in TimeLevels : f < lev => Predicted(f)
       /\ \A k \in TimeLevels : k > lev \/ (k = lev /\ pc # "reflux") => ~levels[k].pending
       /\ pc = "forecast" => levels[lev].begin = frame[lev].begin /\ levels[lev].end = Upto(lev)
Banks == BanksType /\ BanksHold

(* The cached nested fields are fields of their time; the shells of the    *)
(* open frames hold their own level alone.                                 *)
Fields == SUBSET (TimeLevels \X Contents)
NestedAt(l, at) == {<<k, State(at)>> : k \in Nested(l)}
WholeFrom(l, field, at) ==
  /\ {s[1] : s \in field} = TimeLevels
  /\ \A s \in field : s[2] \in {State(at), Content(at, "between")} /\ (s[1] >= l => s[2] = State(at))
ShellAt(l, endpoint, at) ==
  /\ shell[l][endpoint] = {<<l, State(at)>>}
  /\ option.conventional => WholeFrom(l, force[l][endpoint], at)
FieldsType ==
  /\ cachedNested \in [TimeLevels -> [at : Ticks \cup {-1}, field : Fields]]
  /\ {nested, shell, force} \subseteq [TimeLevels -> [{0, 1} -> Fields]]
FieldsHold ==
  /\ \A l \in TimeLevels : cachedNested[l].at # -1 => cachedNested[l].field = NestedAt(l, cachedNested[l].at)
  /\ Underway => \A f \in TimeLevels : IsOpen(f) => ShellAt(f, 0, frame[f].begin)
  /\ pc = "close" => ShellAt(lev, 1, Upto(lev)) /\ nested[lev][1] = NestedAt(lev, Upto(lev))
Shells == FieldsType /\ FieldsHold

(* The gravity beside each level's state.                                  *)
Whole(at) == {<<k, State(at)>> : k \in TimeLevels}
OneEach(field) ==
  /\ {s[1] : s \in field} = TimeLevels
  /\ \A s, t \in field : s[1] = t[1] => s = t
Current(l, field, at) == OneEach(field) /\ NestedAt(l, at) \subseteq field
GravityHolds ==
  /\ gravity \in [TimeLevels -> [0..2 -> Fields]]
  /\ ~Underway => \A l \in TimeLevels : gravity[l][bank] = Whole(time)
  /\ Underway => \A l \in TimeLevels : gravity[l][2] = Whole(time)
  /\ pc \in {"cfl", "open", "transport", "forecast"} =>
       \A k \in Nested(lev) : Current(lev, gravity[k][levels[k].bank], At(lev))
  /\ pc = "normalize" => \A k \in TimeLevels : gravity[k][levels[k].bank] = Whole(At(lev))

(* The books.                                                              *)
IsBook(x) == x \in [TimeLevels -> [TimeLevels -> Int]]
Holds(l, m) == IF option.conventional THEN m = l ELSE m <= l
BooksType ==
  /\ IsBook(impulse) /\ IsBook(flux) /\ IsBook(deferred) /\ IsBook(momentum) /\ IsBook(energy)
  /\ applied \in [TimeLevels -> [TimeLevels -> [TimeLevels -> Int]]]
Acted ==
  \A l, m \in TimeLevels :
    /\ energy[l][m] = IF Underway THEN Reached(l) - time ELSE 0
    /\ momentum[l][m] = IF Underway /\ Holds(l, m) THEN Reached(l) - time ELSE 0
FrameBooks(f) ==
  /\ \A k \in TimeLevels :
       /\ impulse[f][k] = IF Holds(k, f) THEN Reached(k) - frame[f].begin ELSE 0
       /\ flux[f][k] = IF k >= f THEN Reached(k) - frame[f].begin ELSE 0
       /\ deferred[f][k] = IF k > f THEN Closed(k) - frame[f].begin ELSE 0
  /\ \A k, m \in TimeLevels :
       applied[f][k][m] = IF (k = f /\ m >= f) \/ (k > f /\ m = f) THEN Reached(k) - frame[f].begin ELSE 0
ClosedBooks(f) ==
  /\ \A k \in TimeLevels : {impulse[f][k], flux[f][k], deferred[f][k]} \subseteq Ticks
  /\ \A k, m \in TimeLevels : applied[f][k][m] \in Ticks
  /\ (f = lev /\ Choosing) \/ \A k \in TimeLevels : impulse[f][k] <= frame[f].step
Books ==
  /\ BooksType /\ Acted
  /\ \A f \in TimeLevels : IF IsOpen(f) THEN FrameBooks(f) ELSE ClosedBooks(f)
-----------------------------------------------------------------------------
(* The levels are natural numbers with a coarsest.                         *)
LEMMA LevelSet ==
  ASSUME option \in Options
  PROVE  /\ TimeLevels \subseteq Nat /\ TimeLevels # {} /\ IsFiniteSet(TimeLevels)
         /\ Coarsest \in TimeLevels /\ \A l \in TimeLevels : l \in Nat /\ Coarsest <= l
         /\ option.conventional \in BOOLEAN /\ option.coupled \in BOOLEAN
<1>1. /\ TimeLevels \subseteq Nat /\ TimeLevels # {} /\ IsFiniteSet(TimeLevels)
      /\ option.conventional \in BOOLEAN /\ option.coupled \in BOOLEAN
  BY FramesAssumption DEF TimeLevels
<1>2. \E x \in TimeLevels : \A y \in TimeLevels : x <= y
  BY <1>1, Least
<1>3. Coarsest \in TimeLevels /\ \A l \in TimeLevels : Coarsest <= l
  BY <1>2 DEF Coarsest, Min
<1> QED
  BY <1>1, <1>3

(* The levels at least as fine.                                            *)
LEMMA NestedLevels ==
  ASSUME option \in Options, NEW l \in TimeLevels
  PROVE  /\ l \in Nested(l) /\ Nested(l) \subseteq TimeLevels
         /\ \A k \in TimeLevels : k \in Nested(l) <=> k >= l
         /\ IsFinest(l) <=> \A k \in TimeLevels : k <= l
<1>1. \A k \in TimeLevels : k \in Nat
  BY LevelSet
<1>2. l \in Nested(l) /\ Nested(l) \subseteq TimeLevels /\ \A k \in TimeLevels : k \in Nested(l) <=> k >= l
  BY <1>1 DEF Nested
<1>3. \A k \in TimeLevels : k \in Nested(l + 1) <=> k >= l + 1
  BY DEF Nested
<1>4. Nested(l + 1) \subseteq TimeLevels
  BY DEF Nested
<1>5. IsFinest(l) <=> \A k \in TimeLevels : ~(k >= l + 1)
  BY <1>3, <1>4 DEF IsFinest
<1>6. \A k \in TimeLevels : ~(k >= l + 1) <=> k <= l
  BY <1>1
<1> QED
  BY <1>2, <1>5, <1>6

(* The next finer level, where there is one.                               *)
LEMMA FinerLevel ==
  ASSUME option \in Options, NEW l \in TimeLevels, NEW m \in TimeLevels, l < m
  PROVE  /\ Finer(l) \in TimeLevels /\ l < Finer(l) /\ Finer(l) <= m
         /\ \A k \in TimeLevels : k < Finer(l) => k <= l
         /\ ~IsFinest(l)
<1> DEFINE T == Nested(l + 1)
<1>1. \A k \in TimeLevels : k \in Nat
  BY LevelSet
<1>2. T \in SUBSET Nat /\ T \subseteq TimeLevels /\ \A k \in TimeLevels : k \in T <=> k > l
  BY <1>1 DEF Nested
<1>3. m \in T
  BY <1>2
<1> HIDE DEF T
<1>4. \E x \in T : \A y \in T : x <= y
  BY <1>2, <1>3, Least
<1>5. Min(T) \in T /\ \A y \in T : Min(T) <= y
  BY <1>4 DEF Min
<1>6. Finer(l) = Min(T)
  BY DEF Finer, T
<1>7. Finer(l) \in TimeLevels /\ Finer(l) > l /\ \A k \in TimeLevels : k > l => Finer(l) <= k
  BY <1>2, <1>5, <1>6
<1>8. \A k \in TimeLevels : k < Finer(l) => k <= l
  BY <1>1, <1>7
<1>9. ~IsFinest(l)
  BY <1>3 DEF IsFinest, T
<1> QED
  BY <1>1, <1>7, <1>8, <1>9

(* The next coarser level, whose next finer level is this one.             *)
LEMMA CoarserLevel ==
  ASSUME option \in Options, NEW l \in TimeLevels, l # Coarsest
  PROVE  /\ Coarser(l) \in TimeLevels /\ Coarser(l) < l
         /\ \A k \in TimeLevels : k < l => k <= Coarser(l)
         /\ Finer(Coarser(l)) = l /\ ~IsFinest(Coarser(l))
<1> DEFINE T == {k \in TimeLevels : k < l}
<1>1. \A k \in TimeLevels : k \in Nat
  BY LevelSet
<1>2. Coarsest \in T
  BY <1>1, LevelSet
<1>3. T \in SUBSET Nat /\ l \in Nat /\ \A y \in T : y <= l
  BY <1>1
<1>4. T \subseteq TimeLevels /\ \A k \in TimeLevels : k \in T <=> k < l
  OBVIOUS
<1>5. Coarser(l) = Max(T)
  BY DEF Coarser
<1> HIDE DEF T
<1>6. \E x \in T : \A y \in T : y <= x
  BY <1>2, <1>3, Greatest
<1>7. \E x \in T : \A y \in T : x >= y
  BY <1>3, <1>6
<1>8. Max(T) \in T /\ \A y \in T : Max(T) >= y
  BY <1>7 DEF Max
<1>9. Coarser(l) \in TimeLevels /\ Coarser(l) < l /\ \A k \in TimeLevels : k < l => k <= Coarser(l)
  BY <1>1, <1>3, <1>4, <1>5, <1>8
<1>10. /\ Finer(Coarser(l)) \in TimeLevels /\ Coarser(l) < Finer(Coarser(l)) /\ Finer(Coarser(l)) <= l
       /\ ~IsFinest(Coarser(l))
  BY <1>9, FinerLevel
<1>11. Finer(Coarser(l)) = l
  BY <1>1, <1>9, <1>10
<1> QED
  BY <1>9, <1>10, <1>11

(* A level that is not the finest has a finer one.                         *)
LEMMA NotFinest ==
  ASSUME option \in Options, NEW l \in TimeLevels, ~IsFinest(l)
  PROVE  /\ Finer(l) \in TimeLevels /\ l < Finer(l)
         /\ \A k \in TimeLevels : k < Finer(l) => k <= l
         /\ \A k \in TimeLevels : l < k => Finer(l) <= k
<1>1. \A k \in TimeLevels : k \in Nat
  BY LevelSet
<1>2. PICK m \in TimeLevels : l < m
  BY <1>1, NestedLevels
<1> QED
  BY <1>2, FinerLevel

(* No step changes the configuration.                                      *)
LEMMA OptionKept ==
  ASSUME [Next]_vars
  PROVE  /\ option' = option /\ TimeLevels' = TimeLevels /\ Coarsest' = Coarsest
         /\ \A l : Nested(l)' = Nested(l) /\ Finer(l)' = Finer(l) /\ IsFinest(l)' = IsFinest(l)
         /\ \A l, m : Holds(l, m)' = Holds(l, m)
<1>1. option' = option
  BY DEF Next, vars, Begin, Timestep, Open, Transport, Forecast, Reflux, CloseShell, CloseFrame, Normalize, Fail
<1>2. TimeLevels' = TimeLevels
  BY <1>1 DEF TimeLevels
<1>3. Coarsest' = Coarsest /\ \A l : Nested(l)' = Nested(l)
  BY <1>2 DEF Coarsest, Nested
<1>4. \A l : Finer(l)' = Finer(l) /\ IsFinest(l)' = IsFinest(l)
  BY <1>3 DEF Finer, IsFinest
<1>5. \A l, m : Holds(l, m)' = Holds(l, m)
  BY <1>1 DEF Holds
<1> QED
  BY <1>1, <1>2, <1>3, <1>4, <1>5
-----------------------------------------------------------------------------
(* Dividing a step by a power of two gives no longer step.                 *)
LEMMA Divided ==
  ASSUME NEW a \in Nat, NEW k \in Nat
  PROVE  a \div 2^k \in Nat /\ a \div 2^k <= a
<1> DEFINE n == 2^k
           q == a \div n
<1>1. n \in Nat \ {0}
  BY Power
<1> HIDE DEF n
<1>2. q \in Nat /\ n * q <= a
  BY <1>1, Quotient
<1> HIDE DEF q
<1>3. q <= n * q
  BY <1>1, <1>2
<1>4. q <= a
  BY <1>1, <1>2, <1>3
<1> QED
  BY <1>2, <1>4 DEF n, q

(* What an interval in progress says of the level that steps.              *)
LEMMA FrameFields ==
  ASSUME Control
  PROVE  \A l \in TimeLevels :
           /\ frame[l].begin \in Nat /\ frame[l].step \in Nat /\ frame[l].from \in Nat
           /\ frame[l].duration \in Nat /\ frame[l].elapsed \in Nat
           /\ frame[l].elapsed <= frame[l].duration /\ frame[l].step <= frame[l].duration
           /\ At(l) \in Nat /\ Upto(l) \in Nat
<1>1. MaxTime \in Nat /\ \A x \in Ticks : x \in Nat
  BY FramesAssumption DEF Ticks
<1> QED
  BY <1>1 DEF Control, Frame, At, Upto

(* Every step keeps the control's types, and no frame steps beyond its     *)
(* duration.                                                               *)
LEMMA ControlNext ==
  ASSUME Timed, [Next]_vars
  PROVE  Control'
<1>0. /\ option' = option /\ TimeLevels' = TimeLevels /\ Coarsest' = Coarsest
      /\ option \in Options
  BY OptionKept, Zenon DEF Timed, Control
<1>1. /\ Coarsest \in TimeLevels /\ MaxTime \in Nat /\ Ticks = 0 .. MaxTime /\ Ticks' = Ticks /\ 0 \in Ticks
      /\ \A l \in TimeLevels : l \in Nat
  BY <1>0, LevelSet, FramesAssumption DEF Ticks
<1>2. \A l \in TimeLevels :
           /\ frame[l] \in Frame /\ frame[l].begin \in Nat /\ frame[l].step \in Nat /\ frame[l].from \in Nat
           /\ frame[l].duration \in Nat /\ frame[l].elapsed \in Nat
           /\ frame[l].elapsed <= frame[l].duration /\ frame[l].step <= frame[l].duration
  BY FrameFields DEF Timed, Control
<1>3. Frame' = Frame
  BY <1>1 DEF Frame
<1>4. NoFrame \in Frame /\ NoFrame.elapsed <= NoFrame.duration /\ NoFrame.step <= NoFrame.duration
  BY <1>1 DEF NoFrame, Frame
<1>5. lev \in TimeLevels /\ time \in Ticks /\ bank \in {0, 1} /\ frame \in [TimeLevels -> Frame]
  BY DEF Timed, Control
<1>6. CASE UNCHANGED vars
  BY <1>6, <1>0, <1>1, <1>3 DEF vars, Timed, Control, Underway, published
<1>7. ASSUME NEW x \in TimeLevels, NEW v \in Frame, v.elapsed <= v.duration, v.step <= v.duration,
             frame' = [frame EXCEPT ![x] = v]
      PROVE  /\ frame' \in [TimeLevels -> Frame]
             /\ \A l \in TimeLevels : frame'[l].elapsed <= frame'[l].duration /\ frame'[l].step <= frame'[l].duration
  BY <1>2, <1>5, <1>7
<1>8. ASSUME NEW dt \in Durations, Begin(dt) PROVE Control'
  <2> DEFINE v == [begin |-> time, step |-> dt, from |-> time, duration |-> dt, elapsed |-> 0]
  <2>1. dt \in Nat /\ time + dt <= MaxTime /\ frame' = [frame EXCEPT ![Coarsest] = v]
    BY <1>8, FramesAssumption DEF Begin
  <2>2. v \in Frame /\ v.elapsed <= v.duration /\ v.step <= v.duration
    BY <2>1, <1>1, <1>5 DEF Frame
  <2>3. pc' = "cfl" /\ lev' = Coarsest /\ time' = time /\ bank' = bank
    BY <1>8 DEF Begin, published
  <2> HIDE DEF v
  <2> QED
    BY <2>1, <2>2, <2>3, <1>0, <1>1, <1>3, <1>5, <1>7 DEF Control, Underway
<1>9. CASE Timestep
  <2>1. PICK step \in Halvings(frame[lev].step) :
          /\ step <= frame[lev].duration - frame[lev].elapsed
          /\ frame' = [frame EXCEPT ![lev].step = step, ![lev].begin = frame[lev].from + frame[lev].elapsed]
    BY <1>9 DEF Timestep
  <2> DEFINE v == [frame[lev] EXCEPT !.step = step, !.begin = frame[lev].from + frame[lev].elapsed]
  <2>2. frame' = [frame EXCEPT ![lev] = v]
    BY <2>1, <1>5
  <2>3. step \in Nat /\ step <= frame[lev].step
    BY <2>1, <1>2, <1>5 DEF Halvings
  <2>4. frame[lev].from + frame[lev].duration <= MaxTime
    BY <1>1, <1>5, <1>9 DEF Timed, Clock, Underway, Timestep
  <2>5. v \in Frame /\ v.elapsed <= v.duration /\ v.step <= v.duration
    <3>1. frame[lev].from + frame[lev].elapsed \in Ticks
      BY <2>4, <1>1, <1>2, <1>5
    <3>2. step \in Ticks /\ step <= frame[lev].duration
      <4>1. frame[lev].step \in Ticks
        BY <1>2, <1>5 DEF Frame
      <4> QED
        BY <4>1, <2>3, <1>1, <1>2, <1>5
    <3>3. /\ v.step = step /\ v.duration = frame[lev].duration /\ v.elapsed = frame[lev].elapsed
          /\ v \in Frame
      BY <3>1, <3>2, <1>2, <1>5 DEF Frame
    <3> QED
      BY <3>2, <3>3, <1>2, <1>5
  <2>6. pc' = "open" /\ lev' = lev /\ time' = time /\ bank' = bank
    BY <1>9 DEF Timestep, published
  <2> HIDE DEF v
  <2> QED
    BY <2>2, <2>5, <2>6, <1>0, <1>1, <1>3, <1>5, <1>7 DEF Control, Underway
<1>10. CASE Open \/ Transport \/ Reflux \/ CloseShell
  <2>1. frame' = frame /\ lev' = lev /\ time' = time /\ bank' = bank /\ pc' \in {"transport", "forecast", "shell", "close"}
    BY <1>10 DEF Open, Transport, Reflux, CloseShell, published
  <2> QED
    BY <2>1, <1>0, <1>1, <1>2, <1>3, <1>5 DEF Control, Underway
<1>11. CASE Forecast
  <2>0. time' = time /\ bank' = bank /\ Forecast
    BY <1>11 DEF Forecast, published
  <2>1. CASE IsFinest(lev)
    <3>1. frame' = frame /\ lev' = lev /\ pc' = "reflux"
      BY <2>0, <2>1 DEF Forecast
    <3> QED
      BY <2>0, <3>1, <1>0, <1>1, <1>2, <1>3, <1>5 DEF Control, Underway
  <2>2. CASE ~IsFinest(lev)
    <3>1. Finer(lev) \in TimeLevels /\ Finer(lev) > lev
      BY <2>2, <1>0, <1>5, NotFinest
    <3> DEFINE n == frame[lev].step \div 2^(Finer(lev) - lev)
               v == [begin |-> Now, step |-> n, from |-> Now, duration |-> frame[lev].step, elapsed |-> 0]
    <3>2. frame' = [frame EXCEPT ![Finer(lev)] = v] /\ lev' = Finer(lev) /\ pc' = "cfl"
      BY <2>0, <2>2 DEF Forecast
    <3>3. n \in Nat /\ n <= frame[lev].step
      <4>1. Finer(lev) - lev \in Nat
        BY <3>1, <1>1, <1>5
      <4> QED
        BY <4>1, <1>2, <1>5, Divided
    <3> HIDE DEF n
    <3>4. v \in Frame /\ v.elapsed <= v.duration /\ v.step <= v.duration
      <4>1. Now = frame[lev].begin /\ frame[lev].begin \in Ticks /\ frame[lev].step \in Ticks
        BY <1>2, <1>5 DEF Now, Frame
      <4>2. n \in Ticks
        BY <3>3, <4>1, <1>1
      <4> QED
        BY <3>3, <4>1, <4>2, <1>1 DEF Frame
    <3> HIDE DEF v
    <3> QED
      BY <2>0, <3>1, <3>2, <3>4, <1>0, <1>1, <1>3, <1>5, <1>7 DEF Control, Underway
  <2> QED
    BY <2>1, <2>2
<1>12. CASE CloseFrame
  <2>1. time' = time /\ bank' = bank /\ frame' = [frame EXCEPT ![lev].elapsed = NextElapsed] /\ pc = "close"
    BY <1>12 DEF CloseFrame, published
  <2> DEFINE v == [frame[lev] EXCEPT !.elapsed = NextElapsed]
  <2>2. frame' = [frame EXCEPT ![lev] = v]
    BY <2>1, <1>5
  <2>3. Started(lev) /\ frame[lev].duration \in Ticks
    BY <2>1, <1>2, <1>5 DEF Timed, Clock, Underway, Frame
  <2>4. NextElapsed \in Nat /\ NextElapsed <= frame[lev].duration
    BY <2>3, <1>2, <1>5 DEF Started, At, Upto, NextElapsed
  <2>5. v \in Frame /\ v.elapsed <= v.duration /\ v.step <= v.duration
    <3>1. NextElapsed \in Ticks
      BY <2>3, <2>4, <1>1
    <3> QED
      BY <3>1, <2>4, <1>2, <1>5 DEF Frame
  <2>6. lev' \in TimeLevels /\ pc' \in {"cfl", "normalize", "reflux"}
    BY <1>12, <1>0, <1>5, CoarserLevel DEF CloseFrame
  <2> HIDE DEF v
  <2> QED
    BY <2>1, <2>2, <2>5, <2>6, <1>0, <1>1, <1>3, <1>5, <1>7 DEF Control, Underway
<1>13. CASE Normalize \/ Fail
  <2>1. time' \in Ticks
    <3>1. CASE Normalize
      <4>1. /\ time' = time + frame[Coarsest].duration
            /\ frame[Coarsest].from = time /\ frame[Coarsest].from + frame[Coarsest].duration <= MaxTime
        BY <3>1, <1>1, <1>5 DEF Normalize, Timed, Clock, Underway
      <4> QED
        BY <4>1, <1>1, <1>2, <1>5
    <3>2. CASE Fail
      BY <3>2, <1>5 DEF Fail, published
    <3> QED
      BY <1>13, <3>1, <3>2
  <2>2. bank' \in {0, 1}
    BY <1>13, <1>5 DEF Normalize, Fail, published
  <2>3. pc' = "idle" /\ lev' = Coarsest /\ frame' = [l \in TimeLevels |-> NoFrame]
    BY <1>13, Zenon DEF Normalize, Fail, Return
  <2>4. NoFrame' = NoFrame
    BY DEF NoFrame
  <2>5. frame' = [l \in TimeLevels' |-> NoFrame']
    BY <2>3, <2>4, <1>0, Zenon
  <2>6. /\ frame' \in [TimeLevels' -> Frame']
        /\ \A l \in TimeLevels' : frame'[l].elapsed <= frame'[l].duration /\ frame'[l].step <= frame'[l].duration
    BY <2>3, <1>0, <1>3, <1>4
  <2> QED
    BY <2>1, <2>2, <2>3, <2>5, <2>6, <1>0, <1>1 DEF Control, Underway
<1> QED
  BY <1>6, <1>8, <1>9, <1>10, <1>11, <1>12, <1>13 DEF Next

(* Every step keeps the nested clock: an open level's step is the interval *)
(* of the next finer one, and no level steps beyond it.                    *)
LEMMA ClockNext ==
  ASSUME Timed, [Next]_vars
  PROVE  Clock'
<1>0. /\ option' = option /\ TimeLevels' = TimeLevels /\ Coarsest' = Coarsest /\ \A l : Finer(l)' = Finer(l)
      /\ option \in Options
  BY OptionKept, Zenon DEF Timed, Control
<1>1. /\ Coarsest \in TimeLevels /\ MaxTime \in Nat /\ time \in Nat /\ lev \in TimeLevels
      /\ \A l \in TimeLevels : l \in Nat /\ Coarsest <= l
  BY <1>0, LevelSet, FramesAssumption DEF Timed, Control, Ticks
<1>2. \A l \in TimeLevels :
           /\ frame[l].begin \in Nat /\ frame[l].step \in Nat /\ frame[l].from \in Nat
           /\ frame[l].duration \in Nat /\ frame[l].elapsed \in Nat
  BY FrameFields DEF Timed
<1>3. frame \in [TimeLevels -> Frame]
  BY DEF Timed, Control
<1>4. \A f \in TimeLevels : f < lev => Finer(f) \in TimeLevels /\ Finer(f) <= lev /\ f < Finer(f)
  BY <1>0, <1>1, FinerLevel
<1>5. CASE UNCHANGED vars
  BY <1>5, <1>0 DEF vars, published, Timed, Clock, Underway, Started, Inside, At, Upto
<1>6. ASSUME NEW dt \in Durations, Begin(dt) PROVE Clock'
  <2>1. dt \in Nat /\ time + dt <= MaxTime /\ pc' = "cfl" /\ lev' = Coarsest /\ time' = time
    BY <1>6, FramesAssumption DEF Begin, published
  <2>2. frame'[Coarsest].from = time /\ frame'[Coarsest].duration = dt
    BY <1>1, <1>3, <1>6 DEF Begin
  <2>3. \A f \in TimeLevels : ~(f < Coarsest) /\ (f <= Coarsest => f = Coarsest)
    BY <1>1
  <2>4. \A f, h \in TimeLevels : ~(f < h /\ h <= Coarsest)
    BY <1>1
  <2> QED
    BY <2>1, <2>2, <2>3, <2>4, <1>0, <1>1 DEF Clock
<1>7. CASE Timestep
  <2>1. PICK step \in Halvings(frame[lev].step) :
          /\ step <= frame[lev].duration - frame[lev].elapsed
          /\ frame' = [frame EXCEPT ![lev].step = step, ![lev].begin = frame[lev].from + frame[lev].elapsed]
    BY <1>7 DEF Timestep
  <2>2. step \in Nat
    BY <2>1, <1>1, <1>2 DEF Halvings
  <2>3. /\ frame'[lev].step = step /\ frame'[lev].begin = frame[lev].from + frame[lev].elapsed
        /\ frame'[lev].from = frame[lev].from /\ frame'[lev].duration = frame[lev].duration
        /\ frame'[lev].elapsed = frame[lev].elapsed
    BY <2>1, <1>1, <1>3 DEF Frame
  <2>4. \A f \in TimeLevels : f # lev => frame'[f] = frame[f]
    BY <2>1, <1>3
  <2>5. pc = "cfl" /\ pc' = "open" /\ lev' = lev /\ time' = time /\ Underway
    BY <1>7 DEF Timestep, published, Underway
  <2>6. Started(lev)'
    BY <2>1, <2>2, <2>3, <2>5, <1>1, <1>2 DEF Started, At, Upto
  <2>7. \A f \in TimeLevels : f < lev =>
          Started(f)' /\ frame'[Finer(f)].from = frame'[f].begin /\ frame'[Finer(f)].duration = frame'[f].step
    BY <2>3, <2>4, <2>5, <1>1, <1>4 DEF Timed, Clock, Started, At, Upto
  <2>8. \A f, h \in TimeLevels : f < h /\ h <= lev => Inside(h, f)'
    BY <2>3, <2>4, <2>5, <1>1 DEF Timed, Clock, Inside, Upto
  <2>9. \A f \in TimeLevels : frame'[f].from = frame[f].from /\ frame'[f].duration = frame[f].duration
    BY <2>3, <2>4
  <2> QED
    BY <2>5, <2>6, <2>7, <2>8, <2>9, <1>0, <1>1 DEF Timed, Clock
<1>8. CASE Open \/ Transport \/ Reflux \/ CloseShell
  <2>1. /\ frame' = frame /\ lev' = lev /\ time' = time /\ pc \notin {"idle", "cfl", "normalize"}
        /\ pc' \in {"transport", "forecast", "shell", "close"}
    BY <1>8 DEF Open, Transport, Reflux, CloseShell, published
  <2> QED
    BY <2>1, <1>0 DEF Timed, Clock, Underway, Started, Inside, At, Upto
<1>9. CASE Forecast
  <2>0. time' = time /\ pc = "forecast" /\ Underway
    BY <1>9 DEF Forecast, published, Underway
  <2>1. CASE IsFinest(lev)
    <3>1. frame' = frame /\ lev' = lev /\ pc' = "reflux"
      BY <1>9, <2>1 DEF Forecast
    <3> QED
      BY <2>0, <3>1, <1>0 DEF Timed, Clock, Underway, Started, Inside, At, Upto
  <2>2. CASE ~IsFinest(lev)
    <3> DEFINE g == Finer(lev)
    <3>1. g \in TimeLevels /\ lev < g /\ \A k \in TimeLevels : k < g => k <= lev
      BY <2>2, <1>0, <1>1, NotFinest
    <3>2. lev' = g /\ pc' = "cfl"
      BY <1>9, <2>2 DEF Forecast
    <3>3. /\ frame'[g].from = frame[lev].begin /\ frame'[g].duration = frame[lev].step
          /\ \A f \in TimeLevels : f # g => frame'[f] = frame[f]
      BY <3>1, <1>3, <1>9, <2>2 DEF Forecast, Now
    <3>4. Started(lev) /\ \A f \in TimeLevels : f < lev => Inside(lev, f)
      BY <2>0, <1>1 DEF Timed, Clock
    <3>5. /\ frame[lev].from <= frame[lev].begin
          /\ frame[lev].begin + frame[lev].step <= frame[lev].from + frame[lev].duration
      BY <3>4, <1>1, <1>2 DEF Started, At, Upto
    <3> HIDE DEF g
    <3>6. \A f \in TimeLevels : f < g =>
            Started(f)' /\ frame'[Finer(f)].from = frame'[f].begin /\ frame'[Finer(f)].duration = frame'[f].step
      <4> SUFFICES ASSUME NEW f \in TimeLevels, f < g
                   PROVE  Started(f)' /\ frame'[Finer(f)].from = frame'[f].begin /\ frame'[Finer(f)].duration = frame'[f].step
        OBVIOUS
      <4>1. frame'[f] = frame[f] /\ f <= lev
        BY <3>1, <3>3, <1>1
      <4>2. CASE f = lev
        BY <3>3, <3>4, <4>1, <4>2 DEF Started, At, Upto, g
      <4>3. CASE f # lev
        <5>1. f < lev
          BY <4>1, <4>3, <1>1
        <5>2. Finer(f) # g /\ Finer(f) \in TimeLevels
          BY <5>1, <3>1, <1>1, <1>4
        <5>3. frame'[Finer(f)] = frame[Finer(f)]
          BY <5>2, <3>3
        <5> QED
          BY <5>1, <5>3, <4>1, <2>0 DEF Timed, Clock, Started, At, Upto
      <4> QED
        BY <4>2, <4>3
    <3>7. ASSUME NEW f \in TimeLevels, NEW h \in TimeLevels, f < h, h <= g PROVE Inside(h, f)'
      <4>1. frame'[f] = frame[f] /\ f <= lev
        BY <3>1, <3>3, <3>7, <1>1
      <4>2. CASE h = g /\ f = lev
        BY <3>3, <4>1, <4>2, <1>1, <1>2 DEF Inside, Upto
      <4>3. CASE h = g /\ f # lev
        <5>1. Inside(lev, f)
          BY <3>4, <4>1, <4>3, <1>1
        <5> QED
          BY <3>3, <3>5, <4>1, <4>3, <5>1, <1>1, <1>2 DEF Inside, Upto
      <4>4. CASE h # g
        <5>1. frame'[h] = frame[h] /\ h <= lev
          BY <3>1, <3>3, <3>7, <4>4, <1>1
        <5> QED
          BY <4>1, <5>1, <3>7, <2>0 DEF Timed, Clock, Inside, Upto
      <4> QED
        BY <4>2, <4>3, <4>4
    <3>8. ASSUME NEW f \in TimeLevels, f <= g
          PROVE  time <= frame'[f].from /\ frame'[f].from + frame'[f].duration <= MaxTime
      <4>1. time <= frame[lev].from /\ frame[lev].from + frame[lev].duration <= MaxTime
        BY <2>0, <1>1 DEF Timed, Clock
      <4>2. CASE f = g
        BY <3>3, <3>5, <4>1, <4>2, <1>1, <1>2
      <4>3. CASE f # g
        <5>1. f <= lev /\ frame'[f] = frame[f]
          BY <3>1, <3>3, <3>8, <4>3, <1>1
        <5> QED
          BY <5>1, <2>0 DEF Timed, Clock
      <4> QED
        BY <4>2, <4>3
    <3>9. frame'[Coarsest].from = time
      BY <3>1, <3>3, <1>1, <2>0 DEF Timed, Clock
    <3> QED
      BY <2>0, <3>2, <3>6, <3>7, <3>8, <3>9, <1>0 DEF Clock
  <2> QED
    BY <2>1, <2>2
<1>10. CASE CloseFrame
  <2>1. time' = time /\ frame' = [frame EXCEPT ![lev].elapsed = NextElapsed] /\ pc = "close" /\ Underway
    BY <1>10 DEF CloseFrame, published, Underway
  <2>2. /\ frame'[lev].step = frame[lev].step /\ frame'[lev].begin = frame[lev].begin
        /\ frame'[lev].from = frame[lev].from /\ frame'[lev].duration = frame[lev].duration
        /\ frame'[lev].elapsed = NextElapsed
        /\ \A f \in TimeLevels : f # lev => frame'[f] = frame[f]
    BY <2>1, <1>1, <1>3 DEF Frame
  <2>3. \A f \in TimeLevels : f < lev =>
          Started(f)' /\ frame'[Finer(f)].from = frame'[f].begin /\ frame'[Finer(f)].duration = frame'[f].step
    BY <2>1, <2>2, <1>1, <1>4 DEF Timed, Clock, Started, At, Upto
  <2>4. \A f, h \in TimeLevels : f < h /\ h <= lev => Inside(h, f)'
    BY <2>1, <2>2, <1>1 DEF Timed, Clock, Inside, Upto
  <2>5. \A f \in TimeLevels : frame'[f].from = frame[f].from /\ frame'[f].duration = frame[f].duration
    BY <2>2
  <2>6. NextElapsed \in Nat /\ NextElapsed <= frame[lev].duration
    <3>1. Started(lev)
      BY <2>1 DEF Timed, Clock
    <3> QED
      BY <3>1, <1>1, <1>2 DEF Started, At, Upto, NextElapsed
  <2>7. CASE NextElapsed < frame[lev].duration
    <3>1. pc' = "cfl" /\ lev' = lev
      BY <1>10, <2>7 DEF CloseFrame
    <3> QED
      BY <2>1, <2>3, <2>4, <2>5, <3>1, <1>0, <1>1 DEF Timed, Clock
  <2>8. CASE ~(NextElapsed < frame[lev].duration) /\ lev = Coarsest
    <3>1. pc' = "normalize" /\ lev' = lev
      BY <1>10, <2>8 DEF CloseFrame
    <3>2. frame'[lev].elapsed = frame'[lev].duration
      BY <2>2, <2>6, <2>8, <1>1, <1>2
    <3> QED
      BY <2>1, <2>3, <2>4, <2>5, <2>8, <3>1, <3>2, <1>0, <1>1 DEF Timed, Clock
  <2>9. CASE ~(NextElapsed < frame[lev].duration) /\ lev # Coarsest
    <3> DEFINE c == Coarser(lev)
    <3>1. pc' = "reflux" /\ lev' = c
      BY <1>10, <2>9 DEF CloseFrame
    <3>2. c \in TimeLevels /\ c < lev
      BY <2>9, <1>0, <1>1, CoarserLevel
    <3> HIDE DEF c
    <3>3. \A f \in TimeLevels : f <= c => f < lev
      BY <3>2, <1>1
    <3>4. \A f \in TimeLevels : f < c => f < lev
      BY <3>2, <1>1
    <3> QED
      BY <2>1, <2>3, <2>4, <2>5, <3>1, <3>2, <3>3, <3>4, <1>0, <1>1 DEF Timed, Clock
  <2> QED
    BY <2>7, <2>8, <2>9
<1>11. CASE Normalize \/ Fail
  BY <1>11 DEF Normalize, Fail, Return, Clock, Underway
<1> QED
  BY <1>5, <1>6, <1>7, <1>8, <1>9, <1>10, <1>11 DEF Next

(* The recursion of advanceGravityLevel keeps its clock: the loop of every *)
(* level runs inside the step of the next coarser one, whatever stable     *)
(* step each level chooses, and the interval inside the time the caller    *)
(* asked for.                                                              *)
THEOREM TimedAlways == Spec => []Timed
<1>1. Init => Timed
  <2> SUFFICES ASSUME Init PROVE Timed
    OBVIOUS
  <2>1. /\ option \in Options /\ pc = "idle" /\ lev = Coarsest /\ time = 0 /\ bank = 0
        /\ frame = [l \in TimeLevels |-> NoFrame]
    BY Zenon DEF Init
  <2>2. 0 \in Ticks /\ Coarsest \in TimeLevels
    BY <2>1, LevelSet, FramesAssumption DEF Ticks
  <2>3. NoFrame \in Frame /\ NoFrame.elapsed <= NoFrame.duration /\ NoFrame.step <= NoFrame.duration
    BY <2>2 DEF NoFrame, Frame
  <2>4. /\ frame \in [TimeLevels -> Frame]
        /\ \A l \in TimeLevels : frame[l].elapsed <= frame[l].duration /\ frame[l].step <= frame[l].duration
    BY <2>1, <2>3
  <2> QED
    BY <2>1, <2>2, <2>4, Zenon DEF Timed, Control, Clock, Underway
<1>2. Timed /\ [Next]_vars => Timed'
  BY ControlNext, ClockNext DEF Timed
<1> QED
  BY <1>1, <1>2, PTL DEF Spec

-----------------------------------------------------------------------------
(* The times of an interval in progress.                                   *)
LEMMA Bounds ==
  ASSUME Timed, Underway
  PROVE  /\ At(lev) \in Ticks /\ time <= At(lev)
         /\ \A f \in TimeLevels : f < lev => Started(f) /\ frame[f].begin \in Ticks /\ Upto(f) \in Ticks
         /\ \A f \in TimeLevels : f < lev => time <= frame[f].begin /\ time <= Upto(f)
         /\ pc \notin {"cfl", "normalize"} =>
              /\ Now = At(lev) /\ End = Upto(lev) /\ Upto(lev) \in Ticks /\ At(lev) <= Upto(lev)
              /\ frame[lev].begin = At(lev) /\ At(lev) + frame[lev].step = Upto(lev)
         /\ \A f \in TimeLevels : f < lev =>
              /\ frame[f].begin <= At(lev) /\ At(lev) <= Upto(f)
              /\ pc \notin {"cfl", "normalize"} => Upto(lev) <= Upto(f)
<1>1. /\ lev \in TimeLevels /\ MaxTime \in Nat /\ Ticks = 0 .. MaxTime /\ time \in Nat
      /\ \A l \in TimeLevels : l \in Nat
  BY LevelSet, FramesAssumption DEF Timed, Control, Ticks
<1>2. \A l \in TimeLevels :
           /\ frame[l].begin \in Nat /\ frame[l].step \in Nat /\ frame[l].from \in Nat
           /\ frame[l].duration \in Nat /\ frame[l].elapsed \in Nat /\ frame[l].elapsed <= frame[l].duration
  BY FrameFields DEF Timed
<1>3. \A f \in TimeLevels : f <= lev => time <= frame[f].from /\ frame[f].from + frame[f].duration <= MaxTime
  BY DEF Timed, Clock
<1>4. \A f \in TimeLevels : f < lev => Started(f) /\ Inside(lev, f)
  BY <1>1 DEF Timed, Clock
<1>5. pc \notin {"cfl", "normalize"} => Started(lev)
  BY DEF Timed, Clock
<1>6. At(lev) \in Ticks /\ time <= At(lev)
  <2>1. time <= frame[lev].from /\ frame[lev].from + frame[lev].duration <= MaxTime
    BY <1>1, <1>3
  <2>2. /\ frame[lev].from \in Nat /\ frame[lev].duration \in Nat
        /\ frame[lev].elapsed \in Nat /\ frame[lev].elapsed <= frame[lev].duration
    BY <1>1, <1>2
  <2>3. MaxTime \in Nat /\ time \in Nat
    BY <1>1
  <2>4. frame[lev].from + frame[lev].elapsed \in Nat
    BY <2>2
  <2>5. frame[lev].from + frame[lev].elapsed <= MaxTime /\ time <= frame[lev].from + frame[lev].elapsed
    BY <2>1, <2>2, <2>3
  <2>6. At(lev) \in Nat /\ At(lev) <= MaxTime /\ time <= At(lev)
    BY <2>4, <2>5 DEF At
  <2> QED
    BY <2>6, <1>1
<1>7. ASSUME NEW f \in TimeLevels, f <= lev, Started(f)
      PROVE  /\ frame[f].begin \in Ticks /\ Upto(f) \in Ticks /\ time <= frame[f].begin /\ time <= Upto(f)
             /\ At(f) <= Upto(f) /\ At(f) + frame[f].step = Upto(f)
  <2>1. time <= frame[f].from /\ frame[f].from + frame[f].duration <= MaxTime
    BY <1>7, <1>3
  <2>2. /\ frame[f].begin \in Nat /\ frame[f].step \in Nat /\ frame[f].from \in Nat
        /\ frame[f].duration \in Nat /\ frame[f].elapsed \in Nat
    BY <1>2
  <2>3. frame[f].begin = frame[f].from + frame[f].elapsed
    BY <1>7 DEF Started, At
  <2>4. frame[f].begin + frame[f].step <= frame[f].from + frame[f].duration
    BY <1>7 DEF Started, Upto
  <2>5. MaxTime \in Nat /\ time \in Nat
    BY <1>1
  <2>6. /\ frame[f].begin \in Nat /\ frame[f].begin <= MaxTime /\ time <= frame[f].begin
        /\ frame[f].begin + frame[f].step \in Nat /\ frame[f].begin + frame[f].step <= MaxTime
        /\ time <= frame[f].begin + frame[f].step /\ frame[f].begin <= frame[f].begin + frame[f].step
    BY <2>1, <2>2, <2>3, <2>4, <2>5
  <2>7. Upto(f) = frame[f].begin + frame[f].step /\ At(f) = frame[f].begin
    BY <2>3 DEF At, Upto
  <2> QED
    BY <2>6, <2>7, <1>1
<1>8. \A f \in TimeLevels : f < lev =>
        /\ Started(f) /\ frame[f].begin \in Ticks /\ Upto(f) \in Ticks
        /\ time <= frame[f].begin /\ time <= Upto(f)
  BY <1>1, <1>4, <1>7
<1>9. ASSUME pc \notin {"cfl", "normalize"}
      PROVE  /\ Now = At(lev) /\ End = Upto(lev) /\ Upto(lev) \in Ticks /\ At(lev) <= Upto(lev)
             /\ frame[lev].begin = At(lev) /\ At(lev) + frame[lev].step = Upto(lev)
  BY <1>1, <1>5, <1>7, <1>9 DEF Started, Now, End, Upto
<1>10. ASSUME NEW f \in TimeLevels, f < lev
       PROVE  /\ frame[f].begin <= At(lev) /\ At(lev) <= Upto(f)
              /\ pc \notin {"cfl", "normalize"} => Upto(lev) <= Upto(f)
  <2>1. Inside(lev, f)
    BY <1>4, <1>10
  <2>2. pc \notin {"cfl", "normalize"} => Upto(lev) <= frame[lev].from + frame[lev].duration
    BY <1>5 DEF Started
  <2>3. frame[f].begin <= frame[lev].from /\ frame[lev].from + frame[lev].duration <= Upto(f) /\ Upto(f) \in Nat
    BY <2>1, <1>2 DEF Inside, Upto
  <2>4. frame[f].begin <= At(lev) /\ At(lev) <= Upto(f)
    <3>1. /\ frame[lev].from \in Nat /\ frame[lev].duration \in Nat /\ frame[f].begin \in Nat
          /\ frame[lev].elapsed \in Nat /\ frame[lev].elapsed <= frame[lev].duration
      BY <1>1, <1>2
    <3> QED
      BY <2>3, <3>1 DEF At
  <2>5. Upto(lev) \in Nat
    BY <1>1, <1>2 DEF Upto
  <2> QED
    BY <2>2, <2>3, <2>4, <2>5, <1>1, <1>2
<1> QED
  BY <1>6, <1>8, <1>9, <1>10

(* A step moves one time at most: reflux the state's, transport the time   *)
(* gravity has acted to, and closing a frame the frames'.                  *)
LEMMA TimesMove ==
  ASSUME Timed, Next, Underway, Underway'
  PROVE  \A l \in TimeLevels :
           /\ StateTime(l)' = IF l = lev /\ pc = "reflux" THEN Upto(lev) ELSE StateTime(l)
           /\ Reached(l)' = IF l = lev /\ pc = "transport" THEN Upto(lev) ELSE Reached(l)
           /\ Closed(l)' = IF l = lev /\ pc = "close" THEN Upto(lev) ELSE Closed(l)
<1>0. /\ TimeLevels' = TimeLevels /\ Coarsest' = Coarsest /\ option \in Options
      /\ lev \in TimeLevels /\ frame \in [TimeLevels -> Frame]
      /\ \A l \in TimeLevels : l \in Nat /\ Coarsest <= l
  BY OptionKept, LevelSet, Zenon DEF Timed, Control
<1>1. \A l \in TimeLevels :
        /\ frame[l].begin \in Nat /\ frame[l].step \in Nat /\ frame[l].from \in Nat
        /\ frame[l].duration \in Nat /\ frame[l].elapsed \in Nat
  BY FrameFields DEF Timed
<1>2. /\ pc \notin {"cfl", "normalize"} => frame[lev].begin = At(lev) /\ Started(lev)
      /\ \A f \in TimeLevels : f < lev => frame[f].begin = At(f)
  BY DEF Timed, Clock, Started
<1>3. CASE Timestep
  <2>1. /\ pc = "cfl" /\ pc' = "open" /\ lev' = lev
        /\ frame'[lev].from = frame[lev].from /\ frame'[lev].elapsed = frame[lev].elapsed
        /\ \A f \in TimeLevels : f # lev => frame'[f] = frame[f]
    BY <1>0, <1>3 DEF Timestep, Frame
  <2>2. At(lev)' = At(lev)
    BY <2>1, <1>0 DEF At
  <2> QED
    BY <2>1, <2>2, <1>0 DEF StateTime, Reached, Closed, Closing, Upto
<1>4. CASE Open \/ Transport \/ Reflux \/ CloseShell
  <2>1. /\ frame' = frame /\ lev' = lev
        /\ <<pc, pc'>> \in {<<"open", "transport">>, <<"transport", "forecast">>, <<"reflux", "shell">>, <<"shell", "close">>}
    BY <1>4 DEF Open, Transport, Reflux, CloseShell
  <2> QED
    BY <2>1, <1>0 DEF StateTime, Reached, Closed, Closing, Upto, At
<1>5. CASE Forecast
  <2>1. CASE IsFinest(lev)
    <3>1. frame' = frame /\ lev' = lev /\ pc = "forecast" /\ pc' = "reflux"
      BY <1>5, <2>1 DEF Forecast
    <3>2. \A l \in TimeLevels : ~(l > lev)
      BY <2>1, <1>0, NestedLevels
    <3> QED
      BY <3>1, <3>2, <1>0 DEF StateTime, Reached, Closed, Closing, Upto, At
  <2>2. CASE ~IsFinest(lev)
    <3>0. PICK g \in TimeLevels : g = Finer(lev)
      BY <2>2, <1>0, NotFinest
    <3>1. lev < g /\ \A k \in TimeLevels : k < g => k <= lev
      BY <2>2, <3>0, <1>0, NotFinest
    <3>2. lev' = g /\ pc' = "cfl" /\ pc = "forecast"
      BY <3>0, <1>5, <2>2 DEF Forecast
    <3>3. /\ frame'[g].from = frame[lev].begin /\ frame'[g].elapsed = 0
          /\ \A f \in TimeLevels : f # g => frame'[f] = frame[f]
      BY <3>0, <3>1, <1>0, <1>5, <2>2 DEF Forecast, Now
    <3>4. At(g)' = At(lev) /\ frame[lev].begin = At(lev)
      <4>1. frame[lev].begin = At(lev) /\ frame[lev].begin \in Nat
        BY <3>2, <1>0, <1>1, <1>2
      <4> QED
        BY <3>3, <4>1 DEF At
    <3> SUFFICES ASSUME NEW l \in TimeLevels
                 PROVE  /\ StateTime(l)' = StateTime(l) /\ Reached(l)' = Reached(l) /\ Closed(l)' = Closed(l)
      BY <3>2
    <3>5. CASE l < g
      <4>1. frame'[l] = frame[l] /\ (l < lev \/ l = lev)
        BY <3>1, <3>3, <3>5, <1>0
      <4> QED
        BY <4>1, <3>2, <3>4, <3>5, <1>0 DEF StateTime, Reached, Closed, Closing, Upto
    <3>6. CASE ~(l < g)
      <4>1. ~(l < lev) /\ l # lev /\ l > lev
        BY <3>1, <3>6, <1>0
      <4> QED
        BY <4>1, <3>2, <3>4, <3>6, <1>0 DEF StateTime, Reached, Closed, Closing
    <3> QED
      BY <3>5, <3>6
  <2> QED
    BY <2>1, <2>2
<1>6. CASE CloseFrame
  <2>1. frame' = [frame EXCEPT ![lev].elapsed = NextElapsed] /\ pc = "close"
    BY <1>6 DEF CloseFrame
  <2>2. /\ frame'[lev].from = frame[lev].from /\ frame'[lev].elapsed = frame[lev].elapsed + frame[lev].step
        /\ \A f \in TimeLevels : f # lev => frame'[f] = frame[f]
    BY <2>1, <1>0 DEF Frame, NextElapsed
  <2>3. frame[lev].begin = frame[lev].from + frame[lev].elapsed
    BY <2>1, <1>2 DEF At
  <2>4. /\ frame'[lev].from + frame'[lev].elapsed = Upto(lev)
    BY <2>2, <2>3, <1>0, <1>1 DEF Upto
  <2>5. /\ frame'[lev].begin = frame[lev].begin /\ frame'[lev].step = frame[lev].step
    BY <2>1, <1>0 DEF Frame
  <2>6. CASE NextElapsed < frame[lev].duration \/ lev = Coarsest
    <3>1. lev' = lev /\ pc' \in {"cfl", "normalize"}
      BY <1>6, <2>6 DEF CloseFrame
    <3>2. At(lev)' = Upto(lev)
      BY <2>4, <3>1 DEF At
    <3> QED
      BY <2>1, <2>2, <3>1, <3>2, <1>0 DEF StateTime, Reached, Closed, Closing, Upto
  <2>7. CASE ~(NextElapsed < frame[lev].duration) /\ lev # Coarsest
    <3>0. PICK c \in TimeLevels : c = Coarser(lev)
      BY <2>7, <1>0, CoarserLevel
    <3>1. pc' = "reflux" /\ lev' = c
      BY <3>0, <1>6, <2>7 DEF CloseFrame
    <3>2. c < lev /\ Finer(c) = lev /\ \A k \in TimeLevels : k < lev => k <= c
      BY <3>0, <2>7, <1>0, CoarserLevel
    <3>3. /\ frame[lev].from = frame[c].begin /\ frame[lev].duration = frame[c].step
          /\ frame[c].begin = At(c)
      BY <3>2 DEF Timed, Clock, Started
    <3>4. frame[lev].elapsed + frame[lev].step = frame[lev].duration
      <4>1. Started(lev)
        BY <2>1, <1>2
      <4> QED
        BY <4>1, <2>3, <2>7, <1>0, <1>1 DEF Started, At, Upto, NextElapsed
    <3>5. Upto(c) = Upto(lev)
      BY <3>2, <3>3, <3>4, <2>3, <1>0, <1>1 DEF Upto
    <3>6. Upto(c)' = Upto(lev) /\ At(c)' = frame[c].begin
      <4>1. c # lev /\ frame'[c] = frame[c]
        BY <2>2, <3>2, <1>0
      <4> QED
        BY <3>3, <3>5, <4>1 DEF Upto, At
    <3> SUFFICES ASSUME NEW l \in TimeLevels
                 PROVE  /\ StateTime(l)' = StateTime(l) /\ Reached(l)' = Reached(l)
                        /\ Closed(l)' = IF l = lev THEN Upto(lev) ELSE Closed(l)
      BY <2>1
    <3>7. CASE l < c
      <4>1. frame'[l] = frame[l] /\ l < lev /\ l # lev
        BY <2>2, <3>2, <3>7, <1>0
      <4> QED
        BY <4>1, <3>1, <3>7 DEF StateTime, Reached, Closed, Upto
    <3>8. CASE l = c
      <4>1. l < lev /\ l # lev /\ ~(l < c) /\ ~(l > c)
        BY <3>2, <3>8, <1>0
      <4> QED
        BY <4>1, <3>1, <3>5, <3>6, <3>8 DEF StateTime, Reached, Closed, Closing
    <3>9. CASE l > c
      <4>1. ~(l < c) /\ ~(l < lev) /\ (l = lev \/ l > lev)
        BY <3>2, <3>9, <1>0
      <4> QED
        BY <4>1, <2>1, <3>1, <3>6, <3>9 DEF StateTime, Reached, Closed, Closing
    <3> QED
      BY <3>2, <3>7, <3>8, <3>9, <1>0
  <2> QED
    BY <2>6, <2>7
<1>7. ~((\E dt \in Durations : Begin(dt)) \/ Normalize \/ Fail)
  BY DEF Begin, Normalize, Fail, Return, Underway
<1> QED
  BY <1>3, <1>4, <1>5, <1>6, <1>7 DEF Next

(* What a bank may hold does not change with a step.                       *)
LEMMA ContentTypes ==
  ASSUME Timed
  PROVE  /\ MaxTime \in Nat /\ Contents' = Contents /\ Level' = Level /\ 0 \in Ticks /\ Unset \in Contents
         /\ Ticks' = Ticks /\ time \in Ticks
         /\ \A t \in Ticks : State(t) \in Contents
         /\ \A t \in Ticks, k \in {"state", "raw", "forecast", "between", "unset"} : Content(t, k) \in Contents
<1>1. MaxTime \in Nat /\ 0 \in Ticks /\ time \in Ticks /\ Ticks' = Ticks
  BY FramesAssumption DEF Timed, Control, Ticks
<1>2. Contents' = Contents /\ Level' = Level
  BY <1>1 DEF Contents, Level
<1> QED
  BY <1>1, <1>2 DEF Contents, State, Content, Unset

(* An update of one bank of one level.                                     *)
LEMMA BankWritten ==
  ASSUME NEW L, NEW V, NEW old \in [L -> [0 .. 3 -> V]], NEW l \in L, NEW b \in 0 .. 3, NEW v \in V,
         NEW new, new = [old EXCEPT ![l][b] = v]
  PROVE  /\ new \in [L -> [0 .. 3 -> V]] /\ new[l][b] = v
         /\ \A k \in L : k # l => new[k] = old[k]
         /\ \A c \in 0 .. 3 : c # b => new[l][c] = old[l][c]
  OBVIOUS

(* An update of one level.                                                 *)
LEMMA LevelWritten ==
  ASSUME NEW L, NEW old \in [L -> Level], NEW l \in L, NEW v \in Level, NEW new, new = [old EXCEPT ![l] = v]
  PROVE  /\ new \in [L -> Level] /\ new[l] = v /\ \A k \in L : k # l => new[k] = old[k]
  OBVIOUS

(* The types of the banks are kept by every step.                          *)
LEMMA BanksTypeNext ==
  ASSUME Timed, Banks, [Next]_vars
  PROVE  BanksType'
<1>0. /\ TimeLevels' = TimeLevels /\ Coarsest' = Coarsest /\ option \in Options /\ lev \in TimeLevels
      /\ bank \in {0, 1} /\ \A l \in TimeLevels : l \in Nat
  BY OptionKept, LevelSet, Zenon DEF Timed, Control
<1>1. /\ MaxTime \in Nat /\ Contents' = Contents /\ Level' = Level /\ 0 \in Ticks /\ Unset \in Contents
      /\ Ticks' = Ticks /\ time \in Ticks
      /\ \A t \in Ticks : State(t) \in Contents
      /\ \A t \in Ticks, k \in {"state", "raw", "forecast", "between", "unset"} : Content(t, k) \in Contents
  BY ContentTypes
<1>2. levels \in [TimeLevels -> Level] /\ density \in [TimeLevels -> [0..3 -> Contents]]
  BY DEF Banks, BanksType
<1>3. \A l \in TimeLevels :
        /\ levels[l].bank \in {0, 1} /\ levels[l].begin \in Ticks /\ levels[l].end \in Ticks /\ levels[l].pending \in BOOLEAN
        /\ levels[l].bank \in 0 .. 3 /\ 1 - levels[l].bank \in 0 .. 3 /\ 1 - levels[l].bank \in {0, 1}
  BY <1>2 DEF Level
<1> SUFFICES /\ levels' \in [TimeLevels -> Level] /\ density' \in [TimeLevels -> [0..3 -> Contents]]
  BY <1>0, <1>1 DEF BanksType
<1>4. \A l \in TimeLevels, b \in 0 .. 3 : density[l][b] \in Contents
  BY <1>2
<1>5. Underway /\ pc \notin {"cfl", "normalize"} => Now \in Ticks /\ End \in Ticks
  BY Bounds
<1>6. CASE UNCHANGED vars
  BY <1>6, <1>2 DEF vars
<1>7. ASSUME NEW dt \in Durations, Begin(dt) PROVE levels' \in [TimeLevels -> Level] /\ density' \in [TimeLevels -> [0..3 -> Contents]]
  <2>1. density' = [l \in TimeLevels |-> [density[l] EXCEPT ![2] = density[l][bank]]]
    BY <1>7 DEF Begin
  <2>2. levels' = [l \in TimeLevels |-> [bank |-> bank, begin |-> 0, end |-> 0, pending |-> FALSE]]
    BY <1>7 DEF Begin
  <2>3. [bank |-> bank, begin |-> 0, end |-> 0, pending |-> FALSE] \in Level
    BY <1>0, <1>1 DEF Level
  <2>4. \A l \in TimeLevels : [density[l] EXCEPT ![2] = density[l][bank]] \in [0..3 -> Contents]
    BY <1>0, <1>2
  <2> QED
    BY <2>1, <2>2, <2>3, <2>4
<1>8. CASE Timestep \/ Open \/ CloseShell
  BY <1>8, <1>2 DEF Timestep, Open, CloseShell
<1>9. CASE Transport
  <2>1. density' = [density EXCEPT ![lev][1 - levels[lev].bank] = Content(End, "raw")]
    BY <1>9 DEF Transport
  <2>2. levels' = [levels EXCEPT ![lev].begin = Now, ![lev].end = End]
    BY <1>9 DEF Transport
  <2>3. Now \in Ticks /\ End \in Ticks
    BY <1>5, <1>9 DEF Transport, Underway
  <2>4. [levels[lev] EXCEPT !.begin = Now, !.end = End] \in Level
    BY <2>3, <1>0, <1>2 DEF Level
  <2>5. levels' = [levels EXCEPT ![lev] = [levels[lev] EXCEPT !.begin = Now, !.end = End]]
    BY <2>2, <1>0, <1>2
  <2>6. Content(End, "raw") \in Contents
    BY <2>3, <1>1
  <2>7. levels' \in [TimeLevels -> Level]
    BY <2>4, <2>5, <1>0, <1>2, LevelWritten
  <2>8. density' \in [TimeLevels -> [0..3 -> Contents]]
    BY <2>1, <2>6, <1>0, <1>2, <1>3, BankWritten
  <2> QED
    BY <2>7, <2>8
<1>10. CASE Forecast
  <2>1. density' = [density EXCEPT ![lev][3] = Content(End, "forecast")]
    BY <1>10 DEF Forecast
  <2>2. levels' = [levels EXCEPT ![lev].pending = TRUE]
    BY <1>10 DEF Forecast
  <2>3. End \in Ticks
    BY <1>5, <1>10 DEF Forecast, Underway
  <2>4. [levels[lev] EXCEPT !.pending = TRUE] \in Level
    BY <1>0, <1>2 DEF Level
  <2>5. Content(End, "forecast") \in Contents
    BY <2>3, <1>1
  <2>6. levels' \in [TimeLevels -> Level]
    BY <2>2, <2>4, <1>0, <1>2, LevelWritten
  <2>7. density' \in [TimeLevels -> [0..3 -> Contents]]
    BY <2>1, <2>5, <1>0, <1>2, BankWritten
  <2> QED
    BY <2>6, <2>7
<1>11. CASE Reflux
  <2>1. density' = [density EXCEPT ![lev][1 - levels[lev].bank] = State(End)]
    BY <1>11 DEF Reflux
  <2>2. levels' = [levels EXCEPT ![lev].pending = FALSE, ![lev].bank = 1 - @]
    BY <1>11 DEF Reflux
  <2>3. End \in Ticks
    BY <1>5, <1>11 DEF Reflux, Underway
  <2>4. [levels[lev] EXCEPT !.pending = FALSE, !.bank = 1 - levels[lev].bank] \in Level
    BY <1>0, <1>2, <1>3 DEF Level
  <2>5. levels' = [levels EXCEPT ![lev] = [levels[lev] EXCEPT !.pending = FALSE, !.bank = 1 - levels[lev].bank]]
    BY <2>2, <1>0, <1>2
  <2>6. State(End) \in Contents
    BY <2>3, <1>1
  <2>7. levels' \in [TimeLevels -> Level]
    BY <2>4, <2>5, <1>0, <1>2, LevelWritten
  <2>8. density' \in [TimeLevels -> [0..3 -> Contents]]
    BY <2>1, <2>6, <1>0, <1>2, <1>3, BankWritten
  <2> QED
    BY <2>7, <2>8
<1>12. CASE CloseFrame
  <2>1. density' = [density EXCEPT ![lev][Settled] = Visible(lev)]
    BY <1>12 DEF CloseFrame
  <2>2. levels' = [levels EXCEPT ![lev].bank = Settled]
    BY <1>12 DEF CloseFrame
  <2>3. Settled \in {0, 1} /\ Settled \in 0 .. 3 /\ Visible(lev) \in Contents
    BY <1>0, <1>3, <1>4 DEF Settled, Visible
  <2>4. [levels[lev] EXCEPT !.bank = Settled] \in Level
    BY <2>3, <1>0, <1>2 DEF Level
  <2>5. levels' \in [TimeLevels -> Level]
    BY <2>2, <2>4, <1>0, <1>2, LevelWritten
  <2>6. density' \in [TimeLevels -> [0..3 -> Contents]]
    BY <2>1, <2>3, <1>0, <1>2, BankWritten
  <2> QED
    BY <2>5, <2>6
<1>13. CASE Normalize \/ Fail
  <2>1. levels' = [l \in TimeLevels |-> [bank |-> 0, begin |-> 0, end |-> 0, pending |-> FALSE]]
    BY <1>13 DEF Normalize, Fail, Return
  <2>2. [bank |-> 0, begin |-> 0, end |-> 0, pending |-> FALSE] \in Level
    BY <1>1 DEF Level
  <2>3. \A k \in TimeLevels : Visible(k) \in Contents
    BY <1>3, <1>4 DEF Visible
  <2>4. /\ \A k \in TimeLevels : [density[k] EXCEPT ![1 - bank] = Visible(k)] \in [0..3 -> Contents]
        /\ \A k \in TimeLevels : [density[k] EXCEPT ![bank] = density[k][2]] \in [0..3 -> Contents]
    BY <2>3, <1>0, <1>2
  <2>5. \/ density' = [k \in TimeLevels |-> [density[k] EXCEPT ![1 - bank] = Visible(k)]]
        \/ density' = [k \in TimeLevels |-> [density[k] EXCEPT ![bank] = density[k][2]]]
    BY <1>13 DEF Normalize, Fail
  <2>6. levels' \in [TimeLevels -> Level]
    BY <2>1, <2>2
  <2>7. CASE density' = [k \in TimeLevels |-> [density[k] EXCEPT ![1 - bank] = Visible(k)]]
    BY <2>4, <2>6, <2>7
  <2>8. CASE density' = [k \in TimeLevels |-> [density[k] EXCEPT ![bank] = density[k][2]]]
    BY <2>4, <2>6, <2>8
  <2> QED
    BY <2>5, <2>7, <2>8
<1> QED
  BY <1>6, <1>7, <1>8, <1>9, <1>10, <1>11, <1>12, <1>13 DEF Next

(* Every level's bank holds its state, the open levels their predictor.    *)
LEMMA BanksHoldNext ==
  ASSUME Timed, Banks, Next
  PROVE  BanksHold'
<1>0. /\ TimeLevels' = TimeLevels /\ Coarsest' = Coarsest /\ option \in Options /\ lev \in TimeLevels
      /\ bank \in {0, 1} /\ Coarsest \in TimeLevels /\ \A l \in TimeLevels : l \in Nat /\ Coarsest <= l
      /\ frame \in [TimeLevels -> Frame]
  BY OptionKept, LevelSet, Zenon DEF Timed, Control
<1>1. levels \in [TimeLevels -> Level] /\ density \in [TimeLevels -> [0..3 -> Contents]]
  BY DEF Banks, BanksType
<1>2. \A l \in TimeLevels :
        /\ levels[l].bank \in {0, 1} /\ levels[l].bank \in 0 .. 3 /\ 1 - levels[l].bank \in 0 .. 3
        /\ levels[l].bank # 2 /\ levels[l].bank # 3 /\ 1 - levels[l].bank # 2 /\ 1 - levels[l].bank # 3
        /\ 1 - levels[l].bank # levels[l].bank
  BY <1>1 DEF Level
<1>3. ASSUME Underway
      PROVE  /\ \A l \in TimeLevels : density[l][2] = State(time) /\ density[l][levels[l].bank] = State(StateTime(l))
             /\ \A f \in TimeLevels : f < lev => Predicted(f)
             /\ \A k \in TimeLevels : k > lev \/ (k = lev /\ pc # "reflux") => ~levels[k].pending
             /\ pc = "forecast" => levels[lev].begin = frame[lev].begin /\ levels[lev].end = Upto(lev)
  BY <1>3, Zenon DEF Banks, BanksHold, Visible
<1>4. ~Underway => \A l \in TimeLevels : density[l][bank] = State(time)
  BY DEF Banks, BanksHold
<1>5. ASSUME NEW dt \in Durations, Begin(dt) PROVE BanksHold'
  <2>1. density' = [l \in TimeLevels |-> [density[l] EXCEPT ![2] = density[l][bank]]]
    BY <1>5 DEF Begin
  <2>2. levels' = [l \in TimeLevels |-> [bank |-> bank, begin |-> 0, end |-> 0, pending |-> FALSE]]
    BY <1>5 DEF Begin
  <2>3. pc' = "cfl" /\ lev' = Coarsest /\ time' = time /\ ~Underway
    BY <1>5 DEF Begin, published, Underway
  <2>4. frame'[Coarsest].from = time /\ frame'[Coarsest].elapsed = 0
    BY <1>0, <1>5, LevelSet DEF Begin
  <2>5. At(lev)' = time
    <3>1. time \in Nat
      BY FramesAssumption DEF Timed, Control, Ticks
    <3>2. frame'[Coarsest].from + frame'[Coarsest].elapsed = time
      BY <2>4, <3>1
    <3> QED
      BY <2>3, <3>2 DEF At
  <2>6. \A l \in TimeLevels : ~(l < Coarsest)
    BY <1>0
  <2>7. \A l \in TimeLevels : StateTime(l)' = time
    BY <2>3, <2>5, <2>6 DEF StateTime
  <2>8. \A l \in TimeLevels : density'[l][2] = State(time) /\ density'[l][bank] = State(time) /\ levels'[l].bank = bank
    BY <2>1, <2>2, <2>3, <1>0, <1>1, <1>4
  <2>9. \A l \in TimeLevels : density'[l][2] = State(time)' /\ Visible(l)' = State(StateTime(l))'
    BY <2>3, <2>7, <2>8 DEF Visible, State, Content
  <2>10. \A k \in TimeLevels : ~levels'[k].pending
    BY <2>2
  <2> QED
    BY <2>3, <2>6, <2>9, <2>10, <1>0 DEF BanksHold, Underway
<1>6. ASSUME Underway, Underway', time' = time,
             \A l \in TimeLevels : density'[l][2] = density[l][2],
             \A l \in TimeLevels : density'[l][levels'[l].bank] =
               IF l = lev /\ pc = "reflux" THEN State(Upto(lev)) ELSE density[l][levels[l].bank]
      PROVE  \A l \in TimeLevels : density'[l][2] = State(time)' /\ Visible(l)' = State(StateTime(l))'
  <2>1. \A l \in TimeLevels : StateTime(l)' = IF l = lev /\ pc = "reflux" THEN Upto(lev) ELSE StateTime(l)
    BY <1>6, TimesMove
  <2> SUFFICES ASSUME NEW l \in TimeLevels
               PROVE  density'[l][2] = State(time)' /\ Visible(l)' = State(StateTime(l))'
    OBVIOUS
  <2>2. density'[l][2] = State(time)'
    BY <1>3, <1>6 DEF State, Content
  <2>3. Visible(l)' = State(StateTime(l))'
    <3>1. CASE l = lev /\ pc = "reflux"
      BY <2>1, <3>1, <1>6 DEF Visible, State, Content
    <3>2. CASE ~(l = lev /\ pc = "reflux")
      <4>1. density'[l][levels'[l].bank] = State(StateTime(l)) /\ StateTime(l)' = StateTime(l)
        BY <2>1, <3>2, <1>3, <1>6
      <4> QED
        BY <4>1 DEF Visible, State, Content
    <3> QED
      BY <3>1, <3>2
  <2> QED
    BY <2>2, <2>3
<1>7. ASSUME NEW f \in TimeLevels, Predicted(f), frame'[f] = frame[f], levels'[f] = levels[f], density'[f] = density[f]
      PROVE  Predicted(f)'
  BY <1>7 DEF Predicted, Upto, Content
<1>70. ASSUME NEW g \in TimeLevels, lev' = g, Underway',
              \A l \in TimeLevels : density'[l][2] = State(time)' /\ Visible(l)' = State(StateTime(l))',
              \A f \in TimeLevels : f < g => Predicted(f)',
              \A k \in TimeLevels : k > g \/ (k = g /\ pc' # "reflux") => ~levels'[k].pending,
              pc' = "forecast" => levels'[g].begin = frame'[g].begin /\ levels'[g].end = frame'[g].begin + frame'[g].step
       PROVE  BanksHold'
  <2>1. pc' = "forecast" => levels'[lev'].begin = frame'[lev'].begin /\ levels'[lev'].end = Upto(lev)'
    BY <1>70 DEF Upto
  <2>2. \A f \in TimeLevels' : f < lev' => Predicted(f)'
    BY <1>70, <1>0
  <2>3. \A k \in TimeLevels' : k > lev' \/ (k = lev' /\ pc' # "reflux") => ~levels'[k].pending
    BY <1>70, <1>0
  <2>4. \A l \in TimeLevels' : density'[l][2] = State(time)' /\ Visible(l)' = State(StateTime(l))'
    BY <1>70, <1>0
  <2> QED
    BY <2>1, <2>2, <2>3, <2>4, <1>70, Zenon DEF BanksHold
<1>8. CASE Timestep
  <2>1. pc = "cfl" /\ pc' = "open" /\ lev' = lev /\ density' = density /\ levels' = levels /\ time' = time
        /\ \A f \in TimeLevels : f # lev => frame'[f] = frame[f]
    BY <1>0, <1>8 DEF Timestep, published
  <2>2. Underway /\ Underway'
    BY <2>1 DEF Underway
  <2>3. \A l \in TimeLevels : density'[l][2] = State(time)' /\ Visible(l)' = State(StateTime(l))'
    BY <2>1, <2>2, <1>6
  <2>4. \A f \in TimeLevels : f < lev => Predicted(f)'
    BY <2>1, <2>2, <1>0, <1>3, <1>7
  <2> QED
    BY <2>1, <2>2, <2>3, <2>4, <1>0, <1>3, <1>70
<1>9. CASE Open \/ CloseShell
  <2>1. /\ <<pc, pc'>> \in {<<"open", "transport">>, <<"shell", "close">>}
        /\ lev' = lev /\ density' = density /\ levels' = levels /\ time' = time /\ frame' = frame
    BY <1>9 DEF Open, CloseShell, published
  <2>2. Underway /\ Underway' /\ pc # "reflux" /\ pc' \notin {"forecast", "reflux"}
    BY <2>1 DEF Underway
  <2>3. \A l \in TimeLevels : density'[l][2] = State(time)' /\ Visible(l)' = State(StateTime(l))'
    BY <2>1, <2>2, <1>6
  <2>4. \A f \in TimeLevels : f < lev => Predicted(f)'
    BY <2>1, <2>2, <1>3, <1>7
  <2> QED
    BY <2>1, <2>2, <2>3, <2>4, <1>0, <1>3, <1>70
<1>10. CASE Transport
  <2>1. /\ density' = [density EXCEPT ![lev][1 - levels[lev].bank] = Content(End, "raw")]
        /\ levels' = [levels EXCEPT ![lev].begin = Now, ![lev].end = End]
        /\ pc = "transport" /\ pc' = "forecast" /\ lev' = lev /\ time' = time /\ frame' = frame
    BY <1>10 DEF Transport, published
  <2>2. Underway /\ Underway'
    BY <2>1 DEF Underway
  <2>3. /\ levels'[lev].begin = Now /\ levels'[lev].end = End /\ levels'[lev].pending = levels[lev].pending
        /\ levels'[lev].bank = levels[lev].bank /\ \A l \in TimeLevels : l # lev => levels'[l] = levels[l]
    BY <2>1, <1>0, <1>1 DEF Level
  <2>4. /\ \A l \in TimeLevels : l # lev => density'[l] = density[l]
        /\ \A c \in 0 .. 3 : c # 1 - levels[lev].bank => density'[lev][c] = density[lev][c]
    BY <2>1, <1>0, <1>1
  <2>5. /\ \A l \in TimeLevels : density'[l][2] = density[l][2]
        /\ \A l \in TimeLevels : density'[l][levels'[l].bank] = density[l][levels[l].bank]
    BY <2>3, <2>4, <1>2
  <2>6. \A l \in TimeLevels : density'[l][2] = State(time)' /\ Visible(l)' = State(StateTime(l))'
    BY <2>1, <2>2, <2>5, <1>6
  <2>7. \A f \in TimeLevels : f < lev => Predicted(f)'
    <3>1. \A f \in TimeLevels : f < lev =>
            Predicted(f) /\ frame'[f] = frame[f] /\ levels'[f] = levels[f] /\ density'[f] = density[f]
      <4>1. \A f \in TimeLevels : f < lev => f # lev
        BY <1>0
      <4>2. frame' = frame /\ \A f \in TimeLevels : f < lev => Predicted(f)
        BY <2>1, <2>2, <1>3
      <4> QED
        BY <4>1, <4>2, <2>3, <2>4
    <3> QED
      BY <3>1, <1>7
  <2>8. levels'[lev].begin = frame[lev].begin /\ levels'[lev].end = Upto(lev)
    BY <2>1, <2>2, <2>3, Bounds DEF Now
  <2>9. \A k \in TimeLevels : k > lev \/ k = lev => ~levels'[k].pending
    BY <2>1, <2>2, <2>3, <1>3
  <2>10. levels'[lev].end = frame'[lev].begin + frame'[lev].step /\ levels'[lev].begin = frame'[lev].begin
    BY <2>1, <2>8 DEF Upto
  <2> QED
    BY <2>1, <2>2, <2>6, <2>7, <2>9, <2>10, <1>0, <1>70
<1>11. CASE Forecast
  <2>1. /\ density' = [density EXCEPT ![lev][3] = Content(End, "forecast")]
        /\ levels' = [levels EXCEPT ![lev].pending = TRUE]
        /\ pc = "forecast" /\ time' = time
    BY <1>11 DEF Forecast, published
  <2>2. Underway /\ Underway' /\ pc' \in {"cfl", "reflux"}
    BY <2>1, <1>11 DEF Underway, Forecast
  <2>3. /\ levels'[lev].begin = levels[lev].begin /\ levels'[lev].end = levels[lev].end /\ levels'[lev].pending
        /\ levels'[lev].bank = levels[lev].bank /\ \A l \in TimeLevels : l # lev => levels'[l] = levels[l]
    BY <2>1, <1>0, <1>1 DEF Level
  <2>4. /\ \A l \in TimeLevels : l # lev => density'[l] = density[l]
        /\ density'[lev][3] = Content(End, "forecast")
        /\ \A c \in 0 .. 3 : c # 3 => density'[lev][c] = density[lev][c]
    BY <2>1, <1>0, <1>1
  <2>5. /\ \A l \in TimeLevels : density'[l][2] = density[l][2]
        /\ \A l \in TimeLevels : density'[l][levels'[l].bank] = density[l][levels[l].bank]
    BY <2>3, <2>4, <1>2
  <2>6. \A l \in TimeLevels : density'[l][2] = State(time)' /\ Visible(l)' = State(StateTime(l))'
    BY <2>1, <2>2, <2>5, <1>6
  <2>7. CASE IsFinest(lev)
    <3>1. pc' = "reflux" /\ lev' = lev /\ frame' = frame
      BY <1>11, <2>7 DEF Forecast
    <3>2. \A f \in TimeLevels : f < lev => Predicted(f)'
      <4>1. \A f \in TimeLevels : f < lev =>
              Predicted(f) /\ frame'[f] = frame[f] /\ levels'[f] = levels[f] /\ density'[f] = density[f]
        BY <3>1, <2>2, <2>3, <2>4, <1>0, <1>3
      <4> QED
        BY <4>1, <1>7
    <3>3. \A k \in TimeLevels : k > lev => ~levels'[k].pending
      BY <2>2, <2>3, <1>0, <1>3
    <3> QED
      BY <3>1, <3>2, <3>3, <2>2, <2>6, <1>0, <1>70
  <2>8. CASE ~IsFinest(lev)
    <3>0. PICK g \in TimeLevels : g = Finer(lev)
      BY <2>8, <1>0, NotFinest
    <3>1. lev < g /\ \A k \in TimeLevels : k < g => k <= lev
      BY <2>8, <3>0, <1>0, NotFinest
    <3>2. lev' = g /\ pc' = "cfl" /\ \A f \in TimeLevels : f # g => frame'[f] = frame[f]
      BY <3>0, <2>8, <1>0, <1>11 DEF Forecast
    <3>3. /\ levels'[lev].begin = frame[lev].begin /\ levels'[lev].end = Upto(lev) /\ levels'[lev].pending
          /\ density'[lev][3] = Content(Upto(lev), "forecast") /\ frame'[lev] = frame[lev]
      BY <3>1, <3>2, <2>1, <2>2, <2>3, <2>4, <1>0, <1>3, Bounds
    <3>4. ASSUME NEW f \in TimeLevels, f < g PROVE Predicted(f)'
      <4>1. CASE f = lev
        BY <4>1, <3>3 DEF Predicted, Upto, Content
      <4>2. CASE f # lev
        <5>1. f < lev /\ f # g
          BY <3>1, <3>4, <4>2, <1>0
        <5>2. Predicted(f) /\ frame'[f] = frame[f] /\ levels'[f] = levels[f] /\ density'[f] = density[f]
          BY <5>1, <4>2, <3>2, <2>2, <2>3, <2>4, <1>3
        <5> QED
          BY <5>2, <1>7
      <4> QED
        BY <4>1, <4>2
    <3>5. \A k \in TimeLevels : k > g \/ k = g => ~levels'[k].pending
      BY <3>1, <2>2, <2>3, <1>0, <1>3
    <3> QED
      BY <3>2, <3>4, <3>5, <2>2, <2>6, <1>70
  <2> QED
    BY <2>7, <2>8
<1>12. CASE Reflux
  <2>1. /\ density' = [density EXCEPT ![lev][1 - levels[lev].bank] = State(End)]
        /\ levels' = [levels EXCEPT ![lev].pending = FALSE, ![lev].bank = 1 - @]
    BY <1>12 DEF Reflux
  <2>2. /\ pc = "reflux" /\ pc' = "shell" /\ lev' = lev /\ frame' = frame /\ time' = time
        /\ Underway /\ Underway'
    BY <1>12 DEF Reflux, published, Underway
  <2>3. /\ ~levels'[lev].pending /\ levels'[lev].bank = 1 - levels[lev].bank
        /\ \A l \in TimeLevels : l # lev => levels'[l] = levels[l]
    BY <2>1, <1>0, <1>1 DEF Level
  <2>4. /\ \A l \in TimeLevels : l # lev => density'[l] = density[l]
        /\ density'[lev][1 - levels[lev].bank] = State(End)
        /\ \A c \in 0 .. 3 : c # 1 - levels[lev].bank => density'[lev][c] = density[lev][c]
    BY <2>1, <1>0, <1>1, <1>2
  <2>5. End = Upto(lev)
    BY <2>2, Bounds
  <2>6. /\ \A l \in TimeLevels : density'[l][2] = density[l][2]
        /\ \A l \in TimeLevels : density'[l][levels'[l].bank] =
             IF l = lev /\ pc = "reflux" THEN State(Upto(lev)) ELSE density[l][levels[l].bank]
    BY <2>2, <2>3, <2>4, <2>5, <1>2
  <2>7. \A l \in TimeLevels : density'[l][2] = State(time)' /\ Visible(l)' = State(StateTime(l))'
    BY <2>2, <2>6, <1>6
  <2>8. \A f \in TimeLevels : f < lev => Predicted(f)'
    <3>1. \A f \in TimeLevels : f < lev => f # lev
      BY <1>0
    <3>2. \A f \in TimeLevels : f < lev => Predicted(f)
      BY <2>2, <1>3
    <3>3. \A f \in TimeLevels : f < lev => frame'[f] = frame[f] /\ levels'[f] = levels[f] /\ density'[f] = density[f]
      BY <3>1, <2>2, <2>3, <2>4
    <3> QED
      BY <3>2, <3>3, <1>7
  <2>9. \A k \in TimeLevels : k > lev \/ k = lev => ~levels'[k].pending
    BY <2>2, <2>3, <1>3
  <2> QED
    BY <2>2, <2>7, <2>8, <2>9, <1>0, <1>70
<1>13. CASE CloseFrame
  <2>1. /\ density' = [density EXCEPT ![lev][Settled] = Visible(lev)]
        /\ levels' = [levels EXCEPT ![lev].bank = Settled]
        /\ frame' = [frame EXCEPT ![lev].elapsed = NextElapsed]
    BY <1>13 DEF CloseFrame
  <2>2. /\ pc = "close" /\ pc' \in {"cfl", "normalize", "reflux"} /\ time' = time
        /\ Underway /\ Underway'
    BY <1>13 DEF CloseFrame, published, Underway
  <2>3. Settled \in 0 .. 3 /\ Settled # 2 /\ Settled # 3
    BY <1>0, <1>2 DEF Settled
  <2>4. /\ levels'[lev].pending = levels[lev].pending /\ levels'[lev].bank = Settled
        /\ \A l \in TimeLevels : l # lev => levels'[l] = levels[l]
    BY <2>1, <1>0, <1>1 DEF Level
  <2>5. /\ \A l \in TimeLevels : l # lev => density'[l] = density[l]
        /\ density'[lev][Settled] = density[lev][levels[lev].bank]
        /\ \A c \in 0 .. 3 : c # Settled => density'[lev][c] = density[lev][c]
    BY <2>1, <2>3, <1>0, <1>1 DEF Visible
  <2>6. /\ \A l \in TimeLevels : density'[l][2] = density[l][2]
        /\ \A l \in TimeLevels : density'[l][levels'[l].bank] = density[l][levels[l].bank]
    BY <2>3, <2>4, <2>5, <1>0
  <2>7. \A l \in TimeLevels : density'[l][2] = State(time)' /\ Visible(l)' = State(StateTime(l))'
    BY <2>2, <2>6, <1>6
  <2>8. \A f \in TimeLevels : f # lev => frame'[f] = frame[f]
    BY <2>1, <1>0
  <2>9. \A f \in TimeLevels : f < lev => Predicted(f)'
    <3>1. \A f \in TimeLevels : f < lev => f # lev
      BY <1>0
    <3>2. \A f \in TimeLevels : f < lev => Predicted(f)
      BY <2>2, <1>3
    <3>3. \A f \in TimeLevels : f < lev => frame'[f] = frame[f] /\ levels'[f] = levels[f] /\ density'[f] = density[f]
      BY <3>1, <2>4, <2>5, <2>8
    <3> QED
      BY <3>2, <3>3, <1>7
  <2>10. \A k \in TimeLevels : k > lev \/ k = lev => ~levels'[k].pending
    BY <2>2, <2>4, <1>3
  <2>11. CASE NextElapsed < frame[lev].duration \/ lev = Coarsest
    <3>1. lev' = lev
      BY <1>13, <2>11 DEF CloseFrame
    <3>2. pc' # "forecast"
      BY <2>2
    <3> QED
      BY <2>2, <2>7, <2>9, <2>10, <3>1, <3>2, <1>0, <1>70
  <2>12. CASE ~(NextElapsed < frame[lev].duration) /\ lev # Coarsest
    <3>0. PICK c \in TimeLevels : c = Coarser(lev)
      BY <2>12, <1>0, CoarserLevel
    <3>1. pc' = "reflux" /\ lev' = c
      BY <3>0, <1>13, <2>12 DEF CloseFrame
    <3>2. c < lev /\ \A k \in TimeLevels : k < lev => k <= c
      BY <3>0, <2>12, <1>0, CoarserLevel
    <3>3. \A f \in TimeLevels : f < c => Predicted(f)'
      BY <3>2, <2>9, <1>0
    <3>4. \A k \in TimeLevels : k > c => ~levels'[k].pending
      BY <3>2, <2>10, <1>0
    <3> QED
      BY <2>2, <2>7, <3>1, <3>3, <3>4, <1>70
  <2> QED
    BY <2>11, <2>12
<1>14. CASE Normalize
  <2>1. /\ density' = [k \in TimeLevels |-> [density[k] EXCEPT ![1 - bank] = Visible(k)]]
        /\ bank' = 1 - bank /\ time' = time + frame[Coarsest].duration /\ pc = "normalize" /\ pc' = "idle"
        /\ Underway /\ ~Underway'
    BY <1>14 DEF Normalize, Return, Underway
  <2>2. \A k \in TimeLevels : density'[k][bank'] = density[k][levels[k].bank]
    BY <2>1, <1>0, <1>1 DEF Visible
  <2>3. lev = Coarsest /\ frame[lev].elapsed = frame[lev].duration /\ frame[Coarsest].from = time
    BY <2>1 DEF Timed, Clock
  <2>4. At(lev) = time'
    BY <2>1, <2>3 DEF At
  <2>5. \A k \in TimeLevels : StateTime(k) = time'
    BY <2>1, <2>3, <2>4, <1>0 DEF StateTime
  <2>6. \A k \in TimeLevels : density'[k][bank'] = State(time)'
    BY <2>1, <2>2, <2>5, <1>3 DEF State, Content
  <2> QED
    BY <2>1, <2>6, <1>0 DEF BanksHold
<1>15. CASE Fail
  <2>1. /\ density' = [k \in TimeLevels |-> [density[k] EXCEPT ![bank] = density[k][2]]]
        /\ bank' = bank /\ time' = time /\ Underway /\ ~Underway'
    BY <1>15 DEF Fail, Return, Underway, published
  <2>2. \A k \in TimeLevels : density'[k][bank'] = State(time)'
    <3>1. \A k \in TimeLevels : density'[k][bank] = density[k][2]
      BY <2>1, <1>0, <1>1
    <3>2. \A k \in TimeLevels : density[k][2] = State(time)
      BY <2>1, <1>3
    <3> QED
      BY <3>1, <3>2, <2>1 DEF State, Content
  <2> QED
    BY <2>1, <2>2, <1>0 DEF BanksHold
<1> QED
  BY <1>5, <1>8, <1>9, <1>10, <1>11, <1>12, <1>13, <1>14, <1>15 DEF Next

(* Every level's bank holds the state of the time the level has reached,   *)
(* an open level its predictor in bank 3 as well, and the backup what was  *)
(* published (Backup, Advance, Reflux, Restore, Normalize).                *)
THEOREM BanksAlways == Spec => []Banks
<1>1. Init => Banks
  <2> SUFFICES ASSUME Init PROVE Banks
    OBVIOUS
  <2>1. /\ pc = "idle" /\ time = 0 /\ bank = 0
        /\ levels = [l \in TimeLevels |-> [bank |-> 0, begin |-> 0, end |-> 0, pending |-> FALSE]]
        /\ density = [l \in TimeLevels |-> [b \in 0..3 |-> IF b = 0 THEN State(0) ELSE Unset]]
    BY Zenon DEF Init
  <2>2. 0 \in Ticks
    BY FramesAssumption DEF Ticks
  <2>3. State(0) \in Contents /\ Unset \in Contents /\ [bank |-> 0, begin |-> 0, end |-> 0, pending |-> FALSE] \in Level
    BY <2>2 DEF Contents, State, Content, Unset, Level
  <2>4. \A l \in TimeLevels : density[l][0] = State(0)
    BY <2>1
  <2>5. levels \in [TimeLevels -> Level] /\ density \in [TimeLevels -> [0..3 -> Contents]]
    BY <2>1, <2>3
  <2> QED
    BY <2>1, <2>4, <2>5 DEF Banks, BanksType, BanksHold, Underway
<1>2. Timed /\ Banks /\ [Next]_vars => Banks'
  <2>1. ASSUME Timed, Banks, Next PROVE Banks'
    BY <2>1, BanksTypeNext, BanksHoldNext DEF Banks
  <2>2. ASSUME Timed, Banks, UNCHANGED vars PROVE Banks'
    <3>1. BanksType'
      BY <2>2, BanksTypeNext
    <3>2. BanksHold'
      BY <2>2, OptionKept DEF vars, published, Banks, BanksHold, Underway, Visible, State, Content, Predicted, Upto, StateTime, At
    <3> QED
      BY <3>1, <3>2 DEF Banks
  <2> QED
    BY <2>1, <2>2
<1> QED
  BY <1>1, <1>2, TimedAlways, PTL DEF Spec

-----------------------------------------------------------------------------
(* A frame opens with Open alone, and keeps its interval until it closes.  *)
LEMMA OpenKept ==
  ASSUME Timed, Next, Underway, Underway'
  PROVE  \A f \in TimeLevels : IsOpen(f)' =>
           /\ IsOpen(f) \/ (pc = "open" /\ f = lev)
           /\ frame'[f].begin = frame[f].begin /\ frame'[f].step = frame[f].step
<1>0. /\ TimeLevels' = TimeLevels /\ Coarsest' = Coarsest /\ option \in Options
      /\ lev \in TimeLevels /\ frame \in [TimeLevels -> Frame]
      /\ \A l \in TimeLevels : l \in Nat
  BY OptionKept, LevelSet, Zenon DEF Timed, Control
<1>1. ASSUME NEW g \in TimeLevels, lev' = g, NEW f \in TimeLevels, IsOpen(f)'
      PROVE  f < g \/ (f = g /\ pc' \in {"transport", "forecast", "reflux", "shell", "close"})
  BY <1>1 DEF IsOpen, Opened
<1>2. CASE Timestep
  <2>1. /\ pc' = "open" /\ lev' = lev
        /\ \A f \in TimeLevels : f # lev => frame'[f] = frame[f]
    BY <1>0, <1>2 DEF Timestep
  <2>2. \A f \in TimeLevels : IsOpen(f)' => f < lev /\ f # lev
    BY <2>1, <1>0, <1>1
  <2> QED
    BY <2>1, <2>2 DEF IsOpen
<1>3. CASE Open \/ Transport \/ Reflux \/ CloseShell
  <2>1. /\ frame' = frame /\ lev' = lev /\ pc \in {"open", "transport", "reflux", "shell"}
    BY <1>3 DEF Open, Transport, Reflux, CloseShell
  <2>2. \A f \in TimeLevels : IsOpen(f)' => f < lev \/ f = lev
    BY <2>1, <1>0, <1>1
  <2> QED
    BY <2>1, <2>2 DEF IsOpen, Opened
<1>4. CASE Forecast
  <2>1. pc = "forecast"
    BY <1>4 DEF Forecast
  <2>2. CASE IsFinest(lev)
    <3>1. frame' = frame /\ lev' = lev
      BY <1>4, <2>2 DEF Forecast
    <3>2. \A f \in TimeLevels : IsOpen(f)' => f < lev \/ f = lev
      BY <3>1, <1>0, <1>1
    <3> QED
      BY <2>1, <3>1, <3>2 DEF IsOpen, Opened
  <2>3. CASE ~IsFinest(lev)
    <3>0. PICK g \in TimeLevels : g = Finer(lev)
      BY <2>3, <1>0, NotFinest
    <3>1. lev < g /\ \A k \in TimeLevels : k < g => k <= lev
      BY <2>3, <3>0, <1>0, NotFinest
    <3>2. lev' = g /\ pc' = "cfl" /\ \A f \in TimeLevels : f # g => frame'[f] = frame[f]
      BY <3>0, <1>0, <1>4, <2>3 DEF Forecast
    <3>3. \A f \in TimeLevels : IsOpen(f)' => f < g
      BY <3>2, <1>1
    <3>4. \A f \in TimeLevels : f < g => f # g /\ (f < lev \/ f = lev)
      BY <3>1, <1>0
    <3> QED
      BY <2>1, <3>2, <3>3, <3>4 DEF IsOpen, Opened
  <2> QED
    BY <2>2, <2>3
<1>5. CASE CloseFrame
  <2>1. /\ pc = "close" /\ frame'[lev].begin = frame[lev].begin /\ frame'[lev].step = frame[lev].step
        /\ \A f \in TimeLevels : f # lev => frame'[f] = frame[f]
    BY <1>0, <1>5 DEF CloseFrame, Frame
  <2>2. PICK c \in TimeLevels : lev' = c /\ (c = lev \/ c < lev)
    BY <1>0, <1>5, CoarserLevel DEF CloseFrame
  <2>3. \A f \in TimeLevels : IsOpen(f)' => f < lev \/ f = lev
    BY <2>2, <1>0, <1>1
  <2> QED
    BY <2>1, <2>3 DEF IsOpen, Opened
<1>6. ~((\E dt \in Durations : Begin(dt)) \/ Normalize \/ Fail)
  BY DEF Begin, Normalize, Fail, Return, Underway
<1> QED
  BY <1>2, <1>3, <1>4, <1>5, <1>6 DEF Next

(* What a field at a time of the frame that opens or closes is made of:    *)
(* the level and the finer ones at that very time, coarser ones there or   *)
(* between their ends.                                                     *)
Sources(at) ==
  /\ \A k \in TimeLevels : k >= lev => Source(k, at) = State(at)
  /\ \A k \in TimeLevels : Source(k, at) \in {State(at), Content(at, "between")}

(* When a shell is computed, every level of it is at that very time, and   *)
(* every coarser one can be taken between its state and its predictor.     *)
LEMMA SourcesAt ==
  ASSUME Timed, Banks
  PROVE  /\ pc = "open" => Sources(Now) /\ Now \in Ticks /\ Now = frame[lev].begin
         /\ pc = "shell" => Sources(End) /\ End \in Ticks /\ End = Upto(lev)
<1>0. lev \in TimeLevels /\ option \in Options /\ (\A l \in TimeLevels : l \in Nat) /\ MaxTime \in Nat /\ Ticks = 0 .. MaxTime
  BY LevelSet, FramesAssumption, Zenon DEF Timed, Control, Ticks
<1>1. ASSUME NEW at \in Ticks, Underway, pc # "reflux",
             \A k \in TimeLevels : k >= lev => StateTime(k) = at,
             \A f \in TimeLevels : f < lev => frame[f].begin <= at /\ at <= Upto(f)
      PROVE  Sources(at)
  <2>1. ASSUME NEW k \in TimeLevels, k >= lev PROVE Source(k, at) = State(at)
    <3>1. Visible(k) = State(at)
      BY <1>1, <2>1 DEF Banks, BanksHold
    <3>2. ~levels[k].pending
      BY <1>0, <1>1, <2>1 DEF Banks, BanksHold
    <3> QED
      BY <3>1, <3>2 DEF Source
  <2>2. ASSUME NEW f \in TimeLevels, f < lev PROVE Source(f, at) \in {State(at), Content(at, "between")}
    <3>1. /\ levels[f].begin = frame[f].begin /\ levels[f].end = Upto(f) /\ levels[f].pending
          /\ density[f][3] = Content(Upto(f), "forecast")
      BY <1>1, <2>2 DEF Banks, BanksHold, Predicted
    <3>2. Visible(f) = State(frame[f].begin)
      BY <1>1, <2>2 DEF Banks, BanksHold, StateTime
    <3>3. frame[f].begin <= at /\ at <= Upto(f)
      BY <1>1, <2>2
    <3>4. CASE at > frame[f].begin
      BY <3>1, <3>2, <3>3, <3>4 DEF Source
    <3>5. CASE ~(at > frame[f].begin)
      <4>1. frame[f].begin \in Nat
        BY FrameFields DEF Timed
      <4>2. at = frame[f].begin
        BY <3>3, <3>5, <4>1, <1>0
      <4>3. Source(f, at) = Visible(f)
        BY <3>1, <3>5 DEF Source
      <4> QED
        BY <3>2, <4>2, <4>3
    <3> QED
      BY <3>4, <3>5
  <2>3. \A k \in TimeLevels : k >= lev \/ k < lev
    BY <1>0
  <2> QED
    BY <2>1, <2>2, <2>3 DEF Sources
<1>2. ASSUME pc = "open" PROVE Sources(Now) /\ Now \in Ticks /\ Now = frame[lev].begin
  <2>1. Underway
    BY <1>2 DEF Underway
  <2>2. Now = At(lev) /\ Now \in Ticks
    BY <1>2, <2>1, Bounds
  <2>3. \A k \in TimeLevels : k >= lev => StateTime(k) = Now
    BY <1>0, <1>2, <2>2 DEF StateTime
  <2>4. \A f \in TimeLevels : f < lev => frame[f].begin <= Now /\ Now <= Upto(f)
    BY <2>1, <2>2, Bounds
  <2>5. Sources(Now)
    BY <1>1, <1>2, <2>1, <2>2, <2>3, <2>4
  <2> QED
    BY <2>2, <2>5 DEF Now
<1>3. ASSUME pc = "shell" PROVE Sources(End) /\ End \in Ticks /\ End = Upto(lev)
  <2>1. Underway
    BY <1>3 DEF Underway
  <2>2. /\ End = Upto(lev) /\ End \in Ticks /\ At(lev) \in Ticks /\ At(lev) <= End
    BY <1>3, <2>1, Bounds
  <2>3. \A k \in TimeLevels : k >= lev => StateTime(k) = End
    BY <1>0, <1>3, <2>2 DEF StateTime
  <2>4. \A f \in TimeLevels : f < lev => frame[f].begin <= End /\ End <= Upto(f)
    <3>1. \A f \in TimeLevels : f < lev => frame[f].begin <= At(lev) /\ End <= Upto(f) /\ frame[f].begin \in Ticks
      BY <1>3, <2>1, <2>2, Bounds
    <3> QED
      BY <3>1, <2>2, <1>0
  <2>5. Sources(End)
    BY <1>1, <1>3, <2>1, <2>2, <2>3, <2>4
  <2> QED
    BY <2>2, <2>5
<1> QED
  BY <1>2, <1>3

(* A field of a set of levels whose sources are at a time.                 *)
LEMMA SynchronisedField ==
  ASSUME option \in Options, NEW l \in TimeLevels, NEW at, \A k \in Nested(l) : Source(k, at) = State(at)
  PROVE  FieldOf(Nested(l), at) = NestedAt(l, at)
BY DEF FieldOf, NestedAt

(* The nested field of a level less that of the next finer is of that      *)
(* level alone.                                                            *)
LEMMA ShellOfOneLevel ==
  ASSUME option \in Options, NEW l \in TimeLevels, NEW at
  PROVE  /\ IsFinest(l) => NestedAt(l, at) = {<<l, State(at)>>}
         /\ ~IsFinest(l) => NestedAt(l, at) \ NestedAt(Finer(l), at) = {<<l, State(at)>>}
<1>0. \A k \in TimeLevels : k \in Nat
  BY LevelSet
<1>1. ASSUME IsFinest(l) PROVE NestedAt(l, at) = {<<l, State(at)>>}
  <2>1. \A k \in Nested(l) : k = l
    BY <1>0, <1>1, NestedLevels
  <2>2. l \in Nested(l)
    BY NestedLevels
  <2> QED
    BY <2>1, <2>2 DEF NestedAt
<1>2. ASSUME ~IsFinest(l) PROVE NestedAt(l, at) \ NestedAt(Finer(l), at) = {<<l, State(at)>>}
  <2>0. PICK g \in TimeLevels : g = Finer(l)
    BY <1>2, NotFinest
  <2>1. l < g /\ \A k \in TimeLevels : l < k => g <= k
    BY <2>0, <1>2, NotFinest
  <2>2. /\ \A k \in TimeLevels : k \in Nested(l) <=> k >= l
        /\ \A k \in TimeLevels : k \in Nested(g) <=> k >= g
        /\ Nested(l) \subseteq TimeLevels /\ Nested(g) \subseteq TimeLevels
    BY NestedLevels
  <2>3. \A k \in TimeLevels : (k \in Nested(l) /\ k \notin Nested(g)) <=> k = l
    BY <2>1, <2>2, <1>0
  <2>4. NestedAt(l, at) \ NestedAt(g, at) = {<<l, State(at)>>}
    BY <2>2, <2>3 DEF NestedAt
  <2> QED
    BY <2>0, <2>4
<1> QED
  BY <1>1, <1>2

(* An update of one end of one level.                                      *)
LEMMA FieldWritten ==
  ASSUME NEW old \in [TimeLevels -> [{0, 1} -> Fields]], NEW x \in TimeLevels, NEW b \in {0, 1}, NEW v \in Fields,
         NEW new, new = [old EXCEPT ![x][b] = v]
  PROVE  /\ new \in [TimeLevels -> [{0, 1} -> Fields]] /\ new[x][b] = v
         /\ \A l \in TimeLevels, e \in {0, 1} : l # x \/ e # b => new[l][e] = old[l][e]
<1>1. /\ new \in [TimeLevels -> [{0, 1} -> Fields]] /\ new[x][b] = v
      /\ \A l \in TimeLevels : l # x => new[l] = old[l]
      /\ \A e \in {0, 1} : e # b => new[x][e] = old[x][e]
  OBVIOUS
<1> QED
  BY <1>1

(* shellGravity, at a time all its sources can be taken at: what it caches *)
(* is of that time, its shell is of its level alone, its whole field takes *)
(* open coarser levels at that time too, and no other frame is touched.    *)
LEMMA ShellGravityGives ==
  ASSUME Timed, Banks, Shells, NEW endpoint \in {0, 1}, NEW at \in Ticks, Sources(at), ShellGravity(endpoint, at)
  PROVE  /\ cachedNested' \in [TimeLevels -> [at : Ticks \cup {-1}, field : Fields]]
         /\ {nested', shell', force'} \subseteq [TimeLevels -> [{0, 1} -> Fields]]
         /\ \A l \in TimeLevels : cachedNested'[l].at # -1 => cachedNested'[l].field = NestedAt(l, cachedNested'[l].at)
         /\ nested'[lev][endpoint] = NestedAt(lev, at)
         /\ shell'[lev][endpoint] = {<<lev, State(at)>>}
         /\ option.conventional => WholeFrom(lev, force'[lev][endpoint], at)
         /\ \A l \in TimeLevels, e \in {0, 1} : l # lev \/ e # endpoint =>
              shell'[l][e] = shell[l][e] /\ force'[l][e] = force[l][e]
<1>0. /\ lev \in TimeLevels /\ option \in Options /\ (\A l \in TimeLevels : l \in Nat)
  BY LevelSet, Zenon DEF Timed, Control
<1>1. /\ \A t \in Ticks : State(t) \in Contents /\ Content(t, "between") \in Contents
      /\ \A t \in Ticks : t # -1
  <2>1. \A t \in Ticks : t # -1
    BY FramesAssumption DEF Ticks
  <2>2. \A t \in Ticks, k \in {"state", "raw", "forecast", "between", "unset"} : Content(t, k) \in Contents
    BY ContentTypes
  <2>3. \A t \in Ticks : Content(t, "between") \in Contents
    BY <2>2
  <2> QED
    BY <2>1, <2>3, ContentTypes
<1>2. /\ cachedNested \in [TimeLevels -> [at : Ticks \cup {-1}, field : Fields]]
      /\ nested \in [TimeLevels -> [{0, 1} -> Fields]] /\ shell \in [TimeLevels -> [{0, 1} -> Fields]]
      /\ force \in [TimeLevels -> [{0, 1} -> Fields]]
      /\ \A l \in TimeLevels : cachedNested[l].at # -1 => cachedNested[l].field = NestedAt(l, cachedNested[l].at)
  BY DEF Shells, FieldsType, FieldsHold
<1>3. ASSUME NEW l \in TimeLevels, l >= lev PROVE NestedGravity(l, at) = NestedAt(l, at)
  <2>1. \A k \in Nested(l) : k \in TimeLevels /\ k >= lev
    BY <1>0, <1>3, NestedLevels
  <2>2. \A k \in Nested(l) : Source(k, at) = State(at)
    BY <2>1 DEF Sources
  <2>3. FieldOf(Nested(l), at) = NestedAt(l, at)
    BY <2>2, <1>0, SynchronisedField
  <2>4. CASE Reusable(l, at)
    <3>1. cachedNested[l].at = at /\ at # -1
      BY <2>4, <1>1 DEF Reusable
    <3> QED
      BY <3>1, <2>4, <1>2 DEF NestedGravity
  <2>5. CASE ~Reusable(l, at)
    BY <2>3, <2>5 DEF NestedGravity
  <2> QED
    BY <2>4, <2>5
<1>4. \A l \in Needed(lev) : l \in TimeLevels /\ NestedGravity(l, at) = NestedAt(l, at)
  <2>1. lev >= lev
    BY <1>0
  <2>2. ~IsFinest(lev) => Finer(lev) \in TimeLevels /\ lev < Finer(lev)
    BY <1>0, NotFinest
  <2>3. \A l \in Needed(lev) : l \in TimeLevels /\ l >= lev
    BY <2>1, <2>2, <1>0 DEF Needed
  <2> QED
    BY <2>3, <1>3
<1>5. \A l \in TimeLevels : NestedAt(l, at) \in Fields
  <2>1. \A l \in TimeLevels : Nested(l) \subseteq TimeLevels
    BY <1>0, NestedLevels
  <2> QED
    BY <2>1, <1>1 DEF NestedAt, Fields
<1>6. cachedNested' = [l \in TimeLevels |-> IF l \in Needed(lev)
            THEN [at |-> at, field |-> NestedGravity(l, at)] ELSE cachedNested[l]]
  BY DEF ShellGravity
<1>7. \A l \in TimeLevels :
        /\ cachedNested'[l] \in [at : Ticks \cup {-1}, field : Fields]
        /\ cachedNested'[l].at # -1 => cachedNested'[l].field = NestedAt(l, cachedNested'[l].at)
  <2> SUFFICES ASSUME NEW l \in TimeLevels
               PROVE  /\ cachedNested'[l] \in [at : Ticks \cup {-1}, field : Fields]
                      /\ cachedNested'[l].at # -1 => cachedNested'[l].field = NestedAt(l, cachedNested'[l].at)
    OBVIOUS
  <2>1. CASE l \in Needed(lev)
    <3>1. cachedNested'[l] = [at |-> at, field |-> NestedAt(l, at)]
      BY <2>1, <1>4, <1>6
    <3> QED
      BY <3>1, <1>5
  <2>2. CASE l \notin Needed(lev)
    <3>1. cachedNested'[l] = cachedNested[l]
      BY <2>2, <1>6
    <3> QED
      BY <3>1, <1>2
  <2> QED
    BY <2>1, <2>2
<1>8. cachedNested' \in [TimeLevels -> [at : Ticks \cup {-1}, field : Fields]]
  <2>1. cachedNested' = [l \in TimeLevels |-> cachedNested'[l]]
    BY <1>6
  <2> QED
    BY <2>1, <1>7
<1>9. NestedGravity(lev, at) = NestedAt(lev, at) /\ NestedAt(lev, at) \in Fields
  BY <1>0, <1>3, <1>5
<1>10. /\ nested' = [nested EXCEPT ![lev][endpoint] = NestedAt(lev, at)]
  BY <1>9 DEF ShellGravity
<1>11. shell' = [shell EXCEPT ![lev][endpoint] = {<<lev, State(at)>>}]
  <2>1. CASE IsFinest(lev)
    <3>1. shell' = [shell EXCEPT ![lev][endpoint] = NestedAt(lev, at) \ NoField]
      BY <2>1, <1>9 DEF ShellGravity
    <3>2. NestedAt(lev, at) \ NoField = {<<lev, State(at)>>}
      BY <2>1, <1>0, ShellOfOneLevel DEF NoField
    <3> QED
      BY <3>1, <3>2
  <2>2. CASE ~IsFinest(lev)
    <3>1. NestedGravity(Finer(lev), at) = NestedAt(Finer(lev), at)
      BY <2>2, <1>4 DEF Needed
    <3>2. shell' = [shell EXCEPT ![lev][endpoint] = NestedAt(lev, at) \ NestedAt(Finer(lev), at)]
      BY <2>2, <3>1, <1>9 DEF ShellGravity
    <3>3. NestedAt(lev, at) \ NestedAt(Finer(lev), at) = {<<lev, State(at)>>}
      BY <2>2, <1>0, ShellOfOneLevel
    <3> QED
      BY <3>2, <3>3
  <2> QED
    BY <2>1, <2>2
<1>12. {<<lev, State(at)>>} \in Fields
  BY <1>0, <1>1 DEF Fields
<1> DEFINE whole == FieldOf(TimeLevels, at)
<1>13. whole \in Fields /\ WholeFrom(lev, whole, at)
  <2>1. \A k \in TimeLevels : Source(k, at) \in Contents
    BY <1>1 DEF Sources
  <2>2. whole \in Fields
    BY <2>1 DEF FieldOf, Fields
  <2>3. {s[1] : s \in whole} = TimeLevels
    <3>1. \A k \in TimeLevels : <<k, Source(k, at)>> \in whole /\ <<k, Source(k, at)>>[1] = k
      BY DEF FieldOf
    <3>2. \A s \in whole : s[1] \in TimeLevels
      BY DEF FieldOf
    <3> HIDE DEF whole
    <3>3. \A k \in TimeLevels : \E s \in whole : s[1] = k
      BY <3>1
    <3> QED
      BY <3>2, <3>3
  <2>4. ASSUME NEW s \in whole
        PROVE  s[2] \in {State(at), Content(at, "between")} /\ (s[1] >= lev => s[2] = State(at))
    <3>1. PICK k \in TimeLevels : s = <<k, Source(k, at)>>
      BY DEF FieldOf
    <3>2. s[1] = k /\ s[2] = Source(k, at)
      BY <3>1
    <3> QED
      BY <3>2 DEF Sources
  <2> HIDE DEF whole
  <2> QED
    BY <2>2, <2>3, <2>4 DEF WholeFrom
<1>14. force' = IF option.conventional THEN [force EXCEPT ![lev][endpoint] = whole] ELSE force
  BY DEF ShellGravity
<1> HIDE DEF whole
<1>16. nested' \in [TimeLevels -> [{0, 1} -> Fields]] /\ nested'[lev][endpoint] = NestedAt(lev, at)
  BY <1>2, <1>0, <1>9, <1>10, FieldWritten
<1>17. /\ shell' \in [TimeLevels -> [{0, 1} -> Fields]] /\ shell'[lev][endpoint] = {<<lev, State(at)>>}
       /\ \A l \in TimeLevels, e \in {0, 1} : l # lev \/ e # endpoint => shell'[l][e] = shell[l][e]
  BY <1>2, <1>0, <1>11, <1>12, FieldWritten
<1>18. /\ force' \in [TimeLevels -> [{0, 1} -> Fields]] /\ (option.conventional => WholeFrom(lev, force'[lev][endpoint], at))
       /\ \A l \in TimeLevels, e \in {0, 1} : l # lev \/ e # endpoint => force'[l][e] = force[l][e]
  <2>1. CASE option.conventional
    <3>1. force' = [force EXCEPT ![lev][endpoint] = whole]
      BY <2>1, <1>14
    <3>2. /\ force' \in [TimeLevels -> [{0, 1} -> Fields]] /\ force'[lev][endpoint] = whole
          /\ \A l \in TimeLevels, e \in {0, 1} : l # lev \/ e # endpoint => force'[l][e] = force[l][e]
      BY <3>1, <1>0, <1>2, <1>13, FieldWritten
    <3> QED
      BY <3>2, <1>13
  <2>2. CASE ~option.conventional
    BY <2>2, <1>2, <1>14
  <2> QED
    BY <2>1, <2>2
<1> QED
  BY <1>7, <1>8, <1>16, <1>17, <1>18

(* Every step keeps the cached nested fields and the shells of the open    *)
(* frames.                                                                 *)
LEMMA ShellsNext ==
  ASSUME Timed, Banks, Shells, [Next]_vars
  PROVE  Shells'
<1>0. /\ TimeLevels' = TimeLevels /\ Coarsest' = Coarsest /\ option' = option /\ option \in Options
      /\ lev \in TimeLevels /\ (\A l \in TimeLevels : l \in Nat) /\ \A l : Nested(l)' = Nested(l)
  BY OptionKept, LevelSet, Zenon DEF Timed, Control
<1>1. Ticks' = Ticks /\ Contents' = Contents
  BY ContentTypes
<1>2. Fields' = Fields
  BY <1>0, <1>1 DEF Fields
<1>3. /\ cachedNested \in [TimeLevels -> [at : Ticks \cup {-1}, field : Fields]]
      /\ nested \in [TimeLevels -> [{0, 1} -> Fields]] /\ shell \in [TimeLevels -> [{0, 1} -> Fields]]
      /\ force \in [TimeLevels -> [{0, 1} -> Fields]]
      /\ \A l \in TimeLevels : cachedNested[l].at # -1 => cachedNested[l].field = NestedAt(l, cachedNested[l].at)
  BY DEF Shells, FieldsType, FieldsHold
<1>4. /\ Underway => \A f \in TimeLevels : IsOpen(f) => ShellAt(f, 0, frame[f].begin)
      /\ pc = "close" => ShellAt(lev, 1, Upto(lev)) /\ nested[lev][1] = NestedAt(lev, Upto(lev))
  BY DEF Shells, FieldsHold
<1>5. ASSUME /\ cachedNested' \in [TimeLevels -> [at : Ticks \cup {-1}, field : Fields]]
             /\ {nested', shell', force'} \subseteq [TimeLevels -> [{0, 1} -> Fields]]
             /\ \A l \in TimeLevels : cachedNested'[l].at # -1 => cachedNested'[l].field = NestedAt(l, cachedNested'[l].at)
      PROVE  /\ FieldsType'
             /\ (\A l \in TimeLevels : cachedNested[l].at # -1 => cachedNested[l].field = NestedAt(l, cachedNested[l].at))'
  <2>1. FieldsType'
    BY <1>0, <1>1, <1>2, <1>5 DEF FieldsType
  <2>2. (\A l \in TimeLevels : cachedNested[l].at # -1 => cachedNested[l].field = NestedAt(l, cachedNested[l].at))'
    BY <1>0, <1>5 DEF NestedAt, State, Content
  <2> QED
    BY <2>1, <2>2
<1>6. ASSUME NEW f \in TimeLevels, NEW e \in {0, 1}, NEW at, shell'[f][e] = {<<f, State(at)>>},
             option.conventional => WholeFrom(f, force'[f][e], at)
      PROVE  /\ shell'[f][e] = {<<f, State(at)'>>}
             /\ option'.conventional =>
                  /\ {s[1] : s \in force'[f][e]} = TimeLevels'
                  /\ \A s \in force'[f][e] :
                       s[2] \in {State(at)', Content(at, "between")'} /\ (s[1] >= f => s[2] = State(at)')
  BY <1>0, <1>6 DEF WholeFrom, State, Content
<1>7. ASSUME NEW f \in TimeLevels, NEW at, frame'[f].begin = at, shell'[f][0] = {<<f, State(at)>>},
             option.conventional => WholeFrom(f, force'[f][0], at)
      PROVE  ShellAt(f, 0, frame[f].begin)'
  BY <1>6, <1>7, <1>0 DEF ShellAt, WholeFrom, State, Content
<1>8. ASSUME UNCHANGED <<cachedNested, nested, shell, force>>, Next, pc' # "close", pc # "open" PROVE Shells'
  <2>1. /\ FieldsType'
        /\ (\A l \in TimeLevels : cachedNested[l].at # -1 => cachedNested[l].field = NestedAt(l, cachedNested[l].at))'
    BY <1>3, <1>5, <1>8
  <2>2. CASE Underway /\ Underway'
    <3>1. \A f \in TimeLevels : IsOpen(f)' => ShellAt(f, 0, frame[f].begin)'
      <4> SUFFICES ASSUME NEW f \in TimeLevels, IsOpen(f)' PROVE ShellAt(f, 0, frame[f].begin)'
        OBVIOUS
      <4>1. IsOpen(f) /\ frame'[f].begin = frame[f].begin
        BY <1>8, <2>2, OpenKept
      <4>2. ShellAt(f, 0, frame[f].begin)
        BY <2>2, <4>1, <1>4
      <4> QED
        BY <4>1, <4>2, <1>7, <1>8 DEF ShellAt
    <3> QED
      BY <3>1, <2>1, <1>0, <1>8 DEF Shells, FieldsHold
  <2>3. CASE ~Underway
    <3>1. \A f \in TimeLevels : ~IsOpen(f)'
      <4>1. PICK dt \in Durations : Begin(dt)
        BY <2>3, <1>8 DEF Next, Underway, Timestep, Open, Transport, Forecast, Reflux, CloseShell, CloseFrame, Normalize, Fail
      <4>2. lev' = Coarsest /\ pc' = "cfl"
        BY <4>1 DEF Begin
      <4>3. \A f \in TimeLevels : ~(f < Coarsest)
        BY <1>0, LevelSet
      <4> QED
        BY <4>2, <4>3 DEF IsOpen, Opened
    <3> QED
      BY <3>1, <2>1, <1>0, <1>8 DEF Shells, FieldsHold
  <2>4. CASE ~Underway'
    BY <2>1, <2>4, <1>8 DEF Shells, FieldsHold
  <2> QED
    BY <2>2, <2>3, <2>4
<1>9. CASE Open
  <2>1. /\ pc = "open" /\ pc' = "transport" /\ lev' = lev /\ frame' = frame /\ ShellGravity(0, Now)
        /\ Underway /\ Underway'
    BY <1>9 DEF Open, Underway
  <2>2. Sources(Now) /\ Now \in Ticks /\ Now = frame[lev].begin
    BY <2>1, SourcesAt
  <2>3. /\ cachedNested' \in [TimeLevels -> [at : Ticks \cup {-1}, field : Fields]]
        /\ {nested', shell', force'} \subseteq [TimeLevels -> [{0, 1} -> Fields]]
        /\ \A l \in TimeLevels : cachedNested'[l].at # -1 => cachedNested'[l].field = NestedAt(l, cachedNested'[l].at)
        /\ shell'[lev][0] = {<<lev, State(Now)>>}
        /\ option.conventional => WholeFrom(lev, force'[lev][0], Now)
        /\ \A l \in TimeLevels, e \in {0, 1} : l # lev \/ e # 0 =>
             shell'[l][e] = shell[l][e] /\ force'[l][e] = force[l][e]
    BY <2>1, <2>2, ShellGravityGives
  <2>4. ASSUME NEW f \in TimeLevels, IsOpen(f)' PROVE ShellAt(f, 0, frame[f].begin)'
    <3>1. CASE f = lev
      BY <3>1, <2>1, <2>2, <2>3, <1>7
    <3>2. CASE f # lev
      <4>1. IsOpen(f)
        BY <2>1, <2>4, <3>2, OpenKept, <1>9 DEF Next
      <4>2. ShellAt(f, 0, frame[f].begin)
        BY <4>1, <2>1, <1>4
      <4>3. shell'[f][0] = shell[f][0] /\ force'[f][0] = force[f][0]
        BY <2>3, <3>2
      <4> QED
        BY <4>2, <4>3, <2>1, <1>7 DEF ShellAt
    <3> QED
      BY <3>1, <3>2
  <2>5. /\ FieldsType'
        /\ (\A l \in TimeLevels : cachedNested[l].at # -1 => cachedNested[l].field = NestedAt(l, cachedNested[l].at))'
    BY <2>3, <1>5
  <2> QED
    BY <2>1, <2>4, <2>5, <1>0 DEF Shells, FieldsHold
<1>10. CASE CloseShell
  <2>1. /\ pc = "shell" /\ pc' = "close" /\ lev' = lev /\ frame' = frame /\ ShellGravity(1, End)
        /\ Underway /\ Underway'
    BY <1>10 DEF CloseShell, Underway
  <2>2. Sources(End) /\ End \in Ticks /\ End = Upto(lev)
    BY <2>1, SourcesAt
  <2>3. /\ cachedNested' \in [TimeLevels -> [at : Ticks \cup {-1}, field : Fields]]
        /\ {nested', shell', force'} \subseteq [TimeLevels -> [{0, 1} -> Fields]]
        /\ \A l \in TimeLevels : cachedNested'[l].at # -1 => cachedNested'[l].field = NestedAt(l, cachedNested'[l].at)
        /\ nested'[lev][1] = NestedAt(lev, End)
        /\ shell'[lev][1] = {<<lev, State(End)>>}
        /\ option.conventional => WholeFrom(lev, force'[lev][1], End)
        /\ \A l \in TimeLevels, e \in {0, 1} : l # lev \/ e # 1 =>
             shell'[l][e] = shell[l][e] /\ force'[l][e] = force[l][e]
    BY <2>1, <2>2, ShellGravityGives
  <2>4. ASSUME NEW f \in TimeLevels, IsOpen(f)' PROVE ShellAt(f, 0, frame[f].begin)'
    <3>1. IsOpen(f)
      BY <2>1, <2>4, OpenKept, <1>10 DEF Next
    <3>2. ShellAt(f, 0, frame[f].begin)
      BY <3>1, <2>1, <1>4
    <3>3. shell'[f][0] = shell[f][0] /\ force'[f][0] = force[f][0]
      BY <2>3
    <3> QED
      BY <3>2, <3>3, <2>1, <1>7 DEF ShellAt
  <2>5. /\ FieldsType'
        /\ (\A l \in TimeLevels : cachedNested[l].at # -1 => cachedNested[l].field = NestedAt(l, cachedNested[l].at))'
    BY <2>3, <1>5
  <2>6. ShellAt(lev, 1, Upto(lev))' /\ nested'[lev'][1] = NestedAt(lev, Upto(lev))'
    <3>1. PICK x \in TimeLevels, at \in Ticks : x = lev /\ at = End
      BY <2>2, <1>0
    <3>2. lev' = x /\ frame'[x].begin + frame'[x].step = at
      BY <2>1, <2>2, <3>1 DEF Upto
    <3>3. /\ nested'[x][1] = NestedAt(x, at) /\ shell'[x][1] = {<<x, State(at)>>}
          /\ option.conventional => WholeFrom(x, force'[x][1], at)
      BY <2>3, <3>1
    <3>4. ShellAt(lev, 1, Upto(lev))'
      BY <3>2, <3>3, <1>0 DEF ShellAt, WholeFrom, State, Content, Upto
    <3>5. nested'[lev'][1] = NestedAt(lev, Upto(lev))'
      BY <3>2, <3>3, <1>0 DEF NestedAt, State, Content, Upto
    <3> QED
      BY <3>4, <3>5
  <2> QED
    BY <2>1, <2>4, <2>5, <2>6, <1>0 DEF Shells, FieldsHold
<1>11. CASE Normalize \/ Fail
  <2>1. /\ cachedNested' = [l \in TimeLevels |-> [at |-> -1, field |-> NoField]]
        /\ nested' = NoFields /\ shell' = NoFields /\ force' = NoFields /\ pc' = "idle"
    BY <1>11 DEF Normalize, Fail, Return
  <2>2. {} \in Fields
    BY DEF Fields
  <2>3. NoFields \in [TimeLevels -> [{0, 1} -> Fields]]
    BY <2>2 DEF NoFields, NoField
  <2>4. cachedNested' \in [TimeLevels -> [at : Ticks \cup {-1}, field : Fields]]
    BY <2>1, <2>2 DEF NoField
  <2>5. /\ FieldsType'
        /\ (\A l \in TimeLevels : cachedNested[l].at # -1 => cachedNested[l].field = NestedAt(l, cachedNested[l].at))'
    BY <2>1, <2>3, <2>4, <1>5
  <2> QED
    BY <2>1, <2>5 DEF Shells, FieldsHold, Underway
<1>12. ASSUME NEW dt \in Durations, Begin(dt) PROVE Shells'
  BY <1>8, <1>12 DEF Begin, Next, frames
<1>13. CASE Timestep \/ Transport \/ Forecast \/ Reflux \/ CloseFrame
  <2>1. UNCHANGED <<cachedNested, nested, shell, force>> /\ pc # "open" /\ pc' # "close"
    BY <1>13 DEF Timestep, Transport, Forecast, Reflux, CloseFrame, frames
  <2> QED
    BY <2>1, <1>8, <1>13 DEF Next
<1>14. CASE UNCHANGED vars
  <2>1. UNCHANGED <<option, pc, lev, frame, cachedNested, nested, shell, force>>
    BY <1>14 DEF vars
  <2>2. /\ FieldsType'
        /\ (\A l \in TimeLevels : cachedNested[l].at # -1 => cachedNested[l].field = NestedAt(l, cachedNested[l].at))'
    BY <2>1, <1>3, <1>5
  <2>3. Underway' = Underway /\ \A f : IsOpen(f)' = IsOpen(f)
    BY <2>1 DEF Underway, IsOpen, Opened
  <2>4. Underway' => \A f \in TimeLevels : IsOpen(f)' => ShellAt(f, 0, frame[f].begin)'
    BY <2>1, <2>3, <1>4, <1>7 DEF ShellAt
  <2>5. pc' = "close" => ShellAt(lev, 1, Upto(lev))' /\ nested'[lev'][1] = NestedAt(lev, Upto(lev))'
    BY <2>1, <1>0, <1>4 DEF ShellAt, WholeFrom, State, Content, Upto, NestedAt
  <2> QED
    BY <2>2, <2>4, <2>5, <1>0 DEF Shells, FieldsHold
<1> QED
  BY <1>9, <1>10, <1>11, <1>12, <1>13, <1>14 DEF Next

(* The nested fields in the cache are fields of their time, and the shells *)
(* of the open frames hold their own level alone (nestedGravity,           *)
(* shellGravity).                                                          *)
THEOREM ShellsAlways == Spec => []Shells
<1>1. Init => Shells
  <2> SUFFICES ASSUME Init PROVE Shells
    OBVIOUS
  <2>1. /\ cachedNested = [l \in TimeLevels |-> [at |-> -1, field |-> NoField]]
        /\ nested = NoFields /\ shell = NoFields /\ force = NoFields /\ pc = "idle"
    BY Zenon DEF Init
  <2>2. {} \in Fields
    BY DEF Fields
  <2>3. NoFields \in [TimeLevels -> [{0, 1} -> Fields]]
    BY <2>2 DEF NoFields, NoField
  <2>4. cachedNested \in [TimeLevels -> [at : Ticks \cup {-1}, field : Fields]]
    BY <2>1, <2>2 DEF NoField
  <2> QED
    BY <2>1, <2>3, <2>4 DEF Shells, FieldsType, FieldsHold, Underway
<1>2. Timed /\ Banks /\ Shells /\ [Next]_vars => Shells'
  BY ShellsNext
<1> QED
  BY <1>1, <1>2, TimedAlways, BanksAlways, PTL DEF Spec

(* The shell of a frame is, at either end, of its own level's refluxed     *)
(* density of that very time alone, although nested fields are reused      *)
(* across frames, and the whole field of a conventional step takes open    *)
(* coarser levels at that time too (nestedGravity and shellGravity).       *)
THEOREM FieldsAreSynchronised == Spec => []FieldsSynchronised
<1>1. Timed /\ Shells => FieldsSynchronised
  <2> SUFFICES ASSUME Timed, Shells PROVE FieldsSynchronised
    OBVIOUS
  <2>1. lev \in TimeLevels
    BY DEF Timed, Control
  <2>2. ASSUME pc \in {"transport", "close"} PROVE SynchronisedAt(0, Now)
    <3>1. Underway /\ IsOpen(lev)
      BY <2>2 DEF Underway, IsOpen, Opened
    <3>2. ShellAt(lev, 0, Now)
      BY <3>1, <2>1 DEF Shells, FieldsHold, Now
    <3> QED
      BY <3>2, Zenon DEF ShellAt, SynchronisedAt, WholeFrom, WholeAt
  <2>3. ASSUME pc = "close" PROVE SynchronisedAt(1, End)
    <3>1. Underway /\ ShellAt(lev, 1, Upto(lev))
      BY <2>3 DEF Shells, FieldsHold, Underway
    <3>2. End = Upto(lev)
      BY DEF End, Now, Upto
    <3> QED
      BY <3>1, <3>2, Zenon DEF ShellAt, SynchronisedAt, WholeFrom, WholeAt
  <2> QED
    BY <2>2, <2>3 DEF FieldsSynchronised
<1> QED
  BY <1>1, TimedAlways, ShellsAlways, PTL

-----------------------------------------------------------------------------
(* A field with every level once, from each at one time.                   *)
LEMMA OncePerLevel ==
  ASSUME option \in Options, NEW t \in [TimeLevels -> Ticks]
  PROVE  OneEach({<<k, State(t[k])>> : k \in TimeLevels})
<1> DEFINE F == {<<k, State(t[k])>> : k \in TimeLevels}
<1>1. \A k \in TimeLevels : <<k, State(t[k])>> \in F /\ <<k, State(t[k])>>[1] = k
  OBVIOUS
<1>2. \A s \in F : s[1] \in TimeLevels /\ s = <<s[1], State(t[s[1]])>>
  OBVIOUS
<1> HIDE DEF F
<1>3. {s[1] : s \in F} = TimeLevels
  <2>1. \A k \in TimeLevels : \E s \in F : s[1] = k
    BY <1>1
  <2> QED
    BY <1>2, <2>1
<1>4. \A s, u \in F : s[1] = u[1] => s = u
  BY <1>2
<1> QED
  BY <1>3, <1>4 DEF OneEach, F

(* The field of all levels at one time is current for each of them.        *)
LEMMA WholeIsCurrent ==
  ASSUME option \in Options, NEW l \in TimeLevels, NEW at \in Ticks
  PROVE  Current(l, Whole(at), at) /\ Whole(at) = NestedAt(Coarsest, at)
<1>1. OneEach(Whole(at))
  <2> DEFINE t == [k \in TimeLevels |-> at]
  <2>1. t \in [TimeLevels -> Ticks] /\ \A k \in TimeLevels : t[k] = at
    OBVIOUS
  <2> HIDE DEF t
  <2>2. OneEach({<<k, State(t[k])>> : k \in TimeLevels})
    BY <2>1, OncePerLevel
  <2>3. {<<k, State(t[k])>> : k \in TimeLevels} = Whole(at)
    BY <2>1 DEF Whole
  <2> QED
    BY <2>2, <2>3
<1>2. NestedAt(l, at) \subseteq Whole(at)
  BY NestedLevels DEF NestedAt, Whole
<1>3. Nested(Coarsest) = TimeLevels
  BY LevelSet DEF Nested
<1> QED
  BY <1>1, <1>2, <1>3 DEF Current, NestedAt, Whole

(* What a closing frame publishes to the levels inside it: every source    *)
(* level once, its own and the finer at the end of the frame; the whole    *)
(* field, where no level is coarser.                                       *)
LEMMA PublishedField ==
  ASSUME Timed, Shells, pc = "close",
         NEW F, F = nested[lev][1] \cup UNION {shell[f][0] : f \in Stack(lev) \ {lev}}
  PROVE  /\ F \in Fields /\ Current(lev, F, Upto(lev))
         /\ lev = Coarsest => F = Whole(Upto(lev))
<1>0. /\ lev \in TimeLevels /\ option \in Options /\ (\A l \in TimeLevels : l \in Nat /\ Coarsest <= l) /\ Underway
      /\ Coarsest \in TimeLevels
  BY LevelSet DEF Timed, Control, Underway
<1>1. Upto(lev) \in Ticks /\ \A f \in TimeLevels : f < lev => frame[f].begin \in Ticks
  BY <1>0, Bounds
<1>2. nested[lev][1] = NestedAt(lev, Upto(lev))
  BY DEF Shells, FieldsHold
<1>3. \A f \in TimeLevels : f < lev => shell[f][0] = {<<f, State(frame[f].begin)>>}
  BY <1>0 DEF Shells, FieldsHold, ShellAt, IsOpen
<1>4. \A f : f \in Stack(lev) \ {lev} <=> f \in TimeLevels /\ f < lev
  BY <1>0 DEF Stack
<1> DEFINE t == [k \in TimeLevels |-> IF k < lev THEN frame[k].begin ELSE Upto(lev)]
<1>5. t \in [TimeLevels -> Ticks]
  BY <1>1
<1>6. \A k \in TimeLevels : (k < lev => t[k] = frame[k].begin) /\ (k >= lev => t[k] = Upto(lev))
  BY <1>0
<1> HIDE DEF t
<1>7. F = {<<k, State(t[k])>> : k \in TimeLevels}
  <2>1. ASSUME NEW s \in F PROVE \E k \in TimeLevels : s = <<k, State(t[k])>>
    <3>1. CASE s \in nested[lev][1]
      <4>1. PICK k \in Nested(lev) : s = <<k, State(Upto(lev))>>
        BY <3>1, <1>2 DEF NestedAt
      <4>2. k \in TimeLevels /\ k >= lev
        BY <4>1, <1>0, NestedLevels
      <4> QED
        BY <4>1, <4>2, <1>6
    <3>2. CASE s \notin nested[lev][1]
      <4>1. PICK f \in Stack(lev) \ {lev} : s \in shell[f][0]
        BY <2>1, <3>2
      <4>2. f \in TimeLevels /\ f < lev
        BY <4>1, <1>4
      <4>3. s = <<f, State(frame[f].begin)>>
        BY <4>1, <4>2, <1>3
      <4> QED
        BY <4>2, <4>3, <1>6
    <3> QED
      BY <3>1, <3>2
  <2>2. ASSUME NEW k \in TimeLevels PROVE <<k, State(t[k])>> \in F
    <3>1. CASE k < lev
      <4>1. k \in Stack(lev) \ {lev} /\ <<k, State(t[k])>> \in shell[k][0]
        BY <3>1, <1>3, <1>4, <1>6
      <4> QED
        BY <4>1
    <3>2. CASE ~(k < lev)
      <4>1. k \in Nested(lev) /\ t[k] = Upto(lev)
        BY <3>2, <1>0, <1>6, NestedLevels
      <4> QED
        BY <4>1, <1>2 DEF NestedAt
    <3> QED
      BY <3>1, <3>2
  <2> QED
    BY <2>1, <2>2
<1>8. OneEach(F)
  BY <1>0, <1>5, <1>7, OncePerLevel
<1>9. NestedAt(lev, Upto(lev)) \subseteq F
  BY <1>2
<1>10. F \in Fields
  <2>1. \A k \in TimeLevels : State(t[k]) \in Contents
    BY <1>5, ContentTypes
  <2> QED
    BY <1>7, <2>1 DEF Fields
<1>11. lev = Coarsest => F = Whole(Upto(lev))
  <2>1. ASSUME lev = Coarsest PROVE \A k \in TimeLevels : t[k] = Upto(lev)
    BY <2>1, <1>0, <1>6
  <2> QED
    BY <2>1, <1>7 DEF Whole
<1> QED
  BY <1>8, <1>9, <1>10, <1>11 DEF Current

(* Every step keeps the gravity beside each level's state.                 *)
LEMMA GravityNext ==
  ASSUME Timed, Banks, Shells, GravityHolds, Next
  PROVE  GravityHolds'
<1>0. /\ TimeLevels' = TimeLevels /\ Coarsest' = Coarsest /\ option \in Options /\ (\A l : Nested(l)' = Nested(l))
      /\ lev \in TimeLevels /\ (\A l \in TimeLevels : l \in Nat /\ Coarsest <= l) /\ Coarsest \in TimeLevels
      /\ bank \in {0, 1} /\ time \in Ticks
  BY OptionKept, LevelSet, Zenon DEF Timed, Control
<1>1. Ticks' = Ticks /\ Contents' = Contents
  BY ContentTypes
<1>2. Fields' = Fields
  BY <1>0, <1>1 DEF Fields
<1>3. /\ gravity \in [TimeLevels -> [0..2 -> Fields]]
      /\ ~Underway => \A l \in TimeLevels : gravity[l][bank] = Whole(time)
      /\ Underway => \A l \in TimeLevels : gravity[l][2] = Whole(time)
      /\ pc \in {"cfl", "open", "transport", "forecast"} =>
           \A k \in Nested(lev) : Current(lev, gravity[k][levels[k].bank], At(lev))
      /\ pc = "normalize" => \A k \in TimeLevels : gravity[k][levels[k].bank] = Whole(At(lev))
  BY DEF GravityHolds
<1>4. \A l \in TimeLevels : levels[l].bank \in {0, 1} /\ levels[l].bank \in 0 .. 2 /\ levels[l].bank # 2
  BY DEF Banks, BanksType, Level
<1>5. levels \in [TimeLevels -> Level]
  BY DEF Banks, BanksType
<1>6. \A l \in TimeLevels : Nested(l) \subseteq TimeLevels
  BY <1>0, NestedLevels
<1>7. ASSUME NEW t, time' = t, gravity' \in [TimeLevels -> [0..2 -> Fields]], Underway',
             \A l \in TimeLevels : gravity'[l][2] = Whole(t),
             NEW g \in TimeLevels, lev' = g, NEW at, frame'[g].from + frame'[g].elapsed = at,
             pc' \in {"cfl", "open", "transport", "forecast"} =>
               \A k \in Nested(g) : Current(g, gravity'[k][levels'[k].bank], at),
             pc' = "normalize" => \A k \in TimeLevels : gravity'[k][levels'[k].bank] = Whole(at)
      PROVE  GravityHolds'
  <2>1. gravity' \in [TimeLevels' -> [0..2 -> Fields']]
    BY <1>7, <1>0, <1>2
  <2>2. \A l \in TimeLevels' : gravity'[l][2] = Whole(time)'
    BY <1>7, <1>0 DEF Whole, State, Content
  <2>3. At(lev)' = at
    BY <1>7 DEF At
  <2>4. pc' \in {"cfl", "open", "transport", "forecast"} =>
          \A k \in Nested(lev)' : Current(lev, gravity[k][levels[k].bank], At(lev))'
    <3> SUFFICES ASSUME pc' \in {"cfl", "open", "transport", "forecast"}, NEW k \in Nested(lev)'
                 PROVE  Current(lev, gravity[k][levels[k].bank], At(lev))'
      OBVIOUS
    <3>1. k \in Nested(g)
      BY <1>7, <1>0 DEF Nested
    <3>2. Current(g, gravity'[k][levels'[k].bank], at)
      BY <3>1, <1>7
    <3> QED
      BY <3>2, <2>3, <1>0, <1>7 DEF Current, OneEach, NestedAt, Nested, State, Content
  <2>5. pc' = "normalize" => \A k \in TimeLevels' : gravity'[k][levels'[k].bank] = Whole(At(lev))'
    BY <2>3, <1>7, <1>0 DEF Whole, State, Content
  <2> QED
    BY <2>1, <2>2, <2>4, <2>5, <1>7 DEF GravityHolds
<1>8. ASSUME gravity' \in [TimeLevels -> [0..2 -> Fields]], ~Underway',
             \A l \in TimeLevels : gravity'[l][bank'] = Whole(time)'
      PROVE  GravityHolds'
  <2>1. gravity' \in [TimeLevels' -> [0..2 -> Fields']]
    BY <1>8, <1>0, <1>2
  <2>2. pc' = "idle"
    BY <1>8 DEF Underway
  <2> QED
    BY <2>1, <2>2, <1>8, <1>0 DEF GravityHolds
<1>9. ASSUME NEW dt \in Durations, Begin(dt) PROVE GravityHolds'
  <2>1. gravity' = [l \in TimeLevels |-> [gravity[l] EXCEPT ![2] = gravity[l][bank]]]
    BY <1>9 DEF Begin
  <2>2. levels' = [l \in TimeLevels |-> [bank |-> bank, begin |-> 0, end |-> 0, pending |-> FALSE]]
    BY <1>9 DEF Begin
  <2>3. pc' = "cfl" /\ lev' = Coarsest /\ time' = time /\ ~Underway /\ Underway'
    BY <1>9 DEF Begin, published, Underway
  <2>4. frame'[Coarsest].from = time /\ frame'[Coarsest].elapsed = 0
    BY <1>0, <1>9 DEF Begin, Timed, Control
  <2>5. frame'[Coarsest].from + frame'[Coarsest].elapsed = time
    <3>1. time \in Nat
      BY <1>0, FramesAssumption DEF Ticks
    <3> QED
      BY <2>4, <3>1
  <2>6. /\ gravity' \in [TimeLevels -> [0..2 -> Fields]]
        /\ \A l \in TimeLevels : gravity'[l][2] = gravity[l][bank] /\ gravity'[l][bank] = gravity[l][bank]
    <3>1. \A l \in TimeLevels : gravity[l][bank] \in Fields /\ bank \in 0 .. 2
      BY <1>0, <1>3
    <3> QED
      BY <2>1, <3>1, <1>0, <1>3
  <2>7. \A l \in TimeLevels : gravity'[l][2] = Whole(time) /\ gravity'[l][levels'[l].bank] = Whole(time)
    BY <2>2, <2>3, <2>6, <1>3
  <2>8. \A k \in Nested(Coarsest) : Current(Coarsest, gravity'[k][levels'[k].bank], time)
    BY <2>7, <1>0, <1>6, WholeIsCurrent
  <2> QED
    BY <2>3, <2>5, <2>6, <2>7, <2>8, <1>0, <1>7
<1>10. CASE Timestep \/ Open \/ Transport
  <2>1. /\ gravity' = gravity /\ lev' = lev /\ time' = time /\ pc \in {"cfl", "open", "transport"}
        /\ pc' \in {"open", "transport", "forecast"} /\ Underway /\ Underway'
    BY <1>10 DEF Timestep, Open, Transport, published, Underway
  <2>2. \A k \in TimeLevels : levels'[k].bank = levels[k].bank
    <3>1. ASSUME Transport PROVE \A k \in TimeLevels : levels'[k].bank = levels[k].bank
      <4>1. levels' = [levels EXCEPT ![lev].begin = Now, ![lev].end = End]
        BY <3>1 DEF Transport
      <4> QED
        BY <4>1, <1>0, <1>5 DEF Level
    <3>2. ASSUME Timestep \/ Open PROVE levels' = levels
      BY <3>2 DEF Timestep, Open
    <3> QED
      BY <1>10, <3>1, <3>2
  <2>3. frame'[lev].from + frame'[lev].elapsed = At(lev)
    <3>1. ASSUME Timestep PROVE frame'[lev].from = frame[lev].from /\ frame'[lev].elapsed = frame[lev].elapsed
      <4>1. PICK step : frame' = [frame EXCEPT ![lev].step = step, ![lev].begin = frame[lev].from + frame[lev].elapsed]
        BY <3>1 DEF Timestep
      <4>2. frame \in [TimeLevels -> Frame]
        BY DEF Timed, Control
      <4> QED
        BY <4>1, <4>2, <1>0 DEF Frame
    <3>2. ASSUME Open \/ Transport PROVE frame' = frame
      BY <3>2 DEF Open, Transport
    <3> QED
      BY <1>10, <3>1, <3>2 DEF At
  <2>4. \A k \in Nested(lev) : Current(lev, gravity'[k][levels'[k].bank], At(lev))
    BY <2>1, <2>2, <1>0, <1>3, <1>6
  <2> QED
    BY <2>1, <2>3, <2>4, <1>0, <1>3, <1>7
<1>11. CASE Forecast
  <2>1. gravity' = gravity /\ time' = time /\ pc = "forecast" /\ Underway /\ Underway'
    BY <1>11 DEF Forecast, published, Underway
  <2>2. CASE IsFinest(lev)
    <3>1. lev' = lev /\ pc' = "reflux"
      BY <1>11, <2>2 DEF Forecast
    <3> QED
      BY <2>1, <3>1, <1>0, <1>3, <1>7
  <2>3. CASE ~IsFinest(lev)
    <3>0. PICK g \in TimeLevels : g = Finer(lev)
      BY <2>3, <1>0, NotFinest
    <3>1. lev < g
      BY <2>3, <3>0, <1>0, NotFinest
    <3>2. /\ lev' = g /\ pc' = "cfl" /\ frame'[g].from = frame[lev].begin /\ frame'[g].elapsed = 0
      BY <3>0, <1>0, <1>11, <2>3 DEF Forecast, Now, Timed, Control
    <3>3. frame'[g].from + frame'[g].elapsed = At(lev)
      <4>1. frame[lev].begin = At(lev) /\ At(lev) \in Nat
        BY <2>1, <1>0, Bounds, FrameFields DEF Timed
      <4> QED
        BY <3>2, <4>1
    <3>4. \A k \in TimeLevels : levels'[k].bank = levels[k].bank
      BY <1>5, <1>11 DEF Forecast
    <3>5. Nested(g) \subseteq Nested(lev)
      <4>1. \A k \in TimeLevels : (k \in Nested(g) <=> k >= g) /\ (k \in Nested(lev) <=> k >= lev)
        BY <1>0, NestedLevels
      <4>2. \A k \in TimeLevels : k >= g => k >= lev
        BY <3>1, <1>0
      <4> QED
        BY <4>1, <4>2, <1>6
    <3>6. NestedAt(g, At(lev)) \subseteq NestedAt(lev, At(lev))
      BY <3>5 DEF NestedAt
    <3>7. \A k \in Nested(g) : Current(g, gravity'[k][levels'[k].bank], At(lev))
      <4> SUFFICES ASSUME NEW k \in Nested(g) PROVE Current(g, gravity'[k][levels'[k].bank], At(lev))
        OBVIOUS
      <4>1. k \in Nested(lev) /\ k \in TimeLevels
        BY <3>5, <1>0, <1>6
      <4>2. Current(lev, gravity[k][levels[k].bank], At(lev))
        BY <4>1, <2>1, <1>3
      <4> QED
        BY <4>1, <4>2, <2>1, <3>4, <3>6 DEF Current
    <3> QED
      BY <2>1, <3>2, <3>3, <3>7, <1>3, <1>7
  <2> QED
    BY <2>2, <2>3
<1>12. CASE Reflux \/ CloseShell
  <2>1. /\ gravity' = gravity /\ lev' = lev /\ time' = time /\ pc' \in {"shell", "close"} /\ Underway /\ Underway'
    BY <1>12 DEF Reflux, CloseShell, published, Underway
  <2> QED
    BY <2>1, <1>0, <1>3, <1>7
<1>13. CASE CloseFrame
  <2> DEFINE F == nested[lev][1] \cup UNION {shell[f][0] : f \in Stack(lev) \ {lev}}
  <2>1. /\ pc = "close" /\ pc' \in {"cfl", "normalize", "reflux"} /\ time' = time /\ Underway /\ Underway'
    BY <1>13 DEF CloseFrame, published, Underway
  <2>2. gravity' = [k \in TimeLevels |-> IF k \in Nested(lev)
                     THEN [gravity[k] EXCEPT ![CurrentBank(k)] = F] ELSE gravity[k]]
    BY <1>13 DEF CloseFrame
  <2>3. F \in Fields /\ Current(lev, F, Upto(lev)) /\ (lev = Coarsest => F = Whole(Upto(lev)))
    BY <2>1, PublishedField
  <2> HIDE DEF F
  <2>4. levels' = [levels EXCEPT ![lev].bank = Settled]
    BY <1>13 DEF CloseFrame
  <2>5. Settled \in {0, 1}
    BY <1>0, <1>4 DEF Settled
  <2>6. \A k \in TimeLevels : levels'[k].bank = CurrentBank(k)
    BY <2>4, <1>0, <1>5 DEF CurrentBank, Level
  <2>7. \A k \in TimeLevels : CurrentBank(k) \in 0 .. 2 /\ CurrentBank(k) # 2
    BY <2>5, <1>4 DEF CurrentBank
  <2>8. \A k \in TimeLevels : gravity'[k] \in [0..2 -> Fields]
    <3> SUFFICES ASSUME NEW k \in TimeLevels PROVE gravity'[k] \in [0..2 -> Fields]
      OBVIOUS
    <3>1. CASE k \in Nested(lev)
      <4>1. gravity'[k] = [gravity[k] EXCEPT ![CurrentBank(k)] = F]
        BY <2>2, <3>1
      <4> QED
        BY <4>1, <2>3, <2>7, <1>3
    <3>2. CASE k \notin Nested(lev)
      BY <2>2, <3>2, <1>3
    <3> QED
      BY <3>1, <3>2
  <2>9. gravity' \in [TimeLevels -> [0..2 -> Fields]]
    <3>1. gravity' = [k \in TimeLevels |-> gravity'[k]]
      BY <2>2
    <3> QED
      BY <2>8, <3>1
  <2>10. \A k \in TimeLevels : gravity'[k][2] = Whole(time)
    <3> SUFFICES ASSUME NEW k \in TimeLevels PROVE gravity'[k][2] = gravity[k][2]
      BY <2>1, <1>3
    <3>1. CASE k \in Nested(lev)
      <4>1. gravity'[k] = [gravity[k] EXCEPT ![CurrentBank(k)] = F]
        BY <2>2, <3>1
      <4> QED
        BY <4>1, <2>7, <1>3
    <3>2. CASE k \notin Nested(lev)
      BY <2>2, <3>2
    <3> QED
      BY <3>1, <3>2
  <2>11. \A k \in Nested(lev) : gravity'[k][levels'[k].bank] = F
    <3> SUFFICES ASSUME NEW k \in Nested(lev) PROVE gravity'[k][levels'[k].bank] = F
      OBVIOUS
    <3>1. k \in TimeLevels
      BY <1>0, <1>6
    <3>2. gravity'[k] = [gravity[k] EXCEPT ![CurrentBank(k)] = F]
      BY <2>2, <3>1
    <3> QED
      BY <3>1, <3>2, <2>6, <2>7, <1>3
  <2>12. PICK c \in TimeLevels : lev' = c
    BY <1>0, <1>13, CoarserLevel DEF CloseFrame
  <2>13. CASE NextElapsed < frame[lev].duration \/ lev = Coarsest
    <3>1. lev' = lev /\ pc' \in {"cfl", "normalize"} /\ (pc' = "normalize" => lev = Coarsest)
      BY <1>13, <2>13 DEF CloseFrame
    <3>2. frame'[lev].from + frame'[lev].elapsed = Upto(lev)
      <4>1. frame'[lev].from = frame[lev].from /\ frame'[lev].elapsed = frame[lev].elapsed + frame[lev].step
        BY <1>0, <1>13 DEF CloseFrame, NextElapsed, Timed, Control, Frame
      <4>2. frame[lev].begin = frame[lev].from + frame[lev].elapsed
        BY <2>1, Bounds DEF At
      <4>3. frame[lev].from \in Nat /\ frame[lev].elapsed \in Nat /\ frame[lev].step \in Nat
        BY <1>0, FrameFields DEF Timed
      <4> QED
        BY <4>1, <4>2, <4>3 DEF Upto
    <3>3. \A k \in Nested(lev) : Current(lev, gravity'[k][levels'[k].bank], Upto(lev))
      BY <2>3, <2>11
    <3>4. ASSUME pc' = "normalize" PROVE \A k \in TimeLevels : gravity'[k][levels'[k].bank] = Whole(Upto(lev))
      <4>1. lev = Coarsest /\ \A k \in TimeLevels : k \in Nested(lev)
        BY <3>1, <3>4, <1>0, NestedLevels
      <4> QED
        BY <4>1, <2>3, <2>11
    <3> QED
      BY <2>1, <2>9, <2>10, <3>1, <3>2, <3>3, <3>4, <1>0, <1>7
  <2>14. CASE ~(NextElapsed < frame[lev].duration) /\ lev # Coarsest
    <3>1. pc' = "reflux"
      BY <1>13, <2>14 DEF CloseFrame
    <3> QED
      BY <2>1, <2>9, <2>10, <2>12, <3>1, <1>7
  <2> QED
    BY <2>13, <2>14
<1>14. CASE Normalize
  <2>1. /\ gravity' = [k \in TimeLevels |-> [gravity[k] EXCEPT ![1 - bank] = gravity[k][levels[k].bank]]]
        /\ bank' = 1 - bank /\ time' = time + frame[Coarsest].duration /\ pc = "normalize"
        /\ Underway /\ ~Underway'
    BY <1>14 DEF Normalize, Return, Underway
  <2>2. lev = Coarsest /\ frame[lev].elapsed = frame[lev].duration /\ frame[Coarsest].from = time
    BY <2>1 DEF Timed, Clock
  <2>3. At(lev) = time'
    BY <2>1, <2>2 DEF At
  <2>4. 1 - bank \in 0 .. 2 /\ \A k \in TimeLevels : gravity[k][levels[k].bank] \in Fields
    BY <1>0, <1>3, <1>4
  <2>5. /\ gravity' \in [TimeLevels -> [0..2 -> Fields]]
        /\ \A k \in TimeLevels : gravity'[k][1 - bank] = gravity[k][levels[k].bank]
    BY <2>1, <2>4, <1>3
  <2>6. \A k \in TimeLevels : gravity'[k][bank'] = Whole(time)'
    <3>1. \A k \in TimeLevels : gravity'[k][bank'] = Whole(At(lev))
      BY <2>1, <2>5, <1>3
    <3> QED
      BY <3>1, <2>3, <1>0 DEF Whole, State, Content
  <2> QED
    BY <2>1, <2>5, <2>6, <1>8
<1>15. CASE Fail
  <2>1. /\ gravity' = [k \in TimeLevels |-> [gravity[k] EXCEPT ![bank] = gravity[k][2]]]
        /\ bank' = bank /\ time' = time /\ Underway /\ ~Underway'
    BY <1>15 DEF Fail, Return, Underway, published
  <2>2. bank \in 0 .. 2 /\ \A k \in TimeLevels : gravity[k][2] \in Fields
    BY <1>0, <1>3
  <2>3. /\ gravity' \in [TimeLevels -> [0..2 -> Fields]]
        /\ \A k \in TimeLevels : gravity'[k][bank] = gravity[k][2]
    BY <2>1, <2>2, <1>3
  <2>4. \A k \in TimeLevels : gravity'[k][bank'] = Whole(time)'
    <3>1. \A k \in TimeLevels : gravity'[k][bank'] = Whole(time)
      BY <2>1, <2>3, <1>3
    <3> QED
      BY <3>1, <2>1, <1>0 DEF Whole, State, Content
  <2> QED
    BY <2>1, <2>3, <2>4, <1>8
<1> QED
  BY <1>9, <1>10, <1>11, <1>12, <1>13, <1>14, <1>15 DEF Next

(* The gravity beside the state of a level is current for it, in the       *)
(* published bank, in the backup and in the banks the interval works on    *)
(* (Begin, closeGravityFrame, Normalize, Restore).                         *)
THEOREM GravityAlways == Spec => []GravityHolds
<1>1. Init => GravityHolds
  <2> SUFFICES ASSUME Init PROVE GravityHolds
    OBVIOUS
  <2>1. /\ pc = "idle" /\ time = 0 /\ bank = 0
        /\ gravity = [l \in TimeLevels |-> [b \in 0..2 |->
             IF b = 0 THEN {<<k, State(0)>> : k \in TimeLevels} ELSE NoField]]
    BY Zenon DEF Init
  <2>2. 0 \in Ticks
    BY FramesAssumption DEF Ticks
  <2>3. State(0) \in Contents
    BY <2>2 DEF Contents, State, Content
  <2>4. {<<k, State(0)>> : k \in TimeLevels} \in Fields /\ NoField \in Fields
    BY <2>3 DEF Fields, NoField
  <2>5. gravity = [l \in TimeLevels |-> [b \in 0..2 |-> IF b = 0 THEN Whole(0) ELSE NoField]] /\ Whole(0) \in Fields
    BY <2>1, <2>4, Zenon DEF Whole
  <2>6. gravity \in [TimeLevels -> [0..2 -> Fields]] /\ \A l \in TimeLevels : gravity[l][0] = Whole(0)
    BY <2>4, <2>5
  <2> QED
    BY <2>1, <2>6 DEF GravityHolds, Underway
<1>2. Timed /\ Banks /\ Shells /\ GravityHolds /\ [Next]_vars => GravityHolds'
  <2>1. ASSUME Timed, GravityHolds, UNCHANGED vars PROVE GravityHolds'
    BY <2>1, ContentTypes, OptionKept
       DEF vars, published, GravityHolds, Underway, Whole, Current, OneEach, NestedAt, Nested, State, Content, At, Fields
  <2> QED
    BY <2>1, GravityNext
<1> QED
  BY <1>1, <1>2, TimedAlways, BanksAlways, ShellsAlways, PTL DEF Spec

(* Between calls, whatever failed, the published gravity is the field of   *)
(* the published densities; and when a level chooses its step, the field   *)
(* in its bank has every source level once, its own and the finer at the   *)
(* present time (closeGravityFrame, Normalize and Restore).                *)
THEOREM GravityIsCurrent == Spec => []GravityCurrent
<1>1. Timed /\ Banks /\ GravityHolds => GravityCurrent
  <2> SUFFICES ASSUME Timed, Banks, GravityHolds PROVE GravityCurrent
    OBVIOUS
  <2>0. option \in Options /\ lev \in TimeLevels
    BY DEF Timed, Control
  <2>1. pc = "idle" => \A l \in TimeLevels : gravity[l][bank] = {<<k, State(time)>> : k \in TimeLevels}
    BY DEF GravityHolds, Underway, Whole
  <2>2. ASSUME pc = "cfl", NEW field, field = gravity[lev][levels[lev].bank],
               NEW now, now = frame[lev].from + frame[lev].elapsed
        PROVE  /\ {<<k, State(now)>> : k \in Nested(lev)} \subseteq field
               /\ Cardinality(field) = Cardinality(TimeLevels) /\ {s[1] : s \in field} = TimeLevels
    <3>1. lev \in Nested(lev)
      BY <2>0, NestedLevels
    <3>2. Current(lev, field, now)
      BY <2>2, <3>1 DEF GravityHolds, At
    <3>3. OneEach(field) /\ NestedAt(lev, now) \subseteq field
      BY <3>2 DEF Current
    <3>4. Cardinality(field) = Cardinality(TimeLevels)
      <4> DEFINE source == [s \in field |-> s[1]]
      <4>1. source \in Bijection(field, TimeLevels)
        <5>1. source \in [field -> TimeLevels]
          BY <3>3 DEF OneEach
        <5>2. \A s, u \in field : source[s] = source[u] => s = u
          BY <3>3 DEF OneEach
        <5>3. \A k \in TimeLevels : \E s \in field : source[s] = k
          BY <3>3 DEF OneEach
        <5> QED
          BY <5>1, <5>2, <5>3 DEF Bijection, Injection, Surjection, IsInjective
      <4> HIDE DEF source
      <4>2. ExistsBijection(TimeLevels, field)
        BY <4>1, Fun_ExistsBijSymmetric DEF ExistsBijection
      <4>3. IsFiniteSet(TimeLevels)
        BY <2>0, LevelSet
      <4>4. IsFiniteSet(field)
        BY <4>2, <4>3, FS_Bijection DEF ExistsBijection
      <4> QED
        BY <4>2, <4>3, FS_Bijection DEF ExistsBijection
    <3> QED
      BY <3>3, <3>4 DEF OneEach, NestedAt
  <2> QED
    BY <2>1, <2>2 DEF GravityCurrent
<1> QED
  BY <1>1, TimedAlways, BanksAlways, GravityAlways, PTL

-----------------------------------------------------------------------------
(* An open frame's time covers what the levels inside it have done.        *)
LEMMA ReachedWithin ==
  ASSUME Timed, Underway
  PROVE  /\ \A k \in TimeLevels : Reached(k) \in Ticks /\ Closed(k) \in Ticks /\ time <= Reached(k)
         /\ \A f, k \in TimeLevels : IsOpen(f) /\ k >= f =>
              frame[f].begin \in Ticks /\ frame[f].begin <= Reached(k) /\ Reached(k) <= Upto(f) /\ frame[f].begin <= Closed(k)
         /\ pc = "close" => \A k \in TimeLevels : (k >= lev => Reached(k) = Upto(lev)) /\ (k > lev => Closed(k) = Upto(lev))
         /\ pc \in {"open", "transport"} => \A k \in TimeLevels : k >= lev => Reached(k) = At(lev) /\ Closed(k) = At(lev)
         /\ Closed(lev) = At(lev)
<1>0. lev \in TimeLevels /\ (\A l \in TimeLevels : l \in Nat) /\ Ticks = 0 .. MaxTime /\ MaxTime \in Nat /\ time \in Nat
  BY LevelSet, FramesAssumption DEF Timed, Control, Ticks
<1>1. /\ At(lev) \in Ticks /\ time <= At(lev)
      /\ \A f \in TimeLevels : f < lev => frame[f].begin \in Ticks /\ Upto(f) \in Ticks
      /\ \A f \in TimeLevels : f < lev => time <= frame[f].begin /\ time <= Upto(f)
      /\ pc \notin {"cfl", "normalize"} => Upto(lev) \in Ticks /\ At(lev) <= Upto(lev) /\ frame[lev].begin = At(lev)
      /\ \A f \in TimeLevels : f < lev =>
           /\ frame[f].begin <= At(lev) /\ At(lev) <= Upto(f)
           /\ pc \notin {"cfl", "normalize"} => Upto(lev) <= Upto(f)
  BY Bounds
<1>2. ASSUME NEW k \in TimeLevels
      PROVE  Reached(k) \in Ticks /\ Closed(k) \in Ticks /\ time <= Reached(k)
  <2>1. CASE k < lev
    BY <2>1, <1>1 DEF Reached, Closed
  <2>2. CASE ~(k < lev) /\ (Closing \/ (k = lev /\ pc = "forecast"))
    <3>1. Reached(k) = Upto(lev) /\ Closed(k) \in {Upto(lev), At(lev)}
      BY <2>2 DEF Reached, Closed
    <3>2. Upto(lev) \in Ticks /\ At(lev) <= Upto(lev)
      BY <2>2, <1>1 DEF Closing
    <3>3. time <= Upto(lev)
      BY <3>2, <1>0, <1>1
    <3> QED
      BY <3>1, <3>2, <3>3, <1>1
  <2>3. CASE ~(k < lev) /\ ~(Closing \/ (k = lev /\ pc = "forecast"))
    <3>1. Reached(k) = At(lev) /\ Closed(k) = At(lev)
      BY <2>3 DEF Reached, Closed
    <3> QED
      BY <3>1, <1>1
  <2> QED
    BY <2>1, <2>2, <2>3
<1>3. ASSUME NEW f \in TimeLevels, NEW k \in TimeLevels, IsOpen(f), k >= f
      PROVE  frame[f].begin \in Ticks /\ frame[f].begin <= Reached(k) /\ Reached(k) <= Upto(f) /\ frame[f].begin <= Closed(k)
  <2>1. /\ frame[f].begin \in Ticks /\ frame[f].begin <= At(lev) /\ At(lev) \in Ticks /\ Upto(f) \in Nat
        /\ frame[f].begin <= Upto(f)
        /\ pc \notin {"cfl", "normalize"} => Upto(lev) <= Upto(f) /\ At(lev) <= Upto(lev)
    <3>1. Upto(f) \in Nat /\ frame[f].begin \in Nat /\ frame[f].step \in Nat
      BY FrameFields DEF Timed
    <3>2. frame[f].begin <= Upto(f)
      BY <3>1 DEF Upto
    <3>3. CASE f < lev
      BY <3>1, <3>2, <3>3, <1>1
    <3>4. CASE f = lev /\ Opened
      <4>1. pc \notin {"cfl", "normalize"}
        BY <3>4 DEF Opened
      <4>2. frame[f].begin = At(lev) /\ At(lev) <= Upto(lev) /\ At(lev) \in Ticks
        BY <4>1, <3>4, <1>1
      <4>3. Upto(lev) <= Upto(f) /\ frame[f].begin <= At(lev)
        BY <4>2, <3>4, <1>0, <1>1, <3>1
      <4> QED
        BY <4>2, <4>3, <3>1, <3>2
    <3> QED
      BY <1>3, <3>3, <3>4 DEF IsOpen
  <2>2. At(lev) <= Upto(f)
    <3>1. f < lev => At(lev) <= Upto(f)
      BY <1>1
    <3>2. f = lev /\ Opened => At(lev) <= Upto(lev)
      BY <1>1 DEF Opened
    <3> QED
      BY <3>1, <3>2, <1>3 DEF IsOpen
  <2>3. CASE k < lev
    <3>1. Reached(k) = Upto(k) /\ Closed(k) = frame[k].begin
      BY <2>3 DEF Reached, Closed
    <3>2. f < lev
      BY <2>3, <1>0, <1>3
    <3>3. CASE f = k
      <4>1. frame[f].begin \in Nat /\ Upto(f) \in Nat
        BY FrameFields DEF Timed
      <4> QED
        BY <2>1, <3>1, <3>3, <4>1
    <3>4. CASE f # k
      <4>1. f < k /\ k <= lev
        BY <3>4, <2>3, <1>0, <1>3
      <4>2. Inside(k, f) /\ Started(k)
        BY <4>1, <2>3 DEF Timed, Clock
      <4>3. /\ frame[k].from \in Nat /\ frame[k].duration \in Nat /\ frame[k].elapsed \in Nat /\ frame[k].begin \in Nat
            /\ frame[k].step \in Nat /\ frame[f].begin \in Nat
        BY FrameFields DEF Timed
      <4>4. frame[f].begin <= frame[k].from /\ frame[k].from + frame[k].duration <= Upto(f)
        BY <4>2 DEF Inside
      <4>5. frame[k].begin = frame[k].from + frame[k].elapsed /\ Upto(k) = frame[k].begin + frame[k].step
            /\ Upto(k) <= frame[k].from + frame[k].duration
        BY <4>2 DEF Started, At, Upto
      <4>6. frame[f].begin <= frame[k].begin /\ frame[f].begin <= Upto(k)
        BY <4>3, <4>4, <4>5
      <4>7. Upto(k) <= Upto(f)
        BY <4>3, <4>4, <4>5, <2>1
      <4> QED
        BY <3>1, <4>6, <4>7, <2>1
    <3> QED
      BY <3>3, <3>4
  <2>4. CASE ~(k < lev) /\ (Closing \/ (k = lev /\ pc = "forecast"))
    <3>1. Reached(k) = Upto(lev) /\ Closed(k) \in {Upto(lev), At(lev)}
      BY <2>4 DEF Reached, Closed
    <3>2. Upto(lev) \in Ticks /\ At(lev) <= Upto(lev) /\ Upto(lev) <= Upto(f)
      BY <2>1, <2>4, <1>1 DEF Closing
    <3>3. frame[f].begin <= Upto(lev)
      BY <3>2, <2>1, <1>0
    <3> QED
      BY <3>1, <3>2, <3>3, <2>1
  <2>5. CASE ~(k < lev) /\ ~(Closing \/ (k = lev /\ pc = "forecast"))
    <3>1. Reached(k) = At(lev) /\ Closed(k) = At(lev)
      BY <2>5 DEF Reached, Closed
    <3> QED
      BY <3>1, <2>1, <2>2
  <2> QED
    BY <2>3, <2>4, <2>5
<1>4. ASSUME pc = "close", NEW k \in TimeLevels
      PROVE  (k >= lev => Reached(k) = Upto(lev)) /\ (k > lev => Closed(k) = Upto(lev))
  BY <1>0, <1>4 DEF Reached, Closed, Closing
<1>5. ASSUME pc \in {"open", "transport"}, NEW k \in TimeLevels, k >= lev
      PROVE  Reached(k) = At(lev) /\ Closed(k) = At(lev)
  BY <1>0, <1>5 DEF Reached, Closed, Closing
<1>6. Closed(lev) = At(lev)
  BY <1>0 DEF Closed
<1> QED
  BY <1>2, <1>3, <1>4, <1>5, <1>6

(* The books of a frame that just opened.                                  *)
LEMMA ZeroBook == /\ Zero \in [TimeLevels -> Int] /\ IsBook(ZeroEach)
                  /\ \A l \in TimeLevels : Zero[l] = 0 /\ ZeroEach[l] = Zero
                  /\ [f \in TimeLevels |-> ZeroEach] \in [TimeLevels -> [TimeLevels -> [TimeLevels -> Int]]]
BY DEF Zero, ZeroEach, IsBook

(* What the work of a step stands for: its kick for the levels that hold   *)
(* it, its energy for every level.                                         *)
LEMMA WorkOfStep ==
  ASSUME Timed, NEW k \in TimeLevels
  PROVE  /\ Kicked(lev, k) = IF Holds(lev, k) THEN frame[lev].step ELSE 0
         /\ Provisional(lev, k) = frame[lev].step
         /\ frame[lev].step \in Nat
<1>0. lev \in TimeLevels /\ \A l \in TimeLevels : l \in Nat
  BY LevelSet DEF Timed, Control
<1>1. frame[lev].step \in Nat
  BY <1>0, FrameFields DEF Timed
<1>2. Kicked(lev, k) = IF Holds(lev, k) THEN frame[lev].step ELSE 0
  BY DEF Kicked, Holds
<1>3. \E f \in Stack(lev) : Carried(f, k)
  <2>1. CASE k >= lev
    BY <2>1, <1>0 DEF Stack, Carried
  <2>2. CASE ~(k >= lev)
    <3>1. k \in Stack(lev) /\ k # lev
      BY <2>2, <1>0 DEF Stack
    <3>2. Carried(k, k)
      BY <3>1 DEF Carried
    <3> QED
      BY <3>1, <3>2
  <2> QED
    BY <2>1, <2>2
<1> QED
  BY <1>1, <1>2, <1>3 DEF Provisional

(* Opening empties the books of its frame alone.                           *)
LEMMA OpenBooks ==
  ASSUME Timed, BooksType, Open
  PROVE  /\ BooksType' /\ momentum' = momentum /\ energy' = energy
         /\ \A f, k \in TimeLevels :
              /\ impulse'[f][k] = IF f = lev THEN 0 ELSE impulse[f][k]
              /\ flux'[f][k] = IF f = lev THEN 0 ELSE flux[f][k]
              /\ deferred'[f][k] = IF f = lev THEN 0 ELSE deferred[f][k]
         /\ \A f, k, m \in TimeLevels : applied'[f][k][m] = IF f = lev THEN 0 ELSE applied[f][k][m]
<1>0. lev \in TimeLevels /\ option' = option /\ TimeLevels' = TimeLevels
  BY DEF Timed, Control, Open, TimeLevels
<1>1. /\ impulse' = [impulse EXCEPT ![lev] = Zero] /\ flux' = [flux EXCEPT ![lev] = Zero]
      /\ deferred' = [deferred EXCEPT ![lev] = Zero] /\ applied' = [applied EXCEPT ![lev] = ZeroEach]
      /\ momentum' = momentum /\ energy' = energy
  BY DEF Open, FreshImpulse, FreshDeferred
<1>2. /\ IsBook(impulse) /\ IsBook(flux) /\ IsBook(deferred) /\ IsBook(momentum) /\ IsBook(energy)
      /\ applied \in [TimeLevels -> [TimeLevels -> [TimeLevels -> Int]]]
  BY DEF BooksType
<1>3. Zero \in [TimeLevels -> Int] /\ ZeroEach \in [TimeLevels -> [TimeLevels -> Int]]
      /\ \A l \in TimeLevels : Zero[l] = 0 /\ ZeroEach[l] = Zero
  BY ZeroBook DEF IsBook
<1>4. IsBook(impulse') /\ impulse'[lev] = Zero /\ \A k \in TimeLevels : k # lev => impulse'[k] = impulse[k]
  BY <1>0, <1>1, <1>2, <1>3 DEF IsBook
<1>5. IsBook(flux') /\ flux'[lev] = Zero /\ \A k \in TimeLevels : k # lev => flux'[k] = flux[k]
  BY <1>0, <1>1, <1>2, <1>3 DEF IsBook
<1>6. IsBook(deferred') /\ deferred'[lev] = Zero /\ \A k \in TimeLevels : k # lev => deferred'[k] = deferred[k]
  BY <1>0, <1>1, <1>2, <1>3 DEF IsBook
<1>7. /\ applied' \in [TimeLevels -> [TimeLevels -> [TimeLevels -> Int]]] /\ applied'[lev] = ZeroEach
      /\ \A f \in TimeLevels : f # lev => applied'[f] = applied[f]
  BY <1>0, <1>1, <1>2, <1>3
<1>8. BooksType'
  <2>1. IsBook(momentum') /\ IsBook(energy')
    BY <1>1, <1>2
  <2> QED
    BY <1>0, <1>4, <1>5, <1>6, <1>7, <2>1 DEF BooksType, IsBook
<1>9. ASSUME NEW f \in TimeLevels, NEW k \in TimeLevels
      PROVE  /\ impulse'[f][k] = IF f = lev THEN 0 ELSE impulse[f][k]
             /\ flux'[f][k] = IF f = lev THEN 0 ELSE flux[f][k]
             /\ deferred'[f][k] = IF f = lev THEN 0 ELSE deferred[f][k]
             /\ \A m \in TimeLevels : applied'[f][k][m] = IF f = lev THEN 0 ELSE applied[f][k][m]
  BY <1>3, <1>4, <1>5, <1>6, <1>7, Zenon
<1> QED
  BY <1>1, <1>8, <1>9

(* A step is booked for its level in every frame on the stack.             *)
LEMMA TransportBooks ==
  ASSUME Timed, BooksType, Transport
  PROVE  /\ BooksType' /\ deferred' = deferred
         /\ \A f, k \in TimeLevels :
              /\ impulse'[f][k] = IF f <= lev /\ k = lev
                   THEN impulse[f][k] + (IF Holds(lev, f) THEN frame[lev].step ELSE 0) ELSE impulse[f][k]
              /\ flux'[f][k] = IF f <= lev /\ k = lev THEN flux[f][k] + frame[lev].step ELSE flux[f][k]
              /\ momentum'[f][k] = IF f = lev
                   THEN momentum[f][k] + (IF Holds(lev, k) THEN frame[lev].step ELSE 0) ELSE momentum[f][k]
              /\ energy'[f][k] = IF f = lev THEN energy[f][k] + frame[lev].step ELSE energy[f][k]
         /\ \A f, k, m \in TimeLevels : applied'[f][k][m] = IF f <= lev /\ k = lev
              THEN applied[f][k][m] + (IF Carried(f, m) THEN frame[lev].step ELSE 0) ELSE applied[f][k][m]
<1>0. lev \in TimeLevels /\ option' = option /\ TimeLevels' = TimeLevels /\ \A l \in TimeLevels : l \in Nat
  BY LevelSet DEF Timed, Control, Transport, TimeLevels
<1>1. /\ IsBook(impulse) /\ IsBook(flux) /\ IsBook(deferred) /\ IsBook(momentum) /\ IsBook(energy)
      /\ applied \in [TimeLevels -> [TimeLevels -> [TimeLevels -> Int]]]
  BY DEF BooksType
<1>2. frame[lev].step \in Int /\ \A k \in TimeLevels :
        /\ Kicked(lev, k) = IF Holds(lev, k) THEN frame[lev].step ELSE 0
        /\ Provisional(lev, k) = frame[lev].step
        /\ Kicked(lev, k) \in Int
  BY WorkOfStep, <1>0
<1>3. \A f \in TimeLevels : f \in Stack(lev) <=> f <= lev
  BY DEF Stack
<1>4. /\ IsBook(impulse')
      /\ \A f, k \in TimeLevels : impulse'[f][k] = IF f <= lev /\ k = lev THEN impulse[f][k] + Kicked(lev, f) ELSE impulse[f][k]
  <2>1. impulse' = [f \in TimeLevels |-> IF f \in Stack(lev)
          THEN [impulse[f] EXCEPT ![lev] = @ + Kicked(lev, f)] ELSE impulse[f]]
    BY DEF Transport
  <2>2. ASSUME NEW f \in TimeLevels
        PROVE  /\ impulse'[f] \in [TimeLevels -> Int]
               /\ \A k \in TimeLevels :
                    impulse'[f][k] = IF f <= lev /\ k = lev THEN impulse[f][k] + Kicked(lev, f) ELSE impulse[f][k]
    <3>1. impulse[f] \in [TimeLevels -> Int] /\ Kicked(lev, f) \in Int
      BY <1>1, <1>2 DEF IsBook
    <3>2. impulse'[f] = IF f <= lev THEN [impulse[f] EXCEPT ![lev] = @ + Kicked(lev, f)] ELSE impulse[f]
      BY <2>1, <1>3
    <3> HIDE DEF Kicked
    <3> QED
      BY <3>1, <3>2, <1>0
  <2> QED
    BY <2>1, <2>2 DEF IsBook
<1>5. /\ IsBook(flux')
      /\ \A f, k \in TimeLevels : flux'[f][k] = IF f <= lev /\ k = lev THEN flux[f][k] + frame[lev].step ELSE flux[f][k]
  <2>1. flux' = [f \in TimeLevels |-> IF f \in Stack(lev)
          THEN [flux[f] EXCEPT ![lev] = @ + frame[lev].step] ELSE flux[f]]
    BY DEF Transport
  <2>2. ASSUME NEW f \in TimeLevels
        PROVE  /\ flux'[f] \in [TimeLevels -> Int]
               /\ \A k \in TimeLevels :
                    flux'[f][k] = IF f <= lev /\ k = lev THEN flux[f][k] + frame[lev].step ELSE flux[f][k]
    <3>1. flux[f] \in [TimeLevels -> Int]
      BY <1>1 DEF IsBook
    <3>2. flux'[f] = IF f <= lev THEN [flux[f] EXCEPT ![lev] = @ + frame[lev].step] ELSE flux[f]
      BY <2>1, <1>3
    <3> QED
      BY <3>1, <3>2, <1>0, <1>2
  <2> QED
    BY <2>1, <2>2 DEF IsBook
<1>6. /\ applied' \in [TimeLevels -> [TimeLevels -> [TimeLevels -> Int]]]
      /\ \A f, k, m \in TimeLevels : applied'[f][k][m] = IF f <= lev /\ k = lev
           THEN applied[f][k][m] + (IF Carried(f, m) THEN frame[lev].step ELSE 0) ELSE applied[f][k][m]
  <2>1. applied' = [f \in TimeLevels |-> IF f \in Stack(lev)
          THEN [applied[f] EXCEPT ![lev] = [k \in TimeLevels |->
                 @[k] + IF Carried(f, k) THEN frame[lev].step ELSE 0]] ELSE applied[f]]
    BY DEF Transport
  <2>2. ASSUME NEW f \in TimeLevels
        PROVE  /\ applied'[f] \in [TimeLevels -> [TimeLevels -> Int]]
               /\ \A k, m \in TimeLevels : applied'[f][k][m] = IF f <= lev /\ k = lev
                    THEN applied[f][k][m] + (IF Carried(f, m) THEN frame[lev].step ELSE 0) ELSE applied[f][k][m]
    <3> DEFINE add(m) == IF Carried(f, m) THEN frame[lev].step ELSE 0
    <3>1. applied[f] \in [TimeLevels -> [TimeLevels -> Int]]
      BY <1>1
    <3>2. \A m \in TimeLevels : add(m) \in Int
      BY <1>2
    <3>3. f <= lev => applied'[f] = [applied[f] EXCEPT ![lev] = [m \in TimeLevels |-> applied[f][lev][m] + add(m)]]
      BY <2>1, <1>3, <1>0, <3>1
    <3>4. ~(f <= lev) => applied'[f] = applied[f]
      BY <2>1, <1>3
    <3> HIDE DEF add
    <3>5. [m \in TimeLevels |-> applied[f][lev][m] + add(m)] \in [TimeLevels -> Int]
      BY <3>1, <3>2, <1>0
    <3>6. /\ applied'[f] \in [TimeLevels -> [TimeLevels -> Int]]
          /\ \A k, m \in TimeLevels : applied'[f][k][m] = IF f <= lev /\ k = lev THEN applied[f][k][m] + add(m) ELSE applied[f][k][m]
      <4>1. CASE f <= lev
        BY <4>1, <3>1, <3>3, <3>5, <1>0
      <4>2. CASE ~(f <= lev)
        BY <4>2, <3>1, <3>4
      <4> QED
        BY <4>1, <4>2
    <3> QED
      BY <3>6 DEF add
  <2> QED
    BY <2>1, <2>2
<1>7. /\ IsBook(momentum')
      /\ \A f, k \in TimeLevels : momentum'[f][k] = IF f = lev THEN momentum[f][k] + Kicked(lev, k) ELSE momentum[f][k]
  <2>1. momentum' = [momentum EXCEPT ![lev] = [k \in TimeLevels |-> momentum[lev][k] + Kicked(lev, k)]]
    BY <1>0, <1>1 DEF Transport, IsBook
  <2>2. [k \in TimeLevels |-> momentum[lev][k] + Kicked(lev, k)] \in [TimeLevels -> Int]
    BY <1>0, <1>1, <1>2 DEF IsBook
  <2>3. /\ IsBook(momentum') /\ momentum'[lev] = [k \in TimeLevels |-> momentum[lev][k] + Kicked(lev, k)]
        /\ \A k \in TimeLevels : k # lev => momentum'[k] = momentum[k]
    BY <2>1, <2>2, <1>0, <1>1 DEF IsBook
  <2> QED
    BY <2>3, <1>0
<1>8. /\ IsBook(energy')
      /\ \A f, k \in TimeLevels : energy'[f][k] = IF f = lev THEN energy[f][k] + Provisional(lev, k) ELSE energy[f][k]
  <2>1. energy' = [energy EXCEPT ![lev] = [k \in TimeLevels |-> energy[lev][k] + Provisional(lev, k)]]
    BY <1>0, <1>1 DEF Transport, IsBook
  <2>2. [k \in TimeLevels |-> energy[lev][k] + Provisional(lev, k)] \in [TimeLevels -> Int]
    BY <1>0, <1>1, <1>2 DEF IsBook
  <2>3. /\ IsBook(energy') /\ energy'[lev] = [k \in TimeLevels |-> energy[lev][k] + Provisional(lev, k)]
        /\ \A k \in TimeLevels : k # lev => energy'[k] = energy[k]
    BY <2>1, <2>2, <1>0, <1>1 DEF IsBook
  <2> QED
    BY <2>3, <1>0
<1>9. deferred' = deferred
  BY DEF Transport
<1>10. BooksType'
  BY <1>0, <1>1, <1>4, <1>5, <1>6, <1>7, <1>8, <1>9 DEF BooksType, IsBook
<1>11. ASSUME NEW f \in TimeLevels, NEW k \in TimeLevels
       PROVE  /\ impulse'[f][k] = IF f <= lev /\ k = lev
                   THEN impulse[f][k] + (IF Holds(lev, f) THEN frame[lev].step ELSE 0) ELSE impulse[f][k]
              /\ momentum'[f][k] = IF f = lev
                   THEN momentum[f][k] + (IF Holds(lev, k) THEN frame[lev].step ELSE 0) ELSE momentum[f][k]
              /\ energy'[f][k] = IF f = lev THEN energy[f][k] + frame[lev].step ELSE energy[f][k]
  <2>1. /\ Kicked(lev, f) = IF Holds(lev, f) THEN frame[lev].step ELSE 0
        /\ Kicked(lev, k) = IF Holds(lev, k) THEN frame[lev].step ELSE 0
        /\ Provisional(lev, k) = frame[lev].step
    BY <1>2
  <2>2. /\ impulse'[f][k] = IF f <= lev /\ k = lev THEN impulse[f][k] + Kicked(lev, f) ELSE impulse[f][k]
        /\ momentum'[f][k] = IF f = lev THEN momentum[f][k] + Kicked(lev, k) ELSE momentum[f][k]
        /\ energy'[f][k] = IF f = lev THEN energy[f][k] + Provisional(lev, k) ELSE energy[f][k]
    BY <1>4, <1>7, <1>8
  <2> QED
    BY <2>1, <2>2
<1> QED
  BY <1>5, <1>6, <1>9, <1>10, <1>11

(* Closing a frame replaces what its level and the finer ones had from it, *)
(* and defers its own work to the coarser.                                 *)
LEMMA CloseBooks ==
  ASSUME Timed, BooksType, CloseFrame
  PROVE  /\ BooksType' /\ impulse' = impulse /\ flux' = flux /\ applied' = applied
         /\ \A f, k \in TimeLevels :
              /\ momentum'[f][k] = IF Holds(f, lev) /\ k = lev
                   THEN momentum[f][k] + frame[lev].step - impulse[lev][f] ELSE momentum[f][k]
              /\ energy'[f][k] = IF f < lev THEN energy[f][k]
                   ELSE energy[f][k] - applied[lev][f][k]
                          + (IF k = lev THEN flux[lev][f] ELSE 0) + (IF f = lev THEN deferred[f][k] ELSE 0)
              /\ deferred'[f][k] = IF f < lev /\ k = lev THEN deferred[f][k] + frame[lev].step ELSE deferred[f][k]
<1>0. lev \in TimeLevels /\ option' = option /\ TimeLevels' = TimeLevels /\ \A l \in TimeLevels : l \in Nat
  BY LevelSet DEF Timed, Control, CloseFrame, TimeLevels
<1>1. /\ IsBook(impulse) /\ IsBook(flux) /\ IsBook(deferred) /\ IsBook(momentum) /\ IsBook(energy)
      /\ applied \in [TimeLevels -> [TimeLevels -> [TimeLevels -> Int]]]
  BY DEF BooksType
<1>2. impulse' = impulse /\ flux' = flux /\ applied' = applied
  BY DEF CloseFrame, frames
<1>3. frame[lev].step \in Int
  BY WorkOfStep, <1>0
<1>4. \A k \in TimeLevels : (IF option.conventional THEN k = lev ELSE k >= lev) <=> Holds(k, lev)
  BY <1>0 DEF Holds
<1>5. /\ IsBook(momentum')
      /\ \A f, k \in TimeLevels : momentum'[f][k] = IF Holds(f, lev) /\ k = lev
                   THEN momentum[f][k] + frame[lev].step - impulse[lev][f] ELSE momentum[f][k]
  <2>1. momentum' = [f \in TimeLevels |-> IF (IF option.conventional THEN f = lev ELSE f >= lev)
          THEN [momentum[f] EXCEPT ![lev] = @ + frame[lev].step - impulse[lev][f]] ELSE momentum[f]]
    BY DEF CloseFrame, CloseLedger
  <2>2. ASSUME NEW f \in TimeLevels
        PROVE  /\ momentum'[f] \in [TimeLevels -> Int]
               /\ \A k \in TimeLevels : momentum'[f][k] = IF Holds(f, lev) /\ k = lev
                    THEN momentum[f][k] + frame[lev].step - impulse[lev][f] ELSE momentum[f][k]
    <3>1. momentum[f] \in [TimeLevels -> Int] /\ impulse[lev][f] \in Int
      BY <1>0, <1>1 DEF IsBook
    <3>2. momentum'[f] = IF Holds(f, lev)
            THEN [momentum[f] EXCEPT ![lev] = @ + frame[lev].step - impulse[lev][f]] ELSE momentum[f]
      BY <2>1, <1>4
    <3>3. CASE Holds(f, lev)
      <4>1. momentum'[f] = [momentum[f] EXCEPT ![lev] = @ + frame[lev].step - impulse[lev][f]]
        BY <3>2, <3>3
      <4> QED
        BY <4>1, <3>1, <3>3, <1>0, <1>3
    <3>4. CASE ~Holds(f, lev)
      BY <3>1, <3>2, <3>4
    <3> QED
      BY <3>3, <3>4
  <2> QED
    BY <2>1, <2>2 DEF IsBook
<1>6. /\ IsBook(deferred')
      /\ \A f, k \in TimeLevels :
           deferred'[f][k] = IF f < lev /\ k = lev THEN deferred[f][k] + frame[lev].step ELSE deferred[f][k]
  <2>1. deferred' = [f \in TimeLevels |-> IF f < lev
          THEN [deferred[f] EXCEPT ![lev] = @ + frame[lev].step] ELSE deferred[f]]
    BY DEF CloseFrame, CloseLedger
  <2>2. ASSUME NEW f \in TimeLevels
        PROVE  /\ deferred'[f] \in [TimeLevels -> Int]
               /\ \A k \in TimeLevels :
                    deferred'[f][k] = IF f < lev /\ k = lev THEN deferred[f][k] + frame[lev].step ELSE deferred[f][k]
    <3>1. deferred[f] \in [TimeLevels -> Int]
      BY <1>1 DEF IsBook
    <3>2. deferred'[f] = IF f < lev THEN [deferred[f] EXCEPT ![lev] = @ + frame[lev].step] ELSE deferred[f]
      BY <2>1
    <3> QED
      BY <3>1, <3>2, <1>0, <1>3
  <2> QED
    BY <2>1, <2>2 DEF IsBook
<1>7. /\ IsBook(energy')
      /\ \A f, k \in TimeLevels : energy'[f][k] = IF f < lev THEN energy[f][k]
           ELSE energy[f][k] - applied[lev][f][k]
                  + (IF k = lev THEN flux[lev][f] ELSE 0) + (IF f = lev THEN deferred[f][k] ELSE 0)
  <2>1. energy' = [f \in TimeLevels |-> IF f < lev THEN energy[f]
          ELSE [m \in TimeLevels |-> energy[f][m] - applied[lev][f][m]
                  + (IF m = lev THEN flux[lev][f] ELSE 0) + (IF f = lev THEN deferred[f][m] ELSE 0)]]
    BY DEF CloseFrame, CloseLedger
  <2>2. ASSUME NEW f \in TimeLevels
        PROVE  /\ energy'[f] \in [TimeLevels -> Int]
               /\ \A k \in TimeLevels : energy'[f][k] = IF f < lev THEN energy[f][k]
                    ELSE energy[f][k] - applied[lev][f][k]
                           + (IF k = lev THEN flux[lev][f] ELSE 0) + (IF f = lev THEN deferred[f][k] ELSE 0)
    <3>1. /\ energy[f] \in [TimeLevels -> Int]
          /\ \A m \in TimeLevels : energy[f][m] \in Int /\ applied[lev][f][m] \in Int /\ deferred[f][m] \in Int
          /\ flux[lev][f] \in Int
      BY <1>0, <1>1 DEF IsBook
    <3>2. CASE f < lev
      BY <2>1, <3>1, <3>2
    <3>3. CASE ~(f < lev)
      <4>1. energy'[f] = [m \in TimeLevels |-> energy[f][m] - applied[lev][f][m]
                  + (IF m = lev THEN flux[lev][f] ELSE 0) + (IF f = lev THEN deferred[f][m] ELSE 0)]
        BY <2>1, <3>3
      <4> QED
        BY <4>1, <3>1, <3>3
    <3> QED
      BY <3>2, <3>3
  <2> QED
    BY <2>1, <2>2 DEF IsBook
<1>8. BooksType'
  BY <1>0, <1>1, <1>2, <1>5, <1>6, <1>7 DEF BooksType, IsBook
<1> QED
  BY <1>2, <1>5, <1>6, <1>7, <1>8

(* Choosing a step, forecasting, refluxing and closing the shell leave the *)
(* books alone, as does the beginning.                                     *)
LEMMA QuietBooks ==
  ASSUME BooksType, Timestep \/ Forecast \/ Reflux \/ CloseShell \/ \E dt \in Durations : Begin(dt)
  PROVE  /\ impulse' = impulse /\ flux' = flux /\ applied' = applied
         /\ deferred' = deferred /\ momentum' = momentum /\ energy' = energy
         /\ BooksType'
<1>1. /\ impulse' = impulse /\ flux' = flux /\ applied' = applied /\ option' = option
      /\ deferred' = deferred /\ momentum' = momentum /\ energy' = energy
  BY DEF Timestep, Forecast, Reflux, CloseShell, Begin, frames, ledger
<1> QED
  BY <1>1 DEF BooksType, IsBook, TimeLevels

(* The books end with the call.                                            *)
LEMMA ReturnBooks ==
  ASSUME Timed, BooksType, Normalize \/ Fail
  PROVE  /\ BooksType' /\ pc' = "idle" /\ lev' = Coarsest /\ frame' = [l \in TimeLevels |-> NoFrame]
         /\ \A f, k \in TimeLevels :
              /\ impulse'[f][k] = 0 /\ flux'[f][k] = 0 /\ deferred'[f][k] = 0
              /\ momentum'[f][k] = 0 /\ energy'[f][k] = 0
         /\ \A f, k, m \in TimeLevels : applied'[f][k][m] = 0
<1>0. option' = option /\ TimeLevels' = TimeLevels
  BY DEF Normalize, Fail, TimeLevels
<1>1. /\ impulse' = ZeroEach /\ flux' = ZeroEach /\ applied' = [f \in TimeLevels |-> ZeroEach]
      /\ deferred' = ZeroEach /\ momentum' = ZeroEach /\ energy' = ZeroEach
      /\ pc' = "idle" /\ lev' = Coarsest /\ frame' = [l \in TimeLevels |-> NoFrame]
  BY DEF Normalize, Fail, Return
<1>2. /\ IsBook(ZeroEach) /\ [f \in TimeLevels |-> ZeroEach] \in [TimeLevels -> [TimeLevels -> [TimeLevels -> Int]]]
      /\ \A l \in TimeLevels : Zero[l] = 0 /\ ZeroEach[l] = Zero
  BY ZeroBook
<1>3. BooksType'
  BY <1>0, <1>1, <1>2 DEF BooksType, IsBook
<1>4. ASSUME NEW f \in TimeLevels, NEW k \in TimeLevels
      PROVE  /\ ZeroEach[f][k] = 0 /\ \A m \in TimeLevels : [g \in TimeLevels |-> ZeroEach][f][k][m] = 0
  BY <1>2
<1> QED
  BY <1>1, <1>3, <1>4

(* When a frame closes, each of its entries is its whole step or nothing.  *)
LEMMA ClosingBooks ==
  ASSUME Timed, Books, pc = "close"
  PROVE  /\ frame[lev].step \in Ticks
         /\ \A k \in TimeLevels :
              /\ impulse[lev][k] = IF Holds(k, lev) THEN frame[lev].step ELSE 0
              /\ flux[lev][k] = IF k >= lev THEN frame[lev].step ELSE 0
              /\ deferred[lev][k] = IF k > lev THEN frame[lev].step ELSE 0
         /\ \A k, m \in TimeLevels :
              applied[lev][k][m] = IF (k = lev /\ m >= lev) \/ (k > lev /\ m = lev) THEN frame[lev].step ELSE 0
<1>0. lev \in TimeLevels /\ (\A l \in TimeLevels : l \in Nat) /\ Ticks = 0 .. MaxTime /\ MaxTime \in Nat
      /\ option.conventional \in BOOLEAN
  BY LevelSet, FramesAssumption DEF Timed, Control, Ticks
<1>1. Underway /\ IsOpen(lev)
  BY <1>0 DEF Underway, IsOpen, Opened
<1>2. FrameBooks(lev)
  BY <1>0, <1>1 DEF Books
<1>3. /\ Upto(lev) \in Ticks /\ frame[lev].begin = At(lev) /\ At(lev) \in Ticks
      /\ At(lev) + frame[lev].step = Upto(lev)
  BY <1>1, Bounds
<1>4. frame[lev].step \in Nat
  BY <1>0, FrameFields DEF Timed
<1>5. frame[lev].step \in Ticks /\ Upto(lev) - frame[lev].begin = frame[lev].step
  BY <1>0, <1>3, <1>4
<1>6. \A k \in TimeLevels : (k >= lev => Reached(k) = Upto(lev)) /\ (k > lev => Closed(k) = Upto(lev))
  BY <1>1, ReachedWithin
<1>7. \A k \in TimeLevels : Holds(k, lev) => k >= lev
  BY <1>0 DEF Holds
<1>8. ASSUME NEW k \in TimeLevels
      PROVE  /\ impulse[lev][k] = IF Holds(k, lev) THEN frame[lev].step ELSE 0
             /\ flux[lev][k] = IF k >= lev THEN frame[lev].step ELSE 0
             /\ deferred[lev][k] = IF k > lev THEN frame[lev].step ELSE 0
             /\ \A m \in TimeLevels :
                  applied[lev][k][m] = IF (k = lev /\ m >= lev) \/ (k > lev /\ m = lev) THEN frame[lev].step ELSE 0
  <2>1. /\ impulse[lev][k] = IF Holds(k, lev) THEN Reached(k) - frame[lev].begin ELSE 0
        /\ flux[lev][k] = IF k >= lev THEN Reached(k) - frame[lev].begin ELSE 0
        /\ deferred[lev][k] = IF k > lev THEN Closed(k) - frame[lev].begin ELSE 0
        /\ \A m \in TimeLevels :
             applied[lev][k][m] = IF (k = lev /\ m >= lev) \/ (k > lev /\ m = lev) THEN Reached(k) - frame[lev].begin ELSE 0
    BY <1>2 DEF FrameBooks
  <2>2. (k >= lev => Reached(k) = Upto(lev)) /\ (k > lev => Closed(k) = Upto(lev)) /\ (Holds(k, lev) => k >= lev)
    BY <1>6, <1>7
  <2>3. CASE k >= lev
    <3>1. Reached(k) - frame[lev].begin = frame[lev].step
      BY <2>2, <2>3, <1>5
    <3>2. k > lev => Closed(k) - frame[lev].begin = frame[lev].step
      BY <2>2, <1>5
    <3> QED
      BY <2>1, <2>3, <3>1, <3>2
  <2>4. CASE ~(k >= lev)
    <3>1. ~(k > lev) /\ k # lev /\ ~Holds(k, lev)
      BY <2>2, <2>4, <1>0
    <3> QED
      BY <2>1, <2>4, <3>1
  <2> QED
    BY <2>3, <2>4
<1> QED
  BY <1>5, <1>8

(* What has acted on a level reaches as far as its level has.              *)
LEMMA ActedNext ==
  ASSUME Timed, Books, Next
  PROVE  Acted'
<1>0. /\ lev \in TimeLevels /\ (\A l \in TimeLevels : l \in Nat) /\ TimeLevels' = TimeLevels /\ Coarsest' = Coarsest
      /\ (\A l, m : Holds(l, m)' = Holds(l, m)) /\ BooksType /\ time \in Nat
  BY OptionKept, LevelSet, FramesAssumption DEF Timed, Control, Books, Ticks
<1>1. CASE Underway /\ Underway'
  <2>0. time' = time
    <3>1. ~Fail /\ ~Normalize /\ \A dt \in Durations : ~Begin(dt)
      BY <1>1 DEF Fail, Normalize, Return, Begin, Underway
    <3> QED
      BY <3>1 DEF Next, Timestep, Open, Transport, Forecast, Reflux, CloseShell, CloseFrame, published
  <2>1. \A l \in TimeLevels : Reached(l)' = IF l = lev /\ pc = "transport" THEN Upto(lev) ELSE Reached(l)
    BY <1>1, TimesMove
  <2>2. \A l, m \in TimeLevels :
          /\ energy[l][m] = Reached(l) - time
          /\ momentum[l][m] = IF Holds(l, m) THEN Reached(l) - time ELSE 0
          /\ energy[l][m] \in Int /\ momentum[l][m] \in Int
    BY <1>0, <1>1 DEF Books, Acted, BooksType, IsBook
  <2>3. SUFFICES \A l, m \in TimeLevels :
                   /\ energy'[l][m] = Reached(l)' - time
                   /\ momentum'[l][m] = IF Holds(l, m) THEN Reached(l)' - time ELSE 0
    <3>1. \A l, m \in TimeLevels' :
            /\ energy'[l][m] = Reached(l)' - time'
            /\ momentum'[l][m] = IF Holds(l, m)' THEN Reached(l)' - time' ELSE 0
      BY <2>0, <2>3, <1>0
    <3> QED
      BY <3>1, <1>1 DEF Acted
  <2>4. SUFFICES ASSUME NEW l \in TimeLevels, NEW m \in TimeLevels
                 PROVE  /\ energy'[l][m] = Reached(l)' - time
                        /\ momentum'[l][m] = IF Holds(l, m) THEN Reached(l)' - time ELSE 0
    BY <2>4
  <2>5. CASE Timestep \/ Forecast \/ Reflux \/ CloseShell \/ Open
    <3>1. energy' = energy /\ momentum' = momentum
      BY <2>5 DEF Timestep, Forecast, Reflux, CloseShell, Open, ledger
    <3>2. pc # "transport"
      BY <2>5 DEF Timestep, Forecast, Reflux, CloseShell, Open
    <3>3. Reached(l)' = Reached(l)
      BY <2>1, <3>2
    <3> QED
      BY <2>2, <3>1, <3>3
  <2>6. CASE Transport
    <3>1. pc = "transport"
      BY <2>6 DEF Transport
    <3>2. /\ momentum'[l][m] = IF l = lev
                THEN momentum[l][m] + (IF Holds(lev, m) THEN frame[lev].step ELSE 0) ELSE momentum[l][m]
          /\ energy'[l][m] = IF l = lev THEN energy[l][m] + frame[lev].step ELSE energy[l][m]
      BY <2>6, <1>0, TransportBooks
    <3>3. Reached(lev) = At(lev) /\ At(lev) + frame[lev].step = Upto(lev) /\ At(lev) \in Nat /\ frame[lev].step \in Nat
      <4>1. Reached(lev) = At(lev)
        BY <3>1, <1>0, <1>1, ReachedWithin
      <4>2. At(lev) + frame[lev].step = Upto(lev)
        BY <3>1, <1>1, Bounds
      <4> QED
        BY <4>1, <4>2, <1>0, FrameFields DEF Timed
    <3>4. CASE l = lev
      <4>1. Reached(l)' = At(lev) + frame[lev].step /\ Reached(l) = At(lev)
        BY <3>1, <3>3, <3>4, <2>1
      <4>2. energy[l][m] = At(lev) - time /\ momentum[l][m] = IF Holds(lev, m) THEN At(lev) - time ELSE 0
        BY <2>2, <3>4, <4>1
      <4>3. /\ energy'[l][m] = energy[l][m] + frame[lev].step
            /\ momentum'[l][m] = momentum[l][m] + (IF Holds(lev, m) THEN frame[lev].step ELSE 0)
        BY <3>2, <3>4
      <4>4. Reached(l)' - time = (At(lev) - time) + frame[lev].step
        BY <4>1, <3>3, <1>0
      <4>5. energy'[l][m] = Reached(l)' - time
        BY <4>2, <4>3, <4>4
      <4>6. Holds(lev, m) => momentum'[l][m] = Reached(l)' - time
        BY <4>2, <4>3, <4>4
      <4>7. ~Holds(lev, m) => momentum'[l][m] = 0
        BY <4>2, <4>3
      <4> QED
        BY <4>5, <4>6, <4>7, <3>4
    <3>5. CASE l # lev
      BY <3>2, <3>5, <2>1, <2>2
    <3> QED
      BY <3>4, <3>5
  <2>7. CASE CloseFrame
    <3>1. pc = "close" /\ Reached(l)' = Reached(l)
      BY <2>1, <2>7 DEF CloseFrame
    <3>2. /\ momentum'[l][m] = IF Holds(l, lev) /\ m = lev
                   THEN momentum[l][m] + frame[lev].step - impulse[lev][l] ELSE momentum[l][m]
          /\ energy'[l][m] = IF l < lev THEN energy[l][m]
                   ELSE energy[l][m] - applied[lev][l][m]
                          + (IF m = lev THEN flux[lev][l] ELSE 0) + (IF l = lev THEN deferred[l][m] ELSE 0)
      BY <2>7, <1>0, CloseBooks
    <3>3. /\ frame[lev].step \in Ticks
          /\ impulse[lev][l] = IF Holds(l, lev) THEN frame[lev].step ELSE 0
          /\ flux[lev][l] = IF l >= lev THEN frame[lev].step ELSE 0
          /\ deferred[lev][m] = IF m > lev THEN frame[lev].step ELSE 0
          /\ applied[lev][l][m] = IF (l = lev /\ m >= lev) \/ (l > lev /\ m = lev) THEN frame[lev].step ELSE 0
      BY <3>1, ClosingBooks
    <3>4. frame[lev].step \in Nat
      BY <1>0, FrameFields DEF Timed
    <3>5. momentum'[l][m] = momentum[l][m]
      BY <3>2, <3>3, <3>4, <2>2
    <3>6. energy'[l][m] = energy[l][m]
      <4>1. energy[l][m] \in Int
        BY <2>2
      <4>2. CASE l < lev
        BY <3>2, <4>2
      <4>3. CASE l > lev
        <5>1. l # lev /\ l >= lev /\ ~(l < lev)
          BY <4>3, <1>0
        <5>2. applied[lev][l][m] = (IF m = lev THEN frame[lev].step ELSE 0) /\ flux[lev][l] = frame[lev].step
          BY <5>1, <4>3, <3>3
        <5>3. energy'[l][m] = energy[l][m] - applied[lev][l][m] + (IF m = lev THEN flux[lev][l] ELSE 0) + 0
          BY <5>1, <3>2
        <5> QED
          BY <5>2, <5>3, <4>1, <3>4
      <4>4. CASE l = lev
        <5>1. l >= lev /\ ~(l < lev) /\ ~(l > lev)
          BY <4>4, <1>0
        <5>2. applied[lev][l][m] = (IF m >= lev THEN frame[lev].step ELSE 0) /\ flux[lev][l] = frame[lev].step
          BY <5>1, <4>4, <3>3
        <5>3. energy'[l][m] = energy[l][m] - applied[lev][l][m] + (IF m = lev THEN flux[lev][l] ELSE 0) + deferred[lev][m]
          BY <5>1, <4>4, <3>2
        <5>4. CASE m > lev
          <6>1. m >= lev /\ m # lev
            BY <5>4, <1>0
          <6>2. applied[lev][l][m] = frame[lev].step /\ deferred[lev][m] = frame[lev].step
            BY <6>1, <5>2, <5>4, <3>3
          <6>3. energy'[l][m] = energy[l][m] - frame[lev].step + 0 + frame[lev].step
            BY <6>1, <6>2, <5>3
          <6> QED
            BY <6>3, <4>1, <3>4
        <5>5. CASE m = lev
          <6>1. m >= lev /\ ~(m > lev)
            BY <5>5, <1>0
          <6> QED
            BY <6>1, <5>2, <5>3, <5>5, <3>3, <4>1, <3>4
        <5>6. CASE m < lev
          <6>1. ~(m >= lev) /\ ~(m > lev) /\ m # lev
            BY <5>6, <1>0
          <6> QED
            BY <6>1, <5>2, <5>3, <3>3, <4>1
        <5> QED
          BY <5>4, <5>5, <5>6, <1>0
      <4> QED
        BY <4>2, <4>3, <4>4, <1>0
    <3> QED
      BY <3>1, <3>5, <3>6, <2>2
  <2>8. ~Fail /\ ~Normalize /\ \A dt \in Durations : ~Begin(dt)
    BY <1>1 DEF Fail, Normalize, Return, Begin, Underway
  <2> QED
    BY <2>5, <2>6, <2>7, <2>8 DEF Next
<1>2. CASE ~Underway'
  <2>1. Normalize \/ Fail
    BY <1>2 DEF Underway, Next, Begin, Timestep, Open, Transport, Forecast, Reflux, CloseShell, CloseFrame
  <2>2. \A f, k \in TimeLevels : momentum'[f][k] = 0 /\ energy'[f][k] = 0
    BY <2>1, <1>0, ReturnBooks
  <2> QED
    BY <2>2, <1>0, <1>2 DEF Acted
<1>3. CASE ~Underway /\ Underway'
  <2>1. PICK dt \in Durations : Begin(dt)
    BY <1>3 DEF Underway, Next, Timestep, Open, Transport, Forecast, Reflux, CloseShell, CloseFrame, Normalize, Fail
  <2>2. energy' = energy /\ momentum' = momentum /\ time' = time
    BY <2>1 DEF Begin, ledger, published
  <2>3. \A l, m \in TimeLevels : energy[l][m] = 0 /\ momentum[l][m] = 0
    BY <1>3 DEF Books, Acted
  <2>4. frame'[Coarsest].from + frame'[Coarsest].elapsed = time /\ lev' = Coarsest /\ pc' = "cfl"
    <3>1. frame'[Coarsest].from = time /\ frame'[Coarsest].elapsed = 0
      BY <2>1, LevelSet DEF Begin, Timed, Control
    <3> QED
      BY <3>1, <2>1, <1>0 DEF Begin
  <2>5. \A l \in TimeLevels : Reached(l)' = time
    <3>1. ASSUME NEW g \in TimeLevels, lev' = g, frame'[g].from + frame'[g].elapsed = time, NEW l \in TimeLevels, ~(l < g)
          PROVE Reached(l)' = time
      BY <2>4, <3>1 DEF Reached, Closing, At
    <3>2. \A l \in TimeLevels : ~(l < Coarsest)
      BY <1>0, LevelSet DEF Timed, Control
    <3>3. Coarsest \in TimeLevels
      BY LevelSet DEF Timed, Control
    <3> QED
      BY <2>4, <3>1, <3>2, <3>3
  <2>6. time - time = 0
    BY <1>0
  <2> QED
    BY <2>2, <2>3, <2>5, <2>6, <1>0 DEF Acted
<1> QED
  BY <1>1, <1>2, <1>3

(* The books of an open frame follow the levels inside it.                 *)
LEMMA FrameBooksNext ==
  ASSUME Timed, Books, Next, Underway, Underway', NEW f \in TimeLevels, IsOpen(f)'
  PROVE  FrameBooks(f)'
<1>0. /\ lev \in TimeLevels /\ (\A l \in TimeLevels : l \in Nat) /\ TimeLevels' = TimeLevels
      /\ (\A l, m : Holds(l, m)' = Holds(l, m)) /\ BooksType
  BY OptionKept, LevelSet DEF Timed, Control, Books
<1>1. \A l \in TimeLevels :
        /\ Reached(l)' = IF l = lev /\ pc = "transport" THEN Upto(lev) ELSE Reached(l)
        /\ Closed(l)' = IF l = lev /\ pc = "close" THEN Upto(lev) ELSE Closed(l)
  BY TimesMove
<1>2. frame'[f].begin = frame[f].begin /\ (IsOpen(f) \/ (pc = "open" /\ f = lev))
  BY OpenKept
<1>3. frame[f].begin \in Nat /\ frame[lev].step \in Nat
  BY <1>0, FrameFields DEF Timed
<1>4. \A l \in TimeLevels : Reached(l) \in Ticks /\ Closed(l) \in Ticks
  BY ReachedWithin
<1>5. \A l \in TimeLevels : Reached(l) \in Nat /\ Closed(l) \in Nat
  BY <1>4, FramesAssumption DEF Ticks
<1>6. SUFFICES ASSUME NEW k \in TimeLevels
               PROVE  /\ impulse'[f][k] = IF Holds(k, f) THEN Reached(k)' - frame[f].begin ELSE 0
                      /\ flux'[f][k] = IF k >= f THEN Reached(k)' - frame[f].begin ELSE 0
                      /\ deferred'[f][k] = IF k > f THEN Closed(k)' - frame[f].begin ELSE 0
                      /\ \A m \in TimeLevels : applied'[f][k][m] =
                           IF (k = f /\ m >= f) \/ (k > f /\ m = f) THEN Reached(k)' - frame[f].begin ELSE 0
  <2>1. \A k \in TimeLevels' :
          /\ impulse'[f][k] = IF Holds(k, f)' THEN Reached(k)' - frame'[f].begin ELSE 0
          /\ flux'[f][k] = IF k >= f THEN Reached(k)' - frame'[f].begin ELSE 0
          /\ deferred'[f][k] = IF k > f THEN Closed(k)' - frame'[f].begin ELSE 0
          /\ \A m \in TimeLevels' : applied'[f][k][m] =
               IF (k = f /\ m >= f) \/ (k > f /\ m = f) THEN Reached(k)' - frame'[f].begin ELSE 0
    BY <1>6, <1>0, <1>2
  <2> QED
    BY <2>1 DEF FrameBooks
<1>7. ~Fail /\ ~Normalize /\ \A dt \in Durations : ~Begin(dt)
  BY DEF Fail, Normalize, Return, Begin, Underway
<1>8. IsOpen(f) =>
        /\ impulse[f][k] = IF Holds(k, f) THEN Reached(k) - frame[f].begin ELSE 0
        /\ flux[f][k] = IF k >= f THEN Reached(k) - frame[f].begin ELSE 0
        /\ deferred[f][k] = IF k > f THEN Closed(k) - frame[f].begin ELSE 0
        /\ \A m \in TimeLevels : applied[f][k][m] =
             IF (k = f /\ m >= f) \/ (k > f /\ m = f) THEN Reached(k) - frame[f].begin ELSE 0
  BY DEF Books, FrameBooks
<1>9. IsOpen(f) => f <= lev
  BY <1>0 DEF IsOpen
<1>10. CASE Timestep \/ Forecast \/ Reflux \/ CloseShell
  <2>1. pc \notin {"open", "transport", "close"}
    BY <1>10 DEF Timestep, Forecast, Reflux, CloseShell
  <2>2. Reached(k)' = Reached(k) /\ Closed(k)' = Closed(k) /\ IsOpen(f)
    BY <2>1, <1>1, <1>2
  <2>3. impulse' = impulse /\ flux' = flux /\ applied' = applied /\ deferred' = deferred
    BY <1>0, <1>10, QuietBooks
  <2> QED
    BY <2>2, <2>3, <1>8
<1>11. CASE Open
  <2>1. pc = "open" /\ Reached(k)' = Reached(k) /\ Closed(k)' = Closed(k)
    BY <1>1, <1>11 DEF Open
  <2>2. /\ impulse'[f][k] = IF f = lev THEN 0 ELSE impulse[f][k]
        /\ flux'[f][k] = IF f = lev THEN 0 ELSE flux[f][k]
        /\ deferred'[f][k] = IF f = lev THEN 0 ELSE deferred[f][k]
        /\ \A m \in TimeLevels : applied'[f][k][m] = IF f = lev THEN 0 ELSE applied[f][k][m]
    BY <1>0, <1>11, OpenBooks
  <2>3. CASE f = lev
    <3>1. k >= lev => Reached(k) = At(lev) /\ Closed(k) = At(lev)
      BY <2>1, ReachedWithin
    <3>2. frame[lev].begin = At(lev)
      BY <2>1, Bounds
    <3>3. Holds(k, f) => k >= f
      BY <1>0 DEF Holds
    <3>4. k >= f => Reached(k)' - frame[f].begin = 0 /\ Closed(k)' - frame[f].begin = 0
      BY <2>1, <2>3, <3>1, <3>2, <1>3
    <3>5. k > f => k >= f
      BY <1>0
    <3>6. k = f => k >= f
      BY <1>0
    <3> QED
      BY <2>2, <2>3, <3>3, <3>4, <3>5, <3>6
  <2>4. CASE f # lev
    BY <2>1, <2>2, <2>4, <1>2, <1>8
  <2> QED
    BY <2>3, <2>4
<1>12. CASE Transport
  <2>1. pc = "transport" /\ IsOpen(f) /\ f <= lev /\ Closed(k)' = Closed(k)
    BY <1>1, <1>2, <1>9, <1>12 DEF Transport
  <2>2. /\ impulse'[f][k] = IF f <= lev /\ k = lev
             THEN impulse[f][k] + (IF Holds(lev, f) THEN frame[lev].step ELSE 0) ELSE impulse[f][k]
        /\ flux'[f][k] = IF f <= lev /\ k = lev THEN flux[f][k] + frame[lev].step ELSE flux[f][k]
        /\ deferred'[f][k] = deferred[f][k]
        /\ \A m \in TimeLevels : applied'[f][k][m] = IF f <= lev /\ k = lev
             THEN applied[f][k][m] + (IF Carried(f, m) THEN frame[lev].step ELSE 0) ELSE applied[f][k][m]
    BY <1>0, <1>12, TransportBooks
  <2>3. CASE k # lev
    BY <2>1, <2>2, <2>3, <1>1, <1>8
  <2>4. CASE k = lev
    <3>1. Reached(k)' = Upto(lev) /\ Reached(k) = At(lev)
      BY <2>1, <2>4, <1>0, <1>1, ReachedWithin
    <3>2. At(lev) + frame[lev].step = Upto(lev)
      BY <2>1, Bounds
    <3>3. Reached(k)' - frame[f].begin = (Reached(k) - frame[f].begin) + frame[lev].step /\ Reached(k) - frame[f].begin \in Int
      BY <3>1, <3>2, <1>3, <1>5
    <3>4. impulse'[f][k] = IF Holds(k, f) THEN Reached(k)' - frame[f].begin ELSE 0
      <4>1. CASE Holds(k, f)
        BY <2>1, <2>2, <2>4, <3>3, <4>1, <1>8
      <4>2. CASE ~Holds(k, f)
        BY <2>1, <2>2, <2>4, <4>2, <1>8
      <4> QED
        BY <4>1, <4>2
    <3>5. k >= f
      BY <2>1, <2>4, <1>0
    <3>6. flux'[f][k] = Reached(k)' - frame[f].begin
      BY <2>1, <2>2, <2>4, <3>3, <3>5, <1>8
    <3>7. ASSUME NEW m \in TimeLevels
          PROVE  applied'[f][k][m] = IF (k = f /\ m >= f) \/ (k > f /\ m = f) THEN Reached(k)' - frame[f].begin ELSE 0
      <4>1. Carried(f, m) <=> (k = f /\ m >= f) \/ (k > f /\ m = f)
        BY <2>1, <2>4, <1>0 DEF Carried
      <4>2. applied'[f][k][m] = applied[f][k][m] + (IF Carried(f, m) THEN frame[lev].step ELSE 0)
        BY <2>1, <2>2, <2>4
      <4>3. applied[f][k][m] = IF (k = f /\ m >= f) \/ (k > f /\ m = f) THEN Reached(k) - frame[f].begin ELSE 0
        BY <2>1, <1>8
      <4>4. CASE Carried(f, m)
        <5>1. applied'[f][k][m] = (Reached(k) - frame[f].begin) + frame[lev].step
          BY <4>1, <4>2, <4>3, <4>4
        <5> QED
          BY <5>1, <4>1, <4>4, <3>3
      <4>5. CASE ~Carried(f, m)
        BY <4>1, <4>2, <4>3, <4>5
      <4> QED
        BY <4>4, <4>5
    <3> QED
      BY <2>1, <2>2, <3>4, <3>5, <3>6, <3>7, <1>8
  <2> QED
    BY <2>3, <2>4
<1>13. CASE CloseFrame
  <2>1. pc = "close" /\ IsOpen(f) /\ Reached(k)' = Reached(k)
    BY <1>1, <1>2, <1>13 DEF CloseFrame
  <2>2. f < lev
    <3>1. ASSUME NEW g \in TimeLevels, lev' = g, g = lev \/ g < lev, pc' \notin {"transport", "forecast", "shell", "close"},
                 pc' = "reflux" => g < lev
          PROVE f < lev
      <4>1. f < g \/ (f = g /\ pc' = "reflux")
        BY <3>1 DEF IsOpen, Opened
      <4> QED
        BY <4>1, <3>1, <1>0
    <3>2. CASE pc' = "reflux"
      <4>1. lev' = Coarser(lev) /\ lev # Coarsest
        BY <3>2, <1>13 DEF CloseFrame
      <4>2. PICK g \in TimeLevels : g = Coarser(lev)
        BY <4>1, <1>0, CoarserLevel DEF Timed, Control
      <4>3. g < lev
        BY <4>1, <4>2, <1>0, CoarserLevel DEF Timed, Control
      <4> QED
        BY <3>1, <3>2, <4>1, <4>2, <4>3
    <3>3. CASE pc' # "reflux"
      <4>1. lev' = lev /\ pc' \in {"cfl", "normalize"}
        BY <3>3, <1>13 DEF CloseFrame
      <4> QED
        BY <3>1, <4>1, <1>0
    <3> QED
      BY <3>2, <3>3
  <2>3. /\ impulse' = impulse /\ flux' = flux /\ applied' = applied
        /\ deferred'[f][k] = IF f < lev /\ k = lev THEN deferred[f][k] + frame[lev].step ELSE deferred[f][k]
    BY <1>0, <1>13, CloseBooks
  <2>4. deferred'[f][k] = IF k > f THEN Closed(k)' - frame[f].begin ELSE 0
    <3>1. CASE k = lev
      <4>1. Closed(k)' = Upto(lev) /\ Closed(k) = At(lev) /\ k > f
        BY <2>1, <2>2, <3>1, <1>0, <1>1, ReachedWithin
      <4>2. At(lev) + frame[lev].step = Upto(lev)
        BY <2>1, Bounds
      <4>3. deferred'[f][k] = (Closed(k) - frame[f].begin) + frame[lev].step
        BY <4>1, <3>1, <2>1, <2>2, <2>3, <1>8
      <4> QED
        BY <4>1, <4>2, <4>3, <1>3, <1>5
    <3>2. CASE k # lev
      BY <2>1, <2>3, <3>2, <1>1, <1>8
    <3> QED
      BY <3>1, <3>2
  <2> QED
    BY <2>1, <2>3, <2>4, <1>8
<1> QED
  BY <1>7, <1>10, <1>11, <1>12, <1>13 DEF Next

(* A frame that is not open after a step has just closed, was not open     *)
(* before, or is the one that now chooses its step.                        *)
LEMMA ClosedKept ==
  ASSUME Timed, Next, Underway, Underway', NEW f \in TimeLevels, ~IsOpen(f)'
  PROVE  \/ pc = "close" /\ f = lev
         \/ /\ ~IsOpen(f) /\ (pc # "open" \/ f # lev)
            /\ (f = lev /\ Choosing)' \/ (~(f = lev /\ Choosing) /\ frame'[f].step = frame[f].step)
<1>0. /\ lev \in TimeLevels /\ (\A l \in TimeLevels : l \in Nat) /\ frame \in [TimeLevels -> Frame]
      /\ option \in Options
  BY LevelSet DEF Timed, Control
<1>1. ~Fail /\ ~Normalize /\ \A dt \in Durations : ~Begin(dt)
  BY DEF Fail, Normalize, Return, Begin, Underway
<1>2. ASSUME NEW g \in TimeLevels, lev' = g
      PROVE  ~(f < g) /\ (f = g => pc' \notin {"transport", "forecast", "reflux", "shell", "close"})
  BY <1>2 DEF IsOpen, Opened
<1>3. CASE Timestep
  <2>1. /\ pc = "cfl" /\ pc' = "open" /\ lev' = lev
        /\ \A l \in TimeLevels : l # lev => frame'[l] = frame[l]
    BY <1>0, <1>3 DEF Timestep
  <2>2. ~(f < lev)
    BY <2>1, <1>0, <1>2
  <2>3. ~IsOpen(f)
    BY <2>1, <2>2 DEF IsOpen, Opened
  <2>4. f = lev => (f = lev /\ Choosing)'
    BY <2>1 DEF Choosing
  <2>5. f # lev => ~(f = lev /\ Choosing) /\ frame'[f].step = frame[f].step
    BY <2>1
  <2> QED
    BY <2>1, <2>3, <2>4, <2>5
<1>4. CASE Open \/ Transport \/ Reflux \/ CloseShell \/ (Forecast /\ IsFinest(lev))
  <2>1. /\ lev' = lev /\ frame' = frame /\ pc' \in {"transport", "forecast", "reflux", "shell", "close"}
    BY <1>4 DEF Open, Transport, Reflux, CloseShell, Forecast
  <2>2. ~(f < lev) /\ f # lev
    BY <2>1, <1>0, <1>2
  <2> QED
    BY <2>1, <2>2 DEF IsOpen
<1>5. CASE Forecast /\ ~IsFinest(lev)
  <2>0. PICK g \in TimeLevels : g = Finer(lev)
    BY <1>5, <1>0, NotFinest
  <2>1. lev < g
    BY <2>0, <1>5, <1>0, NotFinest
  <2>2. pc = "forecast" /\ lev' = g /\ pc' = "cfl" /\ \A l \in TimeLevels : l # g => frame'[l] = frame[l]
    BY <2>0, <1>0, <1>5 DEF Forecast
  <2>3. ~(f < g)
    BY <2>2, <1>2
  <2>4. ~(f < lev) /\ f # lev
    BY <2>1, <2>3, <1>0
  <2>5. ~IsOpen(f)
    BY <2>4 DEF IsOpen
  <2>6. f = g => (f = lev /\ Choosing)'
    BY <2>2 DEF Choosing
  <2>7. f # g => frame'[f].step = frame[f].step
    BY <2>2
  <2> QED
    BY <2>2, <2>4, <2>5, <2>6, <2>7
<1>6. CASE CloseFrame
  <2>1. pc = "close" /\ \A l \in TimeLevels : l # lev => frame'[l] = frame[l]
    BY <1>0, <1>6 DEF CloseFrame
  <2>2. ~(f < lev)
    <3>1. CASE pc' = "reflux"
      <4>1. lev' = Coarser(lev) /\ lev # Coarsest
        BY <3>1, <1>6 DEF CloseFrame
      <4>2. PICK g \in TimeLevels : g = Coarser(lev)
        BY <4>1, <1>0, CoarserLevel
      <4>3. \A k \in TimeLevels : k < lev => k <= g
        BY <4>1, <4>2, <1>0, CoarserLevel
      <4>4. ~(f < g) /\ f # g
        BY <3>1, <4>1, <4>2, <1>2
      <4> QED
        BY <4>3, <4>4, <1>0
    <3>2. CASE pc' # "reflux"
      <4>1. lev' = lev
        BY <3>2, <1>6 DEF CloseFrame
      <4> QED
        BY <4>1, <1>0, <1>2
    <3> QED
      BY <3>1, <3>2
  <2>3. CASE f = lev
    BY <2>1, <2>3
  <2>4. CASE f # lev
    <3>1. frame'[f].step = frame[f].step /\ ~IsOpen(f)
      BY <2>1, <2>2, <2>4 DEF IsOpen
    <3> QED
      BY <2>1, <2>4, <3>1
  <2> QED
    BY <2>3, <2>4
<1> QED
  BY <1>1, <1>3, <1>4, <1>5, <1>6 DEF Next

(* The books of a closed frame stay within its step until the next.        *)
LEMMA ClosedBooksNext ==
  ASSUME Timed, Books, Next, Underway, Underway', NEW f \in TimeLevels, ~IsOpen(f)'
  PROVE  ClosedBooks(f)'
<1>0. /\ lev \in TimeLevels /\ (\A l \in TimeLevels : l \in Nat) /\ TimeLevels' = TimeLevels /\ Ticks' = Ticks
      /\ Ticks = 0 .. MaxTime /\ MaxTime \in Nat /\ BooksType
  BY OptionKept, LevelSet, FramesAssumption DEF Timed, Control, Books, Ticks
<1>1. ASSUME \A k \in TimeLevels :
               /\ {impulse'[f][k], flux'[f][k], deferred'[f][k]} \subseteq Ticks
               /\ \A m \in TimeLevels : applied'[f][k][m] \in Ticks,
             (f = lev /\ Choosing)' \/ \A k \in TimeLevels : impulse'[f][k] <= frame'[f].step
      PROVE  ClosedBooks(f)'
  <2>1. \A k \in TimeLevels' : {impulse'[f][k], flux'[f][k], deferred'[f][k]} \subseteq Ticks'
    BY <1>0, <1>1
  <2>2. \A k, m \in TimeLevels' : applied'[f][k][m] \in Ticks'
    BY <1>0, <1>1
  <2>3. (f = lev /\ Choosing)' \/ \A k \in TimeLevels' : impulse'[f][k] <= frame'[f].step
    BY <1>0, <1>1
  <2> QED
    BY <2>1, <2>2, <2>3 DEF ClosedBooks
<1>2. ~Fail /\ ~Normalize /\ \A dt \in Durations : ~Begin(dt)
  BY DEF Fail, Normalize, Return, Begin, Underway
<1>3. CASE pc = "close" /\ f = lev
  <2>1. CloseFrame
    BY <1>2, <1>3 DEF Next, Timestep, Open, Transport, Forecast, Reflux, CloseShell
  <2>2. /\ impulse' = impulse /\ flux' = flux /\ applied' = applied
        /\ \A k \in TimeLevels :
             deferred'[f][k] = IF f < lev /\ k = lev THEN deferred[f][k] + frame[lev].step ELSE deferred[f][k]
    BY <2>1, <1>0, CloseBooks
  <2>3. \A k \in TimeLevels : deferred'[f][k] = deferred[f][k]
    BY <2>2, <1>0, <1>3
  <2>4. /\ frame[lev].step \in Ticks
        /\ \A k \in TimeLevels :
             /\ impulse[lev][k] = IF Holds(k, lev) THEN frame[lev].step ELSE 0
             /\ flux[lev][k] = IF k >= lev THEN frame[lev].step ELSE 0
             /\ deferred[lev][k] = IF k > lev THEN frame[lev].step ELSE 0
        /\ \A k, m \in TimeLevels :
             applied[lev][k][m] = IF (k = lev /\ m >= lev) \/ (k > lev /\ m = lev) THEN frame[lev].step ELSE 0
    BY <1>3, ClosingBooks
  <2>5. 0 \in Ticks /\ 0 <= frame[lev].step /\ frame[lev].step <= frame[lev].step
    BY <2>4, <1>0
  <2>6. frame'[lev].step = frame[lev].step
    <3>1. frame \in [TimeLevels -> Frame]
      BY DEF Timed, Control
    <3> QED
      BY <2>1, <3>1, <1>0 DEF CloseFrame, Frame
  <2>7. \A k \in TimeLevels :
          /\ impulse'[f][k] \in Ticks /\ flux'[f][k] \in Ticks /\ deferred'[f][k] \in Ticks
          /\ \A m \in TimeLevels : applied'[f][k][m] \in Ticks
    BY <2>2, <2>3, <2>4, <2>5, <1>3
  <2>8. \A k \in TimeLevels : impulse'[f][k] <= frame'[f].step
    BY <2>2, <2>4, <2>5, <2>6, <1>3
  <2> QED
    BY <2>7, <2>8, <1>1
<1>4. CASE ~(pc = "close" /\ f = lev)
  <2>1. /\ ~IsOpen(f) /\ (pc # "open" \/ f # lev)
        /\ (f = lev /\ Choosing)' \/ (~(f = lev /\ Choosing) /\ frame'[f].step = frame[f].step)
    BY <1>4, ClosedKept
  <2>2. /\ \A k \in TimeLevels : impulse[f][k] \in Ticks /\ flux[f][k] \in Ticks /\ deferred[f][k] \in Ticks
        /\ \A k, m \in TimeLevels : applied[f][k][m] \in Ticks
        /\ (f = lev /\ Choosing) \/ \A k \in TimeLevels : impulse[f][k] <= frame[f].step
    BY <2>1 DEF Books, ClosedBooks
  <2>3. pc \in {"transport", "close"} => ~(f <= lev)
    BY <2>1, <1>0 DEF IsOpen, Opened
  <2>4. \A k \in TimeLevels :
          /\ impulse'[f][k] = impulse[f][k] /\ flux'[f][k] = flux[f][k] /\ deferred'[f][k] = deferred[f][k]
          /\ \A m \in TimeLevels : applied'[f][k][m] = applied[f][k][m]
    <3>1. CASE Timestep \/ Forecast \/ Reflux \/ CloseShell
      BY <3>1, <1>0, QuietBooks
    <3>2. CASE Open
      <4>1. f # lev
        BY <2>1, <3>2 DEF Open
      <4> QED
        BY <3>2, <4>1, <1>0, OpenBooks
    <3>3. CASE Transport
      <4>1. ~(f <= lev)
        BY <2>3, <3>3 DEF Transport
      <4> QED
        BY <3>3, <4>1, <1>0, TransportBooks
    <3>4. CASE CloseFrame
      <4>1. ~(f < lev)
        BY <2>3, <3>4, <1>0 DEF CloseFrame
      <4> QED
        BY <3>4, <4>1, <1>0, CloseBooks
    <3> QED
      BY <3>1, <3>2, <3>3, <3>4, <1>2 DEF Next
  <2>5. (f = lev /\ Choosing)' \/ \A k \in TimeLevels : impulse'[f][k] <= frame'[f].step
    BY <2>1, <2>2, <2>4
  <2> QED
    BY <2>2, <2>4, <2>5, <1>1
<1> QED
  BY <1>3, <1>4

(* Every step keeps the books.                                             *)
LEMMA BooksNext ==
  ASSUME Timed, Books, Next
  PROVE  Books'
<1>0. /\ lev \in TimeLevels /\ (\A l \in TimeLevels : l \in Nat /\ Coarsest <= l) /\ TimeLevels' = TimeLevels
      /\ Coarsest \in TimeLevels /\ Ticks' = Ticks /\ Ticks = 0 .. MaxTime /\ MaxTime \in Nat /\ BooksType
  BY OptionKept, LevelSet, FramesAssumption DEF Timed, Control, Books, Ticks
<1>1. Acted'
  BY ActedNext
<1>2. BooksType'
  <2>1. CASE Timestep \/ Forecast \/ Reflux \/ CloseShell \/ \E dt \in Durations : Begin(dt)
    BY <2>1, <1>0, QuietBooks
  <2> QED
    BY <2>1, <1>0, OpenBooks, TransportBooks, CloseBooks, ReturnBooks DEF Next
<1>3. CASE Underway /\ Underway'
  <2>1. \A f \in TimeLevels' : IF IsOpen(f)' THEN FrameBooks(f)' ELSE ClosedBooks(f)'
    BY <1>0, <1>3, FrameBooksNext, ClosedBooksNext
  <2> QED
    BY <2>1, <1>1, <1>2 DEF Books
<1>4. CASE ~Underway'
  <2>1. Normalize \/ Fail
    BY <1>4 DEF Underway, Next, Begin, Timestep, Open, Transport, Forecast, Reflux, CloseShell, CloseFrame
  <2>2. /\ pc' = "idle" /\ lev' = Coarsest /\ frame' = [l \in TimeLevels |-> NoFrame]
        /\ \A f, k \in TimeLevels : impulse'[f][k] = 0 /\ flux'[f][k] = 0 /\ deferred'[f][k] = 0
        /\ \A f, k, m \in TimeLevels : applied'[f][k][m] = 0
    BY <2>1, <1>0, ReturnBooks
  <2>3. \A f \in TimeLevels : ~IsOpen(f)'
    <3>1. \A f \in TimeLevels : ~(f < Coarsest)
      BY <1>0
    <3> QED
      BY <2>2, <3>1 DEF IsOpen, Opened
  <2>4. \A f \in TimeLevels : frame'[f].step = 0
    BY <2>2 DEF NoFrame
  <2>5. 0 \in Ticks /\ 0 <= 0
    BY <1>0
  <2>6. \A f \in TimeLevels : ClosedBooks(f)'
    BY <2>2, <2>4, <2>5, <1>0 DEF ClosedBooks
  <2> QED
    BY <2>3, <2>6, <1>0, <1>1, <1>2 DEF Books
<1>5. CASE ~Underway /\ Underway'
  <2>1. PICK dt \in Durations : Begin(dt)
    BY <1>5 DEF Underway, Next, Timestep, Open, Transport, Forecast, Reflux, CloseShell, CloseFrame, Normalize, Fail
  <2>2. impulse' = impulse /\ flux' = flux /\ applied' = applied /\ deferred' = deferred
    BY <2>1, <1>0, QuietBooks
  <2>3. lev = Coarsest /\ lev' = Coarsest /\ pc' = "cfl" /\ \A f \in TimeLevels : f # Coarsest => frame'[f] = frame[f]
    BY <2>1, <1>0, <1>5 DEF Begin, Timed, Control
  <2>4. \A f \in TimeLevels : ~IsOpen(f) /\ ~IsOpen(f)'
    <3>1. \A f \in TimeLevels : ~(f < Coarsest)
      BY <1>0
    <3>2. ~Opened /\ ~Opened'
      BY <2>3, <1>5 DEF Opened, Underway
    <3> QED
      BY <2>3, <3>1, <3>2 DEF IsOpen
  <2>5. \A f \in TimeLevels :
          /\ \A k \in TimeLevels : {impulse[f][k], flux[f][k], deferred[f][k]} \subseteq Ticks
          /\ \A k, m \in TimeLevels : applied[f][k][m] \in Ticks
          /\ \A k \in TimeLevels : impulse[f][k] <= frame[f].step
    <3>1. ~Choosing
      BY <1>5 DEF Choosing, Underway
    <3> QED
      BY <2>4, <3>1 DEF Books, ClosedBooks
  <2>6. \A f \in TimeLevels : (f = lev /\ Choosing)' \/ frame'[f].step = frame[f].step
    BY <2>3 DEF Choosing
  <2>7. \A f \in TimeLevels : ClosedBooks(f)'
    BY <2>2, <2>5, <2>6, <1>0 DEF ClosedBooks
  <2> QED
    BY <2>4, <2>7, <1>0, <1>1, <1>2 DEF Books
<1> QED
  BY <1>3, <1>4, <1>5

(* The books of the frames and of the levels, through every step of the    *)
(* recursion, every return and every failure (advanceGravityLevel,         *)
(* closeGravityFrame).                                                     *)
THEOREM BooksAlways == Spec => []Books
<1>1. Init => Books
  <2> SUFFICES ASSUME Init PROVE Books
    OBVIOUS
  <2>0. /\ option \in Options /\ pc = "idle" /\ lev = Coarsest /\ frame = [l \in TimeLevels |-> NoFrame]
        /\ impulse = ZeroEach /\ flux = ZeroEach /\ applied = [f \in TimeLevels |-> ZeroEach]
        /\ deferred = ZeroEach /\ momentum = ZeroEach /\ energy = ZeroEach
    BY Zenon DEF Init
  <2>1. BooksType
    BY <2>0, ZeroBook DEF BooksType
  <2>2. \A f, k \in TimeLevels : ZeroEach[f][k] = 0 /\ \A m \in TimeLevels : applied[f][k][m] = 0
    BY <2>0, ZeroBook
  <2>3. Acted
    BY <2>0, <2>2 DEF Acted, Underway
  <2>4. \A f \in TimeLevels : ~IsOpen(f)
    <3>1. \A f \in TimeLevels : ~(f < Coarsest)
      BY <2>0, LevelSet
    <3> QED
      BY <2>0, <3>1 DEF IsOpen, Opened
  <2>5. 0 \in Ticks /\ 0 <= 0 /\ \A f \in TimeLevels : frame[f].step = 0
    BY <2>0, FramesAssumption DEF Ticks, NoFrame
  <2>6. \A f \in TimeLevels : ClosedBooks(f)
    BY <2>0, <2>2, <2>5 DEF ClosedBooks
  <2> QED
    BY <2>1, <2>3, <2>4, <2>6 DEF Books
<1>2. Timed /\ Books /\ [Next]_vars => Books'
  <2>1. ASSUME Timed, Books, UNCHANGED vars PROVE Books'
    <3>1. /\ pc' = pc /\ lev' = lev /\ time' = time /\ frame' = frame /\ impulse' = impulse /\ flux' = flux
          /\ applied' = applied /\ deferred' = deferred /\ momentum' = momentum /\ energy' = energy
          /\ TimeLevels' = TimeLevels /\ Ticks' = Ticks /\ \A l, m : Holds(l, m)' = Holds(l, m)
      BY <2>1, OptionKept DEF vars, Ticks
    <3>2. \A l \in TimeLevels : Reached(l)' = Reached(l) /\ Closed(l)' = Closed(l) /\ IsOpen(l)' = IsOpen(l)
      BY <3>1 DEF Reached, Closed, IsOpen, Opened, Closing, Upto, At
    <3>3. BooksType'
      BY <2>1, <3>1 DEF Books, BooksType, IsBook
    <3>4. Acted'
      BY <2>1, <3>1, <3>2 DEF Books, Acted, Underway
    <3>5. ASSUME NEW f \in TimeLevels PROVE FrameBooks(f) => FrameBooks(f)'
      BY <3>1, <3>2 DEF FrameBooks
    <3>6. ASSUME NEW f \in TimeLevels PROVE ClosedBooks(f) => ClosedBooks(f)'
      BY <3>1 DEF ClosedBooks, Choosing
    <3> QED
      BY <2>1, <3>1, <3>2, <3>3, <3>4, <3>5, <3>6 DEF Books
  <2> QED
    BY <2>1, BooksNext
<1> QED
  BY <1>1, <1>2, TimedAlways, PTL DEF Spec

(* Whenever the coarsest level has closed a frame, gravity has acted on    *)
(* every level for exactly the elapsed time, in its momentum through every *)
(* frame that may hold it and in its energy through every frame, whatever  *)
(* was provisional, forecast or deferred on the way (provisionalGravity,   *)
(* closeGravityFrame).                                                     *)
THEOREM ExchangeIsBooked == Spec => []ExchangeBooked
<1>1. Timed /\ Books => ExchangeBooked
  <2> SUFFICES ASSUME Timed, Books, pc \in {"cfl", "normalize"}, lev = Coarsest,
                      NEW l \in TimeLevels, NEW k \in TimeLevels
               PROVE  /\ energy[l][k] = frame[lev].elapsed
                      /\ momentum[l][k] = IF k = l \/ (k < l /\ ~option.conventional) THEN frame[lev].elapsed ELSE 0
    BY DEF ExchangeBooked
  <2>0. /\ option \in Options /\ lev \in TimeLevels /\ l \in Nat /\ k \in Nat
        /\ \A m \in TimeLevels : m \in Nat /\ Coarsest <= m
    BY LevelSet DEF Timed, Control
  <2>1. Underway
    BY DEF Underway
  <2>2. Reached(l) = At(lev)
    <3>1. ~(l < lev)
      BY <2>0
    <3> QED
      BY <3>1 DEF Reached, Closing
  <2>3. frame[lev].from = time /\ frame[lev].from \in Nat /\ frame[lev].elapsed \in Nat
    <3>1. frame[lev].from = time
      BY <2>1 DEF Timed, Clock
    <3> QED
      BY <3>1, <2>0, FrameFields DEF Timed
  <2>4. Reached(l) - time = frame[lev].elapsed
    BY <2>2, <2>3 DEF At
  <2>5. /\ energy[l][k] = Reached(l) - time
        /\ momentum[l][k] = IF Holds(l, k) THEN Reached(l) - time ELSE 0
    BY <2>1 DEF Books, Acted
  <2>6. Holds(l, k) <=> k = l \/ (k < l /\ ~option.conventional)
    BY <2>0 DEF Holds
  <2> QED
    BY <2>4, <2>5, <2>6
<1> QED
  BY <1>1, TimedAlways, BooksAlways, PTL

(* Every variable of the recursion stays in its range: no bank, endpoint   *)
(* or slot out of bounds, no entry of a book beyond the published time's   *)
(* bound, and no impulse longer than the step of its frame.                *)
THEOREM FramesTypes == Spec => []TypeOK
<1>1. Timed /\ Banks /\ Shells /\ GravityHolds /\ Books => TypeOK
  <2> SUFFICES ASSUME Timed, Banks, Shells, GravityHolds, Books PROVE TypeOK
    OBVIOUS
  <2>0. /\ Control /\ lev \in TimeLevels /\ (\A l \in TimeLevels : l \in Nat) /\ BooksType
        /\ Ticks = 0 .. MaxTime /\ MaxTime \in Nat
    BY LevelSet, FramesAssumption DEF Timed, Control, Books, Ticks
  <2>1. \A l \in TimeLevels :
          /\ frame[l].elapsed <= frame[l].duration /\ frame[l].step <= frame[l].duration
          /\ levels[l].bank \in {0, 1} /\ levels[l].pending \in BOOLEAN
          /\ DOMAIN density[l] = 0..3 /\ DOMAIN gravity[l] = 0..2
          /\ cachedNested[l].at \in Ticks \cup {-1}
    <3> SUFFICES ASSUME NEW l \in TimeLevels
                 PROVE  /\ frame[l].elapsed <= frame[l].duration /\ frame[l].step <= frame[l].duration
                        /\ levels[l].bank \in {0, 1} /\ levels[l].pending \in BOOLEAN
                        /\ DOMAIN density[l] = 0..3 /\ DOMAIN gravity[l] = 0..2
                        /\ cachedNested[l].at \in Ticks \cup {-1}
      OBVIOUS
    <3>1. frame[l].elapsed <= frame[l].duration /\ frame[l].step <= frame[l].duration
      BY <2>0 DEF Control
    <3>2. levels[l] \in Level /\ density[l] \in [0..3 -> Contents]
      BY DEF Banks, BanksType
    <3>3. gravity[l] \in [0..2 -> Fields]
      BY DEF GravityHolds
    <3>4. cachedNested[l] \in [at : Ticks \cup {-1}, field : Fields]
      BY DEF Shells, FieldsType
    <3> QED
      BY <3>1, <3>2, <3>3, <3>4 DEF Level
  <2>2. {nested, shell, force} \subseteq [TimeLevels -> [{0, 1} -> SUBSET (TimeLevels \X
          [at : Ticks, kind : {"state", "raw", "forecast", "between", "unset"}])]]
    BY DEF Shells, FieldsType, Fields, Contents
  <2>3. ASSUME NEW f \in TimeLevels
        PROVE  /\ \A k \in TimeLevels : impulse[f][k] \in Ticks /\ flux[f][k] \in Ticks /\ deferred[f][k] \in Ticks
               /\ \A k \in TimeLevels : impulse[f][k] <= frame[f].step \/ pc \in {"cfl", "open"}
               /\ \A k, m \in TimeLevels : applied[f][k][m] \in Ticks
    <3>1. CASE IsOpen(f)
      <4>1. Underway
        <5>1. ASSUME pc = "idle" PROVE FALSE
          <6>1. lev = Coarsest /\ ~Opened
            BY <5>1, <2>0 DEF Control, Underway, Opened
          <6>2. ~(f < lev)
            BY <6>1, <2>0, LevelSet DEF Control
          <6> QED
            BY <6>1, <6>2, <3>1 DEF IsOpen
        <5> QED
          BY <5>1 DEF Underway
      <4>2. ASSUME NEW k \in TimeLevels, k >= f
            PROVE  /\ Reached(k) - frame[f].begin \in Ticks /\ Closed(k) - frame[f].begin \in Ticks
                   /\ Reached(k) - frame[f].begin <= frame[f].step
        <5>1. /\ Reached(k) \in Ticks /\ Closed(k) \in Ticks /\ frame[f].begin \in Ticks
              /\ frame[f].begin <= Reached(k) /\ Reached(k) <= Upto(f) /\ frame[f].begin <= Closed(k)
          BY <3>1, <4>1, <4>2, ReachedWithin
        <5>2. frame[f].step \in Nat /\ Upto(f) = frame[f].begin + frame[f].step
          BY FrameFields DEF Timed, Upto
        <5>3. Reached(k) \in Nat /\ Closed(k) \in Nat /\ frame[f].begin \in Nat /\ Reached(k) <= MaxTime /\ Closed(k) <= MaxTime
          BY <5>1, <2>0
        <5>4. ASSUME NEW a \in Nat, NEW b \in Nat, NEW m \in Nat, b <= a, a <= m PROVE a - b \in 0 .. m
          BY <5>4
        <5>5. Reached(k) - frame[f].begin \in Ticks /\ Closed(k) - frame[f].begin \in Ticks
          BY <5>1, <5>3, <5>4, <2>0
        <5>6. Reached(k) - frame[f].begin <= frame[f].step
          BY <5>1, <5>2, <5>3
        <5> QED
          BY <5>5, <5>6
      <4>3. FrameBooks(f)
        BY <3>1 DEF Books
      <4>4. 0 \in Ticks /\ frame[f].step \in Nat /\ 0 <= frame[f].step
        BY <2>0, FrameFields DEF Timed
      <4>5. ASSUME NEW k \in TimeLevels
            PROVE  /\ impulse[f][k] \in Ticks /\ flux[f][k] \in Ticks /\ deferred[f][k] \in Ticks
                   /\ impulse[f][k] <= frame[f].step
                   /\ \A m \in TimeLevels : applied[f][k][m] \in Ticks
        <5>1. /\ impulse[f][k] = IF Holds(k, f) THEN Reached(k) - frame[f].begin ELSE 0
              /\ flux[f][k] = IF k >= f THEN Reached(k) - frame[f].begin ELSE 0
              /\ deferred[f][k] = IF k > f THEN Closed(k) - frame[f].begin ELSE 0
              /\ \A m \in TimeLevels : applied[f][k][m] =
                   IF (k = f /\ m >= f) \/ (k > f /\ m = f) THEN Reached(k) - frame[f].begin ELSE 0
          BY <4>3 DEF FrameBooks
        <5>2. (Holds(k, f) => k >= f) /\ (k > f => k >= f) /\ (k = f => k >= f)
          BY <2>0 DEF Holds
        <5> QED
          BY <4>2, <4>4, <5>1, <5>2
      <4> QED
        BY <4>5
    <3>2. CASE ~IsOpen(f)
      <4>1. ClosedBooks(f)
        BY <3>2 DEF Books
      <4> QED
        BY <4>1 DEF ClosedBooks, Choosing
    <3> QED
      BY <3>1, <3>2
  <2>4. IsLedger(impulse) /\ IsLedger(flux) /\ IsLedger(deferred)
    BY <2>0, <2>3 DEF IsLedger, BooksType, IsBook
  <2>5. \A f \in TimeLevels : IsLedger(applied[f])
    BY <2>0, <2>3 DEF IsLedger, BooksType
  <2> QED
    BY <2>0, <2>1, <2>2, <2>3, <2>4, <2>5 DEF TypeOK, Control
<1> QED
  BY <1>1, TimedAlways, BanksAlways, ShellsAlways, GravityAlways, BooksAlways, PTL
=============================================================================
