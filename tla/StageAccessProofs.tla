-------------------------- MODULE StageAccessProofs --------------------------
(***************************************************************************)
(* StageAccess: whatever the order of the tasks of a stage, no block writes  *)
(* what the task of another block reads or writes meanwhile, all they use is *)
(* allocated, and what they read is what an earlier stage computed for it. *)
(***************************************************************************)
EXTENDS StageAccess, NatLemmas

Ops == {"Backup", "Restore", "Normalize", "ResetFlux", "Timestep", "Advance", "Probe", "Reflux",
        "PrepareGravityEnergy", "Kick", "KickTracked", "SolveGravity", "FinishGravityEnergy", "Save",
        "SaveRadiationStep", "PredictRadiationStep", "ForecastRadiationStep", "FinishRadiationStep",
        "RestoreRadiationStep", "CoupleRadiation"}
StageType == [op : Ops, level : Int, at : Nat]
Marks == {"Timestep", "Backup", "Normalize"}

(* Stage p works on a level whose time was set to its own before.          *)
Timed(s, p) ==
  /\ s[p].level \in Nat
  /\ \E q \in 1 .. (p - 1) :
       /\ s[q].op = "Timestep" /\ s[q].level = s[p].level /\ s[q].at = s[p].at
       /\ \A r \in (q + 1) .. (p - 1) : s[r].op \notin Marks

(* What an interval may consist of, and a whole call.                      *)
Inner(s) ==
  /\ s \in Seq(StageType)
  /\ \A p \in 1 .. Len(s) : s[p].op \notin {"Backup", "Normalize"}
  /\ \A p \in 1 .. Len(s) : s[p].op \in {"Advance", "Probe"} => Timed(s, p)
Flat(s) ==
  /\ s \in Seq(StageType)
  /\ \A p \in 1 .. Len(s) : s[p].op # "Backup" /\ (p = 1 => s[p].op # "Reflux")
Fine(s) ==
  /\ s \in Seq(StageType) /\ Len(s) > 0 /\ s[1].op # "Reflux"
  /\ \A p \in 1 .. Len(s) : s[p].op \in {"Advance", "Probe"} =>
       Timed(s, p) \/ \A q \in 1 .. (p - 1) : s[q].op # "Backup"
  /\ (\E q \in 1 .. Len(s) : s[q].op = "Backup") => s[Len(s)].op = "Normalize"

(* Timed does not depend on what surrounds the sequence.                   *)
LEMMA TimedWithin ==
  ASSUME NEW s \in Seq(StageType), NEW n \in Nat, NEW u, NEW p \in 1 .. Len(s), Timed(s, p),
         \A k \in 1 .. Len(s) : u[n + k] = s[k]
  PROVE  Timed(u, n + p)
<1>1. PICK q \in 1 .. (p - 1) :
        /\ s[q].op = "Timestep" /\ s[q].level = s[p].level /\ s[q].at = s[p].at
        /\ \A r \in (q + 1) .. (p - 1) : s[r].op \notin Marks
  BY DEF Timed
<1>2. Len(s) \in Nat
  OBVIOUS
<1>3. u[n + p] = s[p] /\ u[n + q] = s[q] /\ n + q \in 1 .. ((n + p) - 1)
  BY <1>2
<1>4. ASSUME NEW r \in ((n + q) + 1) .. ((n + p) - 1) PROVE u[r].op \notin Marks
  <2>1. r - n \in (q + 1) .. (p - 1) /\ r - n \in 1 .. Len(s) /\ n + (r - n) = r
    BY <1>2
  <2>2. u[n + (r - n)] = s[r - n]
    BY <2>1
  <2> QED
    BY <1>1, <2>1, <2>2
<1>5. s[p].level \in Nat
  BY DEF Timed
<1> QED
  BY <1>1, <1>3, <1>4, <1>5 DEF Timed

(* Two pieces of an interval, one after the other.                         *)
LEMMA InnerConcat ==
  ASSUME NEW s, NEW t, Inner(s), Inner(t)
  PROVE  Inner(s \o t)
<1> DEFINE u == s \o t
           n == Len(s)
<1>1. s \in Seq(StageType) /\ t \in Seq(StageType) /\ n \in Nat /\ Len(t) \in Nat
  BY DEF Inner
<1>2. u \in Seq(StageType) /\ Len(u) = n + Len(t)
  BY <1>1
<1>3. \A k \in 1 .. n : u[k] = s[k] /\ u[0 + k] = s[k]
  BY <1>1
<1>4. \A k \in 1 .. Len(t) : u[n + k] = t[k]
  BY <1>1
<1> HIDE DEF u, n
<1>5. ASSUME NEW p \in 1 .. Len(u) PROVE p \in 1 .. n \/ (p - n \in 1 .. Len(t) /\ n + (p - n) = p)
  BY <1>1, <1>2
<1>6. ASSUME NEW p \in 1 .. Len(u) PROVE u[p].op \notin {"Backup", "Normalize"}
  <2>1. CASE p \in 1 .. n
    BY <1>3, <2>1 DEF Inner, n
  <2>2. CASE p - n \in 1 .. Len(t) /\ n + (p - n) = p
    <3>1. u[n + (p - n)] = t[p - n]
      BY <1>4, <2>2
    <3> QED
      BY <2>2, <3>1 DEF Inner
  <2> QED
    BY <1>5, <2>1, <2>2
<1>7. ASSUME NEW p \in 1 .. Len(u), u[p].op \in {"Advance", "Probe"} PROVE Timed(u, p)
  <2>1. CASE p \in 1 .. n
    <3>1. s[p].op \in {"Advance", "Probe"} /\ p \in 1 .. Len(s)
      BY <1>3, <1>7, <2>1 DEF n
    <3>2. Timed(s, p)
      BY <3>1 DEF Inner
    <3>3. Timed(u, 0 + p)
      BY <1>1, <1>3, <3>1, <3>2, TimedWithin DEF n
    <3> QED
      BY <2>1, <3>3
  <2>2. CASE p - n \in 1 .. Len(t) /\ n + (p - n) = p
    <3> DEFINE k == p - n
    <3>1. u[p] = t[k] /\ k \in 1 .. Len(t) /\ n + k = p
      BY <1>4, <2>2
    <3> HIDE DEF k
    <3>2. Timed(t, k)
      BY <1>7, <3>1 DEF Inner
    <3>3. Timed(u, n + k)
      BY <1>1, <1>4, <3>1, <3>2, TimedWithin
    <3> QED
      BY <3>1, <3>3
  <2> QED
    BY <1>5, <2>1, <2>2
<1> QED
  BY <1>2, <1>6, <1>7 DEF Inner, u

(* The pieces a substep is made of.                                        *)
LEMMA InnerPieces ==
  ASSUME NEW l \in Nat, NEW at \in Nat
  PROVE  /\ Inner(<<>>)
         /\ \A op \in {"ResetFlux", "FinishRadiationStep"} : \A use \in BOOLEAN : Inner(Only(use, op, l, at))
         /\ Inner(<<At("Reflux", l, at)>>)
         /\ Inner(<<At("Timestep", l, at), At("Advance", l, at)>>)
         /\ Inner(<<At("Timestep", l, at), At("SaveRadiationStep", l, at), At("Probe", l, at),
                    At("PredictRadiationStep", -1, at), At("Advance", l, at),
                    At("ForecastRadiationStep", l, at)>>)
<1>1. \A op \in Ops : At(op, l, at) \in StageType /\ At(op, -1, at) \in StageType /\ At(op, l, at).op = op
                        /\ At(op, -1, at).op = op /\ At(op, l, at).level = l /\ At(op, l, at).at = at
  BY DEF At, StageType
<1>2. Inner(<<>>)
  BY DEF Inner
<1>3. ASSUME NEW op \in Ops, op \notin {"Backup", "Normalize", "Advance", "Probe"}
      PROVE  Inner(<<At(op, l, at)>>)
  <2> DEFINE s == <<At(op, l, at)>>
  <2>1. s \in Seq(StageType) /\ Len(s) = 1 /\ s[1].op = op
    BY <1>1
  <2> HIDE DEF s
  <2>2. \A p \in 1 .. Len(s) : s[p].op = op
    BY <2>1
  <2> QED
    BY <1>3, <2>1, <2>2 DEF Inner, s
<1>4. ASSUME NEW op \in {"ResetFlux", "FinishRadiationStep"}, NEW use \in BOOLEAN
      PROVE  Inner(Only(use, op, l, at))
  BY <1>2, <1>3 DEF Only, Ops
<1>5. Inner(<<At("Timestep", l, at), At("Advance", l, at)>>)
  <2> DEFINE s == <<At("Timestep", l, at), At("Advance", l, at)>>
  <2>1. /\ s \in Seq(StageType) /\ Len(s) = 2 /\ s[1].op = "Timestep" /\ s[2].op = "Advance"
        /\ s[1].level = l /\ s[2].level = l /\ s[1].at = at /\ s[2].at = at
    BY <1>1 DEF Ops
  <2> HIDE DEF s
  <2>2. \A p \in 1 .. Len(s) : p = 1 \/ p = 2
    BY <2>1
  <2>3. Timed(s, 2)
    BY <2>1 DEF Timed
  <2> QED
    BY <2>1, <2>2, <2>3 DEF Inner, s
<1>6. Inner(<<At("Timestep", l, at), At("SaveRadiationStep", l, at), At("Probe", l, at),
              At("PredictRadiationStep", -1, at), At("Advance", l, at),
              At("ForecastRadiationStep", l, at)>>)
  <2> DEFINE s == <<At("Timestep", l, at), At("SaveRadiationStep", l, at), At("Probe", l, at),
                    At("PredictRadiationStep", -1, at), At("Advance", l, at),
                    At("ForecastRadiationStep", l, at)>>
  <2>1. /\ s \in Seq(StageType) /\ Len(s) = 6 /\ s[1].op = "Timestep" /\ s[2].op = "SaveRadiationStep"
        /\ s[3].op = "Probe" /\ s[4].op = "PredictRadiationStep" /\ s[5].op = "Advance"
        /\ s[6].op = "ForecastRadiationStep"
        /\ s[1].level = l /\ s[3].level = l /\ s[5].level = l /\ s[1].at = at /\ s[3].at = at /\ s[5].at = at
    BY <1>1 DEF Ops
  <2> HIDE DEF s
  <2>2. \A p \in 1 .. Len(s) : p = 1 \/ p = 2 \/ p = 3 \/ p = 4 \/ p = 5 \/ p = 6
    BY <2>1
  <2>3. \A r \in 2 .. 4 : s[r].op \notin Marks
    BY <2>1 DEF Marks
  <2>4. Timed(s, 3) /\ Timed(s, 5)
    BY <2>1, <2>3 DEF Timed
  <2>5. \A p \in 1 .. Len(s) : s[p].op \notin {"Backup", "Normalize"}
    BY <2>1, <2>2
  <2>6. \A p \in 1 .. Len(s) : s[p].op \in {"Advance", "Probe"} => p = 3 \/ p = 5
    BY <2>1, <2>2
  <2> QED
    BY <2>1, <2>4, <2>5, <2>6 DEF Inner, s
<1> QED
  BY <1>2, <1>3, <1>4, <1>5, <1>6 DEF Ops
-----------------------------------------------------------------------------
(***************************************************************************)
(* advanceLevel. A frame takes a value from the frame it goes into, on the   *)
(* next level, and from the one it goes on with, after its substep.        *)
(***************************************************************************)
Frames(o) == [level : TimeLevels(o), at : Nat, length : Nat, i : Nat]
Finer(o, l) == {m \in TimeLevels(o) : m > l}
NextFiner(o, l) == CHOOSE m \in Finer(o, l) : \A k \in Finer(o, l) : m <= k
StepOf(o, x) == x.length \div o.steps[x.level]
Now(o, x) == x.at + x.i * StepOf(o, x)
Into(o, x) == [level |-> NextFiner(o, x.level), at |-> Now(o, x), length |-> StepOf(o, x), i |-> 0]
After(x) == [x EXCEPT !.i = @ + 1]
Layer(o, x, into, after) ==
  IF x.i >= o.steps[x.level] THEN <<>>
  ELSE Only(x.i = 0, "ResetFlux", x.level, Now(o, x))
       \o (IF o.coupled
             THEN <<At("Timestep", x.level, Now(o, x)), At("SaveRadiationStep", x.level, Now(o, x)),
                    At("Probe", x.level, Now(o, x)), At("PredictRadiationStep", -1, Now(o, x)),
                    At("Advance", x.level, Now(o, x)), At("ForecastRadiationStep", x.level, Now(o, x))>>
             ELSE <<At("Timestep", x.level, Now(o, x)), At("Advance", x.level, Now(o, x))>>)
       \o (IF Finer(o, x.level) = {} THEN <<>> ELSE into)
       \o <<At("Reflux", x.level, Now(o, x) + StepOf(o, x))>>
       \o Only(o.coupled, "FinishRadiationStep", x.level, Now(o, x) + StepOf(o, x))
       \o after
Layers(o, f) == [x \in Frames(o) |-> Layer(o, x, f[Into(o, x)], f[After(x)])]

LEMMA LevelsOf ==
  ASSUME NEW o \in Options
  PROVE  /\ TimeLevels(o) \in SUBSET Nat /\ IsFiniteSet(TimeLevels(o))
         /\ \A l \in TimeLevels(o) : o.steps[l] \in Nat \ {0}
<1>1. \A b \in Leaves : TimeLevelOf(o, b) \in Nat
  BY OptionAssumption, MeshAssumption DEF TimeLevelOf
<1>2. IsFiniteSet(TimeLevels(o))
  <2> DEFINE f == [b \in Leaves |-> TimeLevelOf(o, b)]
  <2>1. f \in Surjection(Leaves, TimeLevels(o))
    BY DEF TimeLevels, Surjection
  <2> QED
    BY <2>1, MeshAssumption, FS_Surjection
<1> QED
  BY <1>1, <1>2, OptionAssumption, MeshAssumption DEF TimeLevels

(* Frames lead to frames.                                                  *)
LEMMA FramesLead ==
  ASSUME NEW o \in Options, NEW x \in Frames(o)
  PROVE  /\ x.level \in TimeLevels(o) /\ x.i \in Nat /\ Now(o, x) \in Nat /\ StepOf(o, x) \in Nat
         /\ o.steps[x.level] \in Nat \ {0}
         /\ After(x) \in Frames(o) /\ After(x).level = x.level /\ After(x).i = x.i + 1
         /\ Finer(o, x.level) # {} =>
              Into(o, x) \in Frames(o) /\ Into(o, x).level \in TimeLevels(o) /\ Into(o, x).level > x.level
<1>1. /\ x.level \in TimeLevels(o) /\ x.at \in Nat /\ x.length \in Nat /\ x.i \in Nat
      /\ x.level \in Nat /\ o.steps[x.level] \in Nat \ {0}
  BY LevelsOf DEF Frames
<1>2. StepOf(o, x) \in Nat
  BY <1>1, Quotient DEF StepOf
<1>3. Now(o, x) \in Nat
  <2> HIDE DEF StepOf
  <2>1. x.i * StepOf(o, x) \in Nat
    BY <1>1, <1>2
  <2> QED
    BY <1>1, <2>1 DEF Now
<1>4. After(x) \in Frames(o) /\ After(x).level = x.level /\ After(x).i = x.i + 1
  BY <1>1 DEF After, Frames
<1>5. ASSUME Finer(o, x.level) # {}
      PROVE  Into(o, x) \in Frames(o) /\ Into(o, x).level \in TimeLevels(o) /\ Into(o, x).level > x.level
  <2>1. Finer(o, x.level) \in SUBSET Nat
    BY LevelsOf DEF Finer
  <2>2. \E m \in Finer(o, x.level) : \A k \in Finer(o, x.level) : m <= k
    BY <1>5, <2>1, Least
  <2>3. NextFiner(o, x.level) \in Finer(o, x.level)
    BY <2>2 DEF NextFiner
  <2>4. NextFiner(o, x.level) \in TimeLevels(o) /\ NextFiner(o, x.level) > x.level
    BY <2>3 DEF Finer
  <2> QED
    BY <1>2, <1>3, <2>4 DEF Into, Frames
<1> QED
  BY <1>1, <1>2, <1>3, <1>4, <1>5

(* Counting down the levels from the finest.                               *)
LEMMA CountLevels ==
  ASSUME NEW o \in Options, NEW Solved, {} \in Solved,
         \A X \in SUBSET TimeLevels(o) : \A l \in TimeLevels(o) :
           X \in Solved /\ l \notin X /\ X = Finer(o, l) => X \cup {l} \in Solved
  PROVE  TimeLevels(o) \in Solved
<1>1. TimeLevels(o) \in SUBSET Nat /\ IsFiniteSet(TimeLevels(o))
  BY LevelsOf
<1>2. CASE TimeLevels(o) = {}
  BY <1>2
<1>3. CASE TimeLevels(o) # {}
  <2>1. PICK top \in TimeLevels(o) : \A l \in TimeLevels(o) : l <= top
    BY <1>1, <1>3, FiniteGreatest
  <2> DEFINE Above(k) == {l \in TimeLevels(o) : l + k > top}
             S == {k \in Nat : Above(k) \in Solved}
  <2>2. 0 \in S
    <3>1. Above(0) = {}
      BY <1>1, <2>1
    <3> QED
      BY <3>1
  <2>3. ASSUME NEW k \in Nat, k \in S PROVE k + 1 \in S
    <3>1. CASE \E l \in TimeLevels(o) : l + k = top
      <4>1. PICK l \in TimeLevels(o) : l + k = top
        BY <3>1
      <4>2. Above(k) = Finer(o, l) /\ l \notin Above(k) /\ Above(k + 1) = Above(k) \cup {l}
        BY <1>1, <2>1, <4>1 DEF Finer
      <4> HIDE DEF Above
      <4>3. Above(k) \in SUBSET TimeLevels(o)
        BY DEF Above
      <4> QED
        BY <2>3, <4>2, <4>3
    <3>2. CASE ~\E l \in TimeLevels(o) : l + k = top
      <4>1. Above(k + 1) = Above(k)
        BY <1>1, <2>1, <3>2
      <4> HIDE DEF Above
      <4> QED
        BY <2>3, <4>1
    <3> QED
      BY <3>1, <3>2
  <2> HIDE DEF S
  <2>4. \A k \in Nat : k \in S
    BY <2>2, <2>3, Counting
  <2>5. top + 1 \in Nat /\ Above(top + 1) = TimeLevels(o)
    BY <1>1, <2>1
  <2> HIDE DEF Above
  <2>6. top + 1 \in S
    BY <2>4, <2>5
  <2> QED
    BY <2>5, <2>6 DEF S
<1> QED
  BY <1>2, <1>3

(* A frame depends on those it leads to only.                              *)
LEMMA LayerLocal ==
  ASSUME NEW o, NEW x, NEW u, NEW v, NEW w, NEW z,
         x.i >= o.steps[x.level] \/ (v = z /\ (Finer(o, x.level) = {} \/ u = w))
  PROVE  Layer(o, x, u, v) = Layer(o, x, w, z)
<1>1. CASE x.i >= o.steps[x.level]
  BY <1>1, Zenon DEF Layer
<1>2. CASE v = z /\ Finer(o, x.level) = {}
  BY <1>2, Zenon DEF Layer
<1>3. CASE v = z /\ u = w
  BY <1>3, Zenon
<1> QED
  BY <1>1, <1>2, <1>3

(* The recursion is well founded: levels get finer, substeps are counted.  *)
LEMMA LayersFit ==
  ASSUME NEW o \in Options
  PROVE  \E f : f = Layers(o, f)
<1> DEFINE Fits(g, x) == g[x] = Layer(o, x, g[Into(o, x)], g[After(x)])
           Solved == {X \in SUBSET TimeLevels(o) : \E g : \A x \in Frames(o) : x.level \in X => Fits(g, x)}
<1>1. {} \in Solved
  OBVIOUS
<1>2. ASSUME NEW X \in SUBSET TimeLevels(o), NEW l \in TimeLevels(o), X \in Solved, l \notin X, X = Finer(o, l)
      PROVE  X \cup {l} \in Solved
  <2> DEFINE count == o.steps[l]
             Due(x, n) == x.level \in X \/ (x.level = l /\ x.i + n >= count)
             S == {n \in Nat : \E h : \A x \in Frames(o) : Due(x, n) => Fits(h, x)}
  <2>1. count \in Nat \ {0} /\ l \in Nat /\ TimeLevels(o) \in SUBSET Nat
    BY LevelsOf
  <2>2. ASSUME NEW x \in Frames(o), x.level \in X \cup {l}
        PROVE  /\ x.level \in Nat /\ x.level >= l /\ x.i \in Nat
               /\ After(x) \in Frames(o) /\ After(x).level = x.level /\ After(x).i = x.i + 1
               /\ Finer(o, x.level) # {} => Into(o, x) \in Frames(o) /\ Into(o, x).level # l
    <3>1. x.level \in Nat /\ x.level >= l
      BY <1>2, <2>1, <2>2 DEF Finer
    <3>2. ASSUME Finer(o, x.level) # {} PROVE Into(o, x) \in Frames(o) /\ Into(o, x).level # l
      <4>1. Into(o, x) \in Frames(o) /\ Into(o, x).level \in Nat /\ Into(o, x).level > x.level
        BY <2>1, <3>2, FramesLead
      <4> QED
        BY <2>1, <3>1, <4>1
    <3> QED
      BY <3>1, <3>2, FramesLead
  <2>3. 0 \in S
    <3>1. PICK g : \A x \in Frames(o) : x.level \in X => Fits(g, x)
      BY <1>2
    <3> DEFINE h == [x \in Frames(o) |-> IF x.level = l /\ x.i >= count THEN <<>> ELSE g[x]]
    <3>2. \A x \in Frames(o) : x.level # l => h[x] = g[x]
      OBVIOUS
    <3>3. \A x \in Frames(o) : x.level = l /\ x.i >= count => h[x] = <<>>
      OBVIOUS
    <3> HIDE DEF h, count
    <3>4. ASSUME NEW x \in Frames(o), x.level \in X PROVE Fits(h, x)
      <4>1. After(x) \in Frames(o) /\ After(x).level # l /\ x.level # l
        BY <1>2, <2>2, <3>4
      <4>2. h[x] = g[x] /\ h[After(x)] = g[After(x)]
        BY <3>2, <4>1
      <4>3. Finer(o, x.level) = {} \/ h[Into(o, x)] = g[Into(o, x)]
        BY <2>2, <3>2, <3>4
      <4>4. g[x] = Layer(o, x, g[Into(o, x)], g[After(x)])
        BY <3>1, <3>4
      <4> QED
        BY <4>2, <4>3, <4>4, LayerLocal
    <3>5. ASSUME NEW x \in Frames(o), x.level = l, x.i >= count PROVE Fits(h, x)
      <4>1. Layer(o, x, h[Into(o, x)], h[After(x)]) = <<>>
        BY <3>5, Zenon DEF Layer, count
      <4> QED
        BY <3>3, <3>5, <4>1
    <3>6. \A x \in Frames(o) : Due(x, 0) => Fits(h, x)
      <4> SUFFICES ASSUME NEW x \in Frames(o), Due(x, 0) PROVE Fits(h, x)
        OBVIOUS
      <4>1. x.i \in Nat /\ x.i + 0 = x.i
        BY FramesLead
      <4> HIDE DEF Fits
      <4> QED
        BY <3>4, <3>5, <4>1
    <3> HIDE DEF Due, Fits
    <3> QED
      BY <3>6
  <2>4. ASSUME NEW n \in Nat, n \in S PROVE n + 1 \in S
    <3>1. PICK g : \A x \in Frames(o) : Due(x, n) => Fits(g, x)
      BY <2>4
    <3> DEFINE New(x) == x.level = l /\ x.i + n + 1 = count
               h == [x \in Frames(o) |-> IF New(x) THEN Layer(o, x, g[Into(o, x)], g[After(x)]) ELSE g[x]]
    <3>2. \A x \in Frames(o) : ~New(x) => h[x] = g[x]
      OBVIOUS
    <3>3. \A x \in Frames(o) : New(x) => h[x] = Layer(o, x, g[Into(o, x)], g[After(x)])
      BY Zenon
    <3> HIDE DEF h, count, New
    <3>4. ASSUME NEW x \in Frames(o), Due(x, n + 1) PROVE Fits(h, x)
      <4>1. /\ x.level \in X \cup {l} /\ x.i \in Nat /\ count \in Nat
            /\ After(x) \in Frames(o) /\ After(x).level = x.level /\ After(x).i = x.i + 1
        BY <2>1, <2>2, <3>4
      <4>2. ~New(After(x))
        BY <1>2, <3>4, <4>1 DEF New
      <4>3. h[After(x)] = g[After(x)]
        BY <3>2, <4>1, <4>2
      <4>4. Finer(o, x.level) = {} \/ h[Into(o, x)] = g[Into(o, x)]
        BY <2>2, <3>2, <4>1 DEF New
      <4>5. h[x] = Layer(o, x, g[Into(o, x)], g[After(x)])
        <5>1. CASE New(x)
          BY <3>3, <5>1
        <5>2. CASE ~New(x)
          <6>1. Due(x, n)
            BY <3>4, <4>1, <5>2 DEF New
          <6> QED
            BY <3>1, <3>2, <5>2, <6>1
        <5> QED
          BY <5>1, <5>2
      <4> QED
        BY <4>3, <4>4, <4>5, LayerLocal
    <3> HIDE DEF Due, Fits
    <3> QED
      BY <3>4
  <2> HIDE DEF S
  <2>5. count \in S
    BY <2>1, <2>3, <2>4, Counting
  <2>6. PICK h : \A x \in Frames(o) : Due(x, count) => Fits(h, x)
    BY <2>5 DEF S
  <2> HIDE DEF Fits
  <2>7. ASSUME NEW x \in Frames(o), x.level \in X \cup {l} PROVE Fits(h, x)
    <3>1. x.i \in Nat /\ count \in Nat
      BY <2>1, FramesLead
    <3> HIDE DEF count
    <3> QED
      BY <2>6, <2>7, <3>1
  <2> QED
    BY <1>2, <2>7
<1> HIDE DEF Solved
<1>3. TimeLevels(o) \in Solved
  BY <1>1, <1>2, CountLevels
<1>4. PICK g : \A x \in Frames(o) : x.level \in TimeLevels(o) => Fits(g, x)
  BY <1>3 DEF Solved
<1> DEFINE f == [x \in Frames(o) |-> g[x]]
<1>5. ASSUME NEW x \in Frames(o) PROVE f[x] = Layer(o, x, f[Into(o, x)], f[After(x)])
  <2>1. f[x] = g[x] /\ f[After(x)] = g[After(x)] /\ (Finer(o, x.level) = {} \/ f[Into(o, x)] = g[Into(o, x)])
    BY FramesLead
  <2>2. g[x] = Layer(o, x, g[Into(o, x)], g[After(x)])
    BY <1>4, FramesLead
  <2> HIDE DEF f, Fits
  <2> QED
    BY <2>1, <2>2, LayerLocal
<1>6. f = [x \in Frames(o) |-> f[x]]
  OBVIOUS
<1> HIDE DEF f
<1>7. f = [x \in Frames(o) |-> Layer(o, x, f[Into(o, x)], f[After(x)])]
  BY <1>5, <1>6
<1> QED
  BY <1>7, Zenon DEF Layers

(* What a frame has once those it leads to have it, every frame has.       *)
LEMMA LayersSpread ==
  ASSUME NEW o \in Options, NEW G \in SUBSET Frames(o),
         \A x \in Frames(o) :
           (x.i < o.steps[x.level] =>
              After(x) \in G /\ (Finer(o, x.level) # {} => Into(o, x) \in G))
             => x \in G
  PROVE  G = Frames(o)
<1> DEFINE Solved == {X \in SUBSET TimeLevels(o) : \A x \in Frames(o) : x.level \in X => x \in G}
<1>1. {} \in Solved
  OBVIOUS
<1>2. ASSUME NEW X \in SUBSET TimeLevels(o), NEW l \in TimeLevels(o), X \in Solved, l \notin X, X = Finer(o, l)
      PROVE  X \cup {l} \in Solved
  <2> DEFINE count == o.steps[l]
             S == {n \in Nat : \A x \in Frames(o) : x.level = l /\ x.i + n >= count => x \in G}
  <2>1. count \in Nat /\ l \in Nat /\ TimeLevels(o) \in SUBSET Nat
    BY LevelsOf
  <2>2. ASSUME NEW x \in Frames(o), x.level = l, Finer(o, x.level) # {} PROVE Into(o, x) \in G
    <3>1. Into(o, x) \in Frames(o) /\ Into(o, x).level \in X
      BY <1>2, <2>1, <2>2, FramesLead DEF Finer
    <3> QED
      BY <1>2, <3>1
  <2>3. 0 \in S
    <3> SUFFICES ASSUME NEW x \in Frames(o), x.level = l, x.i + 0 >= count PROVE x \in G
      OBVIOUS
    <3>1. ~(x.i < o.steps[x.level])
      BY <2>1, FramesLead
    <3> QED
      BY <3>1
  <2>4. ASSUME NEW n \in Nat, n \in S PROVE n + 1 \in S
    <3> SUFFICES ASSUME NEW x \in Frames(o), x.level = l, x.i + (n + 1) >= count PROVE x \in G
      OBVIOUS
    <3>1. After(x) \in Frames(o) /\ After(x).level = l /\ After(x).i + n >= count
      BY <2>1, FramesLead
    <3>2. After(x) \in G
      BY <2>4, <3>1
    <3> QED
      BY <2>2, <3>2
  <2> HIDE DEF S
  <2>5. count \in S
    BY <2>1, <2>3, <2>4, Counting
  <2>6. \A x \in Frames(o) : x.level = l => x \in G
    <3> SUFFICES ASSUME NEW x \in Frames(o), x.level = l PROVE x \in G
      OBVIOUS
    <3>1. x.i + count >= count
      BY <2>1, FramesLead
    <3> HIDE DEF count
    <3> QED
      BY <2>5, <3>1 DEF S
  <2> QED
    BY <1>2, <2>6
<1> HIDE DEF Solved
<1>3. TimeLevels(o) \in Solved
  BY <1>1, <1>2, CountLevels
<1> QED
  BY <1>3, FramesLead DEF Solved

(* Whatever solves the recursion consists of whole substeps.               *)
LEMMA LayersInner ==
  ASSUME NEW o \in Options, o.coupled \in BOOLEAN, NEW f, f = Layers(o, f)
  PROVE  \A x \in Frames(o) : Inner(f[x])
<1> DEFINE G == {x \in Frames(o) : Inner(f[x])}
<1>1. ASSUME NEW x \in Frames(o), x.i < o.steps[x.level] => Inner(f[After(x)]),
             x.i < o.steps[x.level] /\ Finer(o, x.level) # {} => Inner(f[Into(o, x)])
      PROVE  Inner(f[x])
  <2>1. f[x] = Layer(o, x, f[Into(o, x)], f[After(x)])
    BY Zenon DEF Layers
  <2>2. /\ x.level \in Nat /\ x.i \in Nat /\ Now(o, x) \in Nat /\ StepOf(o, x) \in Nat
        /\ Now(o, x) + StepOf(o, x) \in Nat /\ o.steps[x.level] \in Nat
    BY FramesLead, LevelsOf
  <2>3. CASE x.i >= o.steps[x.level]
    <3>1. f[x] = <<>>
      BY <2>1, <2>3, Zenon DEF Layer
    <3> QED
      BY <2>2, <3>1, InnerPieces
  <2>4. CASE ~(x.i >= o.steps[x.level])
    <3> DEFINE p1 == Only(x.i = 0, "ResetFlux", x.level, Now(o, x))
               p2 == IF o.coupled
                       THEN <<At("Timestep", x.level, Now(o, x)), At("SaveRadiationStep", x.level, Now(o, x)),
                              At("Probe", x.level, Now(o, x)), At("PredictRadiationStep", -1, Now(o, x)),
                              At("Advance", x.level, Now(o, x)), At("ForecastRadiationStep", x.level, Now(o, x))>>
                       ELSE <<At("Timestep", x.level, Now(o, x)), At("Advance", x.level, Now(o, x))>>
               p3 == IF Finer(o, x.level) = {} THEN <<>> ELSE f[Into(o, x)]
               p4 == <<At("Reflux", x.level, Now(o, x) + StepOf(o, x))>>
               p5 == Only(o.coupled, "FinishRadiationStep", x.level, Now(o, x) + StepOf(o, x))
               p6 == f[After(x)]
    <3>1. f[x] = p1 \o p2 \o p3 \o p4 \o p5 \o p6
      BY <2>1, <2>4, Zenon DEF Layer
    <3>2. Inner(p1)
      <4>1. (x.i = 0) \in BOOLEAN
        OBVIOUS
      <4> QED
        BY <2>2, <4>1, InnerPieces
    <3>3. Inner(p2)
      BY <2>2, InnerPieces
    <3>4. Inner(p3)
      <4>1. CASE Finer(o, x.level) = {}
        <5>1. p3 = <<>>
          BY <4>1
        <5> HIDE DEF p3
        <5> QED
          BY <2>2, <5>1, InnerPieces
      <4>2. CASE Finer(o, x.level) # {}
        <5>1. Inner(f[Into(o, x)])
          BY <1>1, <2>2, <2>4, <4>2
        <5> QED
          BY <4>2, <5>1
      <4> QED
        BY <4>1, <4>2
    <3>5. Inner(p4)
      BY <2>2, InnerPieces
    <3>6. Inner(p5)
      BY <2>2, InnerPieces
    <3>7. Inner(p6)
      BY <1>1, <2>2, <2>4
    <3> HIDE DEF p1, p2, p3, p4, p5, p6
    <3>8. Inner(p1 \o p2)
      BY <3>2, <3>3, InnerConcat
    <3>9. Inner(p1 \o p2 \o p3)
      BY <3>4, <3>8, InnerConcat
    <3>10. Inner(p1 \o p2 \o p3 \o p4)
      BY <3>5, <3>9, InnerConcat
    <3>11. Inner(p1 \o p2 \o p3 \o p4 \o p5)
      BY <3>6, <3>10, InnerConcat
    <3>12. Inner(p1 \o p2 \o p3 \o p4 \o p5 \o p6)
      BY <3>7, <3>11, InnerConcat
    <3> QED
      BY <3>1, <3>12
  <2> QED
    BY <2>3, <2>4
<1>2. G = Frames(o)
  <2>1. ASSUME NEW x \in Frames(o), x.i < o.steps[x.level] => After(x) \in G,
               x.i < o.steps[x.level] /\ Finer(o, x.level) # {} => Into(o, x) \in G
        PROVE  x \in G
    BY <1>1, <2>1
  <2> HIDE DEF G
  <2>2. G \in SUBSET Frames(o)
    BY DEF G
  <2> QED
    BY <2>1, <2>2, LayersSpread
<1> QED
  BY <1>2

(* A call takes the stages of one frame, the whole interval.               *)
LEMMA RecursionFrame ==
  ASSUME NEW o \in Options, TimeLevels(o) # {}
  PROVE  \E f : \E whole \in Frames(o) : f = Layers(o, f) /\ whole.i = 0 /\ Recursion(o) = f[whole]
<1> DEFINE f == CHOOSE f : f = Layers(o, f)
           coarsest == CHOOSE l \in TimeLevels(o) : \A m \in TimeLevels(o) : l <= m
           whole == [level |-> coarsest, at |-> 0, length |-> 2^(2 * Cardinality(TimeLevels(o))), i |-> 0]
<1>1. f = Layers(o, f)
  BY LayersFit, Zenon
<1>2. Recursion(o) = f[whole]
  BY Zenon DEF Recursion, Layers, Frames, Layer, Finer, NextFiner, StepOf, Now, Into, After
<1>3. whole \in Frames(o)
  <2>1. coarsest \in TimeLevels(o)
    BY LevelsOf, Least
  <2>2. 2 * Cardinality(TimeLevels(o)) \in Nat
    BY LevelsOf, FS_CardinalityType
  <2>3. 2^(2 * Cardinality(TimeLevels(o))) \in Nat
    BY <2>2, Power
  <2> HIDE DEF coarsest
  <2> QED
    BY <2>1, <2>3 DEF Frames
<1>4. whole.i = 0
  OBVIOUS
<1> HIDE DEF f, whole
<1> QED
  BY <1>1, <1>2, <1>3, <1>4

(* The stages between the backup and the normalization.                    *)
LEMMA RecursionInner ==
  ASSUME NEW o \in Options, TimeLevels(o) # {}
  PROVE  Inner(Recursion(o))
<1>1. PICK f : \E whole \in Frames(o) : f = Layers(o, f) /\ Recursion(o) = f[whole]
  BY RecursionFrame
<1>2. o.coupled \in BOOLEAN
  BY OptionAssumption
<1> QED
  BY <1>1, <1>2, LayersInner
-----------------------------------------------------------------------------
(***************************************************************************)
(* The stages of a call: with time refinement an interval between a backup   *)
(* and a normalization, without it no backup at all.                       *)
(***************************************************************************)
LEMMA FlatPieces ==
  /\ Flat(<<>>)
  /\ \A op \in Ops \ {"Backup", "Reflux"} : Flat(<<All(op)>>)
  /\ \A op \in Ops \ {"Backup", "Reflux"} : \A use \in BOOLEAN : Flat(Only(use, op, -1, 0))
<1>1. Flat(<<>>)
  BY DEF Flat
<1>2. ASSUME NEW op \in Ops \ {"Backup", "Reflux"} PROVE Flat(<<All(op)>>) /\ Flat(<<At(op, -1, 0)>>)
  <2> DEFINE s == <<All(op)>>
  <2>1. s = <<At(op, -1, 0)>> /\ s \in Seq(StageType) /\ Len(s) = 1 /\ s[1].op = op
    BY DEF All, At, StageType
  <2> HIDE DEF s
  <2>2. \A p \in 1 .. Len(s) : s[p].op = op
    BY <2>1
  <2>3. Flat(s)
    BY <1>2, <2>1, <2>2 DEF Flat
  <2> QED
    BY <2>1, <2>3 DEF s
<1>3. ASSUME NEW op \in Ops \ {"Backup", "Reflux"}, NEW use \in BOOLEAN PROVE Flat(Only(use, op, -1, 0))
  BY <1>1, <1>2 DEF Only
<1> QED
  BY <1>1, <1>2, <1>3

LEMMA FlatConcat ==
  ASSUME NEW s, NEW t, Flat(s), Flat(t)
  PROVE  Flat(s \o t) /\ Len(s \o t) = Len(s) + Len(t) /\ Len(s) \in Nat /\ Len(t) \in Nat
<1>1. s \in Seq(StageType) /\ t \in Seq(StageType)
  BY DEF Flat
<1>2. /\ s \o t \in Seq(StageType) /\ Len(s \o t) = Len(s) + Len(t)
      /\ Len(s) \in Nat /\ Len(t) \in Nat
  BY <1>1
<1>3. ASSUME NEW p \in 1 .. Len(s \o t)
      PROVE  (s \o t)[p].op # "Backup" /\ (p = 1 => (s \o t)[p].op # "Reflux")
  <2>1. CASE p \in 1 .. Len(s)
    <3>1. (s \o t)[p] = s[p]
      BY <1>1, <2>1
    <3> QED
      BY <2>1, <3>1 DEF Flat
  <2>2. CASE p - Len(s) \in 1 .. Len(t)
    <3>1. (s \o t)[p] = t[p - Len(s)]
      BY <1>1, <2>2
    <3>2. p = 1 => p - Len(s) = 1
      BY <1>2, <2>2
    <3> QED
      BY <2>2, <3>1, <3>2 DEF Flat
  <2> QED
    BY <1>2, <2>1, <2>2
<1> QED
  BY <1>2, <1>3 DEF Flat

LEMMA FlatFine ==
  ASSUME NEW s, Flat(s), Len(s) > 0
  PROVE  Fine(s)
<1>1. Len(s) \in Nat
  BY DEF Flat
<1> QED
  BY <1>1 DEF Flat, Fine

(* An interval. *)
LEMMA IntervalFine ==
  ASSUME NEW s, Inner(s)
  PROVE  Fine(<<All("Backup")>> \o s \o <<All("Normalize")>>)
<1> DEFINE u == <<All("Backup")>> \o s \o <<All("Normalize")>>
<1>1. s \in Seq(StageType) /\ Len(s) \in Nat
  BY DEF Inner
<1>2. /\ All("Backup") \in StageType /\ All("Backup").op = "Backup"
      /\ All("Normalize") \in StageType /\ All("Normalize").op = "Normalize"
  BY DEF All, At, StageType, Ops
<1> DEFINE v == <<All("Backup")>> \o s
<1>3. v \in Seq(StageType) /\ Len(v) = 1 + Len(s) /\ v[1] = All("Backup")
  BY <1>1, <1>2
<1>4. \A k \in 1 .. Len(s) : v[1 + k] = s[k]
  BY <1>1, <1>2
<1>5. u \in Seq(StageType) /\ Len(u) = Len(s) + 2 /\ u[1] = All("Backup") /\ u[Len(s) + 2] = All("Normalize")
  <2>1. u = v \o <<All("Normalize")>>
    OBVIOUS
  <2> HIDE DEF u, v
  <2> QED
    BY <1>1, <1>2, <1>3, <2>1
<1>6. \A k \in 1 .. Len(s) : u[1 + k] = s[k]
  <2>1. u = v \o <<All("Normalize")>>
    OBVIOUS
  <2> HIDE DEF u, v
  <2>2. \A k \in 1 .. (1 + Len(s)) : u[k] = v[k]
    BY <1>1, <1>2, <1>3, <2>1
  <2> QED
    BY <1>1, <1>4, <2>2
<1> HIDE DEF u, v
<1>7. ASSUME NEW p \in 1 .. Len(u), u[p].op \in {"Advance", "Probe"} PROVE Timed(u, p)
  <2>1. p # 1 /\ p # Len(s) + 2
    BY <1>2, <1>5, <1>7
  <2> DEFINE k == p - 1
  <2>2. k \in 1 .. Len(s) /\ 1 + k = p
    BY <1>1, <1>5, <2>1
  <2> HIDE DEF k
  <2>3. u[p] = s[k]
    BY <1>6, <2>2
  <2>4. Timed(s, k)
    BY <1>7, <2>2, <2>3 DEF Inner
  <2>5. Timed(u, 1 + k)
    BY <1>1, <1>6, <2>2, <2>4, TimedWithin
  <2> QED
    BY <2>2, <2>5
<1>8. u[Len(u)].op = "Normalize" /\ Len(u) > 0 /\ u[1].op # "Reflux"
  BY <1>1, <1>2, <1>5
<1> QED
  BY <1>5, <1>7, <1>8 DEF Fine, u

(* A stage before a call that starts nothing.                              *)
LEMMA PrependFine ==
  ASSUME NEW s, Fine(s), NEW op \in Ops \ {"Backup", "Reflux"}
  PROVE  Fine(<<All(op)>> \o s)
<1> DEFINE x == All(op)
           u == <<x>> \o s
<1>1. x \in StageType /\ x.op = op
  BY DEF All, At, StageType
<1>2. s \in Seq(StageType) /\ Len(s) \in Nat /\ Len(s) > 0
  BY DEF Fine
<1> HIDE DEF x
<1>3. u \in Seq(StageType) /\ Len(u) = 1 + Len(s) /\ u[1] = x
  BY <1>1, <1>2
<1>4. \A k \in 1 .. Len(s) : u[1 + k] = s[k]
  BY <1>1, <1>2
<1> HIDE DEF u
<1>5. ASSUME NEW p \in 1 .. Len(u), p # 1 PROVE p - 1 \in 1 .. Len(s) /\ u[p] = s[p - 1]
  <2>1. p - 1 \in 1 .. Len(s) /\ 1 + (p - 1) = p
    BY <1>2, <1>3, <1>5
  <2>2. u[1 + (p - 1)] = s[p - 1]
    BY <1>4, <2>1
  <2> QED
    BY <2>1, <2>2
<1>6. ASSUME NEW p \in 1 .. Len(u), u[p].op \in {"Advance", "Probe"}
      PROVE  Timed(u, p) \/ \A q \in 1 .. (p - 1) : u[q].op # "Backup"
  <2>1. CASE p = 1
    BY <2>1
  <2>2. CASE p # 1
    <3>1. p - 1 \in 1 .. Len(s) /\ u[p] = s[p - 1] /\ 1 + (p - 1) = p
      BY <1>5, <2>2
    <3>2. CASE Timed(s, p - 1)
      <4>1. Timed(u, 1 + (p - 1))
        BY <1>2, <1>4, <3>1, <3>2, TimedWithin
      <4> QED
        BY <3>1, <4>1
    <3>3. CASE \A q \in 1 .. ((p - 1) - 1) : s[q].op # "Backup"
      <4> SUFFICES ASSUME NEW q \in 1 .. (p - 1) PROVE u[q].op # "Backup"
        OBVIOUS
      <4>1. CASE q = 1
        BY <1>1, <1>3, <4>1
      <4>2. CASE q # 1
        <5>1. q \in 1 .. Len(u) /\ q - 1 \in 1 .. ((p - 1) - 1)
          BY <4>2
        <5>2. u[q] = s[q - 1]
          BY <1>5, <4>2, <5>1
        <5> QED
          BY <3>3, <5>1, <5>2
      <4> QED
        BY <4>1, <4>2
    <3> QED
      BY <1>6, <3>1, <3>2, <3>3 DEF Fine
  <2> QED
    BY <2>1, <2>2
<1>7. ASSUME NEW q \in 1 .. Len(u), u[q].op = "Backup" PROVE u[Len(u)].op = "Normalize"
  <2>1. q # 1
    BY <1>1, <1>3, <1>7
  <2>2. q - 1 \in 1 .. Len(s) /\ s[q - 1].op = "Backup"
    BY <1>5, <1>7, <2>1
  <2>3. s[Len(s)].op = "Normalize"
    BY <2>2 DEF Fine
  <2>4. u[1 + Len(s)] = s[Len(s)]
    BY <1>2, <1>4
  <2> QED
    BY <1>3, <2>3, <2>4
<1>8. u[1].op # "Reflux"
  BY <1>1, <1>3
<1>9. Fine(u)
  BY <1>2, <1>3, <1>6, <1>7, <1>8 DEF Fine
<1> QED
  BY <1>9 DEF u, x

(* Every call is a fine sequence of stages.                                *)
LEMMA CallFine ==
  ASSUME NEW o \in Options
  PROVE  Fine(StagesOf[o])
<1>1. /\ o.call \in {"advance", "coupleRadiation"}
      /\ {o.refinement, o.coupled, o.gravity, o.tracked, o.external} \subseteq BOOLEAN
      /\ o.refinement /\ o.gravity => o.external
  BY OptionAssumption
<1>2. StagesOf[o] = Stages(o)
  BY DEF StagesOf
<1>3. KickOf(o) \in Ops \ {"Backup", "Reflux"} /\ Kicked(o) \in BOOLEAN
  BY <1>1 DEF KickOf, Kicked, Ops
<1>4. CASE o.call = "coupleRadiation"
  <2>1. "CoupleRadiation" \in Ops \ {"Backup", "Reflux"}
    BY DEF Ops
  <2>2. Flat(<<All("CoupleRadiation")>>)
    BY <2>1, FlatPieces, SMTT(30)
  <2>3. Stages(o) = <<All("CoupleRadiation")>>
    BY <1>4 DEF Stages
  <2> QED
    BY <1>2, <2>2, <2>3, FlatFine
<1>5. CASE o.call # "coupleRadiation" /\ TimeRefinement(o)
  <2>1. o.refinement /\ ~o.external /\ ~o.gravity /\ Leaves # {}
    BY <1>1, <1>5 DEF TimeRefinement
  <2>2. TimeLevels(o) # {}
    BY <2>1 DEF TimeLevels
  <2>3. Transport(o) = <<All("Backup")>> \o Recursion(o) \o <<All("Normalize")>>
    BY <1>5 DEF Transport
  <2>4. Fine(Transport(o))
    BY <2>2, <2>3, RecursionInner, IntervalFine
  <2>5. CASE o.coupled
    <3>1. Stages(o) = <<All("Save")>> \o (<<All("Probe")>> \o Transport(o))
      BY <1>5, <2>5 DEF Stages, CoupledStep
    <3>2. "Save" \in Ops \ {"Backup", "Reflux"} /\ "Probe" \in Ops \ {"Backup", "Reflux"}
      BY DEF Ops
    <3>3. Fine(<<All("Probe")>> \o Transport(o))
      BY <2>4, <3>2, PrependFine
    <3>4. Fine(<<All("Save")>> \o (<<All("Probe")>> \o Transport(o)))
      BY <3>2, <3>3, PrependFine
    <3> QED
      BY <1>2, <3>1, <3>4
  <2>6. CASE ~o.coupled
    <3>1. Stages(o) = KickedTransport(o)
      BY <1>5, <2>6 DEF Stages
    <3>2. \A op : Only(o.gravity, op, -1, 0) = <<>> /\ Only(Kicked(o), op, -1, 0) = <<>>
      BY <2>1 DEF Only, Kicked
    <3>3. KickedTransport(o) = <<>> \o <<>> \o Transport(o) \o <<>> \o <<>> \o <<>>
      BY <3>2 DEF KickedTransport
    <3>4. Transport(o) \in Seq(StageType)
      BY <2>4 DEF Fine
    <3>5. KickedTransport(o) = Transport(o)
      BY <3>3, <3>4
    <3> QED
      BY <1>2, <2>4, <3>1, <3>5
  <2> QED
    BY <2>5, <2>6
<1>6. CASE o.call # "coupleRadiation" /\ ~TimeRefinement(o)
  <2>1. {"Save", "SaveRadiationStep", "Probe", "PredictRadiationStep", "FinishRadiationStep",
         "PrepareGravityEnergy", "SolveGravity", "FinishGravityEnergy"} \subseteq Ops \ {"Backup", "Reflux"}
    BY DEF Ops
  <2>2. Flat(Transport(o)) /\ Len(Transport(o)) > 0
    <3> DEFINE u == <<All("Advance"), All("Reflux")>>
    <3>1. Transport(o) = u
      BY <1>6 DEF Transport
    <3>2. u \in Seq(StageType) /\ Len(u) = 2 /\ u[1].op = "Advance" /\ u[2].op = "Reflux"
      BY DEF All, At, StageType, Ops
    <3> HIDE DEF u
    <3>3. \A p \in 1 .. Len(u) : p = 1 \/ p = 2
      BY <3>2
    <3> QED
      BY <3>1, <3>2, <3>3 DEF Flat
  <2>3. Flat(KickedTransport(o)) /\ Len(KickedTransport(o)) > 0
    <3> DEFINE p1 == Only(o.gravity, "PrepareGravityEnergy", -1, 0)
               p2 == Only(Kicked(o), KickOf(o), -1, 0)
               p3 == Transport(o)
               p4 == Only(o.gravity, "SolveGravity", -1, 0)
               p5 == Only(o.gravity, "FinishGravityEnergy", -1, 0)
    <3>1. Flat(p1) /\ Flat(p2) /\ Flat(p4) /\ Flat(p5)
      <4>1. o.gravity \in BOOLEAN
        BY <1>1
      <4> QED
        BY <1>3, <2>1, <4>1, FlatPieces
    <3>2. KickedTransport(o) = p1 \o p2 \o p3 \o p4 \o p2 \o p5
      BY DEF KickedTransport
    <3>3. Flat(p3) /\ Len(p3) > 0
      BY <2>2
    <3> HIDE DEF p1, p2, p3, p4, p5
    <3>4. Flat(p1 \o p2)
      BY <3>1, FlatConcat
    <3>5. Flat(p1 \o p2 \o p3) /\ Len(p1 \o p2 \o p3) > 0
      BY <3>3, <3>4, FlatConcat
    <3>6. Flat(p1 \o p2 \o p3 \o p4) /\ Len(p1 \o p2 \o p3 \o p4) > 0
      BY <3>1, <3>5, FlatConcat
    <3>7. Flat(p1 \o p2 \o p3 \o p4 \o p2) /\ Len(p1 \o p2 \o p3 \o p4 \o p2) > 0
      BY <3>1, <3>6, FlatConcat
    <3>8. Flat(p1 \o p2 \o p3 \o p4 \o p2 \o p5) /\ Len(p1 \o p2 \o p3 \o p4 \o p2 \o p5) > 0
      BY <3>1, <3>7, FlatConcat
    <3> QED
      BY <3>2, <3>8
  <2>4. CASE ~o.coupled
    <3>1. Stages(o) = KickedTransport(o)
      BY <1>6, <2>4 DEF Stages
    <3> QED
      BY <1>2, <2>3, <3>1, FlatFine
  <2>5. CASE o.coupled
    <3> DEFINE p1 == <<All("Save")>>
               p2 == <<All("SaveRadiationStep"), All("Probe"), All("PredictRadiationStep")>>
               q1 == <<All("SaveRadiationStep")>>
               q2 == <<All("Probe")>>
               q3 == <<All("PredictRadiationStep")>>
               p3 == KickedTransport(o)
               p4 == <<All("FinishRadiationStep")>>
    <3>1. Stages(o) = p1 \o (p2 \o p3 \o p4)
      BY <1>6, <2>5 DEF Stages, CoupledStep
    <3>2. Flat(p1) /\ Flat(q1) /\ Flat(q2) /\ Flat(q3) /\ Flat(p4)
      BY <2>1, FlatPieces
    <3>3. p2 = q1 \o q2 \o q3
      OBVIOUS
    <3>4. Flat(p3) /\ Len(p3) > 0
      BY <2>3
    <3> HIDE DEF p1, p2, p3, p4, q1, q2, q3
    <3>5. Flat(q1 \o q2)
      BY <3>2, FlatConcat
    <3>6. Flat(p2)
      BY <3>2, <3>3, <3>5, FlatConcat
    <3>7. Flat(p2 \o p3) /\ Len(p2 \o p3) > 0
      BY <3>4, <3>6, FlatConcat
    <3>8. Flat(p2 \o p3 \o p4) /\ Len(p2 \o p3 \o p4) > 0
      BY <3>2, <3>7, FlatConcat
    <3>9. Flat(p1 \o (p2 \o p3 \o p4)) /\ Len(p1 \o (p2 \o p3 \o p4)) > 0
      BY <3>2, <3>8, FlatConcat
    <3> QED
      BY <1>2, <3>1, <3>9, FlatFine
  <2> QED
    BY <1>1, <2>4, <2>5
<1> QED
  BY <1>4, <1>5, <1>6
-----------------------------------------------------------------------------
(***************************************************************************)
(* What a stage finds: while an interval is open, the coordinator is past    *)
(* the backup, and a level's time is the one its last time step began at.  *)
(***************************************************************************)
LevelType == [bank : {0, 1}, begin : Nat, pending : BOOLEAN, predicted : BOOLEAN]
Plan == StagesOf[option]
BackedUp == \E q \in 1 .. (pc - 1) : Plan[q].op = "Backup"
Clock ==
  \A q \in 1 .. (pc - 1) :
    (/\ Plan[q].op = "Timestep" /\ Plan[q].level \in TimeLevels(option)
     /\ \A r \in (q + 1) .. (pc - 1) : Plan[r].op \notin Marks)
      => levels[Plan[q].level].begin = Plan[q].at
Interval ==
  InInterval => /\ levels \in [TimeLevels(option) -> LevelType]
                /\ mode = "lost" \/ (mode = "running" /\ BackedUp /\ Clock)
Apart(x, y) ==
  (x.computes \cup {c[2] : c \in x.copies})
    \cap (y.reads \cup {c[1] : c \in y.copies} \cup y.computes \cup {c[2] : c \in y.copies}) = {}
Isolated == \A a, b \in DOMAIN access : a # b => Apart(access[a], access[b])
Control ==
  /\ option \in Options /\ pc \in 1 .. Len(Plan) /\ bank \in {0, 1} /\ savedBank \in {0, 1}
  /\ mode \in {"idle", "running", "restoring", "recovering", "lost"}
IInv == Control /\ Interval /\ Isolated

(* The stage a call has come to. *)
LEMMA StageNow ==
  ASSUME Control, InCall
  PROVE  /\ Stage \in StageType
         /\ mode = "running" => Stage = Plan[pc]
         /\ mode # "running" => Stage.op \in {"Restore", "RestoreRadiationStep"}
<1>1. Plan \in Seq(StageType) /\ pc \in 1 .. Len(Plan)
  BY CallFine DEF Control, Fine, Plan
<1>2. CASE mode = "running"
  <2>1. Stage = Plan[pc]
    BY <1>2, Zenon DEF Stage, StageIn, Plan
  <2> QED
    BY <1>1, <1>2, <2>1
<1>3. CASE mode = "restoring"
  <2>1. Stage = All("Restore")
    BY <1>3 DEF Stage, StageIn
  <2> QED
    BY <1>3, <2>1 DEF All, At, StageType, Ops
<1>4. CASE mode = "recovering"
  <2>1. Stage = All("RestoreRadiationStep")
    BY <1>4 DEF Stage, StageIn
  <2> QED
    BY <1>4, <2>1 DEF All, At, StageType, Ops
<1> QED
  BY <1>2, <1>3, <1>4 DEF InCall

(* The bank a task works from. *)
LEMMA BankNow ==
  ASSUME Control, Interval, InCall, NEW a \in Blocks
  PROVE  /\ Bank \in {0, 1} /\ Other(Bank) # Bank /\ a \in Leaves
         /\ Stage.op \in {"Advance", "Probe"} => BankOf(a) = Bank /\ ~Between(a)
<1>1. Stage \in StageType /\ Stage.level \in Int /\ Stage.at \in Nat
  BY StageNow DEF StageType
<1>2. a \in Leaves /\ TimeLevel(a) \in TimeLevels(option)
  BY DEF Blocks, TimeLevel, TimeLevels
<1>3. TimeLevels(option) \in SUBSET Nat
  BY LevelsOf DEF Control
<1>4. Stage.level >= 0 => Stage.level = TimeLevel(a)
  BY <1>1 DEF Blocks
<1>5. Bank \in {0, 1}
  BY <1>2, <1>4 DEF Bank, Control, Interval, LevelType
<1>6. Other(Bank) # Bank
  BY <1>5 DEF Other
<1>7. ASSUME Stage.op \in {"Advance", "Probe"} PROVE BankOf(a) = Bank /\ ~Between(a)
  <2>1. CASE ~InInterval
    BY <2>1 DEF BankOf, Between
  <2>2. CASE InInterval
    <3>1. mode = "running" /\ Stage = Plan[pc] /\ BackedUp /\ Clock /\ levels \in [TimeLevels(option) -> LevelType]
      BY <1>7, <2>2, StageNow DEF Interval, InCall
    <3>2. Timed(Plan, pc)
      BY <1>7, <3>1, CallFine DEF Fine, Plan, BackedUp, Control
    <3>3. Stage.level \in Nat /\ Stage.level = TimeLevel(a)
      BY <1>1, <1>4, <3>1, <3>2 DEF Timed
    <3>4. PICK q \in 1 .. (pc - 1) :
            /\ Plan[q].op = "Timestep" /\ Plan[q].level = Plan[pc].level /\ Plan[q].at = Plan[pc].at
            /\ \A r \in (q + 1) .. (pc - 1) : Plan[r].op \notin Marks
      BY <3>2 DEF Timed
    <3>5. levels[TimeLevel(a)].begin = Stage.at
      BY <1>2, <3>1, <3>3, <3>4 DEF Clock
    <3>6. ~Between(a)
      BY <1>1, <3>5 DEF Between
    <3>7. BankOf(a) = Bank
      BY <2>2, <3>3 DEF BankOf, Bank
    <3> QED
      BY <3>6, <3>7
  <2> QED
    BY <2>1, <2>2
<1> QED
  BY <1>2, <1>5, <1>6, <1>7
-----------------------------------------------------------------------------
(***************************************************************************)
(* What tasks touch. Every task writes cells of its own block; only          *)
(* transport, reflux, the field solver and the closing of the energy       *)
(* interval read those of others.                                          *)
(***************************************************************************)
Touched(x) == x.reads \cup {c[1] : c \in x.copies}
Changes(x) == x.computes \cup {c[2] : c \in x.copies}
Lookers == {"Advance", "Probe", "Reflux", "SolveGravity", "FinishGravityEnergy"}

LEMMA Cell ==
  ASSUME NEW fields, NEW k, NEW b, NEW s, NEW c \in {s} \X fields \X {k} \X {b}
  PROVE  c[1] = s /\ c[2] \in fields /\ c[3] = k /\ c[4] = b
OBVIOUS

(* Copies move the values of one block. *)
LEMMA CopyCells ==
  ASSUME NEW fields, NEW k, NEW n, NEW b
  PROVE  \A c \in Copy(fields, k, n, b) :
           /\ c[1][4] = b /\ c[1][1] = "run" /\ c[1][2] \in fields /\ c[1][3] = k
           /\ c[2][4] = b /\ c[2][1] = "run" /\ c[2][2] \in fields /\ c[2][3] = n
BY DEF Copy

(* What the tasks of the remaining stages do to their own block.           *)
LEMMA OwnTouch ==
  ASSUME Control, Stage.op \in Ops \ Lookers, NEW b
  PROVE  \A c \in Touched(AccessOf(b)) \cup Changes(AccessOf(b)) : c[4] = b
<1> DEFINE Own(y) == \A c \in Touched(y) \cup Changes(y) : c[4] = b
<1>1. ASSUME NEW reads, NEW computes, NEW copies, \A c \in reads \cup computes : c[4] = b,
             \A c \in copies : c[1][4] = b /\ c[2][4] = b
      PROVE  Own(Does(reads, computes, copies))
  BY <1>1 DEF Does, Touched, Changes
<1>2. \A fields, k : \A c \in Run(fields, k, b) : c[4] = b
  BY DEF Run
<1>3. \A fields, k : \A c \in Step(fields, k, b) : c[4] = b
  BY DEF Step
<1>4. \A fields, k, n : \A c \in Copy(fields, k, n, b) : c[1][4] = b /\ c[2][4] = b
  BY CopyCells
<1>5. \A fields : \A c \in Carried(fields, b) : c[1][4] = b /\ c[2][4] = b
  BY <1>4 DEF Carried
<1>6. \A store : \A c \in SavedIn(store, b) : c[1][4] = b /\ c[2][4] = b
  BY DEF SavedIn
<1>7. \A fields : \A c \in Once(fields, b) : c[4] = b
  BY <1>2 DEF Once
<1>8. \A fields : \A c \in OwnValues(fields, b) : c[4] = b
  BY <1>2 DEF OwnValues
<1>9. \A k : \A c \in Flux(k, b) : c[4] = b
  BY <1>2 DEF Flux
<1> HIDE DEF Own
<1>10. ASSUME Stage.op = "Backup" PROVE Own(AccessOf(b))
  <2>1. AccessOf(b) = Does({}, {}, Copy(AllFields, Bank, 2, b))
    BY <1>10 DEF AccessOf
  <2> QED
    BY <1>1, <1>4, <2>1
<1>11. ASSUME Stage.op = "Restore" PROVE Own(AccessOf(b))
  <2>1. AccessOf(b) = Does({}, {}, Copy(AllFields, 2, Bank, b))
    BY <1>11 DEF AccessOf
  <2> QED
    BY <1>1, <1>4, <2>1
<1>12. ASSUME Stage.op = "Normalize" PROVE Own(AccessOf(b))
  <2>1. AccessOf(b) = Does({}, {}, IF BankOf(b) = Other(Bank) THEN {} ELSE Carried(AllFields, b))
    BY <1>12 DEF AccessOf
  <2> QED
    BY <1>1, <1>5, <2>1
<1>13. ASSUME Stage.op = "ResetFlux" PROVE Own(AccessOf(b))
  <2>1. AccessOf(b) = Does({}, Flux(1, b), {})
    BY <1>13 DEF AccessOf
  <2> QED
    BY <1>1, <1>9, <2>1
<1>14. ASSUME Stage.op = "Timestep" PROVE Own(AccessOf(b))
  <2>1. AccessOf(b) = Does(Run(AllFields, Bank, b), {}, {})
    BY <1>14 DEF AccessOf
  <2> QED
    BY <1>1, <1>2, <2>1
<1>15. ASSUME Stage.op = "PrepareGravityEnergy" PROVE Own(AccessOf(b))
  <2>1. AccessOf(b) = Does({}, Once({"kickWork"}, b), {<<<<"run", "gravity", Bank, b>>, <<"run", "oldGravity", 0, b>>>>})
    BY <1>15 DEF AccessOf
  <2> QED
    BY <1>1, <1>7, <2>1
<1>16. ASSUME Stage.op \in {"Kick", "KickTracked"} PROVE Own(AccessOf(b))
  <2>1. AccessOf(b) = Kicking(b)
    BY <1>16 DEF AccessOf
  <2> QED
    BY <1>1, <1>2, <1>3, <1>5, <1>7, <2>1 DEF Kicking
<1>17. ASSUME Stage.op = "Save" PROVE Own(AccessOf(b))
  <2>1. AccessOf(b) = Does({}, {}, SavedIn("saved", b))
    BY <1>17 DEF AccessOf
  <2> QED
    BY <1>1, <1>6, <2>1
<1>18. ASSUME Stage.op = "SaveRadiationStep" PROVE Own(AccessOf(b))
  <2>1. AccessOf(b) = Does({}, {}, SavedIn("step", b))
    BY <1>18 DEF AccessOf
  <2> QED
    BY <1>1, <1>6, <2>1
<1>19. ASSUME Stage.op = "PredictRadiationStep" PROVE Own(AccessOf(b))
  <2>1. AccessOf(b) = Predicting(b)
    BY <1>19 DEF AccessOf
  <2> QED
    BY <1>1, <1>2, <1>3, <1>8, <2>1 DEF Predicting
<1>20. ASSUME Stage.op = "ForecastRadiationStep" PROVE Own(AccessOf(b))
  <2>1. AccessOf(b) = SourceStep(Other(Bank), 3, b)
    BY <1>20 DEF AccessOf
  <2> QED
    BY <1>1, <1>2, <1>3, <1>4, <2>1 DEF SourceStep
<1>21. ASSUME Stage.op = "FinishRadiationStep" PROVE Own(AccessOf(b))
  <2>1. AccessOf(b) = SourceStep(Bank, Other(Bank), b)
    BY <1>21 DEF AccessOf
  <2> QED
    BY <1>1, <1>2, <1>3, <1>4, <2>1 DEF SourceStep
<1>22. ASSUME Stage.op = "RestoreRadiationStep" PROVE Own(AccessOf(b))
  <2>1. AccessOf(b) = Does({}, {}, {<<c[2], c[1]>> : c \in SavedIn("saved", b)})
    BY <1>22 DEF AccessOf
  <2> QED
    BY <1>1, <1>6, <2>1
<1>23. ASSUME Stage.op = "CoupleRadiation" PROVE Own(AccessOf(b))
  <2>1. AccessOf(b) = Does(Run(StateFields, Bank, b), Run(StateFields, Other(Bank), b), Carried(Gravity, b))
    BY <1>23 DEF AccessOf
  <2> QED
    BY <1>1, <1>2, <1>5, <2>1
<1>24. Own(AccessOf(b))
  BY <1>10, <1>11, <1>12, <1>13, <1>14, <1>15, <1>16, <1>17, <1>18, <1>19, <1>20, <1>21, <1>22, <1>23 DEF Ops, Lookers
<1> QED
  BY <1>24 DEF Own

(* Transport: the output is in the other bank, halos are in this one, or,    *)
(* of levels that are ahead, belong to blocks that do not advance now.     *)
LEMMA TransportApart ==
  ASSUME Control, Interval, InCall, NEW a \in Blocks, NEW b \in Blocks, a # b,
         Stage.op \in {"Advance", "Probe"}
  PROVE  Apart(AccessOf(a), AccessOf(b))
<1>1. Bank \in {0, 1} /\ Other(Bank) # Bank /\ BankOf(a) = Bank /\ ~Between(a)
  BY BankNow
<1> DEFINE Output(c, d) ==
             /\ c[4] = d
             /\ \/ c[1] = "run" /\ c[2] \in {"gas", "radiation", "gravity"} /\ c[3] = Other(Bank)
                \/ c[2] \in {"flux", "massFlux", "rate"}
           Input(c, d) ==
             \/ c[4] = d
             \/ /\ c[2] \in StateFields
                /\ c[1] = "step" \/ (c[1] = "run" /\ (c[3] = BankOf(c[4]) \/ Between(c[4])))
<1>2. ASSUME NEW d, NEW fields \in SUBSET StateFields, NEW c \in Halo(fields, d) PROVE Input(c, d)
  <2>1. PICK e \in Donors[d] : c \in OwnValues(fields, e)
    BY <1>2 DEF Halo
  <2>2. CASE c \in Run(fields, BankOf(e), e)
    BY <2>2, Cell DEF Run
  <2>3. CASE Between(e) /\ c \in Run(fields, NextBank(e), e)
    BY <2>3, Cell DEF Run
  <2> QED
    BY <2>1, <2>2, <2>3 DEF OwnValues
<1> DEFINE Transports(x, d) ==
             /\ \A c \in Changes(x) : Output(c, d)
             /\ \A c \in Touched(x) : Input(c, d)
<1>3. ASSUME NEW d PROVE Transports(Transporting(d), d)
  <2>1. /\ Transporting(d).reads = Run(StateFields, Bank, d) \cup Halo(StateFields \ Reused(d), d)
        /\ Transporting(d).computes = Run(StateFields, TransportBank, d) \cup Flux(0, d) \cup Once({"massFlux"}, d)
        /\ Transporting(d).copies = Carried(Gravity, d)
    BY DEF Transporting, Does
  <2>2. \A c \in Run(StateFields, Bank, d) : Input(c, d)
    BY Cell DEF Run
  <2>3. \A c \in Halo(StateFields \ Reused(d), d) : Input(c, d)
    BY <1>2
  <2>4. \A c \in Run(StateFields, TransportBank, d) : Output(c, d)
    BY Cell DEF Run, TransportBank, StateFields
  <2>5. \A c \in Flux(0, d) \cup Once({"massFlux"}, d) : Output(c, d)
    BY Cell DEF Run, Flux, Once
  <2>6. \A c \in Carried(Gravity, d) : Output(c[2], d) /\ Input(c[1], d)
    BY CopyCells DEF Carried, Gravity, GravityOf
  <2> HIDE DEF Output, Input
  <2> QED
    BY <2>1, <2>2, <2>3, <2>4, <2>5, <2>6 DEF Changes, Touched
<1>4. ASSUME NEW d PROVE Transports(Probing(d), d)
  <2>1. /\ Probing(d).reads = Transporting(d).reads /\ Probing(d).copies = Transporting(d).copies
        /\ Probing(d).computes = Transporting(d).computes \cup Step({"rate"}, 0, d)
    BY DEF Probing, Transporting, Does
  <2>2. \A c \in Step({"rate"}, 0, d) : Output(c, d)
    BY Cell DEF Step
  <2> HIDE DEF Output, Input
  <2> QED
    BY <1>3, <2>1, <2>2 DEF Changes, Touched
<1>5. ASSUME NEW d PROVE Transports(Advancing(d), d)
  <2> DEFINE midpoints == IF option.coupled THEN UNION {Step(StateFields, 1, e) : e \in Donors[d] \cup {d}} ELSE {}
             register == IF InInterval THEN Flux(1, d) ELSE {}
  <2>1. /\ Advancing(d).reads = Transporting(d).reads \cup midpoints \cup register
        /\ Advancing(d).copies = Transporting(d).copies
        /\ Advancing(d).computes = Transporting(d).computes \cup register
    BY DEF Advancing, Transporting, Does
  <2>2. \A c \in midpoints : Input(c, d)
    BY Cell DEF Step
  <2>3. \A c \in register : Output(c, d) /\ Input(c, d)
    BY Cell DEF Flux, Run
  <2> HIDE DEF Output, Input, midpoints, register
  <2> QED
    BY <1>3, <2>1, <2>2, <2>3 DEF Changes, Touched
<1>6. ASSUME NEW d PROVE Transports(AccessOf(d), d)
  <2>1. CASE Stage.op = "Advance"
    <3>1. AccessOf(d) = Advancing(d)
      BY <2>1 DEF AccessOf
    <3> QED
      BY <1>5, <3>1
  <2>2. CASE Stage.op = "Probe"
    <3>1. AccessOf(d) = Probing(d)
      BY <2>2 DEF AccessOf
    <3> QED
      BY <1>4, <3>1
  <2> QED
    BY <2>1, <2>2
<1>7. ASSUME NEW c, Output(c, a) PROVE ~Output(c, b) /\ ~Input(c, b)
  BY <1>1, <1>7 DEF StateFields
<1> HIDE DEF Output, Input
<1> QED
  BY <1>6, <1>7 DEF Apart, Changes, Touched

(* Reflux reads registers of fluxes and writes states.                     *)
LEMMA RefluxApart ==
  ASSUME NEW a, NEW b, a # b, Stage.op = "Reflux"
  PROVE  Apart(AccessOf(a), AccessOf(b))
<1>1. ASSUME NEW d
      PROVE  /\ \A c \in Changes(AccessOf(d)) : c[4] = d /\ c[2] \in StateFields
             /\ \A c \in Touched(AccessOf(d)) : c[4] = d \/ c[2] = "flux"
  <2>1. AccessOf(d) = Refluxing(d)
    BY DEF AccessOf
  <2>2. /\ Refluxing(d).reads = Run(StateFields, Other(Bank), d) \cup Flux(0, d)
                                  \cup UNION {Flux(FineBank(d), f) : f \in FineSides[d]}
        /\ Refluxing(d).computes = Run(StateFields, Other(Bank), d) /\ Refluxing(d).copies = {}
    BY DEF Refluxing, Does
  <2>3. \A c \in Run(StateFields, Other(Bank), d) : c[4] = d /\ c[2] \in StateFields
    BY Cell DEF Run
  <2>4. \A k, f : \A c \in Flux(k, f) : c[2] = "flux"
    BY Cell DEF Flux, Run
  <2> QED
    BY <2>1, <2>2, <2>3, <2>4 DEF Changes, Touched
<1>2. "flux" \notin StateFields
  BY DEF StateFields
<1> QED
  BY <1>1, <1>2 DEF Apart, Changes, Touched

(* The solver reads the gas of all blocks where it is, and writes across.  *)
LEMMA SolveApart ==
  ASSUME Control, Interval, InCall, NEW a \in Blocks, NEW b \in Blocks, a # b,
         Stage.op = "SolveGravity"
  PROVE  Apart(AccessOf(a), AccessOf(b))
<1>1. Other(Bank) # Bank
  BY BankNow
<1>2. ASSUME NEW d
      PROVE  /\ \A c \in Changes(AccessOf(d)) : c[4] = d /\ c[3] = Other(Bank)
             /\ \A c \in Touched(AccessOf(d)) : c[4] = d \/ c[3] = Bank
  <2>1. AccessOf(d) = Solving(d)
    BY DEF AccessOf
  <2>2. /\ Solving(d).reads = UNION {Run({"gas"}, Bank, e) : e \in Leaves}
        /\ Solving(d).computes = Run(Gravity, Other(Bank), d) /\ Solving(d).copies = Carried(StateFields, d)
    BY DEF Solving, Does
  <2>3. \A e : \A c \in Run({"gas"}, Bank, e) : c[3] = Bank
    BY Cell DEF Run
  <2>4. \A c \in Run(Gravity, Other(Bank), d) : c[4] = d /\ c[3] = Other(Bank)
    BY Cell DEF Run
  <2>5. \A c \in Carried(StateFields, d) : c[1][4] = d /\ c[2][4] = d /\ c[2][3] = Other(Bank)
    BY CopyCells DEF Carried
  <2> QED
    BY <2>1, <2>2, <2>3, <2>4, <2>5 DEF Changes, Touched
<1> QED
  BY <1>1, <1>2 DEF Apart, Changes, Touched

(* Closing the energy interval reads both ends of a face: the potentials,    *)
(* and the mass that the finer side has moved.                             *)
LEMMA CloseApart ==
  ASSUME Control, Interval, InCall, NEW a \in Blocks, NEW b \in Blocks, a # b,
         Stage.op = "FinishGravityEnergy"
  PROVE  Apart(AccessOf(a), AccessOf(b))
<1>1. Other(Bank) # Bank
  BY BankNow
<1>2. ASSUME NEW d
      PROVE  /\ \A c \in Changes(AccessOf(d)) : c[4] = d /\ c[3] = Other(Bank) /\ c[2] \in {"gas", "radiation", "gravity"}
             /\ \A c \in Touched(AccessOf(d)) : c[4] = d \/ c[3] = Bank \/ c[2] \in {"oldGravity", "massFlux"}
  <2> DEFINE sides == {d} \cup WorkSides[d]
             finer == {e \in sides : e.level > d.level}
  <2>1. AccessOf(d) = Closing(d)
    BY DEF AccessOf
  <2>2. /\ Closing(d).reads = (UNION {Once({"oldGravity"}, e) \cup Run(Gravity, Bank, e) : e \in sides})
                                \cup (UNION {Once({"massFlux"}, e) : e \in finer \cup {d}})
                                \cup Once({"kickWork"}, d) \cup Run({"gas"}, Bank, d)
        /\ Closing(d).computes = Run({"gas"}, Other(Bank), d)
        /\ Closing(d).copies = Carried({"radiation"} \cup Gravity, d)
    BY DEF Closing, Does
  <2>3. \A e : /\ \A c \in Once({"oldGravity"}, e) \cup Once({"massFlux"}, e) : c[2] \in {"oldGravity", "massFlux"}
               /\ \A c \in Run(Gravity, Bank, e) : c[3] = Bank
    BY Cell DEF Run, Once
  <2>4. \A c \in Once({"kickWork"}, d) \cup Run({"gas"}, Bank, d) : c[4] = d
    BY Cell DEF Run, Once
  <2>5. \A c \in Run({"gas"}, Other(Bank), d) : c[4] = d /\ c[3] = Other(Bank) /\ c[2] = "gas"
    BY Cell DEF Run
  <2>6. \A c \in Carried({"radiation"} \cup Gravity, d) :
          c[1][4] = d /\ c[2][4] = d /\ c[2][3] = Other(Bank) /\ c[2][2] \in {"radiation", "gravity"}
    BY CopyCells DEF Carried, Gravity, GravityOf
  <2> HIDE DEF sides, finer
  <2>7. ASSUME NEW c \in Closing(d).reads PROVE c[4] = d \/ c[3] = Bank \/ c[2] \in {"oldGravity", "massFlux"}
    <3>1. CASE c \in UNION {Once({"oldGravity"}, e) \cup Run(Gravity, Bank, e) : e \in sides}
      <4>1. PICK e \in sides : c \in Once({"oldGravity"}, e) \cup Run(Gravity, Bank, e)
        BY <3>1
      <4> QED
        BY <2>3, <4>1
    <3>2. CASE c \in UNION {Once({"massFlux"}, e) : e \in finer \cup {d}}
      <4>1. PICK e \in finer \cup {d} : c \in Once({"massFlux"}, e)
        BY <3>2
      <4> QED
        BY <2>3, <4>1
    <3>3. CASE c \in Once({"kickWork"}, d) \cup Run({"gas"}, Bank, d)
      BY <2>4, <3>3
    <3> DEFINE near == UNION {Once({"oldGravity"}, e) \cup Run(Gravity, Bank, e) : e \in sides}
               moved == UNION {Once({"massFlux"}, e) : e \in finer \cup {d}}
               own1 == Once({"kickWork"}, d)
               own2 == Run({"gas"}, Bank, d)
    <3>4. Closing(d).reads = near \cup moved \cup own1 \cup own2
      BY <2>2, Zenon
    <3> HIDE DEF near, moved, own1, own2
    <3>5. c \in near \/ c \in moved \/ c \in own1 \cup own2
      BY <2>7, <3>4
    <3> USE DEF near, moved, own1, own2
    <3> QED
      BY <3>1, <3>2, <3>3, <3>5, Zenon
  <2>8. Changes(Closing(d)) = Run({"gas"}, Other(Bank), d) \cup {c[2] : c \in Carried({"radiation"} \cup Gravity, d)}
    BY <2>2 DEF Changes
  <2>9. Touched(Closing(d)) = Closing(d).reads \cup {c[1] : c \in Carried({"radiation"} \cup Gravity, d)}
    BY <2>2 DEF Touched
  <2>10. ASSUME NEW c \in Changes(Closing(d))
         PROVE  c[4] = d /\ c[3] = Other(Bank) /\ c[2] \in {"gas", "radiation", "gravity"}
    <3>1. CASE c \in Run({"gas"}, Other(Bank), d)
      BY <2>5, <3>1
    <3>2. CASE \E e \in Carried({"radiation"} \cup Gravity, d) : c = e[2]
      BY <2>6, <3>2
    <3> QED
      BY <2>8, <2>10, <3>1, <3>2
  <2>11. \A c \in Touched(Closing(d)) : c[4] = d \/ c[3] = Bank \/ c[2] \in {"oldGravity", "massFlux"}
    BY <2>6, <2>7, <2>9
  <2> QED
    BY <2>1, <2>10, <2>11
<1> QED
  BY <1>1, <1>2 DEF Apart, Changes, Touched

(* The tasks of a stage, whichever it is.                                  *)
LEMMA TasksApart ==
  ASSUME Control, Interval, InCall, NEW a \in Blocks, NEW b \in Blocks, a # b
  PROVE  Apart(AccessOf(a), AccessOf(b))
<1>1. Stage.op \in Ops
  BY StageNow DEF StageType
<1>2. CASE Stage.op \notin Lookers
  <2>1. \A c \in Touched(AccessOf(b)) \cup Changes(AccessOf(b)) : c[4] = b
    BY <1>1, <1>2, OwnTouch
  <2>2. \A c \in Changes(AccessOf(a)) : c[4] = a
    BY <1>1, <1>2, OwnTouch
  <2> QED
    BY <2>1, <2>2 DEF Apart, Changes, Touched
<1> QED
  BY <1>2, TransportApart, RefluxApart, SolveApart, CloseApart DEF Lookers
-----------------------------------------------------------------------------
(***************************************************************************)
(* The steps.                                                              *)
(***************************************************************************)
(* What a stage publishes of the levels. *)
LEMMA LevelsNext ==
  ASSUME Published
  PROVE  LET l == Stage.level IN
         /\ Stage.op = "Backup" => levels' =
              [k \in TimeLevels(option) |-> [bank |-> bank, begin |-> 0, pending |-> FALSE, predicted |-> FALSE]]
         /\ Stage.op = "Normalize" => levels' = <<>>
         /\ Stage.op \notin {"Backup", "Normalize"} =>
              \/ Stage.op # "Timestep" /\ levels' = levels
              \/ Stage.op = "Timestep" /\ levels' = [levels EXCEPT ![l].begin = Stage.at]
              \/ Stage.op = "Advance" /\ levels' = [levels EXCEPT ![l].pending = ~option.coupled]
              \/ Stage.op = "ForecastRadiationStep" /\ levels' = [levels EXCEPT ![l].pending = TRUE, ![l].predicted = TRUE]
              \/ FlipsLevel /\ levels' = [levels EXCEPT ![l].pending = FALSE, ![l].bank = Other(Bank)]
<1> DEFINE l == Stage.level
<1> DEFINE opened == [k \in TimeLevels(option) |-> [bank |-> bank, begin |-> 0, pending |-> FALSE, predicted |-> FALSE]]
           timed == [levels EXCEPT ![l].begin = Stage.at]
           advanced == [levels EXCEPT ![l].pending = ~option.coupled]
           forecast == [levels EXCEPT ![l].pending = TRUE, ![l].predicted = TRUE]
           flipped == [levels EXCEPT ![l].pending = FALSE, ![l].bank = Other(Bank)]
<1>1. levels' = CASE Stage.op = "Backup" -> opened
                  [] Stage.op = "Normalize" -> <<>>
                  [] Stage.op = "Timestep" -> timed
                  [] Stage.op = "Advance" /\ InInterval -> advanced
                  [] Stage.op = "ForecastRadiationStep" -> forecast
                  [] FlipsLevel -> flipped
                  [] OTHER -> levels
  BY Zenon DEF Published
<1>2. FlipsLevel => Stage.op \notin {"Backup", "Normalize", "Timestep", "Advance", "ForecastRadiationStep"}
  BY DEF FlipsLevel, Flips
<1> HIDE DEF opened, timed, advanced, forecast, flipped
<1>3. /\ Stage.op = "Backup" => levels' = opened
      /\ Stage.op = "Normalize" => levels' = <<>>
  BY <1>1, <1>2
<1>4. Stage.op \notin {"Backup", "Normalize"} =>
        \/ Stage.op # "Timestep" /\ levels' = levels
        \/ Stage.op = "Timestep" /\ levels' = timed
        \/ Stage.op = "Advance" /\ levels' = advanced
        \/ Stage.op = "ForecastRadiationStep" /\ levels' = forecast
        \/ FlipsLevel /\ levels' = flipped
  BY <1>1, <1>2
<1>5. ASSUME Stage.op \notin {"Backup", "Normalize"}
      PROVE  \/ Stage.op # "Timestep" /\ levels' = levels
             \/ Stage.op = "Timestep" /\ levels' = [levels EXCEPT ![l].begin = Stage.at]
             \/ Stage.op = "Advance" /\ levels' = [levels EXCEPT ![l].pending = ~option.coupled]
             \/ Stage.op = "ForecastRadiationStep" /\ levels' = [levels EXCEPT ![l].pending = TRUE, ![l].predicted = TRUE]
             \/ FlipsLevel /\ levels' = [levels EXCEPT ![l].pending = FALSE, ![l].bank = Other(Bank)]
  BY <1>4, <1>5, Zenon DEF timed, advanced, forecast, flipped
<1>6. Stage.op = "Backup" => levels' =
        [k \in TimeLevels(option) |-> [bank |-> bank, begin |-> 0, pending |-> FALSE, predicted |-> FALSE]]
  BY <1>3, Zenon DEF opened
<1> QED
  BY <1>3, <1>5, <1>6

(* Publication keeps the record of the levels.                             *)
LEMMA Publication ==
  ASSUME Control, Interval, InCall, mode = "running", Published
  PROVE  /\ bank' \in {0, 1}
         /\ Stage.op = "Backup" => levels' \in [TimeLevels(option) -> LevelType]
         /\ Stage.op = "Normalize" => levels' = <<>>
         /\ Stage.op \notin {"Backup", "Normalize"} /\ ~InInterval => levels' = <<>>
         /\ Stage.op \notin {"Backup", "Normalize"} /\ InInterval =>
              /\ levels' \in [TimeLevels(option) -> LevelType]
              /\ \A k \in TimeLevels(option) :
                   levels'[k].begin = IF Stage.op = "Timestep" /\ k = Stage.level THEN Stage.at ELSE levels[k].begin
<1>1. Stage \in StageType /\ Stage.at \in Nat
  BY StageNow DEF StageType
<1>2. bank' \in {0, 1}
  BY DEF Published, Control, Other
<1> DEFINE l == Stage.level
<1>3. ASSUME Stage.op = "Backup" PROVE levels' \in [TimeLevels(option) -> LevelType]
  <2> DEFINE fresh == [bank |-> bank, begin |-> 0, pending |-> FALSE, predicted |-> FALSE]
  <2>1. fresh \in LevelType
    BY DEF LevelType, Control
  <2>2. levels' = [k \in TimeLevels(option) |-> fresh]
    <3>1. levels' = [k \in TimeLevels(option) |-> [bank |-> bank, begin |-> 0, pending |-> FALSE, predicted |-> FALSE]]
      BY <1>3, LevelsNext
    <3> QED
      BY <3>1, Zenon
  <2> HIDE DEF fresh
  <2> QED
    BY <2>1, <2>2
<1>4. ASSUME Stage.op = "Normalize" PROVE levels' = <<>>
  BY <1>4, LevelsNext
<1>5. ASSUME Stage.op \notin {"Backup", "Normalize"}
      PROVE  \/ Stage.op # "Timestep" /\ levels' = levels
             \/ Stage.op = "Timestep" /\ levels' = [levels EXCEPT ![l].begin = Stage.at]
             \/ Stage.op = "Advance" /\ levels' = [levels EXCEPT ![l].pending = ~option.coupled]
             \/ Stage.op = "ForecastRadiationStep" /\ levels' = [levels EXCEPT ![l].pending = TRUE, ![l].predicted = TRUE]
             \/ FlipsLevel /\ levels' = [levels EXCEPT ![l].pending = FALSE, ![l].bank = Other(Bank)]
  BY <1>5, LevelsNext
<1>6. FlipsLevel => Stage.op # "Timestep"
  BY DEF FlipsLevel, Flips
<1>7. ASSUME Stage.op \notin {"Backup", "Normalize"}, ~InInterval PROVE levels' = <<>>
  BY <1>5, <1>7 DEF InInterval
<1>8. ASSUME Stage.op \notin {"Backup", "Normalize"}, InInterval
      PROVE  /\ levels' \in [TimeLevels(option) -> LevelType]
             /\ \A k \in TimeLevels(option) :
                  levels'[k].begin = IF Stage.op = "Timestep" /\ k = l THEN Stage.at ELSE levels[k].begin
  <2>1. levels \in [TimeLevels(option) -> LevelType] /\ option.coupled \in BOOLEAN
    BY <1>8, OptionAssumption DEF Interval, Control
  <2>2. CASE Stage.op # "Timestep" /\ levels' = levels
    BY <2>1, <2>2
  <2>3. CASE Stage.op = "Timestep" /\ levels' = [levels EXCEPT ![l].begin = Stage.at]
    BY <1>1, <2>1, <2>3 DEF LevelType
  <2>4. CASE Stage.op = "Advance" /\ levels' = [levels EXCEPT ![l].pending = ~option.coupled]
    BY <2>1, <2>4 DEF LevelType
  <2>5. CASE Stage.op = "ForecastRadiationStep" /\ levels' = [levels EXCEPT ![l].pending = TRUE, ![l].predicted = TRUE]
    BY <2>1, <2>5 DEF LevelType
  <2>6. CASE FlipsLevel /\ levels' = [levels EXCEPT ![l].pending = FALSE, ![l].bank = Other(Bank)]
    <3>1. Other(Bank) \in {0, 1} \/ l \notin TimeLevels(option)
      <4>1. ASSUME l \in TimeLevels(option) PROVE Bank \in {0, 1}
        BY <1>8, <2>1, <4>1, LevelsOf DEF Bank, LevelType, Control
      <4> QED
        BY <4>1 DEF Other
    <3> HIDE DEF l
    <3> QED
      BY <1>6, <2>1, <2>6, <3>1 DEF LevelType
  <2> QED
    BY <1>5, <1>8, <2>2, <2>3, <2>4, <2>5, <2>6
<1> QED
  BY <1>2, <1>3, <1>4, <1>7, <1>8

(* A stage that ends hands the next one the right record of the levels.    *)
LEMMA EndsStage ==
  ASSUME IInv, InCall, mode = "running", Published, option' = option, savedBank' = savedBank, access' = <<>>,
         \/ pc < Len(Plan) /\ mode' = "running" /\ pc' = pc + 1
         \/ pc = Len(Plan) /\ mode' = "idle" /\ pc' = 1
  PROVE  IInv'
<1>1. Control /\ Interval /\ Fine(Plan)
  BY CallFine DEF IInv, Control, Plan
<1>2. Plan' = Plan /\ pc \in 1 .. Len(Plan) /\ Len(Plan) \in Nat
  BY <1>1 DEF Plan, Control, Fine
<1>3. Stage = Plan[pc] /\ Stage \in StageType
  BY <1>1, StageNow
<1>4. /\ bank' \in {0, 1}
      /\ Stage.op = "Backup" => levels' \in [TimeLevels(option) -> LevelType]
      /\ Stage.op = "Normalize" => levels' = <<>>
      /\ Stage.op \notin {"Backup", "Normalize"} /\ ~InInterval => levels' = <<>>
      /\ Stage.op \notin {"Backup", "Normalize"} /\ InInterval =>
           /\ levels' \in [TimeLevels(option) -> LevelType]
           /\ \A k \in TimeLevels(option) :
                levels'[k].begin = IF Stage.op = "Timestep" /\ k = Stage.level THEN Stage.at ELSE levels[k].begin
  BY <1>1, Publication
<1>5. Control'
  BY <1>1, <1>2, <1>4 DEF Control
<1>6. Isolated'
  BY DEF Isolated
<1>7. Interval'
  <2>1. TimeLevels(option)' = TimeLevels(option)
    BY DEF TimeLevels, TimeLevelOf
  <2>2. CASE pc < Len(Plan) /\ mode' = "running" /\ pc' = pc + 1
    <3> SUFFICES ASSUME levels' # <<>>
                 PROVE  levels' \in [TimeLevels(option) -> LevelType] /\ BackedUp' /\ Clock'
      BY <2>1, <2>2, Zenon DEF Interval, InInterval, LevelType
    <3>1. levels' \in [TimeLevels(option) -> LevelType] /\ Stage.op # "Normalize"
      BY <1>4
    <3>2. BackedUp'
      <4>1. CASE Stage.op = "Backup"
        BY <1>2, <1>3, <2>2, <4>1 DEF BackedUp
      <4>2. CASE Stage.op # "Backup"
        <5>1. BackedUp
          BY <1>1, <1>4, <3>1, <4>2 DEF Interval
        <5> QED
          BY <1>2, <2>2, <5>1 DEF BackedUp
      <4> QED
        BY <4>1, <4>2
    <3>3. Clock'
      <4> SUFFICES ASSUME NEW q \in 1 .. pc, Plan[q].op = "Timestep", Plan[q].level \in TimeLevels(option),
                          \A r \in (q + 1) .. pc : Plan[r].op \notin Marks
                   PROVE  levels'[Plan[q].level].begin = Plan[q].at
        <5>1. pc' - 1 = pc
          BY <1>2, <2>2
        <5> QED
          BY <1>2, <2>1, <5>1 DEF Clock
      <4>1. CASE q = pc
        <5>1. Stage.op = "Timestep"
          BY <1>3, <4>1
        <5>2. InInterval
          BY <1>4, <5>1
        <5> QED
          BY <1>3, <1>4, <4>1, <5>1, <5>2
      <4>2. CASE q # pc
        <5>1. q \in 1 .. (pc - 1) /\ pc \in (q + 1) .. pc
          BY <1>2, <4>2
        <5>2. Stage.op \notin Marks
          BY <1>3, <5>1
        <5>3. InInterval
          BY <1>4, <5>2 DEF Marks
        <5>4. \A r \in (q + 1) .. (pc - 1) : Plan[r].op \notin Marks
          BY <1>2, <5>1
        <5>5. Clock
          BY <1>1, <5>3 DEF Interval
        <5>6. levels[Plan[q].level].begin = Plan[q].at
          BY <5>1, <5>4, <5>5 DEF Clock
        <5> QED
          BY <1>4, <5>2, <5>3, <5>6 DEF Marks
      <4> QED
        BY <4>1, <4>2
    <3> QED
      BY <3>1, <3>2, <3>3
  <2>3. CASE pc = Len(Plan) /\ mode' = "idle" /\ pc' = 1
    <3>1. CASE Stage.op = "Backup"
      <4>1. Plan[Len(Plan)].op = "Normalize"
        BY <1>1, <1>2, <1>3, <3>1 DEF Fine
      <4> QED
        BY <1>3, <2>3, <3>1, <4>1
    <3>2. CASE InInterval /\ Stage.op # "Backup"
      <4>1. BackedUp
        BY <1>1, <3>2 DEF Interval
      <4>2. Plan[Len(Plan)].op = "Normalize"
        BY <1>1, <1>2, <4>1 DEF Fine, BackedUp
      <4>3. levels' = <<>>
        BY <1>3, <1>4, <2>3, <4>2
      <4> QED
        BY <4>3 DEF Interval, InInterval
    <3>3. CASE ~InInterval /\ Stage.op # "Backup"
      <4>1. levels' = <<>>
        BY <1>4, <3>3
      <4> QED
        BY <4>1 DEF Interval, InInterval
    <3> QED
      BY <3>1, <3>2, <3>3
  <2> QED
    BY <2>2, <2>3
<1> QED
  BY <1>5, <1>6, <1>7 DEF IInv

(* A new list of tasks is isolated.                                        *)
LEMMA BeginStep ==
  ASSUME IInv, Begin
  PROVE  IInv'
<1>1. /\ InCall /\ access' = [b \in Blocks |-> AccessOf(b)]
      /\ UNCHANGED <<option, mode, pc, bank, savedBank, levels>>
  BY DEF Begin
<1>2. Control' /\ Interval'
  BY <1>1 DEF IInv, Control, Interval, Plan, InInterval, BackedUp, Clock, LevelType, TimeLevels, TimeLevelOf
<1>3. \A a, b \in Blocks : a # b => Apart(AccessOf(a), AccessOf(b))
  BY <1>1, TasksApart DEF IInv
<1>4. Isolated'
  BY <1>1, <1>3 DEF Isolated
<1> QED
  BY <1>2, <1>4 DEF IInv

(* What keeps the call, the banks and the levels keeps the invariant.      *)
LEMMA Kept ==
  ASSUME IInv, UNCHANGED <<option, mode, pc, bank, savedBank, levels>>, access' \in {access, <<>>}
  PROVE  IInv'
<1>1. Control' /\ Interval'
  BY DEF IInv, Control, Interval, Plan, InInterval, BackedUp, Clock, LevelType, TimeLevels, TimeLevelOf
<1>2. Isolated'
  BY DEF IInv, Isolated
<1> QED
  BY <1>1, <1>2 DEF IInv

(* Outside an interval the coordinator may go where it likes.              *)
LEMMA Goes ==
  ASSUME IInv, option' = option, access' = <<>>, bank' \in {0, 1}, savedBank' \in {0, 1}, pc' \in 1 .. Len(Plan),
         \/ mode' \in {"idle", "running", "restoring", "recovering", "lost"} /\ levels' = <<>>
         \/ mode' = "lost" /\ levels' = levels
  PROVE  IInv'
<1>1. Control'
  BY DEF IInv, Control, Plan
<1>2. Isolated'
  BY DEF Isolated
<1>3. Interval'
  BY DEF IInv, Interval, InInterval, LevelType, TimeLevels, TimeLevelOf
<1> QED
  BY <1>1, <1>2, <1>3 DEF IInv

(* The invariant holds for ever. *)
LEMMA Invariance == Spec => []IInv
<1>1. Init => IInv
  <2> SUFFICES ASSUME Init PROVE IInv
    OBVIOUS
  <2>1. Control
    <3>1. Fine(Plan)
      BY CallFine DEF Init, Plan
    <3>2. Len(Plan) \in Nat /\ Len(Plan) > 0
      BY <3>1 DEF Fine
    <3> QED
      BY <3>2 DEF Init, Control
  <2> QED
    BY <2>1 DEF Init, IInv, Interval, InInterval, Isolated
<1>2. IInv /\ [Next]_vars => IInv'
  <2> SUFFICES ASSUME IInv, [Next]_vars PROVE IInv'
    OBVIOUS
  <2>0. /\ Len(Plan) \in Nat /\ pc \in 1 .. Len(Plan) /\ 1 \in 1 .. Len(Plan)
        /\ bank \in {0, 1} /\ savedBank \in {0, 1}
        /\ InInterval => mode \in {"running", "lost"}
    <3>1. Fine(Plan)
      BY CallFine DEF Plan, IInv, Control
    <3> QED
      BY <3>1 DEF Fine, IInv, Control, Interval
  <2>1. CASE UNCHANGED vars
    BY <2>1, Kept DEF vars
  <2>2. CASE Start
    <3>1. ~InInterval /\ levels = <<>>
      BY <2>0, <2>2 DEF Start, InInterval
    <3> QED
      BY <2>0, <2>2, <3>1, Goes DEF Start, Enter
  <2>3. CASE Begin
    BY <2>3, BeginStep
  <2>4. CASE EndStage
    BY <2>4, EndsStage DEF EndStage, Enter, InCall, Plan
  <2>5. CASE Return
    BY <2>5, EndsStage DEF Return, Enter, InCall, Plan
  <2>6. ASSUME NEW b \in Leaves, Open(b) \/ Close(b) \/ Throw(b) PROVE IInv'
    BY <2>6, Kept DEF Open, Close, Throw
  <2>7. CASE Restore
    BY <2>0, <2>7, Goes DEF Restore, Enter
  <2>8. CASE Recover
    <3>1. ~InInterval /\ levels = <<>>
      BY <2>0, <2>8 DEF Recover, InInterval
    <3> QED
      BY <2>0, <2>8, <3>1, Goes DEF Recover, Enter
  <2>9. CASE Retry
    <3>1. levels = <<>> /\ levels' = <<>> /\ mode' = "running"
      BY <2>9 DEF Retry, Enter, InInterval
    <3>2. pc' \in 1 .. Len(Plan)
      <4>1. mode = "running" /\ InCall /\ pc' = IF Stage.op = "Reflux" THEN pc - 1 ELSE pc
        BY <2>9 DEF Retry, Enter, InCall
      <4>2. Stage = Plan[pc] /\ Plan[1].op # "Reflux"
        BY <4>1, StageNow, CallFine DEF IInv, Control, Fine, Plan
      <4> QED
        BY <2>0, <4>1, <4>2
    <3> QED
      BY <2>0, <2>9, <3>1, <3>2, Goes DEF Retry, Enter
  <2>10. CASE RolledBack
    <3>1. levels = <<>>
      BY <2>0, <2>10 DEF RolledBack, InInterval
    <3> QED
      BY <2>0, <2>10, <3>1, Goes DEF RolledBack, Enter
  <2>11. CASE Lose
    BY <2>0, <2>11, Goes DEF Lose, Enter
  <2>12. CASE Lost
    BY <2>1, <2>12 DEF Lost
  <2> QED
    BY <2>1, <2>2, <2>3, <2>4, <2>5, <2>6, <2>7, <2>8, <2>9, <2>10, <2>11, <2>12 DEF Next
<1> QED
  BY <1>1, <1>2, PTL DEF Spec
-----------------------------------------------------------------------------
(* No block writes what the open task of another block of the same stage     *)
(* reads or writes: not its halo, not its registers, whatever the mesh.    *)
THEOREM StageIsolation == Spec => []StageIsolated
<1>1. IInv => StageIsolated
  BY DEF IInv, Isolated, Apart, StageIsolated, Reads, Writes
<1> QED
  BY <1>1, Invariance, PTL
-----------------------------------------------------------------------------
(***************************************************************************)
(* Types.  A stage finds the banks and the stores it names: exchange, time   *)
(* refinement and self-gravity are what the stages that need more than two *)
(* banks, or storage of the step, are run for.                             *)
(***************************************************************************)
Exchanging == {"Save", "SaveRadiationStep", "Probe", "PredictRadiationStep", "ForecastRadiationStep",
               "FinishRadiationStep"}
Served(o) == {op \in Ops \ {"Restore", "RestoreRadiationStep"} :
                /\ op \in Exchanging => o.coupled
                /\ op \in {"Backup", "ForecastRadiationStep"} => o.refinement
                /\ op = "PrepareGravityEnergy" => o.gravity}
ServedType(o) == [op : Served(o), level : Int, at : Nat]

LEMMA ServedPiece ==
  ASSUME NEW o, NEW op \in Served(o), NEW level \in Int, NEW at \in Nat
  PROVE  At(op, level, at) \in ServedType(o) /\ <<At(op, level, at)>> \in Seq(ServedType(o))
BY DEF At, ServedType

LEMMA ServedOnly ==
  ASSUME NEW o, NEW use \in BOOLEAN, NEW op, use => op \in Served(o), NEW level \in Int, NEW at \in Nat
  PROVE  Only(use, op, level, at) \in Seq(ServedType(o))
<1>1. CASE use
  BY <1>1, ServedPiece DEF Only
<1>2. CASE ~use
  BY <1>2 DEF Only
<1> QED
  BY <1>1, <1>2

(* The stages of the substeps.                                             *)
LEMMA LayersServed ==
  ASSUME NEW o \in Options, o.refinement, NEW f, f = Layers(o, f)
  PROVE  \A x \in Frames(o) : f[x] \in Seq(ServedType(o))
<1> DEFINE G == {x \in Frames(o) : f[x] \in Seq(ServedType(o))}
<1>1. o.coupled \in BOOLEAN
  BY OptionAssumption
<1>2. ASSUME NEW x \in Frames(o),
             x.i < o.steps[x.level] =>
               f[After(x)] \in Seq(ServedType(o)) /\ (Finer(o, x.level) # {} => f[Into(o, x)] \in Seq(ServedType(o)))
      PROVE  f[x] \in Seq(ServedType(o))
  <2>1. f[x] = Layer(o, x, f[Into(o, x)], f[After(x)])
    BY Zenon DEF Layers
  <2>2. /\ x.level \in Int /\ x.i \in Nat /\ Now(o, x) \in Nat /\ StepOf(o, x) \in Nat
        /\ Now(o, x) + StepOf(o, x) \in Nat /\ o.steps[x.level] \in Nat
    BY FramesLead, LevelsOf
  <2>3. CASE x.i >= o.steps[x.level]
    <3>1. f[x] = <<>>
      BY <2>1, <2>3, Zenon DEF Layer
    <3> QED
      BY <3>1
  <2>4. CASE ~(x.i >= o.steps[x.level])
    <3> DEFINE p1 == Only(x.i = 0, "ResetFlux", x.level, Now(o, x))
               p2 == IF o.coupled
                       THEN <<At("Timestep", x.level, Now(o, x)), At("SaveRadiationStep", x.level, Now(o, x)),
                              At("Probe", x.level, Now(o, x)), At("PredictRadiationStep", -1, Now(o, x)),
                              At("Advance", x.level, Now(o, x)), At("ForecastRadiationStep", x.level, Now(o, x))>>
                       ELSE <<At("Timestep", x.level, Now(o, x)), At("Advance", x.level, Now(o, x))>>
               p3 == IF Finer(o, x.level) = {} THEN <<>> ELSE f[Into(o, x)]
               p4 == <<At("Reflux", x.level, Now(o, x) + StepOf(o, x))>>
               p5 == Only(o.coupled, "FinishRadiationStep", x.level, Now(o, x) + StepOf(o, x))
               p6 == f[After(x)]
    <3>1. f[x] = p1 \o p2 \o p3 \o p4 \o p5 \o p6
      BY <2>1, <2>4, Zenon DEF Layer
    <3>2. /\ {"ResetFlux", "Timestep", "Advance", "Reflux"} \subseteq Served(o)
          /\ o.coupled => {"SaveRadiationStep", "Probe", "PredictRadiationStep", "ForecastRadiationStep",
                           "FinishRadiationStep"} \subseteq Served(o)
      BY DEF Served, Ops, Exchanging
    <3>3. f[After(x)] \in Seq(ServedType(o)) /\ (Finer(o, x.level) # {} => f[Into(o, x)] \in Seq(ServedType(o)))
      <4>1. x.i < o.steps[x.level]
        BY <2>2, <2>4
      <4> QED
        BY <1>2, <4>1, Zenon
    <3>4. p1 \in Seq(ServedType(o))
      <4>1. (x.i = 0) \in BOOLEAN
        OBVIOUS
      <4> QED
        BY <2>2, <3>2, <4>1, ServedOnly
    <3>5. p2 \in Seq(ServedType(o))
      <4>1. CASE o.coupled
        <5>1. /\ At("Timestep", x.level, Now(o, x)) \in ServedType(o)
              /\ At("SaveRadiationStep", x.level, Now(o, x)) \in ServedType(o)
              /\ At("Probe", x.level, Now(o, x)) \in ServedType(o)
              /\ At("PredictRadiationStep", -1, Now(o, x)) \in ServedType(o)
              /\ At("Advance", x.level, Now(o, x)) \in ServedType(o)
              /\ At("ForecastRadiationStep", x.level, Now(o, x)) \in ServedType(o)
          BY <2>2, <3>2, <4>1, ServedPiece
        <5> QED
          BY <4>1, <5>1
      <4>2. CASE ~o.coupled
        <5>1. At("Timestep", x.level, Now(o, x)) \in ServedType(o) /\ At("Advance", x.level, Now(o, x)) \in ServedType(o)
          BY <2>2, <3>2, ServedPiece
        <5> QED
          BY <4>2, <5>1
      <4> QED
        BY <4>1, <4>2
    <3>6. p3 \in Seq(ServedType(o))
      <4>1. CASE Finer(o, x.level) = {}
        <5>1. p3 = <<>>
          BY <4>1
        <5> HIDE DEF p3
        <5> QED
          BY <5>1
      <4>2. CASE Finer(o, x.level) # {}
        <5>1. p3 = f[Into(o, x)]
          BY <4>2
        <5> HIDE DEF p3
        <5> QED
          BY <3>3, <4>2, <5>1
      <4> QED
        BY <4>1, <4>2
    <3>7. p4 \in Seq(ServedType(o))
      BY <2>2, <3>2, ServedPiece
    <3>8. p5 \in Seq(ServedType(o))
      BY <1>1, <2>2, <3>2, ServedOnly
    <3>9. p6 \in Seq(ServedType(o))
      BY <3>3
    <3> HIDE DEF p1, p2, p3, p4, p5, p6
    <3> QED
      BY <3>1, <3>4, <3>5, <3>6, <3>7, <3>8, <3>9
  <2> QED
    BY <2>3, <2>4
<1>3. \A x \in Frames(o) :
        (x.i < o.steps[x.level] => After(x) \in G /\ (Finer(o, x.level) # {} => Into(o, x) \in G)) => x \in G
  BY <1>2
<1> HIDE DEF G
<1>4. G \in SUBSET Frames(o)
  BY DEF G
<1>5. G = Frames(o)
  BY <1>3, <1>4, LayersSpread
<1> QED
  BY <1>5 DEF G

(* Every stage of a call is one that the options allocate for.             *)
LEMMA CallServed ==
  ASSUME NEW o \in Options
  PROVE  StagesOf[o] \in Seq(ServedType(o))
<1> DEFINE S == Seq(ServedType(o))
<1>1. /\ {o.refinement, o.coupled, o.gravity, o.tracked, o.external} \subseteq BOOLEAN
      /\ o.refinement /\ o.gravity => o.external
  BY OptionAssumption
<1>2. /\ {"Normalize", "ResetFlux", "Timestep", "Advance", "Reflux", "KickTracked", "Kick", "SolveGravity",
          "FinishGravityEnergy", "CoupleRadiation"} \subseteq Served(o)
      /\ o.coupled => {"Save", "SaveRadiationStep", "Probe", "PredictRadiationStep",
                       "FinishRadiationStep"} \subseteq Served(o)
      /\ o.refinement => "Backup" \in Served(o)
      /\ o.gravity => "PrepareGravityEnergy" \in Served(o)
  BY DEF Served, Ops, Exchanging
<1>3. \A op \in Served(o) : All(op) \in ServedType(o) /\ <<All(op)>> \in S
  <2>1. \A op \in Served(o) : At(op, -1, 0) \in ServedType(o) /\ <<At(op, -1, 0)>> \in S
    BY ServedPiece
  <2> QED
    BY <2>1 DEF All
<1>4. Transport(o) \in S
  <2>1. CASE TimeRefinement(o)
    <3>1. o.refinement /\ Leaves # {}
      BY <2>1 DEF TimeRefinement
    <3>2. TimeLevels(o) # {}
      BY <3>1 DEF TimeLevels
    <3>3. Recursion(o) \in S
      <4>1. PICK f : \E whole \in Frames(o) : f = Layers(o, f) /\ Recursion(o) = f[whole]
        BY <3>2, RecursionFrame
      <4> QED
        BY <3>1, <4>1, LayersServed
    <3>4. Transport(o) = <<All("Backup")>> \o Recursion(o) \o <<All("Normalize")>>
      BY <2>1 DEF Transport
    <3>5. <<All("Backup")>> \in S /\ <<All("Normalize")>> \in S
      BY <1>2, <1>3, <3>1
    <3> QED
      BY <3>3, <3>4, <3>5
  <2>2. CASE ~TimeRefinement(o)
    <3>1. Transport(o) = <<All("Advance"), All("Reflux")>>
      BY <2>2 DEF Transport
    <3>2. All("Advance") \in ServedType(o) /\ All("Reflux") \in ServedType(o)
      BY <1>2, <1>3
    <3> QED
      BY <3>1, <3>2
  <2> QED
    BY <2>1, <2>2
<1>5. KickedTransport(o) \in S
  <2> DEFINE p1 == Only(o.gravity, "PrepareGravityEnergy", -1, 0)
             p2 == Only(Kicked(o), KickOf(o), -1, 0)
             p3 == Transport(o)
             p4 == Only(o.gravity, "SolveGravity", -1, 0)
             p5 == Only(o.gravity, "FinishGravityEnergy", -1, 0)
  <2>1. KickOf(o) \in Served(o) /\ Kicked(o) \in BOOLEAN /\ o.gravity \in BOOLEAN
    BY <1>1, <1>2 DEF KickOf, Kicked
  <2>2. p1 \in S /\ p2 \in S /\ p4 \in S /\ p5 \in S
    <3>1. ASSUME NEW use \in BOOLEAN, NEW op, use => op \in Served(o) PROVE Only(use, op, -1, 0) \in S
      <4>1. -1 \in Int /\ 0 \in Nat
        OBVIOUS
      <4> QED
        BY <3>1, <4>1, ServedOnly, Zenon
    <3> HIDE DEF S
    <3> QED
      BY <1>2, <2>1, <3>1
  <2>3. KickedTransport(o) = p1 \o p2 \o p3 \o p4 \o p2 \o p5
    BY DEF KickedTransport
  <2> HIDE DEF p1, p2, p4, p5
  <2> QED
    BY <1>4, <2>2, <2>3
<1>6. ASSUME o.coupled PROVE CoupledStep(o) \in S
  <2>1. /\ All("Save") \in ServedType(o) /\ All("SaveRadiationStep") \in ServedType(o)
        /\ All("Probe") \in ServedType(o) /\ All("PredictRadiationStep") \in ServedType(o)
        /\ All("FinishRadiationStep") \in ServedType(o)
    BY <1>2, <1>3, <1>6
  <2>2. /\ <<All("Save")>> \in S /\ <<All("Probe")>> \in S /\ <<All("FinishRadiationStep")>> \in S
        /\ <<All("SaveRadiationStep"), All("Probe"), All("PredictRadiationStep")>> \in S
    BY <2>1
  <2>3. CASE TimeRefinement(o)
    BY <1>4, <2>2, <2>3 DEF CoupledStep
  <2>4. CASE ~TimeRefinement(o)
    BY <1>5, <2>2, <2>4 DEF CoupledStep
  <2> QED
    BY <2>3, <2>4
<1>7. <<All("CoupleRadiation")>> \in S
  BY <1>2, <1>3
<1>8. StagesOf[o] = Stages(o)
  BY DEF StagesOf
<1> HIDE DEF S
<1>9. StagesOf[o] \in S
  BY <1>5, <1>6, <1>7, <1>8 DEF Stages
<1> QED
  BY <1>9 DEF S

(***************************************************************************)
(* What the configuration has granted by then: an interval is only opened  *)
(* with time refinement, forecasts are only made with exchange, and what a *)
(* rollback restores from was allocated.                                   *)
(***************************************************************************)
Grants ==
  /\ InInterval => option.refinement /\ \A k \in TimeLevels(option) : levels[k].predicted => option.coupled
  /\ mode = "restoring" => option.refinement
  /\ mode = "recovering" => option.coupled

(* The cells of a block that are there. *)
LEMMA Stored ==
  ASSUME option \in Options, NEW b \in Leaves
  PROVE  /\ \A fields \in SUBSET AllFields : \A k \in {0, 1} : Run(fields, k, b) \subseteq Allocated
         /\ \A k \in {0, 1} : Flux(k, b) \subseteq Allocated
         /\ \A fields : Once(fields, b) \subseteq Allocated
         /\ option.refinement => \A fields \in SUBSET AllFields : Run(fields, 2, b) \subseteq Allocated
         /\ option.refinement /\ option.coupled =>
              \A fields \in SUBSET AllFields : Run(fields, 3, b) \subseteq Allocated
         /\ option.coupled =>
              /\ \A fields \in SUBSET StateFields : \A k \in {0, 1} : Step(fields, k, b) \subseteq Allocated
              /\ \A fields \in SUBSET (AllFields \cup {"rate"}) : Step(fields, 0, b) \subseteq Allocated
              /\ \A store \in {"step", "saved"} : {store} \X AllFields \X {0} \X {b} \subseteq Allocated
<1> DEFINE runs == Cells("run", AllFields, 0 .. Banks(option) - 1)
           fluxes == Cells("run", {"flux"}, {0, 1})
           registers == Cells("run", Registers(option), {0})
           stepStates == Cells("step", StateFields, {0, 1})
           steps == Cells("step", AllFields \cup {"rate"}, {0})
           saved == Cells("saved", AllFields, {0})
<1>1. Allocated = runs \cup fluxes \cup registers
                    \cup IF option.coupled THEN stepStates \cup steps \cup saved ELSE {}
  BY DEF Allocated, Allocations, AllocatedFor, AllFields
<1>2. \A store, fields, banks : \A some \in SUBSET fields : \A k \in banks :
        {store} \X some \X {k} \X {b} \subseteq Cells(store, fields, banks)
  BY DEF Cells
<1>3. 0 \in 0 .. Banks(option) - 1 /\ 1 \in 0 .. Banks(option) - 1
  BY DEF Banks
<1>4. option.refinement => 2 \in 0 .. Banks(option) - 1
  BY DEF Banks
<1>5. option.refinement /\ option.coupled => 3 \in 0 .. Banks(option) - 1
  BY DEF Banks
<1> HIDE DEF runs, fluxes, registers, stepStates, steps, saved
<1>6. ASSUME NEW fields \in SUBSET AllFields, NEW k \in 0 .. Banks(option) - 1
      PROVE  Run(fields, k, b) \subseteq Allocated
  <2>1. Run(fields, k, b) \subseteq runs
    BY <1>2 DEF Run, runs
  <2> QED
    BY <1>1, <2>1
<1>7. ASSUME NEW k \in {0, 1} PROVE Flux(k, b) \subseteq Allocated
  <2>1. Flux(k, b) \subseteq fluxes
    BY <1>2 DEF Flux, Run, fluxes
  <2> QED
    BY <1>1, <2>1
<1>8. ASSUME NEW fields PROVE Once(fields, b) \subseteq Allocated
  <2>1. fields \cap Registers(option) \in SUBSET Registers(option) /\ 0 \in {0}
    OBVIOUS
  <2>2. Once(fields, b) \subseteq registers
    BY <1>2, <2>1 DEF Once, Run, registers
  <2> QED
    BY <1>1, <2>2
<1>9. ASSUME option.coupled, NEW fields \in SUBSET StateFields, NEW k \in {0, 1}
      PROVE  Step(fields, k, b) \subseteq Allocated
  <2>1. Step(fields, k, b) \subseteq stepStates
    BY <1>2 DEF Step, stepStates
  <2> QED
    BY <1>1, <1>9, <2>1
<1>10. ASSUME option.coupled, NEW fields \in SUBSET (AllFields \cup {"rate"})
       PROVE  Step(fields, 0, b) \subseteq Allocated
  <2>1. 0 \in {0}
    OBVIOUS
  <2>2. Step(fields, 0, b) \subseteq steps
    BY <1>2, <2>1 DEF Step, steps
  <2> QED
    BY <1>1, <1>10, <2>2
<1>11. ASSUME option.coupled, NEW store \in {"step", "saved"}
       PROVE  {store} \X AllFields \X {0} \X {b} \subseteq Allocated
  <2>1. 0 \in {0} /\ AllFields \in SUBSET AllFields /\ AllFields \in SUBSET (AllFields \cup {"rate"})
    OBVIOUS
  <2>2. {"step"} \X AllFields \X {0} \X {b} \subseteq steps
    BY <1>2, <2>1 DEF steps
  <2>3. {"saved"} \X AllFields \X {0} \X {b} \subseteq saved
    BY <1>2, <2>1 DEF saved
  <2> QED
    BY <1>1, <1>11, <2>2, <2>3
<1> QED
  BY <1>3, <1>4, <1>5, <1>6, <1>7, <1>8, <1>9, <1>10, <1>11

(* The values of a block at the stage's time. *)
LEMMA OwnStored ==
  ASSUME Control, Interval, Grants, InCall, NEW a \in Blocks, NEW b \in Leaves
  PROVE  /\ BankOf(b) \in {0, 1}
         /\ \A fields \in SUBSET AllFields : OwnValues(fields, b) \subseteq Allocated
<1>1. option \in Options /\ TimeLevel(b) \in TimeLevels(option)
  BY DEF Control, TimeLevel, TimeLevels
<1>2. Bank \in {0, 1}
  BY BankNow
<1>3. InInterval => levels[TimeLevel(b)] \in LevelType
  BY <1>1 DEF Interval
<1>4. BankOf(b) \in {0, 1}
  BY <1>2, <1>3 DEF BankOf, LevelType
<1>5. ASSUME Between(b), NEW fields \in SUBSET AllFields PROVE Run(fields, NextBank(b), b) \subseteq Allocated
  <2>1. InInterval /\ option.refinement
    BY <1>5 DEF Between, Grants
  <2>2. CASE levels[TimeLevel(b)].predicted
    <3>1. NextBank(b) = 3 /\ option.coupled
      BY <1>1, <2>1, <2>2 DEF NextBank, Grants
    <3> QED
      BY <1>1, <2>1, <3>1, Stored
  <2>3. CASE ~levels[TimeLevel(b)].predicted
    <3>1. NextBank(b) \in {0, 1}
      BY <1>3, <2>1, <2>3 DEF NextBank, Other, LevelType
    <3> QED
      BY <1>1, <3>1, Stored
  <2> QED
    BY <2>2, <2>3
<1>6. \A fields \in SUBSET AllFields : Run(fields, BankOf(b), b) \subseteq Allocated
  BY <1>1, <1>4, Stored
<1> QED
  BY <1>4, <1>5, <1>6 DEF OwnValues

LEMMA DonorsAreLeaves ==
  ASSUME NEW b \in Leaves
  PROVE  Donors[b] \subseteq Leaves
<1>1. \A c : Covering(c) \subseteq Leaves
  BY DEF Covering
<1> DEFINE from(ghost) ==
             LET donor == Locate(Config, Leaves, ghost)
             IN IF donor \subseteq {ghost} THEN {ghost} ELSE UNION {Stencil(coarse) : coarse \in donor}
<1>2. Donors[b] = UNION {UNION {Covering(c) : c \in from(ghost)} : ghost \in GhostsOf(Config, b)}
  BY Zenon DEF Donors
<1> HIDE DEF from
<1> QED
  BY <1>1, <1>2

LEMMA HaloStored ==
  ASSUME Control, Interval, Grants, InCall, NEW a \in Blocks, NEW fields \in SUBSET AllFields
  PROVE  Halo(fields, a) \subseteq Allocated
<1>1. a \in Leaves
  BY BankNow
<1>2. \A d \in Donors[a] : OwnValues(fields, d) \subseteq Allocated
  BY <1>1, DonorsAreLeaves, OwnStored
<1> QED
  BY <1>2 DEF Halo

(* Every cell that a task of a stage names was allocated.                  *)
LEMMA AccessStored ==
  ASSUME Control, Interval, Grants, InCall, NEW b \in Blocks
  PROVE  Touched(AccessOf(b)) \cup Changes(AccessOf(b)) \subseteq Allocated
<1> DEFINE Fits(y) == Touched(y) \cup Changes(y) \subseteq Allocated
           Moves(copies) == \A c \in copies : c[1] \in Allocated /\ c[2] \in Allocated
<1>1. ASSUME NEW reads \in SUBSET Allocated, NEW computes \in SUBSET Allocated, NEW copies, Moves(copies)
      PROVE  Fits(Does(reads, computes, copies))
  BY <1>1 DEF Does, Touched, Changes
<1>2. option \in Options /\ b \in Leaves /\ Bank \in {0, 1} /\ Other(Bank) \in {0, 1}
  BY BankNow DEF Control, Other
<1>3. /\ StateFields \in SUBSET AllFields /\ Gravity \in SUBSET AllFields /\ {"gas"} \in SUBSET AllFields
      /\ {"radiation"} \in SUBSET AllFields /\ AllFields \in SUBSET AllFields
      /\ {"gas"} \cup Gravity \in SUBSET AllFields /\ {"radiation"} \cup Gravity \in SUBSET AllFields
      /\ {"radiation"} \in SUBSET StateFields /\ StateFields \in SUBSET StateFields
      /\ {"rate"} \in SUBSET (AllFields \cup {"rate"}) /\ StateFields \in SUBSET (AllFields \cup {"rate"})
      /\ {"radiation"} \in SUBSET (AllFields \cup {"rate"})
  BY DEF AllFields, FieldsOf, Gravity, StateFields
<1>4. ASSUME NEW fields \in SUBSET AllFields, NEW k \in {0, 1}, NEW d \in Leaves
      PROVE  Run(fields, k, d) \in SUBSET Allocated
  BY <1>2, Stored
<1>5. ASSUME NEW fields, NEW d \in Leaves PROVE Once(fields, d) \in SUBSET Allocated
  BY <1>2, Stored
<1>6. ASSUME NEW k \in {0, 1}, NEW d \in Leaves PROVE Flux(k, d) \in SUBSET Allocated
  BY <1>2, Stored
<1>7. ASSUME NEW fields, NEW from, NEW to, Run(fields, from, b) \subseteq Allocated, Run(fields, to, b) \subseteq Allocated
      PROVE  Moves(Copy(fields, from, to, b))
  <2> SUFFICES ASSUME NEW f \in fields PROVE <<"run", f, from, b>> \in Allocated /\ <<"run", f, to, b>> \in Allocated
    BY DEF Copy
  <2>1. <<"run", f, from, b>> \in Run(fields, from, b) /\ <<"run", f, to, b>> \in Run(fields, to, b)
    BY DEF Run
  <2> QED
    BY <1>7, <2>1
<1>8. ASSUME NEW fields \in SUBSET AllFields PROVE Moves(Carried(fields, b))
  BY <1>2, <1>4, <1>7 DEF Carried
<1>9. ASSUME option.coupled, NEW store \in {"step", "saved"} PROVE Moves(SavedIn(store, b))
  <2> SUFFICES ASSUME NEW f \in AllFields PROVE <<"run", f, Bank, b>> \in Allocated /\ <<store, f, 0, b>> \in Allocated
    BY DEF SavedIn
  <2>1. <<"run", f, Bank, b>> \in Run(AllFields, Bank, b) /\ <<store, f, 0, b>> \in {store} \X AllFields \X {0} \X {b}
    BY DEF Run
  <2>2. {store} \X AllFields \X {0} \X {b} \subseteq Allocated
    BY <1>2, <1>9, Stored
  <2> QED
    BY <1>2, <1>3, <1>4, <2>1, <2>2
<1>10. ASSUME option.coupled, NEW d \in Leaves
       PROVE  /\ \A fields \in SUBSET StateFields : \A k \in {0, 1} : Step(fields, k, d) \in SUBSET Allocated
              /\ \A fields \in SUBSET (AllFields \cup {"rate"}) : Step(fields, 0, d) \in SUBSET Allocated
  BY <1>2, <1>10, Stored
<1>11. /\ Stage.op \in Ops
       /\ Stage.op \in Exchanging \cup {"RestoreRadiationStep"} => option.coupled
       /\ Stage.op \in {"Backup", "ForecastRadiationStep", "Restore"} => option.refinement
       /\ Stage.op = "PrepareGravityEnergy" => option.gravity
  <2>1. CASE mode = "running"
    <3>1. Stage = Plan[pc] /\ Plan \in Seq(ServedType(option)) /\ pc \in 1 .. Len(Plan)
      BY <2>1, StageNow, CallServed DEF Plan, Control
    <3>2. Stage \in ServedType(option)
      BY <3>1
    <3>3. Stage.op \in Served(option)
      BY <3>2 DEF ServedType
    <3> QED
      BY <3>3 DEF Served
  <2>2. CASE mode = "restoring"
    <3>1. Stage.op = "Restore"
      BY <2>2 DEF Stage, StageIn, All, At
    <3> QED
      BY <2>2, <3>1 DEF Grants, Ops, Exchanging
  <2>3. CASE mode = "recovering"
    <3>1. Stage.op = "RestoreRadiationStep"
      BY <2>3 DEF Stage, StageIn, All, At
    <3> QED
      BY <2>3, <3>1 DEF Grants, Ops, Exchanging
  <2> QED
    BY <2>1, <2>2, <2>3 DEF InCall
<1>12. {} \in SUBSET Allocated /\ Moves({})
  OBVIOUS
<1>13. ASSUME NEW x \in SUBSET Allocated, NEW y \in SUBSET Allocated PROVE x \cup y \in SUBSET Allocated
  OBVIOUS
<1> HIDE DEF Fits, Moves
<1>20. ASSUME Stage.op = "Backup" PROVE Fits(AccessOf(b))
  <2>1. AccessOf(b) = Does({}, {}, Copy(AllFields, Bank, 2, b))
    BY <1>20 DEF AccessOf
  <2>2. Run(AllFields, Bank, b) \subseteq Allocated /\ Run(AllFields, 2, b) \subseteq Allocated
    BY <1>2, <1>3, <1>11, <1>20, Stored
  <2> QED
    BY <1>1, <1>7, <1>12, <2>1, <2>2
<1>21. ASSUME Stage.op = "Restore" PROVE Fits(AccessOf(b))
  <2>1. AccessOf(b) = Does({}, {}, Copy(AllFields, 2, Bank, b))
    BY <1>21 DEF AccessOf
  <2>2. Run(AllFields, Bank, b) \subseteq Allocated /\ Run(AllFields, 2, b) \subseteq Allocated
    BY <1>2, <1>3, <1>11, <1>21, Stored
  <2> QED
    BY <1>1, <1>7, <1>12, <2>1, <2>2
<1>22. ASSUME Stage.op = "Normalize" PROVE Fits(AccessOf(b))
  <2>1. AccessOf(b) = Does({}, {}, IF BankOf(b) = Other(Bank) THEN {} ELSE Carried(AllFields, b))
    BY <1>22 DEF AccessOf
  <2> QED
    BY <1>1, <1>3, <1>8, <1>12, <2>1
<1>23. ASSUME Stage.op = "ResetFlux" PROVE Fits(AccessOf(b))
  <2>1. AccessOf(b) = Does({}, Flux(1, b), {})
    BY <1>23 DEF AccessOf
  <2> QED
    BY <1>1, <1>2, <1>6, <1>12, <2>1
<1>24. ASSUME Stage.op = "Timestep" PROVE Fits(AccessOf(b))
  <2>1. AccessOf(b) = Does(Run(AllFields, Bank, b), {}, {})
    BY <1>24 DEF AccessOf
  <2> QED
    BY <1>1, <1>2, <1>3, <1>4, <1>12, <2>1
<1>25. ASSUME NEW fields \in SUBSET AllFields
       PROVE  Run(fields, Bank, b) \in SUBSET Allocated /\ Run(fields, Other(Bank), b) \in SUBSET Allocated
  BY <1>2, <1>4
<1>26. Transporting(b).reads \in SUBSET Allocated /\ Transporting(b).computes \in SUBSET Allocated /\ Moves(Transporting(b).copies)
  <2>1. /\ Transporting(b).reads = Run(StateFields, Bank, b) \cup Halo(StateFields \ Reused(b), b)
        /\ Transporting(b).computes = Run(StateFields, TransportBank, b) \cup Flux(0, b) \cup Once({"massFlux"}, b)
        /\ Transporting(b).copies = Carried(Gravity, b)
    BY DEF Transporting, Does
  <2>2. StateFields \ Reused(b) \in SUBSET AllFields
    BY <1>3
  <2>3. Halo(StateFields \ Reused(b), b) \in SUBSET Allocated
    BY <2>2, HaloStored
  <2>4. Flux(0, b) \in SUBSET Allocated /\ Once({"massFlux"}, b) \in SUBSET Allocated
    BY <1>2, <1>5, <1>6
  <2>5. Run(StateFields, Bank, b) \in SUBSET Allocated /\ Run(StateFields, TransportBank, b) \in SUBSET Allocated
    BY <1>3, <1>25 DEF TransportBank
  <2> QED
    BY <1>3, <1>8, <2>1, <2>3, <2>4, <2>5
<1>27. ASSUME Stage.op = "Advance" PROVE Fits(AccessOf(b))
  <2> DEFINE midpoints == IF option.coupled THEN UNION {Step(StateFields, 1, d) : d \in Donors[b] \cup {b}} ELSE {}
             register == IF InInterval THEN Flux(1, b) ELSE {}
  <2>1. AccessOf(b) = Does(Transporting(b).reads \cup midpoints \cup register,
                           Transporting(b).computes \cup register, Transporting(b).copies)
    BY <1>27 DEF AccessOf, Advancing, Transporting, Does
  <2>2. midpoints \in SUBSET Allocated
    <3>1. Donors[b] \cup {b} \subseteq Leaves
      BY <1>2, DonorsAreLeaves
    <3>2. ASSUME option.coupled, NEW d \in Leaves PROVE Step(StateFields, 1, d) \subseteq Allocated
      BY <1>3, <1>10, <3>2
    <3> QED
      BY <3>1, <3>2
  <2>3. register \in SUBSET Allocated
    BY <1>2, <1>6, <1>12
  <2> HIDE DEF midpoints, register
  <2> QED
    BY <1>1, <1>13, <1>26, <2>1, <2>2, <2>3
<1>28. ASSUME Stage.op = "Probe" PROVE Fits(AccessOf(b))
  <2>1. AccessOf(b) = Does(Transporting(b).reads, Transporting(b).computes \cup Step({"rate"}, 0, b),
                           Transporting(b).copies)
    BY <1>28 DEF AccessOf, Probing, Transporting, Does
  <2>2. Step({"rate"}, 0, b) \in SUBSET Allocated
    BY <1>2, <1>3, <1>10, <1>11, <1>28 DEF Exchanging
  <2> QED
    BY <1>1, <1>13, <1>26, <2>1, <2>2
<1>29. ASSUME Stage.op = "Reflux" PROVE Fits(AccessOf(b))
  <2> DEFINE result == Run(StateFields, Other(Bank), b)
             behind == UNION {Flux(FineBank(b), f) : f \in FineSides[b]}
  <2>1. AccessOf(b) = Does(result \cup Flux(0, b) \cup behind, result, {})
    BY <1>29 DEF AccessOf, Refluxing
  <2>2. FineSides[b] \subseteq Leaves
    BY <1>2, BalanceAssumption DEF FineSides
  <2>3. FineBank(b) \in {0, 1}
    BY DEF FineBank
  <2>4. behind \in SUBSET Allocated
    BY <1>6, <2>2, <2>3
  <2>5. result \in SUBSET Allocated /\ Flux(0, b) \in SUBSET Allocated
    BY <1>2, <1>3, <1>6, <1>25
  <2> HIDE DEF result, behind
  <2> QED
    BY <1>1, <1>12, <1>13, <2>1, <2>4, <2>5
<1>30. ASSUME Stage.op = "PrepareGravityEnergy" PROVE Fits(AccessOf(b))
  <2> DEFINE copies == {<<<<"run", "gravity", Bank, b>>, <<"run", "oldGravity", 0, b>>>>}
  <2>1. AccessOf(b) = Does({}, Once({"kickWork"}, b), copies)
    BY <1>30 DEF AccessOf
  <2>2. option.gravity
    BY <1>11, <1>30
  <2>3. <<"run", "gravity", Bank, b>> \in Run(AllFields, Bank, b)
    BY <2>2 DEF Run, AllFields, FieldsOf, GravityOf
  <2>4. <<"run", "oldGravity", 0, b>> \in Once({"oldGravity"}, b)
    BY <2>2 DEF Once, Run, Registers
  <2>5. Once({"oldGravity"}, b) \in SUBSET Allocated /\ Once({"kickWork"}, b) \in SUBSET Allocated
        /\ Run(AllFields, Bank, b) \in SUBSET Allocated
    BY <1>2, <1>3, <1>5, <1>25
  <2>6. Moves(copies)
    BY <2>3, <2>4, <2>5 DEF Moves
  <2> HIDE DEF copies
  <2> QED
    BY <1>1, <1>12, <2>1, <2>5, <2>6
<1>31. ASSUME Stage.op \in {"Kick", "KickTracked"} PROVE Fits(AccessOf(b))
  <2> DEFINE tracked == Stage.op = "KickTracked"
             work == IF tracked THEN Once({"kickWork"}, b) ELSE {}
             impulse == IF option.coupled /\ (tracked => option.external)
                          THEN Step({"radiation"}, 0, b) \cup Step({"radiation"}, 1, b) \cup Step({"rate"}, 0, b)
                          ELSE {}
  <2>1. AccessOf(b) = Does(Run({"gas"} \cup Gravity, Bank, b) \cup impulse \cup work,
                           Run({"gas"}, Other(Bank), b) \cup work, Carried({"radiation"} \cup Gravity, b))
    BY <1>31 DEF AccessOf, Kicking
  <2>2. work \in SUBSET Allocated
    BY <1>2, <1>5, <1>12
  <2>3. impulse \in SUBSET Allocated
    <3>1. ASSUME option.coupled
          PROVE  /\ Step({"radiation"}, 0, b) \in SUBSET Allocated /\ Step({"radiation"}, 1, b) \in SUBSET Allocated
                 /\ Step({"rate"}, 0, b) \in SUBSET Allocated
      BY <1>2, <1>3, <1>10, <3>1
    <3> QED
      BY <3>1
  <2>4. /\ Run({"gas"} \cup Gravity, Bank, b) \in SUBSET Allocated /\ Run({"gas"}, Other(Bank), b) \in SUBSET Allocated
        /\ Moves(Carried({"radiation"} \cup Gravity, b))
    BY <1>3, <1>8, <1>25
  <2> HIDE DEF work, impulse
  <2> QED
    BY <1>1, <1>13, <2>1, <2>2, <2>3, <2>4
<1>32. ASSUME Stage.op = "SolveGravity" PROVE Fits(AccessOf(b))
  <2> DEFINE sources == UNION {Run({"gas"}, Bank, d) : d \in Leaves}
  <2>1. AccessOf(b) = Does(sources, Run(Gravity, Other(Bank), b), Carried(StateFields, b))
    BY <1>32 DEF AccessOf, Solving
  <2>2. sources \in SUBSET Allocated
    BY <1>2, <1>3, <1>4
  <2> HIDE DEF sources
  <2> QED
    BY <1>1, <1>3, <1>8, <1>25, <2>1, <2>2
<1>33. ASSUME Stage.op = "FinishGravityEnergy" PROVE Fits(AccessOf(b))
  <2> DEFINE sides == {b} \cup WorkSides[b]
             finer == {d \in sides : d.level > b.level}
             near == UNION {Once({"oldGravity"}, d) \cup Run(Gravity, Bank, d) : d \in sides}
             moved == UNION {Once({"massFlux"}, d) : d \in finer \cup {b}}
  <2>1. AccessOf(b) = Does(near \cup moved \cup Once({"kickWork"}, b) \cup Run({"gas"}, Bank, b),
                           Run({"gas"}, Other(Bank), b), Carried({"radiation"} \cup Gravity, b))
    BY <1>33 DEF AccessOf, Closing
  <2>2. sides \subseteq Leaves
    BY <1>2 DEF WorkSides
  <2>3. near \in SUBSET Allocated /\ moved \in SUBSET Allocated
    <3>1. \A d \in sides : /\ Once({"oldGravity"}, d) \in SUBSET Allocated /\ Run(Gravity, Bank, d) \in SUBSET Allocated
                           /\ Once({"massFlux"}, d) \in SUBSET Allocated
      BY <1>2, <1>3, <1>4, <1>5, <2>2
    <3> QED
      BY <3>1
  <2>4. /\ Once({"kickWork"}, b) \in SUBSET Allocated /\ Run({"gas"}, Bank, b) \in SUBSET Allocated
        /\ Run({"gas"}, Other(Bank), b) \in SUBSET Allocated /\ Moves(Carried({"radiation"} \cup Gravity, b))
    BY <1>2, <1>3, <1>5, <1>8, <1>25
  <2> HIDE DEF sides, finer, near, moved
  <2> QED
    BY <1>1, <1>13, <2>1, <2>3, <2>4
<1>34. ASSUME Stage.op \in {"Save", "SaveRadiationStep"} PROVE Fits(AccessOf(b))
  <2>1. option.coupled
    BY <1>11, <1>34 DEF Exchanging
  <2>2. CASE Stage.op = "Save"
    <3>1. AccessOf(b) = Does({}, {}, SavedIn("saved", b))
      BY <2>2 DEF AccessOf
    <3> QED
      BY <1>1, <1>9, <1>12, <2>1, <3>1
  <2>3. CASE Stage.op = "SaveRadiationStep"
    <3>1. AccessOf(b) = Does({}, {}, SavedIn("step", b))
      BY <2>3 DEF AccessOf
    <3> QED
      BY <1>1, <1>9, <1>12, <2>1, <3>1
  <2> QED
    BY <1>34, <2>2, <2>3
<1>35. ASSUME Stage.op = "RestoreRadiationStep" PROVE Fits(AccessOf(b))
  <2> DEFINE copies == {<<c[2], c[1]>> : c \in SavedIn("saved", b)}
  <2>1. AccessOf(b) = Does({}, {}, copies)
    BY <1>35 DEF AccessOf
  <2>2. Moves(SavedIn("saved", b))
    BY <1>9, <1>11, <1>35
  <2>3. Moves(copies)
    BY <2>2 DEF Moves
  <2> HIDE DEF copies
  <2> QED
    BY <1>1, <1>12, <2>1, <2>3
<1>36. ASSUME Stage.op = "PredictRadiationStep" PROVE Fits(AccessOf(b))
  <2>1. AccessOf(b) = Does(OwnValues(StateFields, b) \cup Run(Gravity, BankOf(b), b) \cup Step({"rate"}, 0, b),
                           Step(StateFields, 1, b), {})
    BY <1>36 DEF AccessOf, Predicting
  <2>2. Step({"rate"}, 0, b) \in SUBSET Allocated /\ Step(StateFields, 1, b) \in SUBSET Allocated
    BY <1>2, <1>3, <1>10, <1>11, <1>36 DEF Exchanging
  <2>3. OwnValues(StateFields, b) \in SUBSET Allocated /\ Run(Gravity, BankOf(b), b) \in SUBSET Allocated
    BY <1>2, <1>3, <1>4, OwnStored
  <2> QED
    BY <1>1, <1>12, <1>13, <2>1, <2>2, <2>3
<1>37. ASSUME Stage.op \in {"ForecastRadiationStep", "FinishRadiationStep"} PROVE Fits(AccessOf(b))
  <2>1. ASSUME NEW from \in {0, 1}, NEW to, Run(StateFields, to, b) \subseteq Allocated, Run(Gravity, to, b) \subseteq Allocated
        PROVE  Fits(SourceStep(from, to, b))
    <3>1. Step(StateFields, 0, b) \in SUBSET Allocated
      BY <1>2, <1>3, <1>10, <1>11, <1>37 DEF Exchanging
    <3>2. Run(StateFields, from, b) \in SUBSET Allocated /\ Run(Gravity, from, b) \in SUBSET Allocated
      BY <1>2, <1>3, <1>4
    <3>3. Moves(Copy(Gravity, from, to, b))
      BY <1>7, <2>1, <3>2
    <3> QED
      BY <1>1, <1>13, <2>1, <3>1, <3>2, <3>3 DEF SourceStep
  <2>2. CASE Stage.op = "ForecastRadiationStep"
    <3>1. AccessOf(b) = SourceStep(Other(Bank), 3, b)
      BY <2>2 DEF AccessOf
    <3>2. option.refinement /\ option.coupled
      BY <1>11, <2>2 DEF Exchanging
    <3>3. Run(StateFields, 3, b) \subseteq Allocated /\ Run(Gravity, 3, b) \subseteq Allocated
      BY <1>2, <1>3, <3>2, Stored
    <3> QED
      BY <1>2, <2>1, <3>1, <3>3
  <2>3. CASE Stage.op = "FinishRadiationStep"
    <3>1. AccessOf(b) = SourceStep(Bank, Other(Bank), b)
      BY <2>3 DEF AccessOf
    <3>2. Run(StateFields, Other(Bank), b) \subseteq Allocated /\ Run(Gravity, Other(Bank), b) \subseteq Allocated
      BY <1>3, <1>25
    <3> QED
      BY <1>2, <2>1, <3>1, <3>2
  <2> QED
    BY <1>37, <2>2, <2>3
<1>38. ASSUME Stage.op = "CoupleRadiation" PROVE Fits(AccessOf(b))
  <2>1. AccessOf(b) = Does(Run(StateFields, Bank, b), Run(StateFields, Other(Bank), b), Carried(Gravity, b))
    BY <1>38 DEF AccessOf
  <2> QED
    BY <1>1, <1>3, <1>8, <1>25, <2>1
<1>39. Fits(AccessOf(b))
  BY <1>11, <1>20, <1>21, <1>22, <1>23, <1>24, <1>27, <1>28, <1>29, <1>30, <1>31, <1>32, <1>33, <1>34, <1>35, <1>36,
     <1>37, <1>38 DEF Ops
<1> QED
  BY <1>39 DEF Fits
-----------------------------------------------------------------------------
(* The types, and where the tasks of a stage may be. *)
Kinds ==
  /\ tasks \in [Leaves -> {"idle", "ready", "open", "done", "thrown"}]
  /\ gasInvalid \in BOOLEAN /\ failures \in 0 .. MaxFailures /\ DOMAIN cache = Leaves
  /\ DOMAIN data = Allocated /\ \A c \in Allocated : data[c] \in 0 .. Len(Plan) + 1
Listed == \A b \in Leaves : tasks[b] # "idle" => b \in DOMAIN access
Within == \A b \in DOMAIN access : Touched(access[b]) \cup Changes(access[b]) \subseteq Allocated
Typed == Grants /\ Kinds /\ Listed /\ Within

(* Publication opens an interval, and marks a forecast, only where granted. *)
LEMMA PublishedGrants ==
  ASSUME Control, Interval, Grants, mode = "running", Published, option' = option, mode' \in {"running", "idle"}
  PROVE  Grants'
<1>1. InCall /\ TimeLevels(option)' = TimeLevels(option)
  BY DEF InCall, TimeLevels, TimeLevelOf
<1>2. Stage.op \in Served(option)
  <2>1. Stage = Plan[pc] /\ Plan \in Seq(ServedType(option)) /\ pc \in 1 .. Len(Plan)
    BY <1>1, StageNow, CallServed DEF Plan, Control
  <2>2. Stage \in ServedType(option)
    BY <2>1
  <2> QED
    BY <2>2 DEF ServedType
<1>3. /\ Stage.op = "Backup" => option.refinement
      /\ Stage.op = "ForecastRadiationStep" => option.coupled
  BY <1>2 DEF Served, Exchanging
<1> SUFFICES ASSUME levels' # <<>>
             PROVE  option.refinement /\ \A k \in TimeLevels(option) : levels'[k].predicted => option.coupled
  BY <1>1 DEF Grants, InInterval
<1>4. Stage.op # "Normalize"
  BY <1>1, Publication
<1>5. CASE Stage.op = "Backup"
  <2>1. levels' = [k \in TimeLevels(option) |-> [bank |-> bank, begin |-> 0, pending |-> FALSE, predicted |-> FALSE]]
    BY <1>5, LevelsNext
  <2> QED
    BY <1>3, <1>5, <2>1
<1>6. CASE Stage.op # "Backup"
  <2>1. InInterval /\ option.refinement
    BY <1>1, <1>4, <1>6, Publication DEF Grants
  <2>2. levels \in [TimeLevels(option) -> LevelType] /\ \A k \in TimeLevels(option) : levels[k].predicted => option.coupled
    BY <2>1 DEF Interval, Grants
  <2> DEFINE l == Stage.level
  <2>3. \/ levels' = levels
        \/ levels' = [levels EXCEPT ![l].begin = Stage.at]
        \/ levels' = [levels EXCEPT ![l].pending = ~option.coupled]
        \/ Stage.op = "ForecastRadiationStep"
        \/ levels' = [levels EXCEPT ![l].pending = FALSE, ![l].bank = Other(Bank)]
    BY <1>4, <1>6, LevelsNext
  <2> HIDE DEF l
  <2>4. ASSUME NEW k \in TimeLevels(option), levels'[k].predicted PROVE option.coupled
    <3>1. CASE Stage.op = "ForecastRadiationStep"
      BY <1>3, <3>1
    <3>2. CASE levels' = levels
      BY <2>2, <2>4, <3>2
    <3>3. CASE levels' = [levels EXCEPT ![l].begin = Stage.at]
      BY <2>2, <2>4, <3>3 DEF LevelType
    <3>4. CASE levels' = [levels EXCEPT ![l].pending = ~option.coupled]
      BY <2>2, <2>4, <3>4 DEF LevelType
    <3>5. CASE levels' = [levels EXCEPT ![l].pending = FALSE, ![l].bank = Other(Bank)]
      BY <2>2, <2>4, <3>5 DEF LevelType
    <3> QED
      BY <2>3, <3>1, <3>2, <3>3, <3>4, <3>5
  <2> QED
    BY <2>1, <2>4
<1> QED
  BY <1>5, <1>6

(* The coordinator leaves no task behind when it goes on. *)
LEMMA EntersTyped ==
  ASSUME Control, Typed, option' = option, access' = <<>>, tasks' = [b \in Leaves |-> "idle"], cache' = cache,
         gasInvalid' \in BOOLEAN, failures' \in 0 .. MaxFailures, DOMAIN data' = Allocated,
         \A c \in Allocated : data'[c] = data[c] \/ data'[c] \in {0, 1}
  PROVE  (Kinds /\ Listed /\ Within)'
<1>1. Plan' = Plan /\ Allocated' = Allocated /\ Len(Plan) \in Nat /\ DOMAIN cache' = Leaves
  BY CallFine DEF Plan, Allocated, Typed, Kinds, Control, Fine
<1>2. \A c \in Allocated : data'[c] \in 0 .. Len(Plan) + 1
  BY <1>1 DEF Typed, Kinds
<1>3. Kinds'
  BY <1>1, <1>2 DEF Kinds
<1> QED
  BY <1>3 DEF Listed, Within

(* A new list of tasks names cells that are there. *)
LEMMA BeginTyped ==
  ASSUME IInv, Typed, Begin
  PROVE  Typed'
<1>1. /\ InCall /\ access' = [b \in Blocks |-> AccessOf(b)]
      /\ tasks' = [b \in Leaves |-> IF b \in Blocks THEN "ready" ELSE "idle"] /\ DOMAIN cache' = Leaves
      /\ UNCHANGED <<option, mode, pc, bank, savedBank, levels, data, gasInvalid, failures>>
  BY DEF Begin
<1>2. Allocated' = Allocated /\ Plan' = Plan /\ Grants'
  BY <1>1 DEF Allocated, Plan, Typed, Grants, InInterval, TimeLevels, TimeLevelOf
<1>3. Kinds'
  BY <1>1, <1>2 DEF Typed, Kinds
<1>4. Listed'
  BY <1>1 DEF Listed
<1>5. ASSUME NEW b \in Blocks PROVE Touched(AccessOf(b)) \cup Changes(AccessOf(b)) \subseteq Allocated
  BY <1>1, AccessStored DEF IInv, Typed
<1>6. \A b \in DOMAIN access' : b \in Blocks /\ access'[b] = AccessOf(b)
  BY <1>1
<1>7. \A b \in DOMAIN access' : Touched(access'[b]) \cup Changes(access'[b]) \subseteq Allocated'
  BY <1>2, <1>5, <1>6
<1>8. Within'
  BY <1>7 DEF Within, Touched, Changes
<1> QED
  BY <1>2, <1>3, <1>4, <1>8 DEF Typed

(* A task works on cells that are there. *)
LEMMA TaskTyped ==
  ASSUME IInv, Typed, NEW b \in Leaves, Open(b) \/ Close(b) \/ Throw(b)
  PROVE  Typed'
<1>1. UNCHANGED <<option, mode, pc, access, bank, savedBank, levels, gasInvalid>> /\ tasks[b] # "idle"
  BY DEF Open, Close, Throw
<1>2. Allocated' = Allocated /\ Plan' = Plan /\ Grants'
  BY <1>1 DEF Allocated, Plan, Typed, Grants, InInterval, TimeLevels, TimeLevelOf
<1>3. \E state \in {"open", "done", "thrown"} : tasks' = [tasks EXCEPT ![b] = state]
  BY DEF Open, Close, Throw
<1>4. Listed' /\ Within' /\ tasks' \in [Leaves -> {"idle", "ready", "open", "done", "thrown"}]
  BY <1>1, <1>2, <1>3 DEF Typed, Listed, Within, Kinds
<1>5. Len(Plan) \in Nat /\ pc \in 1 .. Len(Plan)
  BY CallFine DEF IInv, Control, Plan, Fine
<1>6. DOMAIN data' = Allocated /\ \A c \in Allocated : data'[c] \in 0 .. Len(Plan) + 1
  <2>1. DOMAIN data = Allocated /\ \A c \in Allocated : data[c] \in 0 .. Len(Plan) + 1
    BY DEF Typed, Kinds
  <2>2. CASE Open(b)
    <3> DEFINE written == Writes(b)
    <3>1. data' = [c \in DOMAIN data |-> IF c \in written THEN 0 ELSE data[c]]
      BY <2>2 DEF Open
    <3> HIDE DEF written
    <3> QED
      BY <1>5, <2>1, <3>1
  <2>3. CASE Close(b)
    <3> DEFINE copies == access[b].copies
               source == [c \in {x[2] : x \in copies} |-> (CHOOSE x \in copies : x[2] = c)[1]]
    <3>1. data' = [c \in DOMAIN data |-> IF c \in DOMAIN source THEN data[source[c]]
                                         ELSE IF c \in access[b].computes THEN pc + 1 ELSE data[c]]
      BY <2>3 DEF Close, Result
    <3>2. \A x \in copies : x[1] \in Allocated
      <4>1. b \in DOMAIN access
        BY <1>1 DEF Typed, Listed
      <4>2. Touched(access[b]) \subseteq Allocated
        BY <4>1 DEF Typed, Within
      <4> QED
        BY <4>2 DEF Touched
    <3>3. ASSUME NEW c \in DOMAIN source PROVE source[c] \in Allocated
      <4> DEFINE x == CHOOSE x \in copies : x[2] = c
      <4>1. x \in copies
        OBVIOUS
      <4>2. source[c] = x[1]
        OBVIOUS
      <4> HIDE DEF x, source
      <4> QED
        BY <3>2, <4>1, <4>2
    <3> HIDE DEF source
    <3> QED
      BY <1>5, <2>1, <3>1, <3>3
  <2>4. CASE Throw(b)
    BY <2>1, <2>4 DEF Throw
  <2> QED
    BY <2>2, <2>3, <2>4
<1>7. failures' \in 0 .. MaxFailures
  BY BoundAssumption DEF Open, Close, Throw, Typed, Kinds
<1>8. DOMAIN cache' = Leaves
  <2>1. DOMAIN cache = Leaves
    BY DEF Typed, Kinds
  <2>2. CASE Open(b) \/ Throw(b)
    BY <2>1, <2>2 DEF Open, Throw
  <2>3. CASE Close(b)
    BY <2>1, <2>3 DEF Close
  <2> QED
    BY <2>2, <2>3
<1>9. Kinds'
  BY <1>1, <1>2, <1>4, <1>6, <1>7, <1>8 DEF Typed, Kinds
<1> QED
  BY <1>2, <1>4, <1>9 DEF Typed

(* Every step keeps the types. *)
LEMMA StepTyped ==
  ASSUME IInv, Typed, [Next]_vars
  PROVE  Typed'
<1> DEFINE Entered == access' = <<>> /\ tasks' = [b \in Leaves |-> "idle"] /\ cache' = cache /\ option' = option
<1>1. /\ Control /\ option \in Options /\ DOMAIN data = Allocated /\ gasInvalid \in BOOLEAN
      /\ failures \in 0 .. MaxFailures /\ MaxFailures \in Nat
      /\ InInterval => mode \in {"running", "lost"} /\ option.refinement
  BY BoundAssumption DEF IInv, Control, Interval, Typed, Kinds, Grants
<1>2. ASSUME Entered, gasInvalid' \in BOOLEAN, failures' \in 0 .. MaxFailures, DOMAIN data' = Allocated,
             \A c \in Allocated : data'[c] = data[c] \/ data'[c] \in {0, 1}, Grants'
      PROVE  Typed'
  BY <1>1, <1>2, EntersTyped DEF Typed
<1>3. ASSUME \E X : data' = [c \in DOMAIN data |-> IF c \in X THEN 0 ELSE data[c]]
      PROVE  DOMAIN data' = Allocated /\ \A c \in Allocated : data'[c] = data[c] \/ data'[c] \in {0, 1}
  BY <1>1, <1>3
<1>4. ASSUME data' = Torn
      PROVE  DOMAIN data' = Allocated /\ \A c \in Allocated : data'[c] = data[c] \/ data'[c] \in {0, 1}
  <2>1. data' = [c \in DOMAIN data |-> IF c \in UNION {Writes(b) : b \in DOMAIN access} THEN 0 ELSE data[c]]
    BY <1>4 DEF Torn
  <2> QED
    BY <1>3, <2>1
<1>5. ASSUME NEW k, data' = OnlyPublished(k)
      PROVE  DOMAIN data' = Allocated /\ \A c \in Allocated : data'[c] = data[c] \/ data'[c] \in {0, 1}
  BY <1>1, <1>5 DEF OnlyPublished
<1>6. ASSUME levels' = <<>>, option' = option, mode' \notin {"restoring", "recovering"} PROVE Grants'
  BY <1>6 DEF Grants, InInterval
<1>7. ASSUME levels' = levels, option' = option, mode' \notin {"restoring", "recovering"} PROVE Grants'
  BY <1>7 DEF Typed, Grants, InInterval, TimeLevels, TimeLevelOf
<1>8. CASE UNCHANGED vars
  <2>1. Plan' = Plan /\ Allocated' = Allocated
    BY <1>8 DEF vars, Plan, Allocated
  <2>2. Grants'
    BY <1>8 DEF vars, Typed, Grants, InInterval, TimeLevels, TimeLevelOf
  <2>3. Kinds' /\ Listed' /\ Within'
    BY <1>8, <2>1 DEF vars, Typed, Kinds, Listed, Within
  <2> QED
    BY <2>2, <2>3 DEF Typed
<1>9. CASE Start
  <2>1. Entered /\ levels' = levels /\ mode' = "running" /\ data' = data /\ gasInvalid' = FALSE /\ failures' = 0
    BY <1>9 DEF Start, Enter
  <2>2. Grants'
    BY <1>7, <2>1
  <2>3. gasInvalid' \in BOOLEAN
    <3>1. gasInvalid' = FALSE
      BY <2>1
    <3> QED
      BY <3>1
  <2>4. failures' \in 0 .. MaxFailures
    <3>1. failures' = 0
      BY <2>1
    <3> QED
      BY <1>1, <3>1
  <2>5. DOMAIN data' = Allocated /\ \A c \in Allocated : data'[c] = data[c] \/ data'[c] \in {0, 1}
    <3>1. data' = data
      BY <2>1
    <3> QED
      BY <1>1, <3>1
  <2>6. Entered
    BY <2>1
  <2> HIDE DEF Entered
  <2> QED
    BY <1>2, <2>2, <2>3, <2>4, <2>5, <2>6, Zenon
<1>10. CASE Begin
  BY <1>10, BeginTyped
<1>11. ASSUME Published, mode = "running", option' = option, mode' \in {"running", "idle"}
       PROVE  Grants' /\ gasInvalid' \in BOOLEAN
  <2>1. Grants'
    BY <1>11, PublishedGrants DEF IInv, Typed
  <2>2. gasInvalid' \in BOOLEAN
    BY <1>11 DEF Published
  <2> QED
    BY <2>1, <2>2
<1>12. CASE EndStage
  <2>1. Entered /\ Published /\ mode = "running" /\ mode' = "running" /\ failures' = failures
    BY <1>12 DEF EndStage, Enter
  <2>2. data' = [c \in DOMAIN data |-> IF c \in Spent THEN 0 ELSE data[c]]
    BY <1>12 DEF EndStage
  <2> QED
    BY <1>1, <1>2, <1>3, <1>11, <2>1, <2>2
<1>13. CASE Return
  <2>1. Entered /\ Published /\ mode = "running" /\ mode' = "idle" /\ failures' = failures /\ data' = OnlyPublished(bank')
    BY <1>13 DEF Return, Enter
  <2> QED
    BY <1>1, <1>2, <1>5, <1>11, <2>1
<1>14. ASSUME NEW b \in Leaves, Open(b) \/ Close(b) \/ Throw(b) PROVE Typed'
  BY <1>14, TaskTyped
<1>15. CASE Restore
  <2>1. /\ Entered /\ levels' = <<>> /\ mode' = "restoring" /\ data' = Torn /\ InInterval
        /\ gasInvalid' = gasInvalid /\ failures' = failures
    BY <1>15 DEF Restore, Enter
  <2>2. Grants'
    BY <1>1, <2>1 DEF Grants, InInterval
  <2> QED
    BY <1>1, <1>2, <1>4, <2>1, <2>2
<1>16. CASE Recover
  <2>1. /\ Entered /\ levels' = levels /\ mode' = "recovering" /\ option.coupled /\ data' \in {data, Torn}
        /\ gasInvalid' = gasInvalid /\ failures' = failures
    BY <1>16 DEF Recover, Enter, BackupHeld
  <2>2. Grants'
    BY <2>1 DEF Typed, Grants, InInterval, TimeLevels, TimeLevelOf
  <2> QED
    BY <1>1, <1>2, <1>4, <2>1, <2>2
<1>17. CASE Retry
  <2>1. /\ Entered /\ levels' = levels /\ mode' = "running" /\ data' = Torn
        /\ gasInvalid' = gasInvalid /\ failures' = failures
    BY <1>17 DEF Retry, Enter
  <2>2. Grants'
    BY <1>7, <2>1
  <2> QED
    BY <1>1, <1>2, <1>4, <2>1, <2>2
<1>18. CASE RolledBack
  <2>1. /\ Entered /\ levels' = levels /\ mode' = "idle" /\ data' = OnlyPublished(bank)
        /\ gasInvalid' = gasInvalid /\ failures' = failures
    BY <1>18 DEF RolledBack, Enter
  <2>2. Grants'
    BY <1>7, <2>1
  <2> QED
    BY <1>1, <1>2, <1>5, <2>1, <2>2
<1>19. CASE Lose
  <2>1. /\ Entered /\ levels' = levels /\ mode' = "lost" /\ data' = Torn
        /\ gasInvalid' = gasInvalid /\ failures' = failures
    BY <1>19 DEF Lose, Enter
  <2>2. Grants'
    BY <1>7, <2>1
  <2> QED
    BY <1>1, <1>2, <1>4, <2>1, <2>2
<1>20. CASE Lost
  BY <1>8, <1>20 DEF Lost
<1> HIDE DEF Entered
<1> QED
  BY <1>8, <1>9, <1>10, <1>12, <1>13, <1>14, <1>15, <1>16, <1>17, <1>18, <1>19, <1>20 DEF Next

(* What the types rest on holds for ever. *)
LEMMA TypesHold == Spec => []Typed
<1>1. Init => Typed
  <2> SUFFICES ASSUME Init PROVE Typed
    OBVIOUS
  <2>1. Len(Plan) \in Nat
    BY CallFine DEF Init, Plan, Fine
  <2>2. Kinds
    <3>1. data = [c \in Allocated |-> IF c \in Cells("run", AllFields, {0}) THEN 1 ELSE 0]
      BY DEF Init
    <3>2. DOMAIN data = Allocated /\ \A c \in Allocated : data[c] \in {0, 1}
      BY <3>1
    <3>3. tasks \in [Leaves -> {"idle", "ready", "open", "done", "thrown"}]
      <4>1. tasks = [b \in Leaves |-> "idle"]
        BY DEF Init
      <4> QED
        BY <4>1
    <3>4. DOMAIN cache = Leaves
      <4>1. cache = [b \in Leaves |-> <<>>]
        BY DEF Init
      <4> QED
        BY <4>1
    <3>5. gasInvalid \in BOOLEAN
      BY DEF Init
    <3>6. failures \in 0 .. MaxFailures
      BY BoundAssumption DEF Init
    <3>7. \A c \in Allocated : data[c] \in 0 .. Len(Plan) + 1
      BY <2>1, <3>2
    <3> QED
      BY <3>2, <3>3, <3>4, <3>5, <3>6, <3>7, Zenon DEF Kinds
  <2>3. Grants
    BY DEF Init, Grants, InInterval
  <2>4. Listed
    BY DEF Init, Listed
  <2>5. Within
    BY DEF Init, Within
  <2> QED
    BY <2>2, <2>3, <2>4, <2>5 DEF Typed
<1>2. IInv /\ Typed /\ [Next]_vars => Typed'
  BY StepTyped
<1> QED
  BY <1>1, <1>2, Invariance, PTL DEF Spec

(* Types hold for ever, and every bank, register and store that a task names   *)
(* was allocated: no lookup throws "Invalid field identity or stage bank",   *)
(* whatever the mesh, the options and the stage a failure interrupts.      *)
THEOREM AccessTypes == Spec => []TypeOK
<1>1. IInv /\ Typed => TypeOK
  <2> SUFFICES ASSUME IInv, Typed PROVE TypeOK
    OBVIOUS
  <2>1. Control /\ Interval /\ Kinds /\ Within
    BY DEF IInv, Typed
  <2>2. InInterval => DOMAIN levels = TimeLevels(option)
    BY <2>1 DEF Interval
  <2>3. \A b \in DOMAIN access : Reads(b) \cup Writes(b) \subseteq Allocated
    BY <2>1 DEF Within, Touched, Changes, Reads, Writes
  <2> QED
    BY <2>1, <2>2, <2>3 DEF Control, Kinds, Plan, TypeOK
<1> QED
  BY <1>1, TypesHold, Invariance, PTL
-----------------------------------------------------------------------------
(***************************************************************************)
(* What the stages of a call leave for the later ones. A fact is a kind and  *)
(* the level it is about, -1 for the whole mesh: an interval is open or not, *)
(* a level is ahead of its bank and has fluxes, its interval register runs,  *)
(* the step, the rates and the midpoints of the exchange are there, the      *)
(* registers of the energy interval hold the work and the mass, the halos of *)
(* the probe may be used; and what has not happened yet.                     *)
(***************************************************************************)
Fact(kind) == <<kind, -1>>
Meets(l, k) == l < 0 \/ k < 0 \/ l = k

(* What a stage counts on: that an interval is open when it works on a      *)
(* level, that none is when it works on the mesh, and what follows.        *)
Global == {"Backup", "Normalize", "Kick", "KickTracked", "SolveGravity", "FinishGravityEnergy"}
Needs(o, s) ==
  (IF s.level >= 0 \/ s.op = "Normalize" THEN {Fact("open")}
   ELSE IF s.op = "PredictRadiationStep" THEN {} ELSE {Fact("closed")})
  \cup (IF s.level >= 0 /\ s.op \in Global THEN {Fact("closed")} ELSE {})
  \cup CASE s.op = "Advance" ->
              (IF s.level >= 0 THEN {<<"register", s.level>>} ELSE {Fact("unmoved")})
                \cup (IF o.coupled THEN {Fact("midpoint"), <<"probed", s.level>>} ELSE {})
         [] s.op = "Reflux" ->
              {<<"ahead", s.level>>, <<"flux", s.level>>}
                \cup (IF s.level < 0 THEN {Fact("advanced")}
                      ELSE IF Finer(o, s.level) # {} THEN {<<"register", NextFiner(o, s.level)>>} ELSE {})
         [] s.op \in {"Kick", "KickTracked"} ->
              {Fact("settled")} \cup (IF o.coupled THEN {Fact("step"), Fact("midpoint"), Fact("rate")} ELSE {})
                \cup (IF s.op = "KickTracked" THEN {Fact("work")} ELSE {})
         [] s.op = "SolveGravity" -> {Fact("settled")}
         [] s.op = "PrepareGravityEnergy" -> {Fact("unworked")}
         [] s.op = "FinishGravityEnergy" -> {Fact("settled"), Fact("work"), Fact("mass")}
         [] s.op = "PredictRadiationStep" -> {Fact("rate")}
         [] s.op = "ForecastRadiationStep" -> {<<"ahead", s.level>>, <<"step", s.level>>}
         [] s.op = "FinishRadiationStep" -> {<<"step", s.level>>}
         [] s.op = "CoupleRadiation" -> {Fact("settled")}
         [] s.op = "Save" -> {Fact("start")}
         [] s.op = "ResetFlux" -> {Fact("open")}
         [] OTHER -> {}

(* What a stage does not put an end to. *)
Survives(s, x) ==
  /\ s.op # "Normalize" /\ x[1] \notin {"start", "advanced"}
  /\ x[1] = "closed" => s.op # "Backup"
  /\ x[1] = "ahead" => ~(s.op \in Flips /\ Meets(s.level, x[2]))
  /\ x[1] = "flux" => ~(s.op = "Reflux" /\ Meets(s.level, x[2]))
  /\ x[1] = "register" => ~(s.op = "Reflux" /\ (x[2] > s.level \/ x[2] < 0))
  /\ x[1] = "midpoint" => ~(s.op = "Advance" /\ s.level >= 0)
  /\ x[1] = "step" => ~(s.op = "FinishRadiationStep" /\ Meets(s.level, x[2]))
  /\ x[1] \in {"work", "mass"} => s.op # "FinishGravityEnergy"
  /\ x[1] \in {"unmoved", "settled"} => s.op # "Advance"
  /\ x[1] = "unworked" => s.op # "PrepareGravityEnergy"
  /\ x[1] = "probed" => s.op \in {"PredictRadiationStep", "PrepareGravityEnergy", "Kick", "KickTracked"}

(* What a stage brings about. *)
MadeBy(op) ==
  CASE op = "Backup" -> {"open"}
    [] op = "ResetFlux" -> {"register"}
    [] op = "Advance" -> {"ahead", "flux", "mass", "advanced"}
    [] op = "Reflux" -> {"settled"}
    [] op = "Probe" -> {"probed", "rate"}
    [] op = "SaveRadiationStep" -> {"step"}
    [] op = "PredictRadiationStep" -> {"midpoint"}
    [] op = "PrepareGravityEnergy" -> {"work"}
    [] OTHER -> {}
Makes(s) == {<<kind, s.level>> : kind \in MadeBy(s.op)}

(* Fact x holds before stage p when those in A held before the first.      *)
Holds(A, s, p, x) ==
  \/ \E q \in 1 .. (p - 1) : x \in Makes(s[q]) /\ \A r \in (q + 1) .. (p - 1) : Survives(s[r], x)
  \/ x \in A /\ \A r \in 1 .. (p - 1) : Survives(s[r], x)
(* From A on, every stage finds what it needs, and B holds in the end.     *)
Leads(o, A, s, B) ==
  /\ s \in Seq(StageType)
  /\ \A p \in 1 .. Len(s) : \A x \in Needs(o, s[p]) : Holds(A, s, p, x)
  /\ \A x \in B : Holds(A, s, Len(s) + 1, x)

LEMMA LeadsNone ==
  ASSUME NEW o, NEW A, NEW B, B \subseteq A
  PROVE  Leads(o, A, <<>>, B)
BY DEF Leads, Holds

LEMMA LeadsOne ==
  ASSUME NEW o, NEW A, NEW B, NEW st \in StageType, Needs(o, st) \subseteq A,
         \A x \in B : (x \in A /\ Survives(st, x)) \/ x \in Makes(st)
  PROVE  Leads(o, A, <<st>>, B)
<1> DEFINE s == <<st>>
<1>1. s \in Seq(StageType) /\ Len(s) = 1 /\ s[1] = st
  OBVIOUS
<1> HIDE DEF s
<1>2. \A x \in Needs(o, st) : Holds(A, s, 1, x)
  BY DEF Holds
<1>3. ASSUME NEW x \in B PROVE Holds(A, s, 2, x)
  <2>1. \A r \in 1 .. (2 - 1) : r = 1
    OBVIOUS
  <2> QED
    BY <1>1, <2>1 DEF Holds
<1>4. \A p \in 1 .. Len(s) : p = 1
  BY <1>1
<1>5. Leads(o, A, s, B)
  BY <1>1, <1>2, <1>3, <1>4 DEF Leads
<1> QED
  BY <1>5 DEF s

(* One piece after the other. *)
LEMMA LeadsConcat ==
  ASSUME NEW o, NEW A, NEW B, NEW C, NEW s, NEW t, Leads(o, A, s, B), Leads(o, B, t, C)
  PROVE  Leads(o, A, s \o t, C)
<1> DEFINE u == s \o t
           n == Len(s)
<1>1. s \in Seq(StageType) /\ t \in Seq(StageType) /\ n \in Nat /\ Len(t) \in Nat
  BY DEF Leads
<1>2. u \in Seq(StageType) /\ Len(u) = n + Len(t)
  BY <1>1
<1>3. \A k \in 1 .. n : u[k] = s[k]
  BY <1>1
<1>4. \A k \in 1 .. Len(t) : u[n + k] = t[k]
  BY <1>1
<1>n. n = Len(s)
  OBVIOUS
<1> HIDE DEF u, n
<1>5. ASSUME NEW p \in 1 .. (n + 1), NEW x, Holds(A, s, p, x) PROVE Holds(A, u, p, x)
  <2>1. \A r \in 1 .. (p - 1) : u[r] = s[r]
    BY <1>1, <1>3
  <2>2. CASE x \in A /\ \A r \in 1 .. (p - 1) : Survives(s[r], x)
    BY <2>1, <2>2 DEF Holds
  <2>3. CASE \E q \in 1 .. (p - 1) : x \in Makes(s[q]) /\ \A r \in (q + 1) .. (p - 1) : Survives(s[r], x)
    <3>1. PICK q \in 1 .. (p - 1) : x \in Makes(s[q]) /\ \A r \in (q + 1) .. (p - 1) : Survives(s[r], x)
      BY <2>3
    <3>2. \A r \in (q + 1) .. (p - 1) : r \in 1 .. (p - 1)
      BY <1>1
    <3>3. x \in Makes(u[q]) /\ \A r \in (q + 1) .. (p - 1) : Survives(u[r], x)
      BY <2>1, <3>1, <3>2
    <3> QED
      BY <3>3 DEF Holds
  <2> QED
    BY <1>5, <2>2, <2>3 DEF Holds
<1>6. ASSUME NEW p \in 1 .. (Len(t) + 1), NEW x, Holds(B, t, p, x) PROVE Holds(A, u, n + p, x)
  <2>1. \A r \in (n + 1) .. ((n + p) - 1) : r - n \in 1 .. (p - 1) /\ u[r] = t[r - n]
    <3> SUFFICES ASSUME NEW r \in (n + 1) .. ((n + p) - 1) PROVE r - n \in 1 .. (p - 1) /\ u[r] = t[r - n]
      OBVIOUS
    <3>1. r - n \in 1 .. (p - 1) /\ r - n \in 1 .. Len(t) /\ n + (r - n) = r
      BY <1>1
    <3>2. u[n + (r - n)] = t[r - n]
      BY <1>4, <3>1
    <3> QED
      BY <3>1, <3>2
  <2>2. CASE \E q \in 1 .. (p - 1) : x \in Makes(t[q]) /\ \A r \in (q + 1) .. (p - 1) : Survives(t[r], x)
    <3>1. PICK q \in 1 .. (p - 1) : x \in Makes(t[q]) /\ \A r \in (q + 1) .. (p - 1) : Survives(t[r], x)
      BY <2>2
    <3>2. n + q \in 1 .. ((n + p) - 1) /\ n + q \in (n + 1) .. ((n + p) - 1) /\ (n + q) - n = q
      BY <1>1
    <3>3. x \in Makes(u[n + q])
      BY <2>1, <3>1, <3>2
    <3>4. ASSUME NEW r \in ((n + q) + 1) .. ((n + p) - 1) PROVE Survives(u[r], x)
      <4>1. r \in (n + 1) .. ((n + p) - 1) /\ r - n \in (q + 1) .. (p - 1)
        BY <1>1
      <4> QED
        BY <2>1, <3>1, <4>1
    <3> QED
      BY <3>2, <3>3, <3>4 DEF Holds
  <2>3. CASE x \in B /\ \A r \in 1 .. (p - 1) : Survives(t[r], x)
    <3>1. Holds(A, s, n + 1, x)
      BY <1>n, <2>3 DEF Leads
    <3>2. \A r \in (n + 1) .. ((n + p) - 1) : Survives(u[r], x)
      BY <2>1, <2>3
    <3>3. Holds(A, u, n + 1, x)
      <4>1. n + 1 \in 1 .. (n + 1)
        BY <1>1
      <4> QED
        BY <1>5, <3>1, <4>1
    <3>4. (n + 1) - 1 = n /\ n <= (n + p) - 1 /\ (n + p) - 1 \in Nat
      BY <1>1
    <3>5. CASE x \in A /\ \A r \in 1 .. n : Survives(u[r], x)
      <4>1. \A r \in 1 .. ((n + p) - 1) : r \in 1 .. n \/ r \in (n + 1) .. ((n + p) - 1)
        BY <1>1
      <4>2. \A r \in 1 .. ((n + p) - 1) : Survives(u[r], x)
        BY <3>2, <3>5, <4>1
      <4> QED
        BY <3>5, <4>2 DEF Holds
    <3>6. CASE \E q \in 1 .. n : x \in Makes(u[q]) /\ \A r \in (q + 1) .. n : Survives(u[r], x)
      <4>1. PICK q \in 1 .. n : x \in Makes(u[q]) /\ \A r \in (q + 1) .. n : Survives(u[r], x)
        BY <3>6
      <4>2. q \in 1 .. ((n + p) - 1) /\
            \A r \in (q + 1) .. ((n + p) - 1) : r \in (q + 1) .. n \/ r \in (n + 1) .. ((n + p) - 1)
        BY <1>1
      <4>3. \A r \in (q + 1) .. ((n + p) - 1) : Survives(u[r], x)
        BY <3>2, <4>1, <4>2
      <4> QED
        BY <4>1, <4>2, <4>3 DEF Holds
    <3> QED
      BY <3>3, <3>4, <3>5, <3>6 DEF Holds
  <2> QED
    BY <1>6, <2>2, <2>3 DEF Holds
<1>7. ASSUME NEW p \in 1 .. Len(u), NEW x \in Needs(o, u[p]) PROVE Holds(A, u, p, x)
  <2>1. CASE p \in 1 .. n
    <3>1. u[p] = s[p] /\ p \in 1 .. (n + 1)
      BY <1>1, <1>3, <2>1
    <3>2. Holds(A, s, p, x)
      BY <1>n, <2>1, <3>1 DEF Leads
    <3> QED
      BY <1>5, <3>1, <3>2
  <2>2. CASE p \notin 1 .. n
    <3>1. p - n \in 1 .. Len(t) /\ p - n \in 1 .. (Len(t) + 1) /\ n + (p - n) = p
      BY <1>1, <1>2, <2>2
    <3>2. u[n + (p - n)] = t[p - n]
      BY <1>4, <3>1
    <3>3. Holds(B, t, p - n, x)
      BY <3>1, <3>2 DEF Leads
    <3>4. Holds(A, u, n + (p - n), x)
      BY <1>6, <3>1, <3>3
    <3> QED
      BY <3>1, <3>4
  <2> QED
    BY <2>1, <2>2
<1>8. ASSUME NEW x \in C PROVE Holds(A, u, Len(u) + 1, x)
  <2>1. Holds(B, t, Len(t) + 1, x)
    BY DEF Leads
  <2>2. Len(t) + 1 \in 1 .. (Len(t) + 1) /\ n + (Len(t) + 1) = Len(u) + 1
    BY <1>1, <1>2
  <2>3. Holds(A, u, n + (Len(t) + 1), x)
    BY <1>6, <2>1, <2>2
  <2> QED
    BY <2>2, <2>3
<1>9. Leads(o, A, u, C)
  BY <1>2, <1>7, <1>8 DEF Leads
<1> QED
  BY <1>9 DEF u

(* More to begin with, less in the end; and what passes through untouched. *)
LEMMA LeadsMore ==
  ASSUME NEW o, NEW A, NEW B, NEW C, NEW D, NEW s, Leads(o, A, s, B), A \subseteq C,
         \A x \in D : x \in B \/ (x \in C /\ \A p \in 1 .. Len(s) : Survives(s[p], x))
  PROVE  Leads(o, C, s, D)
<1>1. ASSUME NEW p, NEW x, Holds(A, s, p, x) PROVE Holds(C, s, p, x)
  BY <1>1 DEF Holds
<1>2. ASSUME NEW x \in D PROVE Holds(C, s, Len(s) + 1, x)
  <2>1. CASE x \in B
    BY <1>1, <2>1 DEF Leads
  <2>2. CASE x \in C /\ \A p \in 1 .. Len(s) : Survives(s[p], x)
    <3>1. \A r \in 1 .. ((Len(s) + 1) - 1) : r \in 1 .. Len(s)
      BY DEF Leads
    <3> QED
      BY <2>2, <3>1 DEF Holds
  <2> QED
    BY <2>1, <2>2
<1> QED
  BY <1>1, <1>2 DEF Leads
-----------------------------------------------------------------------------
(* A substep. A frame finds an open interval, the rates of the exchange and, *)
(* but for the first substep, the register of its level, and leaves them.  *)
Base(o) == {Fact("open")} \cup IF o.coupled THEN {Fact("rate")} ELSE {}
Entry(o, x) == Base(o) \cup IF x.i = 0 THEN {} ELSE {<<"register", x.level>>}
Exit(o, x) == Base(o) \cup {<<"register", x.level>>}
Deeper(l) == {st \in StageType : st.op # "Normalize" /\ (st.level >= l \/ st.op = "PredictRadiationStep")}
Midway(o, l) ==
  Base(o) \cup {<<"register", l>>, <<"ahead", l>>, <<"flux", l>>} \cup IF o.coupled THEN {<<"step", l>>} ELSE {}

(* Finer levels leave a level alone. *)
LEMMA PassesDeeper ==
  ASSUME NEW o, NEW l \in Nat, NEW m \in Nat, m > l, NEW st \in Deeper(m), NEW x \in Midway(o, l)
  PROVE  Survives(st, x)
<1>1. st.op # "Normalize" /\ st.op \in Ops /\ st.level \in Int /\ (st.level >= m \/ st.op = "PredictRadiationStep")
  BY DEF Deeper, StageType
<1>2. \/ x = <<"open", -1>> \/ x = <<"rate", -1>>
      \/ x = <<"register", l>> \/ x = <<"ahead", l>> \/ x = <<"flux", l>> \/ x = <<"step", l>>
  BY DEF Midway, Base, Fact
<1>3. CASE x[1] \in {"open", "rate"}
  BY <1>1, <1>3 DEF Survives
<1>4. CASE x[1] = "register" /\ x[2] = l
  BY <1>1, <1>4 DEF Survives
<1>5. CASE x[1] \in {"ahead", "flux", "step"} /\ x[2] = l
  <2>1. st.op = "PredictRadiationStep" \/ ~Meets(st.level, x[2])
    BY <1>1, <1>5 DEF Meets
  <2> QED
    BY <1>1, <1>5, <2>1 DEF Survives, Flips
<1> QED
  BY <1>2, <1>3, <1>4, <1>5

LEMMA StagesAre ==
  ASSUME NEW l \in Int, NEW at \in Nat
  PROVE  \A op \in Ops : /\ At(op, l, at) \in StageType
                         /\ At(op, l, at).op = op /\ At(op, l, at).level = l /\ At(op, l, at).at = at
BY DEF At, StageType

(* Stages one by one. *)
LEMMA JoinOne ==
  ASSUME NEW S, NEW s \in Seq(S), NEW e \in S, NEW u \in Seq(S), Len(u) = Len(s) + 1,
         \A k \in 1 .. Len(s) : u[k] = s[k], u[Len(s) + 1] = e
  PROVE  s \o <<e>> = u
<1> DEFINE v == s \o <<e>>
<1>1. v \in Seq(S) /\ Len(v) = Len(s) + 1 /\ \A k \in 1 .. Len(s) : v[k] = s[k]
  OBVIOUS
<1>2. v[Len(s) + 1] = e
  OBVIOUS
<1> HIDE DEF v
<1>3. \A k \in 1 .. Len(u) : u[k] = v[k]
  BY <1>1, <1>2
<1>4. u = [k \in 1 .. Len(u) |-> u[k]] /\ v = [k \in 1 .. Len(v) |-> v[k]]
  BY <1>1
<1> QED
  BY <1>1, <1>3, <1>4 DEF v

LEMMA Spelled ==
  ASSUME NEW t \in Seq(StageType)
  PROVE  /\ Len(t) = 2 => t = <<t[1]>> \o <<t[2]>>
         /\ Len(t) = 3 => t = <<t[1]>> \o <<t[2]>> \o <<t[3]>>
         /\ Len(t) = 6 => t = <<t[1]>> \o <<t[2]>> \o <<t[3]>> \o <<t[4]>> \o <<t[5]>> \o <<t[6]>>
<1> DEFINE u(n) == [k \in 1 .. n |-> t[k]]
<1>1. ASSUME NEW n \in 1 .. Len(t) PROVE u(n) \in Seq(StageType) /\ Len(u(n)) = n /\ \A k \in 1 .. n : u(n)[k] = t[k]
  OBVIOUS
<1>2. ASSUME NEW n \in Nat, n > 0, n < Len(t) PROVE u(n + 1) = u(n) \o <<t[n + 1]>>
  <2>1. n \in 1 .. Len(t) /\ n + 1 \in 1 .. Len(t) /\ t[n + 1] \in StageType
    BY <1>2
  <2>2. u(n) \in Seq(StageType) /\ Len(u(n)) = n /\ \A k \in 1 .. n : u(n)[k] = t[k]
    BY <1>1, <2>1
  <2>3. u(n + 1) \in Seq(StageType) /\ Len(u(n + 1)) = n + 1 /\ \A k \in 1 .. (n + 1) : u(n + 1)[k] = t[k]
    BY <1>1, <2>1
  <2> HIDE DEF u
  <2>4. Len(u(n + 1)) = Len(u(n)) + 1 /\ (\A k \in 1 .. Len(u(n)) : u(n + 1)[k] = u(n)[k]) /\ u(n + 1)[Len(u(n)) + 1] = t[n + 1]
    BY <2>1, <2>2, <2>3
  <2> QED
    <3> DEFINE v == u(n)
               w == u(n + 1)
    <3>1. /\ v \in Seq(StageType) /\ w \in Seq(StageType) /\ t[n + 1] \in StageType
          /\ Len(w) = Len(v) + 1 /\ (\A k \in 1 .. Len(v) : w[k] = v[k]) /\ w[Len(v) + 1] = t[n + 1]
      BY <2>1, <2>2, <2>3, <2>4
    <3> HIDE DEF v, w
    <3>2. v \o <<t[n + 1]>> = w
      BY <3>1, JoinOne
    <3> QED
      BY <3>2 DEF v, w
<1>3. Len(t) > 0 => u(1) = <<t[1]>>
  OBVIOUS
<1>4. u(Len(t)) = t
  OBVIOUS
<1> HIDE DEF u
<1>5. \A n \in Nat : \A m : n > 0 /\ n < Len(t) /\ m = n + 1 => u(m) = u(n) \o <<t[m]>>
  BY <1>2, Zenon
<1>6. CASE Len(t) = 2
  <2>1. u(2) = u(1) \o <<t[2]>>
    BY <1>5, <1>6
  <2> QED
    BY <1>3, <1>4, <1>6, <2>1
<1>7. CASE Len(t) = 6
  <2>1. u(2) = u(1) \o <<t[2]>>
    BY <1>5, <1>7
  <2>2. u(3) = u(2) \o <<t[3]>>
    BY <1>5, <1>7
  <2>3. u(4) = u(3) \o <<t[4]>>
    BY <1>5, <1>7
  <2>4. u(5) = u(4) \o <<t[5]>>
    BY <1>5, <1>7
  <2>5. u(6) = u(5) \o <<t[6]>>
    BY <1>5, <1>7
  <2>6. u(1) = <<t[1]>> /\ u(6) = t
    BY <1>3, <1>4, <1>7
  <2>7. Len(t) # 2 /\ Len(t) # 3
    BY <1>7
  <2> QED
    BY <2>1, <2>2, <2>3, <2>4, <2>5, <2>6, <2>7, Zenon
<1>8. CASE Len(t) = 3
  <2>1. u(2) = u(1) \o <<t[2]>>
    BY <1>5, <1>8
  <2>2. u(3) = u(2) \o <<t[3]>>
    BY <1>5, <1>8
  <2>3. u(1) = <<t[1]>> /\ u(3) = t
    BY <1>3, <1>4, <1>8
  <2>4. Len(t) # 2 /\ Len(t) # 6
    BY <1>8
  <2> QED
    BY <2>1, <2>2, <2>3, <2>4, Zenon
<1> QED
  BY <1>6, <1>7, <1>8

(* The pieces of a substep. *)
LEMMA SubstepPieces ==
  ASSUME NEW o \in Options, o.coupled \in BOOLEAN, NEW l \in Nat, NEW at \in Nat, NEW x, x.level = l, x.i \in Nat,
         NEW n \in Nat
  PROVE  /\ Leads(o, Entry(o, x), Only(x.i = 0, "ResetFlux", l, at), Exit(o, x))
         /\ Leads(o, Exit(o, x),
                  IF o.coupled
                    THEN <<At("Timestep", l, at), At("SaveRadiationStep", l, at), At("Probe", l, at),
                           At("PredictRadiationStep", -1, at), At("Advance", l, at), At("ForecastRadiationStep", l, at)>>
                    ELSE <<At("Timestep", l, at), At("Advance", l, at)>>,
                  Midway(o, l))
         /\ Leads(o, Midway(o, l) \cup (IF Finer(o, l) = {} THEN {} ELSE {<<"register", NextFiner(o, l)>>}),
                  <<At("Reflux", l, n)>>, Exit(o, x) \cup IF o.coupled THEN {<<"step", l>>} ELSE {})
         /\ Leads(o, Exit(o, x) \cup IF o.coupled THEN {<<"step", l>>} ELSE {},
                  Only(o.coupled, "FinishRadiationStep", l, n), Exit(o, x))
<1> USE DEF Fact
<1>1. \A op \in Ops : \A t \in {at, n} :
        /\ At(op, l, t) \in StageType /\ At(op, -1, t) \in StageType
        /\ At(op, l, t).op = op /\ At(op, l, t).level = l /\ At(op, -1, t).op = op /\ At(op, -1, t).level = -1
  BY StagesAre
<1>2. ASSUME NEW op, op \in Ops, NEW level \in {l, -1}, NEW t \in {at, n}, NEW A, NEW B,
             NEW st, st = At(op, level, t), Needs(o, st) \subseteq A,
             \A y \in B : (y \in A /\ Survives(st, y)) \/ y \in Makes(st)
      PROVE  Leads(o, A, <<st>>, B)
  BY <1>1, <1>2, LeadsOne
<1>3. Leads(o, Entry(o, x), Only(x.i = 0, "ResetFlux", l, at), Exit(o, x))
  <2>1. CASE x.i = 0
    <3> DEFINE st == At("ResetFlux", l, at)
    <3>1. st.op = "ResetFlux" /\ st.level = l /\ "ResetFlux" \in Ops
      BY <1>1 DEF Ops
    <3> HIDE DEF st
    <3>2. Needs(o, st) \subseteq Entry(o, x)
      BY <3>1 DEF Needs, Global, Entry, Base
    <3>3. <<"register", l>> \in Makes(st)
      BY <3>1 DEF Makes, MadeBy
    <3>4. \A y \in Base(o) : y \in Entry(o, x) /\ Survives(st, y)
      BY <3>1 DEF Survives, Entry, Base, Flips
    <3>5. \A y \in Exit(o, x) : (y \in Entry(o, x) /\ Survives(st, y)) \/ y \in Makes(st)
      BY <3>3, <3>4 DEF Exit
    <3>6. Leads(o, Entry(o, x), <<st>>, Exit(o, x))
      BY <1>2, <3>1, <3>2, <3>5 DEF st
    <3> QED
      BY <2>1, <3>6 DEF Only, st
  <2>2. CASE x.i # 0
    <3>1. Exit(o, x) \subseteq Entry(o, x)
      BY <2>2 DEF Exit, Entry
    <3> QED
      BY <2>2, <3>1, LeadsNone DEF Only
  <2> QED
    BY <2>1, <2>2
<1>4. Leads(o, Midway(o, l) \cup (IF Finer(o, l) = {} THEN {} ELSE {<<"register", NextFiner(o, l)>>}),
            <<At("Reflux", l, n)>>, Exit(o, x) \cup IF o.coupled THEN {<<"step", l>>} ELSE {})
  <2> DEFINE st == At("Reflux", l, n)
             A == Midway(o, l) \cup (IF Finer(o, l) = {} THEN {} ELSE {<<"register", NextFiner(o, l)>>})
             B == Exit(o, x) \cup IF o.coupled THEN {<<"step", l>>} ELSE {}
  <2>1. st.op = "Reflux" /\ st.level = l /\ "Reflux" \in Ops
    BY <1>1 DEF Ops
  <2> HIDE DEF st
  <2>2. Needs(o, st) \subseteq A
    BY <2>1 DEF Needs, Global, Midway, Base
  <2>3. \A y \in B : y \in A /\ Survives(st, y)
    <3>1. \A y \in B : y \in A /\ (y[1] \in {"open", "rate", "step"} \/ (y[1] = "register" /\ y[2] = l))
      BY DEF Exit, Midway, Base
    <3> QED
      BY <2>1, <3>1 DEF Survives
  <2> HIDE DEF A, B
  <2>4. Leads(o, A, <<st>>, B)
    BY <1>2, <2>1, <2>2, <2>3 DEF st
  <2> QED
    BY <2>4 DEF st, A, B
<1>5. Leads(o, Exit(o, x) \cup IF o.coupled THEN {<<"step", l>>} ELSE {},
            Only(o.coupled, "FinishRadiationStep", l, n), Exit(o, x))
  <2>1. CASE o.coupled
    <3> DEFINE st == At("FinishRadiationStep", l, n)
               A == Exit(o, x) \cup {<<"step", l>>}
    <3>1. st.op = "FinishRadiationStep" /\ st.level = l /\ "FinishRadiationStep" \in Ops
      BY <1>1 DEF Ops
    <3> HIDE DEF st
    <3>2. Needs(o, st) \subseteq A
      BY <3>1 DEF Needs, Global, Exit, Base
    <3>3. \A y \in Exit(o, x) : y \in A /\ y[1] \in {"open", "rate", "register"}
      BY DEF Exit, Base
    <3>4. \A y \in Exit(o, x) : y \in A /\ Survives(st, y)
      BY <3>1, <3>3 DEF Survives
    <3> HIDE DEF A
    <3>5. Leads(o, A, <<st>>, Exit(o, x))
      BY <1>2, <3>1, <3>2, <3>4 DEF st
    <3> QED
      BY <2>1, <3>5 DEF Only, st, A
  <2>2. CASE ~o.coupled
    <3>1. Exit(o, x) \subseteq Exit(o, x) \cup IF o.coupled THEN {<<"step", l>>} ELSE {}
      OBVIOUS
    <3> QED
      BY <2>2, <3>1, LeadsNone DEF Only
  <2> QED
    BY <2>1, <2>2
<1>6. CASE ~o.coupled
  <2> DEFINE s1 == At("Timestep", l, at)
             s2 == At("Advance", l, at)
  <2>1. /\ s1.op = "Timestep" /\ s1.level = l /\ "Timestep" \in Ops
        /\ s2.op = "Advance" /\ s2.level = l /\ "Advance" \in Ops
    BY <1>1 DEF Ops
  <2> HIDE DEF s1, s2
  <2>2. Leads(o, Exit(o, x), <<s1>>, Exit(o, x))
    <3>1. Needs(o, s1) \subseteq Exit(o, x)
      BY <2>1 DEF Needs, Global, Exit, Base
    <3>2. \A y \in Exit(o, x) : y[1] \in {"open", "rate", "register"}
      BY DEF Exit, Base
    <3>3. \A y \in Exit(o, x) : Survives(s1, y)
      BY <2>1, <3>2 DEF Survives
    <3> QED
      BY <1>2, <2>1, <3>1, <3>3 DEF s1
  <2>3. Leads(o, Exit(o, x), <<s2>>, Midway(o, l))
    <3>1. Needs(o, s2) \subseteq Exit(o, x)
      BY <1>6, <2>1 DEF Needs, Global, Exit, Base
    <3>2. \A y \in Exit(o, x) : y[1] \in {"open", "rate", "register"}
      BY DEF Exit, Base
    <3>3. \A y \in Exit(o, x) : Survives(s2, y)
      BY <2>1, <3>2 DEF Survives, Flips
    <3>4. <<"ahead", l>> \in Makes(s2) /\ <<"flux", l>> \in Makes(s2)
      BY <2>1 DEF Makes, MadeBy
    <3>5. \A y \in Midway(o, l) : y \in Exit(o, x) \/ y \in Makes(s2)
      BY <1>6, <3>4 DEF Midway, Exit
    <3> QED
      BY <1>2, <2>1, <3>1, <3>3, <3>5 DEF s2
  <2>4. Leads(o, Exit(o, x), <<s1>> \o <<s2>>, Midway(o, l))
    BY <2>2, <2>3, LeadsConcat
  <2>5. <<s1>> \o <<s2>> = <<s1, s2>>
    <3>1. s1 \in StageType /\ s2 \in StageType
      BY <1>1, <2>1 DEF s1, s2
    <3> DEFINE t == <<s1, s2>>
    <3>2. t \in Seq(StageType) /\ Len(t) = 2 /\ t[1] = s1 /\ t[2] = s2
      BY <3>1
    <3> HIDE DEF t
    <3>3. t = <<t[1]>> \o <<t[2]>>
      BY <3>2, Spelled
    <3> QED
      BY <3>2, <3>3 DEF t
  <2> QED
    BY <1>3, <1>4, <1>5, <1>6, <2>4, <2>5 DEF s1, s2
<1>7. CASE o.coupled
  <2> DEFINE s1 == At("Timestep", l, at)
             s2 == At("SaveRadiationStep", l, at)
             s3 == At("Probe", l, at)
             s4 == At("PredictRadiationStep", -1, at)
             s5 == At("Advance", l, at)
             s6 == At("ForecastRadiationStep", l, at)
             B2 == Exit(o, x) \cup {<<"step", l>>}
             B3 == B2 \cup {<<"probed", l>>}
             B4 == B3 \cup {<<"midpoint", -1>>}
  <2>1. /\ s1.op = "Timestep" /\ s1.level = l /\ "Timestep" \in Ops
        /\ s2.op = "SaveRadiationStep" /\ s2.level = l /\ "SaveRadiationStep" \in Ops
        /\ s3.op = "Probe" /\ s3.level = l /\ "Probe" \in Ops
        /\ s4.op = "PredictRadiationStep" /\ s4.level = -1 /\ "PredictRadiationStep" \in Ops
        /\ s5.op = "Advance" /\ s5.level = l /\ "Advance" \in Ops
        /\ s6.op = "ForecastRadiationStep" /\ s6.level = l /\ "ForecastRadiationStep" \in Ops
    BY <1>1 DEF Ops
  <2> HIDE DEF s1, s2, s3, s4, s5, s6
  <2>2. Leads(o, Exit(o, x), <<s1>>, Exit(o, x))
    <3>1. Needs(o, s1) \subseteq Exit(o, x)
      BY <2>1 DEF Needs, Global, Exit, Base
    <3>2. \A y \in Exit(o, x) : y[1] \in {"open", "rate", "register"}
      BY DEF Exit, Base
    <3>3. \A y \in Exit(o, x) : Survives(s1, y)
      BY <2>1, <3>2 DEF Survives
    <3> QED
      BY <1>2, <2>1, <3>1, <3>3 DEF s1
  <2>3. Leads(o, Exit(o, x), <<s2>>, B2)
    <3>1. Needs(o, s2) \subseteq Exit(o, x)
      BY <2>1 DEF Needs, Global, Exit, Base
    <3>2. \A y \in Exit(o, x) : y[1] \in {"open", "rate", "register"}
      BY DEF Exit, Base
    <3>3. \A y \in Exit(o, x) : Survives(s2, y)
      BY <2>1, <3>2 DEF Survives
    <3>4. <<"step", l>> \in Makes(s2)
      BY <2>1 DEF Makes, MadeBy
    <3>5. \A y \in B2 : y \in Exit(o, x) \/ y \in Makes(s2)
      BY <3>4
    <3> QED
      BY <1>2, <2>1, <3>1, <3>3, <3>5 DEF s2
  <2>4. Leads(o, B2, <<s3>>, B3)
    <3>1. Needs(o, s3) \subseteq B2
      BY <2>1 DEF Needs, Global, Exit, Base
    <3>2. \A y \in B2 : y[1] \in {"open", "rate", "register", "step"}
      BY DEF Exit, Base
    <3>3. \A y \in B2 : Survives(s3, y)
      BY <2>1, <3>2 DEF Survives
    <3>4. <<"probed", l>> \in Makes(s3)
      BY <2>1 DEF Makes, MadeBy
    <3>5. \A y \in B3 : y \in B2 \/ y \in Makes(s3)
      BY <3>4
    <3> HIDE DEF B2, B3
    <3> QED
      BY <1>2, <2>1, <3>1, <3>3, <3>5 DEF s3
  <2>5. Leads(o, B3, <<s4>>, B4)
    <3>1. Needs(o, s4) \subseteq B3
      BY <1>7, <2>1 DEF Needs, Global, Exit, Base
    <3>2. \A y \in B3 : y[1] \in {"open", "rate", "register", "step", "probed"}
      BY DEF Exit, Base
    <3>3. \A y \in B3 : Survives(s4, y)
      BY <2>1, <3>2 DEF Survives
    <3>4. <<"midpoint", -1>> \in Makes(s4)
      BY <2>1 DEF Makes, MadeBy
    <3>5. \A y \in B4 : y \in B3 \/ y \in Makes(s4)
      BY <3>4
    <3> HIDE DEF B3, B4
    <3> QED
      BY <1>2, <2>1, <3>1, <3>3, <3>5 DEF s4
  <2>6. Leads(o, B4, <<s5>>, Midway(o, l))
    <3>1. Needs(o, s5) \subseteq B4
      BY <2>1 DEF Needs, Global, Exit, Base
    <3>2. \A y \in B2 : y \in B4 /\ y[1] \in {"open", "rate", "register", "step"}
      BY DEF Exit, Base
    <3>3. \A y \in B2 : y \in B4 /\ Survives(s5, y)
      BY <2>1, <3>2 DEF Survives, Flips
    <3>4. <<"ahead", l>> \in Makes(s5) /\ <<"flux", l>> \in Makes(s5)
      BY <2>1 DEF Makes, MadeBy
    <3>5. \A y \in Midway(o, l) : y \in B2 \/ y \in Makes(s5)
      BY <3>4 DEF Midway, Exit
    <3> HIDE DEF B2, B4
    <3> QED
      BY <1>2, <2>1, <3>1, <3>3, <3>5 DEF s5
  <2>7. Leads(o, Midway(o, l), <<s6>>, Midway(o, l))
    <3>1. Needs(o, s6) \subseteq Midway(o, l)
      BY <1>7, <2>1 DEF Needs, Global, Midway, Base
    <3>2. \A y \in Midway(o, l) : y[1] \in {"open", "rate", "register", "step", "ahead", "flux"}
      BY DEF Midway, Base
    <3>3. \A y \in Midway(o, l) : Survives(s6, y)
      BY <2>1, <3>2 DEF Survives, Flips
    <3> QED
      BY <1>2, <2>1, <3>1, <3>3 DEF s6
  <2> HIDE DEF B2, B3, B4
  <2>8. Leads(o, Exit(o, x), <<s1>> \o <<s2>> \o <<s3>> \o <<s4>> \o <<s5>> \o <<s6>>, Midway(o, l))
    <3>1. Leads(o, Exit(o, x), <<s1>> \o <<s2>>, B2)
      BY <2>2, <2>3, LeadsConcat
    <3>2. Leads(o, Exit(o, x), <<s1>> \o <<s2>> \o <<s3>>, B3)
      BY <2>4, <3>1, LeadsConcat
    <3>3. Leads(o, Exit(o, x), <<s1>> \o <<s2>> \o <<s3>> \o <<s4>>, B4)
      BY <2>5, <3>2, LeadsConcat
    <3>4. Leads(o, Exit(o, x), <<s1>> \o <<s2>> \o <<s3>> \o <<s4>> \o <<s5>>, Midway(o, l))
      BY <2>6, <3>3, LeadsConcat
    <3> QED
      BY <2>7, <3>4, LeadsConcat
  <2>9. <<s1>> \o <<s2>> \o <<s3>> \o <<s4>> \o <<s5>> \o <<s6>> = <<s1, s2, s3, s4, s5, s6>>
    <3>1. s1 \in StageType /\ s2 \in StageType /\ s3 \in StageType
      BY <1>1, <2>1 DEF s1, s2, s3
    <3>2. s4 \in StageType /\ s5 \in StageType /\ s6 \in StageType
      BY <1>1, <2>1 DEF s4, s5, s6
    <3> DEFINE t == <<s1, s2, s3, s4, s5, s6>>
    <3>3. /\ t \in Seq(StageType) /\ Len(t) = 6
          /\ t[1] = s1 /\ t[2] = s2 /\ t[3] = s3 /\ t[4] = s4 /\ t[5] = s5 /\ t[6] = s6
      BY <3>1, <3>2
    <3> HIDE DEF t
    <3>4. t = <<t[1]>> \o <<t[2]>> \o <<t[3]>> \o <<t[4]>> \o <<t[5]>> \o <<t[6]>>
      BY <3>3, Spelled
    <3> QED
      BY <3>3, <3>4 DEF t
  <2> QED
    BY <1>3, <1>4, <1>5, <1>7, <2>8, <2>9 DEF s1, s2, s3, s4, s5, s6
<1> QED
  BY <1>6, <1>7

(* The stages of the substeps: all at the level of the frame or finer.     *)
LEMMA DeeperPieces ==
  ASSUME NEW l \in Nat, NEW at \in Nat, NEW n \in Nat
  PROVE  /\ \A use \in BOOLEAN : Only(use, "ResetFlux", l, at) \in Seq(Deeper(l))
         /\ <<At("Timestep", l, at), At("SaveRadiationStep", l, at), At("Probe", l, at),
              At("PredictRadiationStep", -1, at), At("Advance", l, at), At("ForecastRadiationStep", l, at)>>
              \in Seq(Deeper(l))
         /\ <<At("Timestep", l, at), At("Advance", l, at)>> \in Seq(Deeper(l))
         /\ <<At("Reflux", l, n)>> \in Seq(Deeper(l))
         /\ \A use \in BOOLEAN : Only(use, "FinishRadiationStep", l, n) \in Seq(Deeper(l))
<1>1. \A op \in Ops : op # "Normalize" => At(op, l, at) \in Deeper(l) /\ At(op, l, n) \in Deeper(l)
  BY StagesAre DEF Deeper
<1>2. At("PredictRadiationStep", -1, at) \in Deeper(l)
  BY StagesAre DEF Deeper, Ops
<1>3. /\ At("ResetFlux", l, at) \in Deeper(l) /\ At("Timestep", l, at) \in Deeper(l)
      /\ At("SaveRadiationStep", l, at) \in Deeper(l) /\ At("Probe", l, at) \in Deeper(l)
      /\ At("Advance", l, at) \in Deeper(l) /\ At("ForecastRadiationStep", l, at) \in Deeper(l)
      /\ At("Reflux", l, n) \in Deeper(l) /\ At("FinishRadiationStep", l, n) \in Deeper(l)
  BY <1>1 DEF Ops
<1> HIDE DEF Deeper, At
<1> QED
  BY <1>2, <1>3 DEF Only

(* Whatever solves the recursion finds what it needs.                      *)
LEMMA LayersLead ==
  ASSUME NEW o \in Options, o.coupled \in BOOLEAN, NEW f, f = Layers(o, f)
  PROVE  \A x \in Frames(o) : Leads(o, Entry(o, x), f[x], Exit(o, x))
<1> DEFINE Fits(x) == f[x] \in Seq(Deeper(x.level)) /\ Leads(o, Entry(o, x), f[x], Exit(o, x))
           G == {x \in Frames(o) : Fits(x)}
<1>1. ASSUME NEW x \in Frames(o),
             x.i < o.steps[x.level] => After(x) \in G /\ (Finer(o, x.level) # {} => Into(o, x) \in G)
      PROVE  Fits(x)
  <2> DEFINE l == x.level
             now == Now(o, x)
             end == Now(o, x) + StepOf(o, x)
             i == x.i
  <2>1. f[x] = Layer(o, x, f[Into(o, x)], f[After(x)])
    BY Zenon DEF Layers
  <2>2. /\ l \in Nat /\ i \in Nat /\ now \in Nat /\ end \in Nat
        /\ o.steps[l] \in Nat /\ o.steps[l] > 0 /\ TimeLevels(o) \subseteq Nat
    BY FramesLead, LevelsOf
  <2>3. CASE x.i >= o.steps[x.level]
    <3>1. f[x] = <<>>
      BY <2>1, <2>3, Zenon DEF Layer
    <3>2. Exit(o, x) \subseteq Entry(o, x)
      BY <2>2, <2>3 DEF Exit, Entry
    <3>3. Leads(o, Entry(o, x), <<>>, Exit(o, x))
      BY <3>2, LeadsNone
    <3> QED
      BY <3>1, <3>3
  <2>4. CASE ~(x.i >= o.steps[x.level])
    <3> DEFINE p1 == Only(x.i = 0, "ResetFlux", x.level, Now(o, x))
               p2 == IF o.coupled
                       THEN <<At("Timestep", x.level, Now(o, x)), At("SaveRadiationStep", x.level, Now(o, x)),
                              At("Probe", x.level, Now(o, x)), At("PredictRadiationStep", -1, Now(o, x)),
                              At("Advance", x.level, Now(o, x)), At("ForecastRadiationStep", x.level, Now(o, x))>>
                       ELSE <<At("Timestep", x.level, Now(o, x)), At("Advance", x.level, Now(o, x))>>
               p3 == IF Finer(o, x.level) = {} THEN <<>> ELSE f[Into(o, x)]
               p4 == <<At("Reflux", x.level, Now(o, x) + StepOf(o, x))>>
               p5 == Only(o.coupled, "FinishRadiationStep", x.level, Now(o, x) + StepOf(o, x))
               p6 == f[After(x)]
               S == Seq(Deeper(l))
               M == Midway(o, l)
               M3 == M \cup (IF Finer(o, l) = {} THEN {} ELSE {<<"register", NextFiner(o, l)>>})
               M4 == Exit(o, x) \cup IF o.coupled THEN {<<"step", l>>} ELSE {}
    <3>1. f[x] = p1 \o p2 \o p3 \o p4 \o p5 \o p6
      BY <2>1, <2>4, Zenon DEF Layer
    <3>2. After(x) \in G /\ (Finer(o, x.level) # {} => Into(o, x) \in G)
      <4>1. x.i < o.steps[x.level]
        BY <2>2, <2>4
      <4> HIDE DEF G
      <4> QED
        BY <1>1, <4>1, Zenon
    <3>3. p1 \in S /\ p2 \in S /\ p4 \in S /\ p5 \in S
      <4>1. (x.i = 0) \in BOOLEAN
        OBVIOUS
      <4> HIDE DEF Deeper, Only, At
      <4> QED
        BY <2>2, <4>1, DeeperPieces
    <3>4. /\ Leads(o, Entry(o, x), p1, Exit(o, x)) /\ Leads(o, Exit(o, x), p2, M)
          /\ Leads(o, M3, p4, M4) /\ Leads(o, M4, p5, Exit(o, x))
      <4> HIDE DEF Leads, Entry, Exit, Midway, Only, At
      <4> DEFINE at == Now(o, x)
                 n == Now(o, x) + StepOf(o, x)
      <4>1. at \in Nat /\ n \in Nat /\ l \in Nat /\ x.i \in Nat
        BY <2>2
      <4> HIDE DEF at, n
      <4>2. /\ Leads(o, Entry(o, x), Only(x.i = 0, "ResetFlux", l, at), Exit(o, x))
            /\ Leads(o, Exit(o, x),
                  IF o.coupled
                    THEN <<At("Timestep", l, at), At("SaveRadiationStep", l, at), At("Probe", l, at),
                           At("PredictRadiationStep", -1, at), At("Advance", l, at), At("ForecastRadiationStep", l, at)>>
                    ELSE <<At("Timestep", l, at), At("Advance", l, at)>>,
                  Midway(o, l))
            /\ Leads(o, Midway(o, l) \cup (IF Finer(o, l) = {} THEN {} ELSE {<<"register", NextFiner(o, l)>>}),
                  <<At("Reflux", l, n)>>, Exit(o, x) \cup IF o.coupled THEN {<<"step", l>>} ELSE {})
            /\ Leads(o, Exit(o, x) \cup IF o.coupled THEN {<<"step", l>>} ELSE {},
                  Only(o.coupled, "FinishRadiationStep", l, n), Exit(o, x))
        BY <4>1, SubstepPieces
      <4> QED
        BY <4>2 DEF at, n
    <3>5. p3 \in S /\ Leads(o, M, p3, M3)
      <4>1. CASE Finer(o, x.level) = {}
        <5>1. p3 = <<>> /\ M3 = M
          BY <4>1
        <5> HIDE DEF p3, M3
        <5>2. Leads(o, M, <<>>, M)
          BY LeadsNone
        <5> QED
          BY <5>1, <5>2
      <4>2. CASE Finer(o, x.level) # {}
        <5> DEFINE y == Into(o, x)
                   m == NextFiner(o, l)
        <5>1. y \in G /\ y \in Frames(o) /\ y.level > l /\ y.level \in Nat /\ y.level = m /\ y.i = 0
          BY <2>2, <3>2, <4>2, FramesLead DEF Into
        <5>2. p3 = f[y] /\ M3 = M \cup {<<"register", m>>}
          BY <4>2
        <5> HIDE DEF y, p3, M3, m
        <5>3. f[y] \in Seq(Deeper(m)) /\ Leads(o, Entry(o, y), f[y], Exit(o, y))
          BY <5>1
        <5>4. Entry(o, y) \subseteq M /\ <<"register", m>> \in Exit(o, y)
          BY <5>1 DEF Entry, Exit, Midway
        <5>5. ASSUME NEW c \in M, NEW p \in 1 .. Len(f[y]) PROVE Survives(f[y][p], c)
          <6>1. f[y][p] \in Deeper(m)
            BY <5>3
          <6> QED
            BY <2>2, <5>1, <6>1, PassesDeeper
        <5>6. Leads(o, M, f[y], M \cup {<<"register", m>>})
          <6> HIDE DEF M
          <6>1. \A c \in M \cup {<<"register", m>>} :
                  c \in Exit(o, y) \/ (c \in M /\ \A p \in 1 .. Len(f[y]) : Survives(f[y][p], c))
            BY <5>4, <5>5
          <6> QED
            BY <5>3, <5>4, <6>1, LeadsMore
        <5>7. Deeper(m) \subseteq Deeper(l)
          BY <2>2, <5>1 DEF Deeper, StageType
        <5>8. f[y] \in S
          <6> HIDE DEF Deeper
          <6> QED
            BY <5>3, <5>7
        <5> QED
          BY <5>2, <5>6, <5>8
      <4> QED
        BY <4>1, <4>2
    <3>6. p6 \in S /\ Leads(o, Exit(o, x), p6, Exit(o, x))
      <4> DEFINE y == After(x)
      <4>1. y \in G /\ y.level = x.level /\ y.i = x.i + 1
        BY <3>2, FramesLead
      <4> HIDE DEF y
      <4>2. Entry(o, y) = Exit(o, x) /\ Exit(o, y) = Exit(o, x)
        BY <2>2, <4>1 DEF Entry, Exit
      <4> QED
        BY <4>1, <4>2 DEF y
    <3> HIDE DEF p1, p2, p3, p4, p5, p6, M, M3, M4, Leads, Entry, Exit
    <3>7. Leads(o, Entry(o, x), p1 \o p2, M)
      BY <3>4, LeadsConcat
    <3>8. Leads(o, Entry(o, x), p1 \o p2 \o p3, M3)
      BY <3>5, <3>7, LeadsConcat
    <3>9. Leads(o, Entry(o, x), p1 \o p2 \o p3 \o p4, M4)
      BY <3>4, <3>8, LeadsConcat
    <3>10. Leads(o, Entry(o, x), p1 \o p2 \o p3 \o p4 \o p5, Exit(o, x))
      BY <3>4, <3>9, LeadsConcat
    <3>11. Leads(o, Entry(o, x), p1 \o p2 \o p3 \o p4 \o p5 \o p6, Exit(o, x))
      BY <3>6, <3>10, LeadsConcat
    <3>12. p1 \o p2 \o p3 \o p4 \o p5 \o p6 \in S
      <4> HIDE DEF Deeper
      <4>1. p1 \o p2 \in S
        BY <3>3
      <4>2. p1 \o p2 \o p3 \in S
        BY <3>5, <4>1
      <4>3. p1 \o p2 \o p3 \o p4 \in S
        BY <3>3, <4>2
      <4>4. p1 \o p2 \o p3 \o p4 \o p5 \in S
        BY <3>3, <4>3
      <4> QED
        BY <3>6, <4>4
    <3> QED
      BY <3>1, <3>11, <3>12
  <2> QED
    BY <2>3, <2>4
<1>2. G = Frames(o)
  <2>1. ASSUME NEW x \in Frames(o),
               x.i < o.steps[x.level] => After(x) \in G /\ (Finer(o, x.level) # {} => Into(o, x) \in G)
        PROVE x \in G
    <3> HIDE DEF Fits
    <3> QED
      BY <1>1, <2>1
  <2>2. G \in SUBSET Frames(o)
    OBVIOUS
  <2> HIDE DEF G
  <2> QED
    BY <2>1, <2>2, LayersSpread
<1> QED
  BY <1>2

(* The stages between the backup and the normalization.                    *)
LEMMA RecursionLeads ==
  ASSUME NEW o \in Options, TimeLevels(o) # {}
  PROVE  Leads(o, Base(o), Recursion(o), Base(o))
<1>1. PICK f : \E whole \in Frames(o) : f = Layers(o, f) /\ whole.i = 0 /\ Recursion(o) = f[whole]
  BY RecursionFrame
<1>2. PICK whole \in Frames(o) : f = Layers(o, f) /\ whole.i = 0 /\ Recursion(o) = f[whole]
  BY <1>1
<1>3. o.coupled \in BOOLEAN
  BY OptionAssumption
<1>4. Leads(o, Entry(o, whole), f[whole], Exit(o, whole))
  BY <1>2, <1>3, LayersLead
<1>5. Entry(o, whole) = Base(o) /\ Base(o) \subseteq Exit(o, whole)
  BY <1>2 DEF Entry, Exit
<1>6. Leads(o, Base(o), Recursion(o), Exit(o, whole))
  BY <1>2, <1>4, <1>5
<1> QED
  BY <1>5, <1>6, LeadsMore
-----------------------------------------------------------------------------
(***************************************************************************)
(* A whole call. Nothing is open, unfinished or under way in the beginning.  *)
(***************************************************************************)
Outset == {Fact("start"), Fact("closed"), Fact("unmoved"), Fact("settled"), Fact("unworked")}
Exchanged(o) == IF o.coupled THEN {Fact("step"), Fact("midpoint"), Fact("rate")} ELSE {}
Worked(o) == IF o.gravity THEN {Fact("work")} ELSE {}
Prepared(o) == {Fact("closed"), Fact("unmoved"), Fact("settled"), Fact("unworked")}
                 \cup Exchanged(o) \cup IF o.coupled THEN {Fact("probed")} ELSE {}
Poised(o) == {Fact("closed"), Fact("unmoved"), Fact("settled")}
               \cup Exchanged(o) \cup (IF o.coupled THEN {Fact("probed")} ELSE {}) \cup Worked(o)
Moved(o) == {Fact("closed"), Fact("advanced"), Fact("ahead"), Fact("flux"), Fact("mass")} \cup Exchanged(o) \cup Worked(o)
Corrected(o) == {Fact("closed"), Fact("settled"), Fact("mass")} \cup Exchanged(o) \cup Worked(o)
Finished(o) == {Fact("closed"), Fact("settled")} \cup Exchanged(o)

(* One stage for the whole mesh, taken or not. *)
LEMMA LeadsIf ==
  ASSUME NEW o, NEW A, NEW B, NEW use \in BOOLEAN, NEW op \in Ops, NEW st, st = All(op),
         use => Needs(o, st) \subseteq A /\ \A x \in B : (x \in A /\ Survives(st, x)) \/ x \in Makes(st),
         ~use => B \subseteq A
  PROVE  Leads(o, A, Only(use, op, -1, 0), B)
<1>1. st \in StageType /\ st = At(op, -1, 0)
  BY DEF All, At, StageType
<1>2. CASE use
  <2>1. Leads(o, A, <<st>>, B)
    BY <1>1, <1>2, LeadsOne
  <2> QED
    BY <1>1, <1>2, <2>1 DEF Only
<1>3. CASE ~use
  BY <1>3, LeadsNone DEF Only
<1> QED
  BY <1>2, <1>3

LEMMA StageOfAll ==
  \A op \in Ops : All(op).op = op /\ All(op).level = -1 /\ All(op) \in StageType /\ Only(TRUE, op, -1, 0) = <<All(op)>>
BY DEF All, At, StageType, Only

(* An interval. *)
LEMMA IntervalLeads ==
  ASSUME NEW o \in Options, TimeRefinement(o), NEW A, Fact("closed") \in A, o.coupled => Fact("rate") \in A
  PROVE  Leads(o, A, Transport(o), {})
<1>1. TimeLevels(o) # {}
  BY DEF TimeRefinement, TimeLevels
<1>2. Leads(o, A, <<All("Backup")>>, Base(o))
  <2> DEFINE st == All("Backup")
  <2>1. st.op = "Backup" /\ st.level = -1 /\ st \in StageType
    BY StageOfAll DEF Ops
  <2> HIDE DEF st
  <2>2. Needs(o, st) \subseteq A
    BY <2>1 DEF Needs
  <2>3. Fact("open") \in Makes(st)
    BY <2>1 DEF Makes, MadeBy, Fact
  <2>4. Survives(st, Fact("rate"))
    BY <2>1 DEF Survives, Fact
  <2>5. \A x \in Base(o) : (x \in A /\ Survives(st, x)) \/ x \in Makes(st)
    BY <2>3, <2>4 DEF Base
  <2> QED
    BY <2>1, <2>2, <2>5, LeadsOne DEF st
<1>3. Leads(o, Base(o), <<All("Normalize")>>, {})
  <2> DEFINE st == All("Normalize")
  <2>1. st.op = "Normalize" /\ st.level = -1 /\ st \in StageType
    BY StageOfAll DEF Ops
  <2> HIDE DEF st
  <2>2. Needs(o, st) \subseteq Base(o)
    BY <2>1 DEF Needs, Base
  <2> QED
    BY <2>1, <2>2, LeadsOne DEF st
<1>4. Leads(o, Base(o), Recursion(o), Base(o))
  BY <1>1, RecursionLeads
<1>5. Transport(o) = <<All("Backup")>> \o Recursion(o) \o <<All("Normalize")>>
  BY DEF Transport
<1> HIDE DEF Leads, All
<1>6. Leads(o, A, <<All("Backup")>> \o Recursion(o), Base(o))
  BY <1>2, <1>4, LeadsConcat
<1> QED
  BY <1>3, <1>5, <1>6, LeadsConcat

(* The same step of all levels, with its kicks and its energy interval.    *)
LEMMA KickedLeads ==
  ASSUME NEW o \in Options, ~TimeRefinement(o)
  PROVE  Leads(o, Prepared(o), KickedTransport(o), Finished(o))
<1> USE DEF Fact
<1>1. o.gravity \in BOOLEAN /\ Kicked(o) \in BOOLEAN /\ o.coupled \in BOOLEAN
  BY OptionAssumption DEF Kicked
<1>2. Leads(o, Prepared(o), Only(o.gravity, "PrepareGravityEnergy", -1, 0), Poised(o))
  <2> DEFINE st == All("PrepareGravityEnergy")
  <2>1. st.op = "PrepareGravityEnergy" /\ st.level = -1 /\ "PrepareGravityEnergy" \in Ops
    BY StageOfAll DEF Ops
  <2>e. st = All("PrepareGravityEnergy")
    OBVIOUS
  <2> HIDE DEF st
  <2>2. Needs(o, st) \subseteq Prepared(o)
    BY <2>1 DEF Needs, Prepared
  <2>3. \A x \in Poised(o) : (x \in Prepared(o) /\ x[1] # "unworked" /\ x[1] \notin {"start", "advanced"})
                                \/ (o.gravity /\ x = Fact("work"))
    BY DEF Poised, Prepared, Worked, Exchanged
  <2>4. \A x \in Prepared(o) : x[1] # "unworked" /\ x[1] \notin {"start", "advanced"} => Survives(st, x)
    BY <2>1 DEF Survives, Prepared, Exchanged, Flips
  <2>5. Fact("work") \in Makes(st)
    BY <2>1 DEF Makes, MadeBy
  <2>6. \A x \in Poised(o) : (x \in Prepared(o) /\ Survives(st, x)) \/ x \in Makes(st)
    BY <2>3, <2>4, <2>5
  <2>7. ~o.gravity => Poised(o) \subseteq Prepared(o)
    BY DEF Poised, Prepared, Worked
  <2> QED
    BY <1>1, <2>1, <2>2, <2>6, <2>7, <2>e, LeadsIf
<1>3. ASSUME NEW A, A = Poised(o) \/ A = Corrected(o)
      PROVE  Leads(o, A, Only(Kicked(o), KickOf(o), -1, 0), A)
  <2> DEFINE st == All(KickOf(o))
  <2>1. /\ st.op \in {"Kick", "KickTracked"} /\ st.level = -1 /\ KickOf(o) \in Ops
        /\ st.op = "KickTracked" => o.gravity
    BY StageOfAll DEF Ops, KickOf
  <2>e. st = All(KickOf(o))
    OBVIOUS
  <2> HIDE DEF st
  <2>2. Needs(o, st) \subseteq A
    BY <1>3, <2>1 DEF Needs, Poised, Corrected, Exchanged, Worked
  <2>3. \A x \in A : x[1] \in {"closed", "unmoved", "settled", "step", "midpoint", "rate", "probed", "work", "mass"}
    BY <1>3 DEF Poised, Corrected, Exchanged, Worked
  <2>4. \A x \in A : Survives(st, x)
    BY <2>1, <2>3 DEF Survives
  <2> QED
    BY <1>1, <2>1, <2>2, <2>4, <2>e, LeadsIf
<1>4. Leads(o, Poised(o), Transport(o), Corrected(o))
  <2> DEFINE s == All("Advance")
             r == All("Reflux")
  <2>1. s.op = "Advance" /\ s.level = -1 /\ s \in StageType /\ r.op = "Reflux" /\ r.level = -1 /\ r \in StageType
    BY StageOfAll DEF Ops
  <2>2. Transport(o) = <<s, r>>
    BY DEF Transport
  <2> HIDE DEF s, r
  <2>3. Needs(o, s) \subseteq Poised(o)
    BY <2>1 DEF Needs, Poised, Exchanged
  <2>4. \A x \in Moved(o) : (x \in Poised(o) /\ x[1] \in {"closed", "step", "midpoint", "rate", "work"})
                              \/ (x[1] \in {"ahead", "flux", "mass", "advanced"} /\ x[2] = -1 /\ x = <<x[1], x[2]>>)
    BY DEF Moved, Poised, Exchanged, Worked
  <2>5. \A x \in Poised(o) : x[1] \in {"closed", "step", "midpoint", "rate", "work"} => Survives(s, x)
    BY <2>1 DEF Survives, Flips
  <2>6. \A x : x[1] \in {"ahead", "flux", "mass", "advanced"} /\ x[2] = -1 /\ x = <<x[1], x[2]>> => x \in Makes(s)
    BY <2>1 DEF Makes, MadeBy
  <2>7. Leads(o, Poised(o), <<s>>, Moved(o))
    <3>1. \A x \in Moved(o) : (x \in Poised(o) /\ Survives(s, x)) \/ x \in Makes(s)
      BY <2>4, <2>5, <2>6
    <3> QED
      BY <2>1, <2>3, <3>1, LeadsOne
  <2>8. Leads(o, Moved(o), <<r>>, Corrected(o))
    <3>1. Needs(o, r) \subseteq Moved(o)
      <4>1. Needs(o, r) = {Fact("closed")} \cup ({<<"ahead", -1>>, <<"flux", -1>>} \cup {Fact("advanced")})
        BY <2>1 DEF Needs
      <4> QED
        BY <4>1 DEF Moved
    <3>2. \A x \in Corrected(o) : (x \in Moved(o) /\ x[1] \in {"closed", "mass", "step", "midpoint", "rate", "work"})
                                   \/ x = Fact("settled")
      BY DEF Moved, Corrected, Exchanged, Worked
    <3>3. \A x \in Moved(o) : x[1] \in {"closed", "mass", "step", "midpoint", "rate", "work"} => Survives(r, x)
      BY <2>1 DEF Survives
    <3>4. Fact("settled") \in Makes(r)
      BY <2>1 DEF Makes, MadeBy
    <3>5. \A x \in Corrected(o) : (x \in Moved(o) /\ Survives(r, x)) \/ x \in Makes(r)
      BY <3>2, <3>3, <3>4
    <3> QED
      BY <2>1, <3>1, <3>5, LeadsOne
  <2>9. <<s>> \o <<r>> = <<s, r>>
    <3> DEFINE t == <<s, r>>
    <3>2. t \in Seq(StageType) /\ Len(t) = 2 /\ t[1] = s /\ t[2] = r
      BY <2>1
    <3> HIDE DEF t
    <3>3. t = <<t[1]>> \o <<t[2]>>
      BY <3>2, Spelled
    <3> QED
      BY <3>2, <3>3 DEF t
  <2>10. Leads(o, Poised(o), <<s>> \o <<r>>, Corrected(o))
    BY <2>7, <2>8, LeadsConcat
  <2> QED
    BY <2>2, <2>9, <2>10
<1>5. Leads(o, Corrected(o), Only(o.gravity, "SolveGravity", -1, 0), Corrected(o))
  <2> DEFINE st == All("SolveGravity")
  <2>1. st.op = "SolveGravity" /\ st.level = -1 /\ "SolveGravity" \in Ops
    BY StageOfAll DEF Ops
  <2>e. st = All("SolveGravity")
    OBVIOUS
  <2> HIDE DEF st
  <2>2. Needs(o, st) \subseteq Corrected(o)
    BY <2>1 DEF Needs, Corrected
  <2>3. \A x \in Corrected(o) : x[1] \in {"closed", "settled", "step", "midpoint", "rate", "work", "mass"}
    BY DEF Corrected, Exchanged, Worked
  <2>4. \A x \in Corrected(o) : Survives(st, x)
    BY <2>1, <2>3 DEF Survives
  <2> QED
    BY <1>1, <2>1, <2>2, <2>4, <2>e, LeadsIf
<1>6. Leads(o, Corrected(o), Only(o.gravity, "FinishGravityEnergy", -1, 0), Finished(o))
  <2> DEFINE st == All("FinishGravityEnergy")
  <2>1. st.op = "FinishGravityEnergy" /\ st.level = -1 /\ "FinishGravityEnergy" \in Ops
    BY StageOfAll DEF Ops
  <2>e. st = All("FinishGravityEnergy")
    OBVIOUS
  <2> HIDE DEF st
  <2>2. o.gravity => Needs(o, st) \subseteq Corrected(o)
    BY <2>1 DEF Needs, Corrected, Worked
  <2>3. \A x \in Finished(o) : x \in Corrected(o) /\ x[1] \in {"closed", "settled", "step", "midpoint", "rate"}
    BY DEF Corrected, Finished, Exchanged
  <2>4. \A x \in Finished(o) : x \in Corrected(o) /\ Survives(st, x)
    BY <2>1, <2>3 DEF Survives
  <2> QED
    BY <1>1, <2>1, <2>2, <2>4, <2>e, LeadsIf
<1> HIDE DEF Leads, Prepared, Poised, Corrected, Finished, Only
<1>7. Leads(o, Prepared(o), Only(o.gravity, "PrepareGravityEnergy", -1, 0) \o Only(Kicked(o), KickOf(o), -1, 0), Poised(o))
  BY <1>2, <1>3, LeadsConcat
<1>8. Leads(o, Prepared(o), Only(o.gravity, "PrepareGravityEnergy", -1, 0) \o Only(Kicked(o), KickOf(o), -1, 0)
                              \o Transport(o), Corrected(o))
  BY <1>4, <1>7, LeadsConcat
<1>9. Leads(o, Prepared(o), Only(o.gravity, "PrepareGravityEnergy", -1, 0) \o Only(Kicked(o), KickOf(o), -1, 0)
                              \o Transport(o) \o Only(o.gravity, "SolveGravity", -1, 0), Corrected(o))
  BY <1>5, <1>8, LeadsConcat
<1>10. Leads(o, Prepared(o), Only(o.gravity, "PrepareGravityEnergy", -1, 0) \o Only(Kicked(o), KickOf(o), -1, 0)
                              \o Transport(o) \o Only(o.gravity, "SolveGravity", -1, 0)
                              \o Only(Kicked(o), KickOf(o), -1, 0), Corrected(o))
  BY <1>3, <1>9, LeadsConcat
<1>11. Leads(o, Prepared(o), Only(o.gravity, "PrepareGravityEnergy", -1, 0) \o Only(Kicked(o), KickOf(o), -1, 0)
                              \o Transport(o) \o Only(o.gravity, "SolveGravity", -1, 0)
                              \o Only(Kicked(o), KickOf(o), -1, 0) \o Only(o.gravity, "FinishGravityEnergy", -1, 0), Finished(o))
  BY <1>6, <1>10, LeadsConcat
<1> QED
  BY <1>11 DEF KickedTransport

(* Every stage of a call finds what it needs.                              *)
LEMMA CallLeads ==
  ASSUME NEW o \in Options
  PROVE  Leads(o, Outset, StagesOf[o], {})
<1> USE DEF Fact
<1>1. /\ o.call \in {"advance", "coupleRadiation"}
      /\ {o.refinement, o.coupled, o.gravity, o.tracked, o.external} \subseteq BOOLEAN
      /\ o.refinement /\ o.gravity => o.external
  BY OptionAssumption
<1>2. StagesOf[o] = Stages(o)
  BY DEF StagesOf
<1>3. CASE o.call = "coupleRadiation"
  <2> DEFINE st == All("CoupleRadiation")
  <2>1. st.op = "CoupleRadiation" /\ st.level = -1 /\ st \in StageType
    BY StageOfAll DEF Ops
  <2>2. Stages(o) = <<st>>
    BY <1>3 DEF Stages
  <2> HIDE DEF st
  <2>3. Needs(o, st) \subseteq Outset
    BY <2>1 DEF Needs, Outset
  <2>4. Leads(o, Outset, <<st>>, {})
    BY <2>1, <2>3, LeadsOne
  <2> QED
    BY <1>2, <2>2, <2>4
<1> DEFINE Saved == {Fact("closed"), Fact("unmoved"), Fact("settled"), Fact("unworked")}
<1>4. Leads(o, Outset, <<All("Save")>>, Saved)
  <2> DEFINE st == All("Save")
  <2>1. st.op = "Save" /\ st.level = -1 /\ st \in StageType
    BY StageOfAll DEF Ops
  <2> HIDE DEF st
  <2>2. Needs(o, st) \subseteq Outset
    BY <2>1 DEF Needs, Outset
  <2>3. \A x \in Saved : x \in Outset /\ Survives(st, x)
    BY <2>1 DEF Survives, Outset
  <2> QED
    BY <2>1, <2>2, <2>3, LeadsOne DEF st
<1>5. ASSUME NEW A, Fact("closed") \in A, \A x \in A : x[1] \in {"closed", "unmoved", "settled", "unworked", "step"}
      PROVE  Leads(o, A, <<All("Probe")>>, A \cup {Fact("probed"), Fact("rate")})
  <2> DEFINE st == All("Probe")
             B == A \cup {Fact("probed"), Fact("rate")}
  <2>1. st.op = "Probe" /\ st.level = -1 /\ st \in StageType
    BY StageOfAll DEF Ops
  <2> HIDE DEF st
  <2>2. Needs(o, st) \subseteq A
    BY <1>5, <2>1 DEF Needs
  <2>3. \A x \in A : Survives(st, x)
    BY <1>5, <2>1 DEF Survives
  <2>4. Fact("probed") \in Makes(st) /\ Fact("rate") \in Makes(st)
    BY <2>1 DEF Makes, MadeBy
  <2>5. \A x \in B : (x \in A /\ Survives(st, x)) \/ x \in Makes(st)
    BY <2>3, <2>4
  <2> HIDE DEF B
  <2>6. Leads(o, A, <<st>>, B)
    BY <2>1, <2>2, <2>5, LeadsOne
  <2> QED
    BY <2>6 DEF st, B
<1>6. CASE o.call # "coupleRadiation" /\ TimeRefinement(o)
  <2>1. o.refinement /\ ~o.external /\ ~o.gravity
    BY <1>1, <1>6 DEF TimeRefinement
  <2>2. CASE o.coupled
    <3>1. Stages(o) = <<All("Save")>> \o (<<All("Probe")>> \o Transport(o))
      BY <1>6, <2>2 DEF Stages, CoupledStep
    <3>2. Leads(o, Saved, <<All("Probe")>>, Saved \cup {Fact("probed"), Fact("rate")})
      BY <1>5
    <3>3. Leads(o, Saved \cup {Fact("probed"), Fact("rate")}, Transport(o), {})
      BY <1>6, IntervalLeads
    <3> HIDE DEF Saved
    <3>4. Leads(o, Saved, <<All("Probe")>> \o Transport(o), {})
      BY <3>2, <3>3, LeadsConcat
    <3>5. Leads(o, Outset, <<All("Save")>> \o (<<All("Probe")>> \o Transport(o)), {})
      BY <1>4, <3>4, LeadsConcat
    <3> QED
      BY <1>2, <3>1, <3>5
  <2>3. CASE ~o.coupled
    <3>1. Stages(o) = KickedTransport(o)
      BY <1>6, <2>3 DEF Stages
    <3>2. \A op : Only(o.gravity, op, -1, 0) = <<>> /\ Only(Kicked(o), op, -1, 0) = <<>>
      BY <2>1 DEF Only, Kicked
    <3>3. KickedTransport(o) = <<>> \o <<>> \o Transport(o) \o <<>> \o <<>> \o <<>>
      BY <3>2 DEF KickedTransport
    <3>4. Leads(o, Outset, Transport(o), {})
      BY <1>6, <2>3, IntervalLeads DEF Outset
    <3>5. Transport(o) \in Seq(StageType)
      BY <3>4 DEF Leads
    <3>6. KickedTransport(o) = Transport(o)
      BY <3>3, <3>5
    <3> QED
      BY <1>2, <3>1, <3>4, <3>6
  <2> QED
    BY <2>2, <2>3
<1>7. CASE o.call # "coupleRadiation" /\ ~TimeRefinement(o)
  <2>1. Leads(o, Prepared(o), KickedTransport(o), Finished(o))
    BY <1>7, KickedLeads
  <2>2. CASE ~o.coupled
    <3>1. Stages(o) = KickedTransport(o)
      BY <1>7, <2>2 DEF Stages
    <3>2. Prepared(o) \subseteq Outset
      BY <2>2 DEF Prepared, Outset, Exchanged
    <3>3. Leads(o, Outset, KickedTransport(o), {})
      BY <2>1, <3>2, LeadsMore
    <3> QED
      BY <1>2, <3>1, <3>3
  <2>3. CASE o.coupled
    <3> DEFINE s1 == All("Save")
               s2 == All("SaveRadiationStep")
               s3 == All("Probe")
               s4 == All("PredictRadiationStep")
               s9 == All("FinishRadiationStep")
               B2 == Saved \cup {Fact("step")}
               B3 == B2 \cup {Fact("probed"), Fact("rate")}
    <3>1. /\ s2.op = "SaveRadiationStep" /\ s2.level = -1 /\ s2 \in StageType
          /\ s4.op = "PredictRadiationStep" /\ s4.level = -1 /\ s4 \in StageType
          /\ s9.op = "FinishRadiationStep" /\ s9.level = -1 /\ s9 \in StageType
      BY StageOfAll DEF Ops
    <3>2. s3 \in StageType /\ s1 \in StageType
      BY StageOfAll DEF Ops
    <3>3. Stages(o) = <<s1>> \o (<<s2, s3, s4>> \o KickedTransport(o) \o <<s9>>)
      BY <1>7, <2>3 DEF Stages, CoupledStep
    <3>4. Leads(o, Outset, <<s1>>, Saved)
      BY <1>4
    <3>5. Leads(o, B2, <<s3>>, B3)
      BY <1>5
    <3> HIDE DEF s1, s2, s3, s4, s9
    <3>6. Leads(o, Saved, <<s2>>, B2)
      <4>1. Needs(o, s2) \subseteq Saved
        BY <3>1 DEF Needs
      <4>2. \A x \in Saved : Survives(s2, x)
        BY <3>1 DEF Survives
      <4>3. Fact("step") \in Makes(s2)
        BY <3>1 DEF Makes, MadeBy
      <4>4. \A x \in B2 : (x \in Saved /\ Survives(s2, x)) \/ x \in Makes(s2)
        BY <4>2, <4>3
      <4> HIDE DEF Saved, B2
      <4> QED
        BY <3>1, <4>1, <4>4, LeadsOne
    <3>7. Leads(o, B3, <<s4>>, Prepared(o))
      <4>1. Needs(o, s4) \subseteq B3
        BY <3>1 DEF Needs
      <4>2. \A x \in B3 : Survives(s4, x)
        BY <3>1 DEF Survives
      <4>3. Fact("midpoint") \in Makes(s4)
        BY <3>1 DEF Makes, MadeBy
      <4>4. \A x \in Prepared(o) : x \in B3 \/ x = Fact("midpoint")
        BY DEF Prepared, Exchanged
      <4>5. \A x \in Prepared(o) : (x \in B3 /\ Survives(s4, x)) \/ x \in Makes(s4)
        BY <4>2, <4>3, <4>4
      <4> HIDE DEF B3
      <4> QED
        BY <3>1, <4>1, <4>5, LeadsOne
    <3>8. Leads(o, Finished(o), <<s9>>, {})
      <4>1. Needs(o, s9) \subseteq Finished(o)
        BY <2>3, <3>1 DEF Needs, Finished, Exchanged
      <4> QED
        BY <3>1, <4>1, LeadsOne
    <3> HIDE DEF Saved, B2, B3
    <3>9. <<s2>> \o <<s3>> \o <<s4>> = <<s2, s3, s4>>
      <4> DEFINE t == <<s2, s3, s4>>
      <4>1. t \in Seq(StageType) /\ Len(t) = 3 /\ t[1] = s2 /\ t[2] = s3 /\ t[3] = s4
        BY <3>1, <3>2
      <4> HIDE DEF t
      <4>2. t = <<t[1]>> \o <<t[2]>> \o <<t[3]>>
        BY <4>1, Spelled
      <4> QED
        BY <4>1, <4>2 DEF t
    <3>10. Leads(o, Saved, <<s2>> \o <<s3>> \o <<s4>>, Prepared(o))
      <4>1. Leads(o, Saved, <<s2>> \o <<s3>>, B3)
        BY <3>5, <3>6, LeadsConcat
      <4> QED
        BY <3>7, <4>1, LeadsConcat
    <3>11. Leads(o, Saved, <<s2, s3, s4>> \o KickedTransport(o), Finished(o))
      BY <2>1, <3>9, <3>10, LeadsConcat
    <3>12. Leads(o, Saved, <<s2, s3, s4>> \o KickedTransport(o) \o <<s9>>, {})
      BY <3>8, <3>11, LeadsConcat
    <3>13. Leads(o, Outset, <<s1>> \o (<<s2, s3, s4>> \o KickedTransport(o) \o <<s9>>), {})
      BY <3>4, <3>12, LeadsConcat
    <3> QED
      BY <1>2, <3>3, <3>13
  <2> QED
    BY <2>2, <2>3
<1> QED
  BY <1>1, <1>3, <1>6, <1>7

(* What holds after a stage. *)
LEMMA HoldsNext ==
  ASSUME NEW A, NEW s, NEW p \in Nat, p >= 1, NEW x, Holds(A, s, p + 1, x)
  PROVE  (Holds(A, s, p, x) /\ Survives(s[p], x)) \/ x \in Makes(s[p])
<1>1. (p + 1) - 1 = p /\ p \in 1 .. p /\ \A r \in 1 .. (p - 1) : r \in 1 .. p
  OBVIOUS
<1>2. CASE x \in A /\ \A r \in 1 .. p : Survives(s[r], x)
  BY <1>1, <1>2 DEF Holds
<1>3. CASE \E q \in 1 .. p : x \in Makes(s[q]) /\ \A r \in (q + 1) .. p : Survives(s[r], x)
  <2>1. PICK q \in 1 .. p : x \in Makes(s[q]) /\ \A r \in (q + 1) .. p : Survives(s[r], x)
    BY <1>3
  <2>2. CASE q = p
    BY <2>1, <2>2
  <2>3. CASE q # p
    <3>1. q \in 1 .. (p - 1) /\ p \in (q + 1) .. p /\ \A r \in (q + 1) .. (p - 1) : r \in (q + 1) .. p
      BY <2>3
    <3> QED
      BY <2>1, <3>1 DEF Holds
  <2> QED
    BY <2>2, <2>3
<1> QED
  BY <1>1, <1>2, <1>3 DEF Holds

(* What has not happened has left nothing. *)
LEMMA HoldsNot ==
  ASSUME NEW s, NEW p \in Nat
  PROVE  /\ Holds(Outset, s, p, Fact("start")) => p <= 1
         /\ Holds(Outset, s, p, Fact("unmoved")) =>
              \A kind \in {"ahead", "flux", "mass"} : \A level : ~Holds(Outset, s, p, <<kind, level>>)
         /\ Holds(Outset, s, p, Fact("settled")) => \A level : ~Holds(Outset, s, p, <<"ahead", level>>)
         /\ Holds(Outset, s, p, Fact("unworked")) => \A level : ~Holds(Outset, s, p, <<"work", level>>)
         /\ Holds(Outset, s, p, Fact("advanced")) => p > 1 /\ s[p - 1].op = "Advance" /\ s[p - 1].level = -1
<1> USE DEF Fact
<1>1. ASSUME NEW st, NEW kind, NEW level, <<kind, level>> \in Makes(st)
      PROVE  /\ kind \in MadeBy(st.op) /\ level = st.level
             /\ kind \notin {"start", "unmoved", "unworked"}
             /\ kind \in {"ahead", "flux", "mass", "advanced"} => st.op = "Advance"
             /\ kind = "settled" => st.op = "Reflux"
             /\ kind = "work" => st.op = "PrepareGravityEnergy"
  <2>1. kind \in MadeBy(st.op) /\ level = st.level
    BY <1>1 DEF Makes
  <2> QED
    BY <2>1 DEF MadeBy
<1>2. \A kind \in {"ahead", "flux", "mass", "work", "advanced"} : \A level : <<kind, level>> \notin Outset
  BY DEF Outset
<1>3. ASSUME NEW kind \in {"start", "unmoved", "unworked"}, Holds(Outset, s, p, <<kind, -1>>)
      PROVE  \A r \in 1 .. (p - 1) : Survives(s[r], <<kind, -1>>)
  BY <1>1, <1>3 DEF Holds
<1>4. ASSUME NEW kind \in {"ahead", "flux", "mass", "work", "advanced"}, NEW level, Holds(Outset, s, p, <<kind, level>>)
      PROVE  \E q \in 1 .. (p - 1) : <<kind, level>> \in Makes(s[q]) /\ \A r \in (q + 1) .. (p - 1) : Survives(s[r], <<kind, level>>)
  BY <1>2, <1>4 DEF Holds
<1>5. ASSUME Holds(Outset, s, p, <<"start", -1>>) PROVE p <= 1
  <2>1. \A r \in 1 .. (p - 1) : FALSE
    BY <1>3, <1>5 DEF Survives
  <2>2. p > 1 => 1 \in 1 .. (p - 1)
    OBVIOUS
  <2> QED
    BY <2>1, <2>2
<1>6. ASSUME Holds(Outset, s, p, <<"unmoved", -1>>), NEW kind \in {"ahead", "flux", "mass"}, NEW level,
             Holds(Outset, s, p, <<kind, level>>)
      PROVE  FALSE
  <2>1. PICK q \in 1 .. (p - 1) : <<kind, level>> \in Makes(s[q])
    BY <1>4, <1>6
  <2>2. Survives(s[q], <<"unmoved", -1>>) /\ s[q].op = "Advance"
    BY <1>1, <1>3, <1>6, <2>1
  <2> QED
    BY <2>2 DEF Survives
<1>7. ASSUME Holds(Outset, s, p, <<"settled", -1>>), NEW level, Holds(Outset, s, p, <<"ahead", level>>)
      PROVE  FALSE
  <2>1. PICK q \in 1 .. (p - 1) : <<"ahead", level>> \in Makes(s[q]) /\ \A r \in (q + 1) .. (p - 1) : Survives(s[r], <<"ahead", level>>)
    BY <1>4, <1>7
  <2>2. s[q].op = "Advance"
    BY <1>1, <2>1
  <2>3. ~Survives(s[q], <<"settled", -1>>)
    BY <2>2 DEF Survives
  <2>4. PICK k \in 1 .. (p - 1) : <<"settled", -1>> \in Makes(s[k]) /\ \A r \in (k + 1) .. (p - 1) : Survives(s[r], <<"settled", -1>>)
    BY <1>7, <2>3 DEF Holds
  <2>5. s[k].op = "Reflux" /\ s[k].level = -1
    BY <1>1, <2>4
  <2>6. k \in (q + 1) .. (p - 1)
    <3>1. q \notin (k + 1) .. (p - 1) /\ q # k
      BY <2>2, <2>3, <2>4, <2>5
    <3> QED
      BY <3>1
  <2>7. Survives(s[k], <<"ahead", level>>)
    BY <2>1, <2>6
  <2> QED
    BY <2>5, <2>7 DEF Survives, Flips, Meets
<1>8. ASSUME Holds(Outset, s, p, <<"unworked", -1>>), NEW level, Holds(Outset, s, p, <<"work", level>>)
      PROVE  FALSE
  <2>1. PICK q \in 1 .. (p - 1) : <<"work", level>> \in Makes(s[q])
    BY <1>4, <1>8
  <2>2. Survives(s[q], <<"unworked", -1>>) /\ s[q].op = "PrepareGravityEnergy"
    BY <1>1, <1>3, <1>8, <2>1
  <2> QED
    BY <2>2 DEF Survives
<1>9. ASSUME Holds(Outset, s, p, <<"advanced", -1>>)
      PROVE  p > 1 /\ s[p - 1].op = "Advance" /\ s[p - 1].level = -1
  <2>1. PICK q \in 1 .. (p - 1) : <<"advanced", -1>> \in Makes(s[q]) /\ \A r \in (q + 1) .. (p - 1) : Survives(s[r], <<"advanced", -1>>)
    BY <1>4, <1>9
  <2>2. s[q].op = "Advance" /\ s[q].level = -1
    BY <1>1, <2>1
  <2>3. \A r \in (q + 1) .. (p - 1) : FALSE
    BY <2>1 DEF Survives
  <2>4. q = p - 1
    <3>1. q < p - 1 => p - 1 \in (q + 1) .. (p - 1)
      OBVIOUS
    <3> QED
      BY <2>3, <3>1
  <2> QED
    BY <2>2, <2>4
<1> QED
  BY <1>5, <1>6, <1>7, <1>8, <1>9

(* A coupled step begins with the copy that it is rolled back to.          *)
LEMMA CoupledBegins ==
  ASSUME NEW o \in Options, o.coupled, o.call = "advance"
  PROVE  StagesOf[o][1].op = "Save" /\ StagesOf[o][1].level = -1
<1>1. StagesOf[o] = CoupledStep(o)
  BY DEF StagesOf, Stages
<1>2. \E t \in Seq(StageType) : CoupledStep(o) = <<All("Save")>> \o t
  <2>1. CoupledStep(o) \in Seq(StageType)
    BY <1>1, CallLeads DEF Leads
  <2>2. Transport(o) \in Seq(StageType) \/ ~TimeRefinement(o)
    <3>1. ASSUME TimeRefinement(o) PROVE Transport(o) \in Seq(StageType)
      <4>1. Leads(o, {Fact("closed"), Fact("rate")}, Transport(o), {})
        BY <3>1, IntervalLeads
      <4> QED
        BY <4>1 DEF Leads
    <3> QED
      BY <3>1
  <2>3. ASSUME NEW op \in Ops PROVE <<All(op)>> \in Seq(StageType)
    <3>1. All(op) \in StageType
      BY StageOfAll
    <3> HIDE DEF All
    <3> QED
      BY <3>1
  <2>4. CASE TimeRefinement(o)
    <3>1. CoupledStep(o) = <<All("Save")>> \o (<<All("Probe")>> \o Transport(o))
      BY <2>4 DEF CoupledStep
    <3>2. <<All("Probe")>> \in Seq(StageType)
      BY <2>3 DEF Ops
    <3>3. <<All("Probe")>> \o Transport(o) \in Seq(StageType)
      BY <2>2, <2>4, <3>2
    <3> QED
      BY <3>1, <3>3
  <2>5. CASE ~TimeRefinement(o)
    <3> DEFINE t1 == <<All("SaveRadiationStep"), All("Probe"), All("PredictRadiationStep")>>
               t3 == <<All("FinishRadiationStep")>>
    <3>1. t1 \in Seq(StageType) /\ t3 \in Seq(StageType)
      BY StageOfAll DEF Ops
    <3>2. KickedTransport(o) \in Seq(StageType)
      BY <2>5, KickedLeads DEF Leads
    <3>3. CoupledStep(o) = <<All("Save")>> \o (t1 \o KickedTransport(o) \o t3)
      BY <2>5 DEF CoupledStep
    <3> HIDE DEF t1, t3
    <3>4. t1 \o KickedTransport(o) \o t3 \in Seq(StageType)
      BY <3>1, <3>2
    <3> QED
      BY <3>3, <3>4
  <2> QED
    BY <2>4, <2>5
<1>3. PICK t \in Seq(StageType) : CoupledStep(o) = <<All("Save")>> \o t
  BY <1>2
<1> DEFINE h == <<All("Save")>>
<1>4. h \in Seq(StageType) /\ Len(h) = 1 /\ h[1].op = "Save" /\ h[1].level = -1
  BY StageOfAll DEF Ops
<1> HIDE DEF h
<1>5. (h \o t)[1] = h[1]
  <2>1. \A k \in 1 .. Len(h) : (h \o t)[k] = h[k]
    <3>1. h \in Seq(StageType) /\ t \in Seq(StageType)
      BY <1>3, <1>4
    <3> QED
      BY <3>1
  <2>2. 1 \in 1 .. Len(h)
    BY <1>4
  <2> QED
    BY <2>1, <2>2, Zenon
<1> QED
  BY <1>1, <1>3, <1>4, <1>5 DEF h
-----------------------------------------------------------------------------
(* The facts of a running call, and where they place it. *)
Here(x) == Holds(Outset, Plan, pc, x)
Where ==
  mode = "running" => /\ Here(Fact("open")) /\ Leaves # {} => InInterval
                      /\ Here(Fact("closed")) => ~InInterval

(* The stage finds what it needs. *)
LEMMA Ready ==
  ASSUME Control, mode = "running"
  PROVE  \A x \in Needs(option, Stage) : Here(x)
<1>1. Leads(option, Outset, Plan, {})
  BY CallLeads DEF Control, Plan
<1>2. Stage = Plan[pc] /\ pc \in 1 .. Len(Plan)
  BY StageNow DEF Control, InCall
<1> QED
  BY <1>1, <1>2 DEF Leads, Here

LEMMA WhereNext ==
  ASSUME Control, Interval, Where, mode = "running", Published, option' = option, pc' = pc + 1
  PROVE  Where'
<1>1. pc \in Nat /\ pc >= 1 /\ Stage = Plan[pc] /\ InCall
  BY StageNow DEF Control, InCall
<1>2. Plan' = Plan
  BY DEF Plan
<1>3. ASSUME NEW x, Here(x)' PROVE (Here(x) /\ Survives(Stage, x)) \/ x \in Makes(Stage)
  <2>1. Holds(Outset, Plan, pc + 1, x)
    BY <1>2, <1>3 DEF Here
  <2> QED
    BY <1>1, <2>1, HoldsNext DEF Here
<1>4. ASSUME Here(Fact("open"))', Leaves # {} PROVE InInterval'
  <2>1. TimeLevels(option) # {}
    BY <1>4 DEF TimeLevels
  <2>2. levels' \in [TimeLevels(option) -> LevelType]
    <3>1. CASE Stage.op = "Backup"
      BY <1>1, <3>1, Publication
    <3>2. CASE Stage.op # "Backup"
      <4>1. Fact("open") \notin Makes(Stage)
        BY <3>2 DEF Makes, MadeBy, Fact
      <4>2. InInterval /\ Stage.op # "Normalize"
        BY <1>3, <1>4, <4>1 DEF Where, Survives
      <4> QED
        BY <1>1, <3>2, <4>2, Publication
    <3> QED
      BY <3>1, <3>2
  <2>3. DOMAIN levels' # {} /\ DOMAIN <<>> = {}
    BY <2>1, <2>2
  <2> QED
    BY <2>3 DEF InInterval
<1>5. ASSUME Here(Fact("closed"))' PROVE ~InInterval'
  <2>1. Fact("closed") \notin Makes(Stage)
    BY DEF Makes, MadeBy, Fact
  <2>2. Here(Fact("closed")) /\ Stage.op \notin {"Backup", "Normalize"}
    BY <1>3, <1>5, <2>1 DEF Survives, Fact
  <2>3. levels' = <<>>
    BY <1>1, <2>2, Publication DEF Where
  <2> QED
    BY <2>3 DEF InInterval
<1> QED
  BY <1>4, <1>5 DEF Where
-----------------------------------------------------------------------------
(* The tasks, one by one. *)
LEMMA TaskOf ==
  ASSUME NEW b
  PROVE  /\ Stage.op = "Backup" => AccessOf(b) = Does({}, {}, Copy(AllFields, Bank, 2, b))
         /\ Stage.op = "Restore" => AccessOf(b) = Does({}, {}, Copy(AllFields, 2, Bank, b))
         /\ Stage.op = "Normalize" =>
              AccessOf(b) = Does({}, {}, IF BankOf(b) = Other(Bank) THEN {} ELSE Copy(AllFields, Bank, Other(Bank), b))
         /\ Stage.op = "ResetFlux" => AccessOf(b) = Does({}, Flux(1, b), {})
         /\ Stage.op = "Timestep" => AccessOf(b) = Does(Run(AllFields, Bank, b), {}, {})
         /\ Stage.op = "Advance" =>
              AccessOf(b) = Does(Run(StateFields, Bank, b) \cup Halo(StateFields \ Reused(b), b)
                                   \cup (IF option.coupled THEN UNION {Step(StateFields, 1, d) : d \in Donors[b] \cup {b}} ELSE {})
                                   \cup (IF InInterval THEN Flux(1, b) ELSE {}),
                                 Run(StateFields, Other(Bank), b) \cup Flux(0, b) \cup Once({"massFlux"}, b)
                                   \cup (IF InInterval THEN Flux(1, b) ELSE {}),
                                 Copy(Gravity, Bank, Other(Bank), b))
         /\ Stage.op = "Probe" =>
              AccessOf(b) = Does(Run(StateFields, Bank, b) \cup Halo(StateFields, b),
                                 Run(StateFields, Other(Bank), b) \cup Flux(0, b) \cup Once({"massFlux"}, b)
                                   \cup Step({"rate"}, 0, b),
                                 Copy(Gravity, Bank, Other(Bank), b))
         /\ Stage.op = "Reflux" =>
              AccessOf(b) = Does(Run(StateFields, Other(Bank), b) \cup Flux(0, b) \cup UNION {Flux(FineBank(b), f) : f \in FineSides[b]},
                                 Run(StateFields, Other(Bank), b), {})
         /\ Stage.op = "PrepareGravityEnergy" =>
              AccessOf(b) = Does({}, Once({"kickWork"}, b), {<<<<"run", "gravity", Bank, b>>, <<"run", "oldGravity", 0, b>>>>})
         /\ Stage.op \in {"Kick", "KickTracked"} =>
              AccessOf(b) = Does(Run({"gas"} \cup Gravity, Bank, b)
                                   \cup (IF option.coupled /\ (Stage.op = "KickTracked" => option.external)
                                          THEN Step({"radiation"}, 0, b) \cup Step({"radiation"}, 1, b) \cup Step({"rate"}, 0, b)
                                          ELSE {})
                                   \cup (IF Stage.op = "KickTracked" THEN Once({"kickWork"}, b) ELSE {}),
                                 Run({"gas"}, Other(Bank), b) \cup (IF Stage.op = "KickTracked" THEN Once({"kickWork"}, b) ELSE {}),
                                 Copy({"radiation"} \cup Gravity, Bank, Other(Bank), b))
         /\ Stage.op = "SolveGravity" =>
              AccessOf(b) = Does(UNION {Run({"gas"}, Bank, d) : d \in Leaves}, Run(Gravity, Other(Bank), b),
                                 Copy(StateFields, Bank, Other(Bank), b))
         /\ Stage.op = "FinishGravityEnergy" => AccessOf(b) = Closing(b)
         /\ Stage.op = "Save" => AccessOf(b) = Does({}, {}, SavedIn("saved", b))
         /\ Stage.op = "SaveRadiationStep" => AccessOf(b) = Does({}, {}, SavedIn("step", b))
         /\ Stage.op = "PredictRadiationStep" =>
              AccessOf(b) = Does(OwnValues(StateFields, b) \cup Run(Gravity, BankOf(b), b) \cup Step({"rate"}, 0, b),
                                 Step(StateFields, 1, b), {})
         /\ Stage.op = "ForecastRadiationStep" =>
              AccessOf(b) = Does(Run(StateFields, Other(Bank), b) \cup Step(StateFields, 0, b), Run(StateFields, 3, b),
                                 Copy(Gravity, Other(Bank), 3, b))
         /\ Stage.op = "FinishRadiationStep" =>
              AccessOf(b) = Does(Run(StateFields, Bank, b) \cup Step(StateFields, 0, b), Run(StateFields, Other(Bank), b),
                                 Copy(Gravity, Bank, Other(Bank), b))
         /\ Stage.op = "RestoreRadiationStep" => AccessOf(b) = Does({}, {}, {<<c[2], c[1]>> : c \in SavedIn("saved", b)})
         /\ Stage.op = "CoupleRadiation" =>
              AccessOf(b) = Does(Run(StateFields, Bank, b), Run(StateFields, Other(Bank), b),
                                 Copy(Gravity, Bank, Other(Bank), b))
<1>1. /\ Transporting(b).reads = Run(StateFields, Bank, b) \cup Halo(StateFields \ Reused(b), b)
      /\ Transporting(b).computes = Run(StateFields, Other(Bank), b) \cup Flux(0, b) \cup Once({"massFlux"}, b)
      /\ Transporting(b).copies = Copy(Gravity, Bank, Other(Bank), b)
  BY DEF Transporting, TransportBank, Carried, Does
<1>2. ASSUME Stage.op = "Probe" PROVE StateFields \ Reused(b) = StateFields
  BY <1>2 DEF Reused
<1>3. ASSUME Stage.op = "Probe"
      PROVE  AccessOf(b) = Does(Transporting(b).reads, Transporting(b).computes \cup Step({"rate"}, 0, b), Transporting(b).copies)
  BY <1>3 DEF AccessOf, Probing, Transporting, Does
<1>5. ASSUME Stage.op = "Advance"
      PROVE  AccessOf(b) = Does(Run(StateFields, Bank, b) \cup Halo(StateFields \ Reused(b), b)
                                  \cup (IF option.coupled THEN UNION {Step(StateFields, 1, d) : d \in Donors[b] \cup {b}} ELSE {})
                                  \cup (IF InInterval THEN Flux(1, b) ELSE {}),
                                Run(StateFields, Other(Bank), b) \cup Flux(0, b) \cup Once({"massFlux"}, b)
                                  \cup (IF InInterval THEN Flux(1, b) ELSE {}),
                                Copy(Gravity, Bank, Other(Bank), b))
  <2> DEFINE m == IF option.coupled THEN UNION {Step(StateFields, 1, d) : d \in Donors[b] \cup {b}} ELSE {}
             g == IF InInterval THEN Flux(1, b) ELSE {}
  <2>1. AccessOf(b) = Does(Transporting(b).reads \cup m \cup g, Transporting(b).computes \cup g, Transporting(b).copies)
    BY <1>5 DEF AccessOf, Advancing, Transporting, Does
  <2> QED
    BY <1>1, <2>1, Zenon
<1>6. ASSUME Stage.op = "Probe"
      PROVE  AccessOf(b) = Does(Run(StateFields, Bank, b) \cup Halo(StateFields, b),
                                Run(StateFields, Other(Bank), b) \cup Flux(0, b) \cup Once({"massFlux"}, b)
                                  \cup Step({"rate"}, 0, b),
                                Copy(Gravity, Bank, Other(Bank), b))
  <2>1. AccessOf(b) = Does(Transporting(b).reads, Transporting(b).computes \cup Step({"rate"}, 0, b), Transporting(b).copies)
    BY <1>3, <1>6
  <2>2. StateFields \ Reused(b) = StateFields
    BY <1>2, <1>6
  <2> QED
    BY <1>1, <2>1, <2>2, Zenon
<1>7. ASSUME Stage.op \in {"Kick", "KickTracked"} PROVE AccessOf(b) = Kicking(b)
  BY <1>7 DEF AccessOf
<1>8. Stage.op \in {"Kick", "KickTracked"} =>
              AccessOf(b) = Does(Run({"gas"} \cup Gravity, Bank, b)
                                   \cup (IF option.coupled /\ (Stage.op = "KickTracked" => option.external)
                                          THEN Step({"radiation"}, 0, b) \cup Step({"radiation"}, 1, b) \cup Step({"rate"}, 0, b)
                                          ELSE {})
                                   \cup (IF Stage.op = "KickTracked" THEN Once({"kickWork"}, b) ELSE {}),
                                 Run({"gas"}, Other(Bank), b) \cup (IF Stage.op = "KickTracked" THEN Once({"kickWork"}, b) ELSE {}),
                                 Copy({"radiation"} \cup Gravity, Bank, Other(Bank), b))
  BY <1>7 DEF Kicking, Carried
<1>9. /\ Stage.op = "Backup" => AccessOf(b) = Does({}, {}, Copy(AllFields, Bank, 2, b))
      /\ Stage.op = "Restore" => AccessOf(b) = Does({}, {}, Copy(AllFields, 2, Bank, b))
      /\ Stage.op = "Normalize" =>
           AccessOf(b) = Does({}, {}, IF BankOf(b) = Other(Bank) THEN {} ELSE Copy(AllFields, Bank, Other(Bank), b))
      /\ Stage.op = "ResetFlux" => AccessOf(b) = Does({}, Flux(1, b), {})
      /\ Stage.op = "Timestep" => AccessOf(b) = Does(Run(AllFields, Bank, b), {}, {})
      /\ Stage.op = "PrepareGravityEnergy" =>
           AccessOf(b) = Does({}, Once({"kickWork"}, b), {<<<<"run", "gravity", Bank, b>>, <<"run", "oldGravity", 0, b>>>>})
  BY DEF AccessOf, Carried
<1>10. /\ Stage.op = "Reflux" => AccessOf(b) = Refluxing(b)
       /\ Stage.op = "SolveGravity" => AccessOf(b) = Solving(b)
       /\ Stage.op = "FinishGravityEnergy" => AccessOf(b) = Closing(b)
       /\ Stage.op = "Save" => AccessOf(b) = Does({}, {}, SavedIn("saved", b))
       /\ Stage.op = "SaveRadiationStep" => AccessOf(b) = Does({}, {}, SavedIn("step", b))
       /\ Stage.op = "PredictRadiationStep" => AccessOf(b) = Predicting(b)
  BY DEF AccessOf
<1>11. /\ Stage.op = "ForecastRadiationStep" => AccessOf(b) = SourceStep(Other(Bank), 3, b)
       /\ Stage.op = "FinishRadiationStep" => AccessOf(b) = SourceStep(Bank, Other(Bank), b)
       /\ Stage.op = "RestoreRadiationStep" => AccessOf(b) = Does({}, {}, {<<c[2], c[1]>> : c \in SavedIn("saved", b)})
       /\ Stage.op = "CoupleRadiation" =>
              AccessOf(b) = Does(Run(StateFields, Bank, b), Run(StateFields, Other(Bank), b), Carried(Gravity, b))
  BY DEF AccessOf
<1>12. /\ Refluxing(b) = Does(Run(StateFields, Other(Bank), b) \cup Flux(0, b) \cup UNION {Flux(FineBank(b), f) : f \in FineSides[b]},
                              Run(StateFields, Other(Bank), b), {})
       /\ Solving(b) = Does(UNION {Run({"gas"}, Bank, d) : d \in Leaves}, Run(Gravity, Other(Bank), b),
                            Copy(StateFields, Bank, Other(Bank), b))
       /\ Predicting(b) = Does(OwnValues(StateFields, b) \cup Run(Gravity, BankOf(b), b) \cup Step({"rate"}, 0, b),
                               Step(StateFields, 1, b), {})
       /\ SourceStep(Other(Bank), 3, b) = Does(Run(StateFields, Other(Bank), b) \cup Step(StateFields, 0, b), Run(StateFields, 3, b),
                                 Copy(Gravity, Other(Bank), 3, b))
       /\ SourceStep(Bank, Other(Bank), b) = Does(Run(StateFields, Bank, b) \cup Step(StateFields, 0, b), Run(StateFields, Other(Bank), b),
                                 Copy(Gravity, Bank, Other(Bank), b))
       /\ Carried(Gravity, b) = Copy(Gravity, Bank, Other(Bank), b)
  BY Zenon DEF Refluxing, Solving, Predicting, SourceStep, Carried
<1> QED
  BY <1>5, <1>6, <1>8, <1>9, <1>10, <1>11, <1>12, Zenon
-----------------------------------------------------------------------------
(* What the task of a block leaves changed. *)
Yields(b) ==
  LET across == Run(AllFields, Other(Bank), b)
  IN CASE Stage.op = "Backup" -> Run(AllFields, 2, b)
       [] Stage.op \in {"Restore", "RestoreRadiationStep"} -> Run(AllFields, Bank, b)
       [] Stage.op = "Normalize" -> IF BankOf(b) = Other(Bank) THEN {} ELSE across
       [] Stage.op = "ResetFlux" -> Flux(1, b)
       [] Stage.op = "Advance" -> across \cup Flux(0, b) \cup Once({"massFlux"}, b)
                                    \cup (IF InInterval THEN Flux(1, b) ELSE {})
       [] Stage.op = "Probe" -> across \cup Flux(0, b) \cup Once({"massFlux"}, b) \cup Step({"rate"}, 0, b)
       [] Stage.op = "Reflux" -> Run(StateFields, Other(Bank), b)
       [] Stage.op = "PrepareGravityEnergy" -> Once({"kickWork"}, b) \cup Run({"oldGravity"}, 0, b)
       [] Stage.op = "KickTracked" -> across \cup Once({"kickWork"}, b)
       [] Stage.op \in {"Kick", "SolveGravity", "FinishGravityEnergy", "FinishRadiationStep",
                        "CoupleRadiation"} -> across
       [] Stage.op = "Save" -> {"saved"} \X AllFields \X {0} \X {b}
       [] Stage.op = "SaveRadiationStep" -> Step(AllFields, 0, b)
       [] Stage.op = "PredictRadiationStep" -> Step(StateFields, 1, b)
       [] Stage.op = "ForecastRadiationStep" -> Run(AllFields, 3, b)
       [] OTHER -> {}

(* Copies go from cells that the task leaves alone, each to one of its own. *)
Orderly(copies, yields) ==
  \A x \in copies : x[1] \notin yields /\ \A y \in copies : y[2] = x[2] => y[1] = x[1]

LEMMA CopyEnds ==
  ASSUME NEW fields, NEW k, NEW n, NEW b
  PROVE  /\ {x[2] : x \in Copy(fields, k, n, b)} = Run(fields, n, b)
         /\ \A x \in Copy(fields, k, n, b) : x[1] \in Run(fields, k, b)
         /\ \A x, y \in Copy(fields, k, n, b) : y[2] = x[2] => y[1] = x[1]
<1> DEFINE C == Copy(fields, k, n, b)
<1>1. \A x \in C : \E f \in fields : x = <<<<"run", f, k, b>>, <<"run", f, n, b>>>>
  BY DEF Copy
<1>2. \A f \in fields : <<<<"run", f, k, b>>, <<"run", f, n, b>>>> \in C
  BY DEF Copy
<1>3. \A c \in Run(fields, n, b) : c[2] \in fields /\ c = <<"run", c[2], n, b>>
  BY DEF Run
<1>4. \A f \in fields : <<"run", f, n, b>> \in Run(fields, n, b) /\ <<"run", f, k, b>> \in Run(fields, k, b)
  BY DEF Run
<1> HIDE DEF C
<1>5. {x[2] : x \in C} \subseteq Run(fields, n, b)
  BY <1>1, <1>4
<1>6. ASSUME NEW c \in Run(fields, n, b) PROVE c \in {x[2] : x \in C}
  <2>1. <<<<"run", c[2], k, b>>, <<"run", c[2], n, b>>>> \in C
    BY <1>2, <1>3
  <2> QED
    BY <1>3, <2>1
<1>7. \A x \in C : x[1] \in Run(fields, k, b)
  BY <1>1, <1>4
<1>8. \A x, y \in C : y[2] = x[2] => y[1] = x[1]
  BY <1>1
<1> QED
  BY <1>5, <1>6, <1>7, <1>8 DEF C

LEMMA SavedEnds ==
  ASSUME NEW store, NEW b
  PROVE  LET C == SavedIn(store, b)
             stored == {store} \X AllFields \X {0} \X {b}
         IN /\ {x[2] : x \in C} = stored /\ {x[1] : x \in C} = Run(AllFields, Bank, b)
            /\ \A x, y \in C : y[2] = x[2] <=> y[1] = x[1]
<1> DEFINE C == SavedIn(store, b)
           stored == {store} \X AllFields \X {0} \X {b}
<1>1. \A x \in C : \E f \in AllFields : x = <<<<"run", f, Bank, b>>, <<store, f, 0, b>>>>
  BY DEF SavedIn
<1>2. \A f \in AllFields : <<<<"run", f, Bank, b>>, <<store, f, 0, b>>>> \in C
  BY DEF SavedIn
<1>3. \A c \in stored : c[2] \in AllFields /\ c = <<store, c[2], 0, b>>
  OBVIOUS
<1>4. \A c \in Run(AllFields, Bank, b) : c[2] \in AllFields /\ c = <<"run", c[2], Bank, b>>
  BY DEF Run
<1>5. \A f \in AllFields : <<"run", f, Bank, b>> \in Run(AllFields, Bank, b) /\ <<store, f, 0, b>> \in stored
  BY DEF Run
<1> HIDE DEF C, stored
<1>6. {x[2] : x \in C} = stored
  <2>1. {x[2] : x \in C} \subseteq stored
    BY <1>1, <1>5
  <2>2. ASSUME NEW c \in stored PROVE c \in {x[2] : x \in C}
    <3>1. <<<<"run", c[2], Bank, b>>, <<store, c[2], 0, b>>>> \in C
      BY <1>2, <1>3
    <3> QED
      BY <1>3, <3>1
  <2> QED
    BY <2>1, <2>2
<1>7. {x[1] : x \in C} = Run(AllFields, Bank, b)
  <2>1. {x[1] : x \in C} \subseteq Run(AllFields, Bank, b)
    BY <1>1, <1>5
  <2>2. ASSUME NEW c \in Run(AllFields, Bank, b) PROVE c \in {x[1] : x \in C}
    <3>1. <<<<"run", c[2], Bank, b>>, <<store, c[2], 0, b>>>> \in C
      BY <1>2, <1>4
    <3> QED
      BY <1>4, <3>1
  <2> QED
    BY <2>1, <2>2
<1>8. \A x, y \in C : y[2] = x[2] <=> y[1] = x[1]
  BY <1>1
<1> QED
  BY <1>6, <1>7, <1>8 DEF C, stored

LEMMA TaskYields ==
  ASSUME Control, Interval, InCall, NEW b \in Blocks
  PROVE  /\ Changes(AccessOf(b)) = Yields(b)
         /\ Orderly(AccessOf(b).copies, Yields(b))
         /\ Stage.op \in {"Kick", "KickTracked"} => Copy({"radiation"}, Bank, Other(Bank), b) \subseteq AccessOf(b).copies
<1> DEFINE Right(x) == Changes(x) = Yields(b) /\ Orderly(x.copies, Yields(b))
           across == Run(AllFields, Other(Bank), b)
<1>1. Bank \in {0, 1} /\ Other(Bank) \in {0, 1} /\ Other(Bank) # Bank /\ b \in Leaves
  BY BankNow DEF Other
<1>2. /\ AllFields = StateFields \cup Gravity /\ AllFields = {"gas"} \cup ({"radiation"} \cup Gravity)
      /\ AllFields \subseteq {"gas", "radiation", "gravity"} /\ "radiation" \in AllFields
  BY DEF AllFields, FieldsOf, StateFields, Gravity, GravityOf
<1>3. ASSUME NEW A, NEW B, NEW k PROVE Run(A, k, b) \cup Run(B, k, b) = Run(A \cup B, k, b)
  BY DEF Run
<1>4. ASSUME NEW r, NEW w, NEW fields, NEW k, NEW n, w \cup Run(fields, n, b) = Yields(b),
             Run(fields, k, b) \cap Yields(b) = {}
      PROVE  Right(Does(r, w, Copy(fields, k, n, b)))
  <2> DEFINE C == Copy(fields, k, n, b)
  <2>1. {x[2] : x \in C} = Run(fields, n, b) /\ \A x \in C : x[1] \in Run(fields, k, b) /\ \A y \in C : y[2] = x[2] => y[1] = x[1]
    BY CopyEnds
  <2> HIDE DEF C
  <2>2. Changes(Does(r, w, C)) = Yields(b)
    BY <1>4, <2>1 DEF Changes, Does
  <2>3. Orderly(C, Yields(b))
    BY <1>4, <2>1 DEF Orderly
  <2>4. Does(r, w, C).copies = C
    BY DEF Does
  <2>5. Right(Does(r, w, C))
    BY <2>2, <2>3, <2>4
  <2> HIDE DEF Right
  <2> QED
    BY <2>5 DEF C
<1>5. ASSUME NEW r, NEW w, w = Yields(b) PROVE Right(Does(r, w, {}))
  BY <1>5 DEF Changes, Does, Orderly
<1>6. ASSUME NEW fields \in SUBSET AllFields, NEW k, NEW c \in Run(fields, k, b)
      PROVE  c[1] = "run" /\ c[2] \in {"gas", "radiation", "gravity"} /\ c[3] = k
  BY <1>2, Cell DEF Run
<1>7. ASSUME NEW c \in Flux(0, b) \cup Flux(1, b) \cup Once({"massFlux"}, b) \cup Once({"kickWork"}, b) \cup Step({"rate"}, 0, b)
      PROVE  c[2] \notin {"gas", "radiation", "gravity"}
  <2>1. \A d \in Flux(0, b) : d[2] = "flux"
    BY Cell DEF Flux, Run
  <2>2. \A d \in Flux(1, b) : d[2] = "flux"
    BY Cell DEF Flux, Run
  <2>3. \A d \in Once({"massFlux"}, b) : d[2] = "massFlux"
    BY Cell DEF Once, Run
  <2>4. \A d \in Once({"kickWork"}, b) : d[2] = "kickWork"
    BY Cell DEF Once, Run
  <2>5. \A d \in Step({"rate"}, 0, b) : d[2] = "rate"
    BY Cell DEF Step
  <2> QED
    BY <1>7, <2>1, <2>2, <2>3, <2>4, <2>5
<1>8. ASSUME NEW fields \in SUBSET AllFields, NEW k, NEW n, n # k PROVE Run(fields, k, b) \cap Run(AllFields, n, b) = {}
  BY <1>6, <1>8
<1>9. ASSUME NEW fields \in SUBSET AllFields, NEW k
      PROVE  Run(fields, k, b) \cap (Flux(0, b) \cup Flux(1, b) \cup Once({"massFlux"}, b) \cup Once({"kickWork"}, b)
                                       \cup Step({"rate"}, 0, b)) = {}
  BY <1>6, <1>7
<1>10. /\ Gravity \in SUBSET AllFields /\ {"radiation"} \cup Gravity \in SUBSET AllFields /\ StateFields \in SUBSET AllFields
       /\ AllFields \in SUBSET AllFields
  BY <1>2
<1>11. /\ Run(Gravity, Bank, b) \cap across = {} /\ Run({"radiation"} \cup Gravity, Bank, b) \cap across = {}
       /\ Run(StateFields, Bank, b) \cap across = {} /\ Run(AllFields, Bank, b) \cap across = {}
  BY <1>1, <1>8, <1>10
<1>12. /\ Run(StateFields, Other(Bank), b) \cup Run(Gravity, Other(Bank), b) = across
       /\ Run({"gas"}, Other(Bank), b) \cup Run({"radiation"} \cup Gravity, Other(Bank), b) = across
       /\ Run(StateFields, 3, b) \cup Run(Gravity, 3, b) = Run(AllFields, 3, b)
  BY <1>2, <1>3
<1> HIDE DEF Right, across
<1>20. ASSUME Stage.op = "Backup" PROVE Right(AccessOf(b))
  <2>1. AccessOf(b) = Does({}, {}, Copy(AllFields, Bank, 2, b)) /\ Yields(b) = Run(AllFields, 2, b)
    BY <1>20, TaskOf DEF Yields
  <2>2. Run(AllFields, Bank, b) \cap Run(AllFields, 2, b) = {}
    BY <1>1, <1>8, <1>10
  <2> QED
    BY <1>4, <2>1, <2>2
<1>21. ASSUME Stage.op = "Restore" PROVE Right(AccessOf(b))
  <2>1. AccessOf(b) = Does({}, {}, Copy(AllFields, 2, Bank, b)) /\ Yields(b) = Run(AllFields, Bank, b)
    BY <1>21, TaskOf DEF Yields
  <2>2. Run(AllFields, 2, b) \cap Run(AllFields, Bank, b) = {}
    BY <1>1, <1>8, <1>10
  <2> QED
    BY <1>4, <2>1, <2>2
<1>22. ASSUME Stage.op = "Normalize" PROVE Right(AccessOf(b))
  <2>1. AccessOf(b) = Does({}, {}, IF BankOf(b) = Other(Bank) THEN {} ELSE Copy(AllFields, Bank, Other(Bank), b))
    BY <1>22, TaskOf
  <2>2. Yields(b) = IF BankOf(b) = Other(Bank) THEN {} ELSE across
    BY <1>22 DEF Yields, across
  <2>3. CASE BankOf(b) = Other(Bank)
    BY <1>5, <2>1, <2>2, <2>3
  <2>4. CASE BankOf(b) # Other(Bank)
    <3>1. AccessOf(b) = Does({}, {}, Copy(AllFields, Bank, Other(Bank), b)) /\ Yields(b) = across
      BY <2>1, <2>2, <2>4
    <3> QED
      BY <1>4, <1>11, <3>1 DEF across
  <2> QED
    BY <2>3, <2>4
<1>23. ASSUME Stage.op = "ResetFlux" PROVE Right(AccessOf(b))
  <2>1. AccessOf(b) = Does({}, Flux(1, b), {}) /\ Yields(b) = Flux(1, b)
    BY <1>23, TaskOf DEF Yields
  <2> QED
    BY <1>5, <2>1
<1>24. ASSUME Stage.op = "Timestep" PROVE Right(AccessOf(b))
  <2>1. AccessOf(b) = Does(Run(AllFields, Bank, b), {}, {}) /\ Yields(b) = {}
    BY <1>24, TaskOf DEF Yields
  <2> QED
    BY <1>5, <2>1
<1>25. ASSUME Stage.op = "Advance" PROVE Right(AccessOf(b))
  <2> DEFINE g == IF InInterval THEN Flux(1, b) ELSE {}
             w == Run(StateFields, Other(Bank), b) \cup Flux(0, b) \cup Once({"massFlux"}, b) \cup g
  <2>1. \E r : AccessOf(b) = Does(r, w, Copy(Gravity, Bank, Other(Bank), b))
    BY <1>25, TaskOf
  <2>2. Yields(b) = across \cup Flux(0, b) \cup Once({"massFlux"}, b) \cup g
    BY <1>25 DEF Yields, across
  <2>3. w \cup Run(Gravity, Other(Bank), b) = Yields(b)
    BY <1>12, <2>2
  <2>4. g \in {Flux(1, b), {}}
    OBVIOUS
  <2> HIDE DEF g
  <2>5. Run(Gravity, Bank, b) \cap Yields(b) = {}
    BY <1>9, <1>10, <1>11, <2>2, <2>4
  <2> HIDE DEF w
  <2> QED
    BY <1>4, <2>1, <2>3, <2>5
<1>26. ASSUME Stage.op = "Probe" PROVE Right(AccessOf(b))
  <2> DEFINE w == Run(StateFields, Other(Bank), b) \cup Flux(0, b) \cup Once({"massFlux"}, b) \cup Step({"rate"}, 0, b)
  <2>1. \E r : AccessOf(b) = Does(r, w, Copy(Gravity, Bank, Other(Bank), b))
    BY <1>26, TaskOf
  <2>2. Yields(b) = across \cup Flux(0, b) \cup Once({"massFlux"}, b) \cup Step({"rate"}, 0, b)
    BY <1>26 DEF Yields, across
  <2>3. w \cup Run(Gravity, Other(Bank), b) = Yields(b)
    BY <1>12, <2>2
  <2>4. Run(Gravity, Bank, b) \cap Yields(b) = {}
    BY <1>9, <1>10, <1>11, <2>2
  <2> HIDE DEF w
  <2> QED
    BY <1>4, <2>1, <2>3, <2>4
<1>27. ASSUME Stage.op = "Reflux" PROVE Right(AccessOf(b))
  <2>1. \E r : AccessOf(b) = Does(r, Run(StateFields, Other(Bank), b), {})
    BY <1>27, TaskOf
  <2>2. Yields(b) = Run(StateFields, Other(Bank), b)
    BY <1>27 DEF Yields
  <2> QED
    BY <1>5, <2>1, <2>2
<1>28. ASSUME Stage.op = "PrepareGravityEnergy" PROVE Right(AccessOf(b))
  <2> DEFINE x == <<<<"run", "gravity", Bank, b>>, <<"run", "oldGravity", 0, b>>>>
  <2>1. AccessOf(b) = Does({}, Once({"kickWork"}, b), {x})
    BY <1>28, TaskOf
  <2>2. Yields(b) = Once({"kickWork"}, b) \cup Run({"oldGravity"}, 0, b)
    BY <1>28 DEF Yields
  <2>3. Run({"oldGravity"}, 0, b) = {x[2]}
    BY DEF Run
  <2>4. Changes(AccessOf(b)) = Yields(b) /\ AccessOf(b).copies = {x}
    BY <2>1, <2>2, <2>3 DEF Changes, Does
  <2>5. \A c \in Yields(b) : c[2] \in {"kickWork", "oldGravity"}
    <3>1. \A c \in Once({"kickWork"}, b) : c[2] = "kickWork"
      BY Cell DEF Once, Run
    <3>2. \A c \in Run({"oldGravity"}, 0, b) : c[2] = "oldGravity"
      BY Cell DEF Run
    <3> QED
      BY <2>2, <3>1, <3>2
  <2>6. x[1][2] = "gravity"
    OBVIOUS
  <2> HIDE DEF x
  <2>7. x[1] \notin Yields(b)
    BY <2>5, <2>6
  <2> QED
    BY <2>4, <2>7 DEF Right, Orderly
<1>29. ASSUME Stage.op \in {"Kick", "KickTracked"}
       PROVE  Right(AccessOf(b)) /\ Copy({"radiation"}, Bank, Other(Bank), b) \subseteq AccessOf(b).copies
  <2> DEFINE k == IF Stage.op = "KickTracked" THEN Once({"kickWork"}, b) ELSE {}
             w == Run({"gas"}, Other(Bank), b) \cup k
  <2>1. PICK r : AccessOf(b) = Does(r, w, Copy({"radiation"} \cup Gravity, Bank, Other(Bank), b))
    BY <1>29, TaskOf
  <2>2. Yields(b) = across \cup k
    BY <1>29 DEF Yields, across
  <2>3. w \cup Run({"radiation"} \cup Gravity, Other(Bank), b) = Yields(b)
    BY <1>12, <2>2
  <2>4. k \in {Once({"kickWork"}, b), {}}
    OBVIOUS
  <2> HIDE DEF k
  <2>5. Run({"radiation"} \cup Gravity, Bank, b) \cap Yields(b) = {}
    BY <1>9, <1>10, <1>11, <2>2, <2>4
  <2> HIDE DEF w
  <2>6. Right(AccessOf(b))
    BY <1>4, <2>1, <2>3, <2>5
  <2>7. AccessOf(b).copies = Copy({"radiation"} \cup Gravity, Bank, Other(Bank), b)
    BY <2>1 DEF Does
  <2>8. Copy({"radiation"}, Bank, Other(Bank), b) \subseteq Copy({"radiation"} \cup Gravity, Bank, Other(Bank), b)
    BY DEF Copy
  <2> QED
    BY <2>6, <2>7, <2>8
<1>30. ASSUME Stage.op = "SolveGravity" PROVE Right(AccessOf(b))
  <2>1. \E r : AccessOf(b) = Does(r, Run(Gravity, Other(Bank), b), Copy(StateFields, Bank, Other(Bank), b))
    BY <1>30, TaskOf
  <2>2. Yields(b) = across
    BY <1>30 DEF Yields, across
  <2>3. Run(Gravity, Other(Bank), b) \cup Run(StateFields, Other(Bank), b) = across
    BY <1>12
  <2> QED
    BY <1>4, <1>11, <2>1, <2>2, <2>3
<1>31. ASSUME Stage.op = "FinishGravityEnergy" PROVE Right(AccessOf(b))
  <2>1. \E r : AccessOf(b) = Does(r, Run({"gas"}, Other(Bank), b), Copy({"radiation"} \cup Gravity, Bank, Other(Bank), b))
    <3>1. AccessOf(b) = Closing(b)
      BY <1>31, TaskOf
    <3> QED
      BY <3>1 DEF Closing, Carried
  <2>2. Yields(b) = across
    BY <1>31 DEF Yields, across
  <2>3. /\ Run({"gas"}, Other(Bank), b) \cup Run({"radiation"} \cup Gravity, Other(Bank), b) = Yields(b)
        /\ Run({"radiation"} \cup Gravity, Bank, b) \cap Yields(b) = {}
    BY <1>11, <1>12, <2>2
  <2> QED
    BY <1>4, <2>1, <2>3
<1>32. ASSUME Stage.op \in {"Save", "SaveRadiationStep"} PROVE Right(AccessOf(b))
  <2> DEFINE store == IF Stage.op = "Save" THEN "saved" ELSE "step"
             C == SavedIn(store, b)
  <2>1. AccessOf(b) = Does({}, {}, C)
    BY <1>32, TaskOf
  <2>2. Yields(b) = {store} \X AllFields \X {0} \X {b}
    BY <1>32 DEF Yields, Step
  <2>3. /\ {x[2] : x \in C} = Yields(b) /\ {x[1] : x \in C} = Run(AllFields, Bank, b)
        /\ \A x, y \in C : y[2] = x[2] => y[1] = x[1]
    BY <2>2, SavedEnds
  <2>4. \A c \in Yields(b) : c[1] = store
    BY <2>2, Cell
  <2>5. store # "run"
    OBVIOUS
  <2> HIDE DEF C, store
  <2>6. \A x \in C : x[1] \in Run(AllFields, Bank, b)
    BY <2>3
  <2>7. \A x \in C : x[1] \notin Yields(b)
    BY <1>6, <1>10, <2>4, <2>5, <2>6
  <2>8. Changes(AccessOf(b)) = Yields(b) /\ AccessOf(b).copies = C
    BY <2>1, <2>3 DEF Changes, Does
  <2>9. Orderly(C, Yields(b))
    BY <2>3, <2>7 DEF Orderly
  <2> QED
    BY <2>8, <2>9 DEF Right
<1>33. ASSUME Stage.op = "RestoreRadiationStep" PROVE Right(AccessOf(b))
  <2> DEFINE C == SavedIn("saved", b)
             R == {<<c[2], c[1]>> : c \in C}
             saved == {"saved"} \X AllFields \X {0} \X {b}
  <2>1. AccessOf(b) = Does({}, {}, R) /\ Yields(b) = Run(AllFields, Bank, b)
    BY <1>33, TaskOf DEF Yields
  <2>2. /\ {x[2] : x \in C} = saved /\ {x[1] : x \in C} = Run(AllFields, Bank, b)
        /\ \A x, y \in C : y[2] = x[2] <=> y[1] = x[1]
    BY SavedEnds
  <2>3. \A c \in saved : c[1] = "saved"
    BY Cell
  <2> HIDE DEF C, saved
  <2>4. {x[2] : x \in R} = {x[1] : x \in C}
    <3>1. {x[2] : x \in R} \subseteq {x[1] : x \in C}
      OBVIOUS
    <3>2. ASSUME NEW c \in C PROVE c[1] \in {x[2] : x \in R}
      <4>1. <<c[2], c[1]>> \in R /\ <<c[2], c[1]>>[2] = c[1]
        OBVIOUS
      <4> HIDE DEF R
      <4> QED
        BY <4>1
    <3> QED
      BY <3>1, <3>2
  <2>5. \A x \in R : x[1] \in saved /\ \A y \in R : y[2] = x[2] => y[1] = x[1]
    BY <2>2
  <2> HIDE DEF R
  <2>6. \A x \in R : x[1] \notin Yields(b)
    BY <1>6, <1>10, <2>1, <2>3, <2>5
  <2>7. Changes(AccessOf(b)) = Yields(b) /\ AccessOf(b).copies = R
    BY <2>1, <2>2, <2>4 DEF Changes, Does
  <2> QED
    BY <2>5, <2>6, <2>7 DEF Right, Orderly
<1>34. ASSUME Stage.op = "PredictRadiationStep" PROVE Right(AccessOf(b))
  <2>1. \E r : AccessOf(b) = Does(r, Step(StateFields, 1, b), {})
    BY <1>34, TaskOf
  <2>2. Yields(b) = Step(StateFields, 1, b)
    BY <1>34 DEF Yields
  <2> QED
    BY <1>5, <2>1, <2>2
<1>35. ASSUME Stage.op = "ForecastRadiationStep" PROVE Right(AccessOf(b))
  <2>1. \E r : AccessOf(b) = Does(r, Run(StateFields, 3, b), Copy(Gravity, Other(Bank), 3, b))
    BY <1>35, TaskOf
  <2>2. Yields(b) = Run(AllFields, 3, b)
    BY <1>35 DEF Yields
  <2>3. Run(Gravity, Other(Bank), b) \cap Run(AllFields, 3, b) = {}
    BY <1>1, <1>8, <1>10
  <2> QED
    BY <1>4, <1>12, <2>1, <2>2, <2>3
<1>36. ASSUME Stage.op \in {"FinishRadiationStep", "CoupleRadiation"} PROVE Right(AccessOf(b))
  <2>1. \E r : AccessOf(b) = Does(r, Run(StateFields, Other(Bank), b), Copy(Gravity, Bank, Other(Bank), b))
    BY <1>36, TaskOf
  <2>2. Yields(b) = across
    BY <1>36 DEF Yields, across
  <2> QED
    BY <1>4, <1>11, <1>12, <2>1, <2>2
<1>37. Stage.op \in Ops
  BY StageNow DEF StageType
<1>38. Right(AccessOf(b))
  BY <1>20, <1>21, <1>22, <1>23, <1>24, <1>25, <1>26, <1>27, <1>28, <1>29, <1>30, <1>31, <1>32, <1>33, <1>34, <1>35, <1>36,
     <1>37 DEF Ops
<1> QED
  BY <1>29, <1>38 DEF Right
-----------------------------------------------------------------------------
(***************************************************************************)
(* What must be whole. A block's own bank holds its state while a call runs  *)
(* or none does, the next bank what it has come to when it is ahead; the     *)
(* backups hold what a rollback restores; and every fact promises cells of   *)
(* the blocks it is about.                                                   *)
(***************************************************************************)
OwnBank(b) == IF InInterval THEN levels[TimeLevel(b)].bank ELSE bank
About(level, b) == level < 0 \/ TimeLevel(b) = level
Promises == {"ahead", "flux", "register", "step", "midpoint", "rate", "work", "mass"}
Promised(kind, b) ==
  CASE kind = "ahead" -> Run(AllFields, Other(OwnBank(b)), b)
    [] kind = "flux" -> Flux(0, b)
    [] kind = "register" -> Flux(1, b)
    [] kind = "step" -> Step(AllFields, 0, b)
    [] kind = "midpoint" -> Step(StateFields, 1, b)
    [] kind = "rate" -> Step({"rate"}, 0, b)
    [] kind = "work" -> Once({"oldGravity", "kickWork"}, b)
    [] kind = "mass" -> Once({"massFlux"}, b)
Pledged(b, c) ==
  \E kind \in Promises : \E level \in Int : About(level, b) /\ Here(<<kind, level>>) /\ c \in Promised(kind, b)

Saved(b) == {"saved"} \X AllFields \X {0} \X {b}
Current(b, c) == mode \in {"idle", "running"} /\ c \in Run(AllFields, OwnBank(b), b)
Coming(b, c) ==
  mode = "running" /\ InInterval /\ levels[TimeLevel(b)].pending /\ c \in Run(StateFields, NextBank(b), b)
Reserved(b, c) == (mode = "restoring" \/ (mode = "running" /\ InInterval)) /\ c \in Run(AllFields, 2, b)
Secured(b, c) ==
  (mode = "recovering" \/ (mode \in {"running", "restoring"} /\ BackupHeld)) /\ c \in Saved(b)
Owed(c) ==
  \E b \in Leaves : \/ Current(b, c) \/ Coming(b, c) \/ Reserved(b, c) \/ Secured(b, c)
                    \/ mode = "running" /\ Pledged(b, c)

(* A cell is whole but for the task that is at it.                         *)
Tearing(c) == \E b \in DOMAIN access : tasks[b] \in {"open", "thrown"} /\ c \in Changes(access[b])
Stands == \A c \in Allocated : Owed(c) => data[c] # 0 \/ Tearing(c)
Completed ==
  \A b \in DOMAIN access : tasks[b] = "done" =>
    /\ \A c \in Changes(access[b]) : data[c] # 0
    /\ \A x \in access[b].copies : data[x[2]] = data[x[1]]
Sound ==
  \A b \in DOMAIN access :
    /\ \A c \in Touched(access[b]) : Owed(c)
    /\ Changes(access[b]) = Yields(b) /\ Orderly(access[b].copies, Yields(b))
    /\ Stage.op \in {"Kick", "KickTracked"} => Copy({"radiation"}, Bank, Other(Bank), b) \subseteq access[b].copies
Listing ==
  /\ access # <<>> => DOMAIN access = Blocks /\ \A b \in Blocks : tasks[b] # "idle"
  /\ ~InCall => access = <<>>

(* Where a stage works, and a task. *)
LEMMA Placed ==
  ASSUME Control, Interval, Where, InCall, Leaves # {}
  PROVE  /\ Stage.level \in Int /\ Stage.at \in Nat /\ Stage.op \in Ops
         /\ Stage.level >= 0 \/ Stage.op = "Normalize" => InInterval
         /\ Stage.level < 0 => Bank = bank
         /\ Stage.level < 0 /\ Stage.op \notin {"Normalize", "PredictRadiationStep"} => ~InInterval
         /\ Stage.op \in Global => Stage.level < 0
<1>1. Stage \in StageType /\ Stage.level \in Int /\ Stage.at \in Nat /\ Stage.op \in Ops
  BY StageNow DEF StageType
<1>4. ASSUME Stage.level >= 0 \/ Stage.op = "Normalize" PROVE InInterval
  <2>1. mode = "running"
    <3>1. CASE mode = "restoring"
      BY <1>4, <3>1 DEF Stage, StageIn, All, At
    <3>2. CASE mode = "recovering"
      BY <1>4, <3>2 DEF Stage, StageIn, All, At
    <3> QED
      BY <3>1, <3>2 DEF InCall
  <2>2. Fact("open") \in Needs(option, Stage)
    BY <1>4 DEF Needs
  <2> QED
    BY <2>1, <2>2, Ready DEF Where
<1>5. ASSUME Stage.level < 0, Stage.op \notin {"Normalize", "PredictRadiationStep"} PROVE ~InInterval
  <2>1. CASE mode = "running"
    <3>1. Fact("closed") \in Needs(option, Stage)
      BY <1>1, <1>5 DEF Needs
    <3> QED
      BY <2>1, <3>1, Ready DEF Where
  <2>2. CASE mode # "running"
    BY <2>2 DEF Interval, InCall
  <2> QED
    BY <2>1, <2>2
<1>6. ASSUME Stage.op \in Global PROVE Stage.level < 0
  <2> SUFFICES ASSUME Stage.level >= 0 PROVE FALSE
    BY <1>1
  <2>1. InInterval
    BY <1>4
  <2>2. mode = "running"
    BY <2>1 DEF Interval, InCall
  <2>3. Fact("closed") \in Needs(option, Stage)
    BY <1>6 DEF Needs
  <2> QED
    BY <2>1, <2>2, <2>3, Ready DEF Where
<1>8. Stage.level < 0 => Bank = bank
  BY <1>1 DEF Bank
<1> QED
  BY <1>1, <1>4, <1>5, <1>6, <1>8

LEMMA Situated ==
  ASSUME Control, Interval, Where, InCall, NEW b \in Blocks
  PROVE  /\ b \in Leaves /\ BankOf(b) = OwnBank(b) /\ OwnBank(b) \in {0, 1} /\ TimeLevel(b) \in TimeLevels(option)
         /\ Stage.level >= 0 => Stage.level = TimeLevel(b)
         /\ Stage.op \notin {"Normalize", "PredictRadiationStep"} => Bank = OwnBank(b)
<1>1. b \in Leaves /\ Leaves # {} /\ TimeLevel(b) \in TimeLevels(option)
  BY DEF Blocks, TimeLevel, TimeLevels
<1>2. BankOf(b) = OwnBank(b) /\ OwnBank(b) \in {0, 1}
  BY <1>1 DEF BankOf, OwnBank, Bank, Interval, LevelType, Control
<1>3. Stage.level \in Int /\ (Stage.level >= 0 => Stage.level = TimeLevel(b))
  BY <1>1, Placed DEF Blocks
<1>4. ASSUME Stage.op \notin {"Normalize", "PredictRadiationStep"} PROVE Bank = OwnBank(b)
  <2>1. CASE Stage.level >= 0
    BY <1>1, <1>3, <2>1, Placed DEF Bank, OwnBank
  <2>2. CASE Stage.level < 0
    BY <1>1, <1>4, <2>2, Placed DEF OwnBank
  <2> QED
    BY <1>3, <2>1, <2>2
<1> QED
  BY <1>1, <1>2, <1>3, <1>4

(* The bank of any block, the stage's or not. *)
LEMMA OwnBanks ==
  ASSUME Control, Interval, NEW b \in Leaves
  PROVE  /\ OwnBank(b) \in {0, 1} /\ Other(OwnBank(b)) \in {0, 1} /\ Other(OwnBank(b)) # OwnBank(b)
         /\ TimeLevel(b) \in TimeLevels(option) /\ TimeLevel(b) \in Nat
         /\ InInterval => levels[TimeLevel(b)] \in LevelType
         /\ BankOf(b) = OwnBank(b)
<1>1. TimeLevel(b) \in TimeLevels(option) /\ TimeLevels(option) \in SUBSET Nat
  BY LevelsOf DEF TimeLevel, TimeLevels, Control
<1>2. InInterval => levels[TimeLevel(b)] \in LevelType
  BY <1>1 DEF Interval
<1>3. OwnBank(b) \in {0, 1} /\ BankOf(b) = OwnBank(b)
  BY <1>2 DEF OwnBank, BankOf, Bank, Control, LevelType
<1> QED
  BY <1>1, <1>2, <1>3 DEF Other

(* What publication does to a block's own bank, and to its next one.       *)
LEMMA Onward ==
  ASSUME Control, Interval, Grants, Where, mode = "running", Published, option' = option, NEW b \in Leaves
  PROVE  /\ Stage.op = "Normalize" => OwnBank(b)' = Other(bank) /\ ~InInterval'
         /\ Stage.op # "Normalize" =>
              OwnBank(b)' = IF Stage.op \in Flips /\ b \in Blocks THEN Other(OwnBank(b)) ELSE OwnBank(b)
         /\ Stage.op \notin {"Backup", "Normalize"} => InInterval' = InInterval
         /\ InInterval' /\ levels[TimeLevel(b)].pending' =>
              \/ /\ InInterval /\ levels[TimeLevel(b)].pending /\ NextBank(b)' = NextBank(b)
                 /\ Stage.op \notin {"Backup", "Normalize"} /\ ~(Stage.op \in Flips /\ b \in Blocks)
              \/ Stage.op = "Advance" /\ b \in Blocks /\ NextBank(b)' = Other(OwnBank(b))
              \/ Stage.op = "ForecastRadiationStep" /\ b \in Blocks /\ NextBank(b)' = 3
<1> DEFINE l == Stage.level
           k == TimeLevel(b)
<1>1. InCall /\ Leaves # {}
  BY DEF InCall
<1>2. /\ Stage.level \in Int /\ Stage.at \in Nat /\ Stage.op \in Ops
      /\ Stage.level >= 0 \/ Stage.op = "Normalize" => InInterval
      /\ Stage.level < 0 => Bank = bank
      /\ Stage.level < 0 /\ Stage.op \notin {"Normalize", "PredictRadiationStep"} => ~InInterval
      /\ Stage.op \in Global => Stage.level < 0
  BY <1>1, Placed
<1>3. /\ k \in TimeLevels(option) /\ k \in Nat /\ OwnBank(b) \in {0, 1}
      /\ InInterval => levels \in [TimeLevels(option) -> LevelType]
  BY OwnBanks DEF Interval
<1>4. k' = k /\ TimeLevels(option)' = TimeLevels(option)
  BY DEF TimeLevel, TimeLevels, TimeLevelOf
<1>5. b \in Blocks <=> l < 0 \/ k = l
  BY DEF Blocks
<1>6. OwnBank(b)' = IF levels' # <<>> THEN levels'[k].bank ELSE bank'
  BY <1>4 DEF OwnBank, InInterval
<1>7. NextBank(b)' = IF levels'[k].predicted THEN 3 ELSE Other(levels'[k].bank)
  BY <1>4 DEF NextBank, Other
<1>8. ASSUME levels' \in [TimeLevels(option) -> LevelType] PROVE levels' # <<>>
  <2>1. DOMAIN levels' # {} /\ DOMAIN <<>> = {}
    BY <1>3, <1>8
  <2> QED
    BY <2>1
<1>9. ASSUME Stage.op = "Normalize" PROVE OwnBank(b)' = Other(bank) /\ levels' = <<>>
  <2>1. levels' = <<>>
    BY <1>9, LevelsNext
  <2>2. bank' = Other(bank)
    BY <1>9 DEF Published, Flips, FlipsLevel
  <2> QED
    BY <1>6, <2>1, <2>2
<1>10. ASSUME Stage.op = "Backup"
       PROVE  OwnBank(b)' = OwnBank(b) /\ ~levels'[k].pending
  <2>1. levels' = [m \in TimeLevels(option) |-> [bank |-> bank, begin |-> 0, pending |-> FALSE, predicted |-> FALSE]]
    BY <1>10, LevelsNext
  <2>2. levels'[k].bank = bank /\ ~levels'[k].pending
    BY <1>3, <2>1
  <2>3. levels' # <<>>
    BY <1>1, <1>8, <1>10, Publication
  <2>4. ~InInterval
    BY <1>2, <1>10 DEF Global
  <2> QED
    BY <1>6, <2>2, <2>3, <2>4 DEF OwnBank
<1>11. ASSUME ~InInterval, Stage.op \notin {"Backup", "Normalize"}
       PROVE  /\ levels' = <<>>
              /\ OwnBank(b)' = IF Stage.op \in Flips /\ b \in Blocks THEN Other(OwnBank(b)) ELSE OwnBank(b)
  <2>1. levels' = <<>>
    BY <1>1, <1>11, Publication
  <2>2. b \in Blocks
    BY <1>2, <1>5, <1>11
  <2>3. bank' = IF Stage.op \in Flips THEN Other(bank) ELSE bank
    BY <1>11 DEF Published, FlipsLevel
  <2> QED
    BY <1>6, <1>11, <2>1, <2>2, <2>3 DEF OwnBank
<1>12. ASSUME InInterval, Stage.op \notin {"Backup", "Normalize"}
       PROVE  /\ levels' # <<>>
              /\ OwnBank(b)' = IF Stage.op \in Flips /\ b \in Blocks THEN Other(OwnBank(b)) ELSE OwnBank(b)
              /\ levels'[k].pending =>
                   \/ levels[k].pending /\ NextBank(b)' = NextBank(b) /\ ~(Stage.op \in Flips /\ b \in Blocks)
                   \/ Stage.op = "Advance" /\ b \in Blocks /\ NextBank(b)' = Other(OwnBank(b))
                   \/ Stage.op = "ForecastRadiationStep" /\ b \in Blocks /\ NextBank(b)' = 3
  <2>1. levels \in [TimeLevels(option) -> LevelType] /\ levels' # <<>>
    BY <1>1, <1>3, <1>8, <1>12, Publication
  <2>2. Stage.op # "PredictRadiationStep" => l >= 0 /\ (b \in Blocks <=> k = l)
    BY <1>2, <1>3, <1>5, <1>12
  <2>3. OwnBank(b) = levels[k].bank /\ NextBank(b) = IF levels[k].predicted THEN 3 ELSE Other(levels[k].bank)
    BY <1>12 DEF OwnBank, NextBank
  <2> DEFINE opened == [m \in TimeLevels(option) |-> [bank |-> bank, begin |-> 0, pending |-> FALSE, predicted |-> FALSE]]
             timed == [levels EXCEPT ![l].begin = Stage.at]
             advanced == [levels EXCEPT ![l].pending = ~option.coupled]
             forecast == [levels EXCEPT ![l].pending = TRUE, ![l].predicted = TRUE]
             flipped == [levels EXCEPT ![l].pending = FALSE, ![l].bank = Other(Bank)]
  <2>4. levels' = CASE Stage.op = "Backup" -> opened
                    [] Stage.op = "Normalize" -> <<>>
                    [] Stage.op = "Timestep" -> timed
                    [] Stage.op = "Advance" /\ InInterval -> advanced
                    [] Stage.op = "ForecastRadiationStep" -> forecast
                    [] FlipsLevel -> flipped
                    [] OTHER -> levels
    BY Zenon DEF Published
  <2>5. FlipsLevel <=> Stage.op \in Flips
    BY <1>12 DEF FlipsLevel
  <2>6. {"Timestep", "Advance", "ForecastRadiationStep", "PredictRadiationStep"} \cap Flips = {}
    BY DEF Flips
  <2> HIDE DEF opened, timed, advanced, forecast, flipped
  <2>7. /\ Stage.op = "Timestep" => levels' = timed
        /\ Stage.op = "Advance" => levels' = advanced
        /\ Stage.op = "ForecastRadiationStep" => levels' = forecast
        /\ Stage.op \in Flips => levels' = flipped
        /\ Stage.op \notin {"Timestep", "Advance", "ForecastRadiationStep"} \cup Flips => levels' = levels
    BY <1>12, <2>4, <2>5, <2>6
  <2> DEFINE Same(m) == /\ levels'[m].bank = levels[m].bank /\ levels'[m].predicted = levels[m].predicted
                        /\ levels'[m].pending = levels[m].pending
  <2>8. ASSUME Stage.op = "Timestep" PROVE Same(k)
    <3>1. levels' = [levels EXCEPT ![l].begin = Stage.at]
      BY <2>7, <2>8 DEF timed
    <3> QED
      BY <1>3, <2>1, <3>1 DEF LevelType
  <2>9. ASSUME Stage.op = "Advance"
        PROVE  IF k = l THEN /\ levels'[k].bank = levels[k].bank /\ levels'[k].predicted = levels[k].predicted
                             /\ levels'[k].pending = ~option.coupled
               ELSE Same(k)
    <3>1. levels' = [levels EXCEPT ![l].pending = ~option.coupled]
      BY <2>7, <2>9 DEF advanced
    <3> QED
      BY <1>3, <2>1, <3>1 DEF LevelType
  <2>10. ASSUME Stage.op = "ForecastRadiationStep"
         PROVE  IF k = l THEN levels'[k].bank = levels[k].bank /\ levels'[k].predicted ELSE Same(k)
    <3>1. levels' = [levels EXCEPT ![l].pending = TRUE, ![l].predicted = TRUE]
      BY <2>7, <2>10 DEF forecast
    <3> QED
      BY <1>3, <2>1, <3>1 DEF LevelType
  <2>11. ASSUME Stage.op \in Flips
         PROVE  IF k = l THEN levels'[k].bank = Other(Bank) /\ ~levels'[k].pending ELSE Same(k)
    <3>1. levels' = [levels EXCEPT ![l].pending = FALSE, ![l].bank = Other(Bank)]
      BY <2>7, <2>11 DEF flipped
    <3> QED
      BY <1>3, <2>1, <3>1 DEF LevelType
  <2>12. Stage.op \notin {"Timestep", "Advance", "ForecastRadiationStep"} \cup Flips => Same(k)
    BY <2>7
  <2>13. OwnBank(b)' = levels'[k].bank
    BY <1>6, <2>1
  <2>14. ASSUME Same(k)
         PROVE  OwnBank(b)' = OwnBank(b) /\ NextBank(b)' = NextBank(b) /\ levels'[k].pending = levels[k].pending
    BY <1>7, <2>3, <2>13, <2>14
  <2> HIDE DEF Same, k, l
  <2>15. CASE Stage.op = "Advance" /\ k = l
    <3>1. OwnBank(b)' = OwnBank(b) /\ b \in Blocks /\ Stage.op \notin Flips
      BY <2>2, <2>3, <2>6, <2>9, <2>13, <2>15
    <3>2. levels'[k].pending => NextBank(b)' = Other(OwnBank(b))
      <4>1. levels'[k].pending = ~option.coupled /\ levels'[k].predicted = levels[k].predicted
        BY <2>9, <2>15
      <4>2. levels[k].predicted => option.coupled
        BY <1>3, <1>12 DEF Grants
      <4> QED
        BY <1>7, <2>13, <3>1, <4>1, <4>2
    <3> QED
      BY <2>1, <2>15, <3>1, <3>2
  <2>16. CASE Stage.op = "ForecastRadiationStep" /\ k = l
    <3>1. b \in Blocks /\ Stage.op \notin Flips
      BY <2>2, <2>6, <2>16
    <3> QED
      BY <1>7, <2>1, <2>3, <2>10, <2>13, <2>16, <3>1
  <2>17. CASE Stage.op \in Flips /\ k = l
    <3>1. b \in Blocks /\ Bank = OwnBank(b)
      <4>1. b \in Blocks /\ Stage.op # "PredictRadiationStep"
        BY <2>2, <2>6, <2>17
      <4> QED
        BY <1>1, <1>12, <4>1, Situated
    <3> QED
      BY <2>1, <2>11, <2>13, <2>17, <3>1
  <2>18. CASE Stage.op = "Timestep" \/ Stage.op \notin {"Timestep", "Advance", "ForecastRadiationStep"} \cup Flips
    BY <2>1, <2>6, <2>8, <2>12, <2>14, <2>18
  <2>19. CASE Stage.op \in {"Advance", "ForecastRadiationStep"} \cup Flips /\ k # l
    <3>1. Same(k) /\ b \notin Blocks
      <4>1. Stage.op # "PredictRadiationStep"
        BY <2>6, <2>19
      <4> QED
        BY <2>2, <2>9, <2>10, <2>11, <2>19, <4>1
    <3> QED
      BY <2>1, <2>14, <3>1
  <2> QED
    BY <2>15, <2>16, <2>17, <2>18, <2>19
<1>13. Stage.op \notin {"Backup", "Normalize"} => InInterval' = InInterval
  BY <1>11, <1>12 DEF InInterval
<1>14. levels[TimeLevel(b)].pending' = levels'[k].pending
  BY <1>4
<1>15. CASE Stage.op = "Normalize"
  BY <1>9, <1>15 DEF InInterval
<1>16. CASE Stage.op = "Backup"
  <2>1. Stage.op \notin Flips
    BY <1>16 DEF Flips
  <2> QED
    BY <1>10, <1>14, <1>16, <2>1
<1>17. CASE ~InInterval /\ Stage.op \notin {"Backup", "Normalize"}
  BY <1>11, <1>13, <1>17
<1>18. CASE InInterval /\ Stage.op \notin {"Backup", "Normalize"}
  BY <1>12, <1>13, <1>14, <1>18
<1> QED
  BY <1>15, <1>16, <1>17, <1>18

(* What a stage leaves without use. *)
LEMMA SpentCells ==
  ASSUME NEW c \in Spent
  PROVE  \/ Stage.op \in Flips /\ c[1] = "run" /\ c[2] \in AllFields /\ c[3] = Bank /\ c[4] \in Blocks
         \/ Stage.op = "Reflux" /\ c[1] = "run" /\ c[2] = "flux" /\ c[3] = 0 /\ c[4] \in Blocks
         \/ Stage.op = "Reflux" /\ c[1] = "run" /\ c[2] = "flux" /\ c[3] = 1 /\ TimeLevel(c[4]) > Stage.level
         \/ Stage.op = "Reflux" /\ InInterval /\ c[1] = "run" /\ c[2] \in AllFields /\ c[3] = 3 /\ c[4] \in Blocks
         \/ Stage.op = "Advance" /\ InInterval /\ c[1] = "step" /\ c[2] \in StateFields /\ c[3] = 1
         \/ Stage.op = "FinishRadiationStep" /\ c[1] = "step" /\ c[2] \in AllFields /\ c[3] = 0 /\ c[4] \in Blocks
         \/ Stage.op = "FinishGravityEnergy" /\ c[1] = "run" /\ c[2] \in Registers(option) /\ c[3] = 0
<1> DEFINE finer == {b \in Leaves : TimeLevel(b) > Stage.level}
           s1 == Dropped(Stage.op \in Flips, "run", AllFields, Bank, Blocks)
           s2 == Dropped(Stage.op = "Reflux", "run", {"flux"}, 0, Blocks)
           s3 == Dropped(Stage.op = "Reflux", "run", {"flux"}, 1, finer)
           s4 == Dropped(Stage.op = "Reflux" /\ option.coupled /\ InInterval, "run", AllFields, 3, Blocks)
           s5 == Dropped(Stage.op = "Advance" /\ option.coupled /\ InInterval, "step", StateFields, 1, Leaves)
           s6 == Dropped(Stage.op = "FinishRadiationStep", "step", AllFields, 0, Blocks)
           s7 == Dropped(Stage.op = "FinishGravityEnergy", "run", Registers(option), 0, Blocks)
<1>1. c \in s1 \cup s2 \cup s3 \cup s4 \cup s5 \cup s6 \cup s7
  BY DEF Spent
<1>3. c \in s1 => Stage.op \in Flips /\ c[1] = "run" /\ c[2] \in AllFields /\ c[3] = Bank /\ c[4] \in Blocks
  BY DEF Dropped
<1>4. c \in s2 => Stage.op = "Reflux" /\ c[1] = "run" /\ c[2] = "flux" /\ c[3] = 0 /\ c[4] \in Blocks
  BY DEF Dropped
<1>5. c \in s3 => Stage.op = "Reflux" /\ c[1] = "run" /\ c[2] = "flux" /\ c[3] = 1 /\ c[4] \in finer
  BY DEF Dropped
<1>6. c \in s4 => Stage.op = "Reflux" /\ InInterval /\ c[1] = "run" /\ c[2] \in AllFields /\ c[3] = 3 /\ c[4] \in Blocks
  BY DEF Dropped
<1>7. c \in s5 => Stage.op = "Advance" /\ InInterval /\ c[1] = "step" /\ c[2] \in StateFields /\ c[3] = 1
  BY DEF Dropped
<1>8. c \in s6 => Stage.op = "FinishRadiationStep" /\ c[1] = "step" /\ c[2] \in AllFields /\ c[3] = 0 /\ c[4] \in Blocks
  BY DEF Dropped
<1>9. c \in s7 => Stage.op = "FinishGravityEnergy" /\ c[1] = "run" /\ c[2] \in Registers(option) /\ c[3] = 0
  BY DEF Dropped
<1> HIDE DEF s1, s2, s3, s4, s5, s6, s7
<1> QED
  BY <1>1, <1>3, <1>4, <1>5, <1>6, <1>7, <1>8, <1>9

(* The names of the fields and of the stores keep cells apart. *)
LEMMA Kinships ==
  /\ AllFields \in {StateFields, StateFields \cup {"gravity"}} /\ StateFields = {"gas", "radiation"}
  /\ AllFields \subseteq {"gas", "radiation", "gravity"} /\ StateFields \subseteq AllFields
  /\ AllFields = StateFields \cup Gravity /\ Gravity \subseteq {"gravity"}
  /\ Registers(option) \subseteq {"massFlux", "oldGravity", "kickWork"}
BY DEF AllFields, FieldsOf, StateFields, Gravity, GravityOf, Registers

(* A block's own bank is whole at the end of the stage.                    *)
LEMMA CurrentNext ==
  ASSUME Control, Interval, Grants, Where, mode = "running", Published, option' = option, NEW b \in Leaves,
         NEW c \in Run(AllFields, OwnBank(b)', b)
  PROVE  c \notin Spent /\ (Owed(c) \/ \E d \in Blocks : c \in Yields(d))
<1>1. InCall /\ Leaves # {}
  BY DEF InCall
<1>2. /\ Stage.level \in Int /\ Stage.op \in Ops
      /\ Stage.level >= 0 \/ Stage.op = "Normalize" => InInterval
      /\ Stage.level < 0 => Bank = bank
      /\ Stage.op \in Global => Stage.level < 0
  BY <1>1, Placed
<1>3. /\ OwnBank(b) \in {0, 1} /\ Other(OwnBank(b)) \in {0, 1} /\ Other(OwnBank(b)) # OwnBank(b) /\ BankOf(b) = OwnBank(b)
  BY OwnBanks
<1>4. /\ Stage.op = "Normalize" => OwnBank(b)' = Other(bank)
      /\ Stage.op # "Normalize" =>
           OwnBank(b)' = IF Stage.op \in Flips /\ b \in Blocks THEN Other(OwnBank(b)) ELSE OwnBank(b)
  BY Onward
<1>5. c[1] = "run" /\ c[2] \in AllFields /\ c[3] = OwnBank(b)' /\ c[4] = b
  BY Cell DEF Run
<1>6. OwnBank(b)' \in {0, 1}
  BY <1>3, <1>4 DEF Other, Control
<1>7. ASSUME b \in Blocks PROVE Stage.op \notin {"Normalize", "PredictRadiationStep"} => Bank = OwnBank(b)
  BY <1>1, <1>7, Situated
<1>8. "PredictRadiationStep" \notin Flips
  BY DEF Flips
<1>9. c \notin Spent
  <2> SUFFICES ASSUME c \in Spent PROVE FALSE
    OBVIOUS
  <2>1. Stage.op \in Flips /\ c[3] = Bank /\ c[4] \in Blocks
    BY <1>5, <1>6, SpentCells, Kinships
  <2>2. CASE Stage.op = "Normalize"
    <3>1. Bank = bank /\ Other(bank) # bank
      BY <1>2, <2>2 DEF Global, Control, Other
    <3> QED
      BY <1>4, <1>5, <2>1, <2>2, <3>1
  <2>3. CASE Stage.op # "Normalize"
    BY <1>3, <1>4, <1>5, <1>7, <1>8, <2>1, <2>3
  <2> QED
    BY <2>2, <2>3
<1>10. ASSUME OwnBank(b)' = OwnBank(b) PROVE Owed(c)
  BY <1>10 DEF Owed, Current
<1>11. ASSUME OwnBank(b)' # OwnBank(b) PROVE Owed(c) \/ \E d \in Blocks : c \in Yields(d)
  <2>1. CASE Stage.op = "Normalize"
    <3>1. Bank = bank /\ b \in Blocks
      BY <1>2, <2>1 DEF Global, Blocks
    <3>2. Yields(b) = Run(AllFields, Other(Bank), b)
      BY <1>3, <1>4, <1>11, <2>1, <3>1 DEF Yields
    <3> QED
      BY <1>4, <2>1, <3>1, <3>2
  <2>2. CASE Stage.op # "Normalize"
    <3>1. Stage.op \in Flips /\ b \in Blocks /\ OwnBank(b)' = Other(OwnBank(b)) /\ Bank = OwnBank(b)
      BY <1>4, <1>7, <1>8, <1>11, <2>2
    <3>2. CASE Stage.op = "Reflux"
      <4>1. Yields(b) = Run(StateFields, Other(Bank), b)
        BY <3>2 DEF Yields
      <4>2. <<"ahead", Stage.level>> \in Needs(option, Stage)
        BY <3>2 DEF Needs
      <4>3. Here(<<"ahead", Stage.level>>)
        BY <4>2, Ready
      <4>4. About(Stage.level, b)
        BY <3>1 DEF Blocks, About
      <4>5. c \in Promised("ahead", b)
        BY <3>1 DEF Promised
      <4>6. Pledged(b, c)
        BY <1>2, <4>3, <4>4, <4>5 DEF Pledged, Promises
      <4> QED
        BY <4>6 DEF Owed
    <3>3. CASE Stage.op = "KickTracked"
      <4>1. Yields(b) = Run(AllFields, Other(Bank), b) \cup Once({"kickWork"}, b)
        BY <3>3 DEF Yields
      <4> QED
        BY <3>1, <4>1
    <3>4. CASE Stage.op \notin {"Reflux", "KickTracked"}
      <4>1. Yields(b) = Run(AllFields, Other(Bank), b)
        BY <2>2, <3>1, <3>4 DEF Yields, Flips
      <4> QED
        BY <3>1, <4>1
    <3> QED
      BY <3>2, <3>3, <3>4
  <2> QED
    BY <2>1, <2>2
<1> QED
  BY <1>9, <1>10, <1>11

LEMMA PromisedCells ==
  ASSUME NEW kind \in Promises, NEW b, NEW c \in Promised(kind, b)
  PROVE  /\ c[4] = b
         /\ kind = "ahead" => c[1] = "run" /\ c[2] \in AllFields /\ c[3] = Other(OwnBank(b))
         /\ kind = "flux" => c[1] = "run" /\ c[2] = "flux" /\ c[3] = 0
         /\ kind = "register" => c[1] = "run" /\ c[2] = "flux" /\ c[3] = 1
         /\ kind = "step" => c[1] = "step" /\ c[2] \in AllFields /\ c[3] = 0
         /\ kind = "midpoint" => c[1] = "step" /\ c[2] \in StateFields /\ c[3] = 1
         /\ kind = "rate" => c[1] = "step" /\ c[2] = "rate" /\ c[3] = 0
         /\ kind = "work" => c[1] = "run" /\ c[2] \in {"oldGravity", "kickWork"} /\ c[3] = 0
         /\ kind = "mass" => c[1] = "run" /\ c[2] = "massFlux" /\ c[3] = 0
<1>1. CASE kind = "ahead"
  <2>1. c \in Run(AllFields, Other(OwnBank(b)), b)
    BY <1>1 DEF Promised
  <2> QED
    BY <1>1, <2>1, Cell DEF Run
<1>2. CASE kind = "flux"
  <2>1. c \in Run({"flux"}, 0, b)
    BY <1>2 DEF Promised, Flux
  <2> QED
    BY <1>2, <2>1, Cell DEF Run
<1>3. CASE kind = "register"
  <2>1. c \in Run({"flux"}, 1, b)
    BY <1>3 DEF Promised, Flux
  <2> QED
    BY <1>3, <2>1, Cell DEF Run
<1>4. CASE kind = "step"
  <2>1. c \in Step(AllFields, 0, b)
    BY <1>4 DEF Promised
  <2> QED
    BY <1>4, <2>1, Cell DEF Step
<1>5. CASE kind = "midpoint"
  <2>1. c \in Step(StateFields, 1, b)
    BY <1>5 DEF Promised
  <2> QED
    BY <1>5, <2>1, Cell DEF Step
<1>6. CASE kind = "rate"
  <2>1. c \in Step({"rate"}, 0, b)
    BY <1>6 DEF Promised
  <2> QED
    BY <1>6, <2>1, Cell DEF Step
<1>7. CASE kind = "work"
  <2>1. c \in Run({"oldGravity", "kickWork"} \cap Registers(option), 0, b)
    BY <1>7 DEF Promised, Once
  <2> QED
    BY <1>7, <2>1, Cell DEF Run
<1>8. CASE kind = "mass"
  <2>1. c \in Run({"massFlux"} \cap Registers(option), 0, b)
    BY <1>8 DEF Promised, Once
  <2> QED
    BY <1>8, <2>1, Cell DEF Run
<1> QED
  BY <1>1, <1>2, <1>3, <1>4, <1>5, <1>6, <1>7, <1>8 DEF Promises

(* What a stage promises, it has made; what it does not break, was there.  *)
LEMMA PledgedNext ==
  ASSUME Control, Interval, Grants, Where, mode = "running", Published, option' = option, pc' = pc + 1,
         NEW b \in Leaves, NEW c, Pledged(b, c)'
  PROVE  c \notin Spent /\ (Owed(c) \/ \E d \in Blocks : c \in Yields(d))
<1>1. InCall /\ Leaves # {} /\ pc \in Nat /\ pc >= 1 /\ Stage = Plan[pc]
  BY StageNow DEF InCall, Control
<1>2. /\ Stage.level \in Int /\ Stage.op \in Ops
      /\ Stage.level >= 0 \/ Stage.op = "Normalize" => InInterval
      /\ Stage.level < 0 => Bank = bank
      /\ Stage.level < 0 /\ Stage.op \notin {"Normalize", "PredictRadiationStep"} => ~InInterval
      /\ Stage.op \in Global => Stage.level < 0
  BY <1>1, Placed
<1>3. /\ OwnBank(b) \in {0, 1} /\ Other(OwnBank(b)) \in {0, 1} /\ Other(OwnBank(b)) # OwnBank(b)
      /\ TimeLevel(b) \in Nat
  BY OwnBanks
<1>4. Stage.op # "Normalize" =>
        OwnBank(b)' = IF Stage.op \in Flips /\ b \in Blocks THEN Other(OwnBank(b)) ELSE OwnBank(b)
  BY Onward
<1>5. \A level : About(level, b)' <=> About(level, b)
  BY DEF About, TimeLevel
<1>6. PICK kind \in Promises, level \in Int : About(level, b) /\ Here(<<kind, level>>)' /\ c \in Promised(kind, b)'
  BY <1>5 DEF Pledged
<1>7. Registers(option)' = Registers(option) /\ AllFields' = AllFields
  BY DEF Registers, AllFields
<1>8. kind # "ahead" => Promised(kind, b)' = Promised(kind, b)
  BY <1>6, <1>7 DEF Promised, Promises, Once, Run, Step, Flux
<1>9. kind = "ahead" => Promised(kind, b)' = Run(AllFields, Other(OwnBank(b)'), b)
  BY <1>7 DEF Promised, Run, Other
<1>10. (Here(<<kind, level>>) /\ Survives(Stage, <<kind, level>>)) \/ <<kind, level>> \in Makes(Stage)
  <2>1. Plan' = Plan
    BY DEF Plan
  <2>2. Holds(Outset, Plan, pc + 1, <<kind, level>>)
    BY <1>6, <2>1 DEF Here
  <2> QED
    BY <1>1, <2>2, HoldsNext DEF Here
<1>11. "run" # "step" /\ "flux" \notin AllFields /\ "rate" \notin AllFields /\ "flux" \notin Registers(option)
       /\ AllFields \cap Registers(option) = {} /\ StateFields \subseteq AllFields
  BY Kinships
<1>12. CASE Here(<<kind, level>>) /\ Survives(Stage, <<kind, level>>)
  <2>1. Stage.op # "Normalize"
    BY <1>12 DEF Survives
  <2>2. b \in Blocks => Meets(Stage.level, level)
    BY <1>6 DEF Blocks, About, Meets
  <2>3. kind = "ahead" => OwnBank(b)' = OwnBank(b) /\ ~(Stage.op \in Flips /\ b \in Blocks)
    BY <1>4, <1>12, <2>1, <2>2 DEF Survives
  <2>4. c \in Promised(kind, b)
    <3>1. CASE kind # "ahead"
      BY <1>6, <1>8, <3>1
    <3>2. CASE kind = "ahead"
      BY <1>6, <1>9, <2>3, <3>2 DEF Promised
    <3> QED
      BY <3>1, <3>2
  <2>5. Owed(c)
    BY <1>6, <1>12, <2>4 DEF Owed, Pledged
  <2>6. c \notin Spent
    <3> SUFFICES ASSUME c \in Spent PROVE FALSE
      OBVIOUS
    <3>1. c[4] = b
      BY <2>4, PromisedCells
    <3>2. CASE kind = "ahead"
      BY <1>3, <1>11, <2>3, <2>4, <3>1, <3>2, PromisedCells, SpentCells
    <3>3. CASE kind = "flux"
      <4>1. c[1] = "run" /\ c[2] = "flux" /\ c[3] = 0
        BY <2>4, <3>3, PromisedCells
      <4>2. Stage.op = "Reflux" /\ b \in Blocks
        BY <1>11, <3>1, <4>1, SpentCells
      <4> QED
        BY <1>12, <2>2, <3>3, <4>2 DEF Survives
    <3>4. CASE kind = "register"
      <4>1. c[1] = "run" /\ c[2] = "flux" /\ c[3] = 1
        BY <2>4, <3>4, PromisedCells
      <4>2. Stage.op = "Reflux" /\ TimeLevel(b) > Stage.level
        BY <1>11, <3>1, <4>1, SpentCells
      <4>3. level > Stage.level \/ level < 0
        BY <1>6, <4>2 DEF About
      <4> QED
        BY <1>12, <3>4, <4>2, <4>3 DEF Survives
    <3>5. CASE kind = "step"
      <4>1. c[1] = "step" /\ c[2] \in AllFields /\ c[3] = 0
        BY <2>4, <3>5, PromisedCells
      <4>2. Stage.op = "FinishRadiationStep" /\ b \in Blocks
        BY <1>11, <3>1, <4>1, SpentCells
      <4> QED
        BY <1>12, <2>2, <3>5, <4>2 DEF Survives
    <3>6. CASE kind = "midpoint"
      <4>1. c[1] = "step" /\ c[2] \in StateFields /\ c[3] = 1
        BY <2>4, <3>6, PromisedCells
      <4>2. Stage.op = "Advance" /\ InInterval
        BY <1>11, <3>1, <4>1, SpentCells
      <4>3. Stage.level >= 0
        BY <1>2, <4>2
      <4> QED
        BY <1>12, <3>6, <4>2, <4>3 DEF Survives
    <3>7. CASE kind = "rate"
      <4>1. c[1] = "step" /\ c[2] = "rate" /\ c[3] = 0
        BY <2>4, <3>7, PromisedCells
      <4> QED
        BY <1>11, <4>1, SpentCells
    <3>8. CASE kind \in {"work", "mass"}
      <4>1. c[1] = "run" /\ c[2] \in {"oldGravity", "kickWork", "massFlux"} /\ c[3] = 0
        BY <2>4, <3>8, PromisedCells
      <4>2. Stage.op = "FinishGravityEnergy"
        BY <4>1, SpentCells, Kinships
      <4> QED
        BY <1>12, <3>8, <4>2 DEF Survives
    <3> QED
      BY <3>2, <3>3, <3>4, <3>5, <3>6, <3>7, <3>8 DEF Promises
  <2> QED
    BY <2>5, <2>6
<1>13. CASE <<kind, level>> \in Makes(Stage)
  <2>1. kind \in MadeBy(Stage.op) /\ level = Stage.level
    BY <1>13 DEF Makes
  <2>2. b \in Blocks
    BY <1>6, <2>1 DEF Blocks, About
  <2>3. Stage.op \in {"Advance", "ResetFlux", "SaveRadiationStep", "PredictRadiationStep", "Probe", "PrepareGravityEnergy"}
    BY <1>6, <2>1 DEF MadeBy, Promises
  <2>4. Stage.op \notin Flips /\ Stage.op # "Normalize"
    BY <2>3 DEF Flips
  <2>5. c \in Yields(b)
    <3>1. CASE Stage.op = "Advance"
      <4>1. kind \in {"ahead", "flux", "mass"}
        BY <1>6, <2>1, <3>1 DEF MadeBy, Promises
      <4>2. Bank = OwnBank(b) /\ OwnBank(b)' = OwnBank(b)
        BY <1>1, <1>4, <2>2, <2>4, <3>1, Situated
      <4>3. Run(AllFields, Other(Bank), b) \cup Flux(0, b) \cup Once({"massFlux"}, b) \subseteq Yields(b)
        BY <3>1 DEF Yields
      <4>4. CASE kind = "ahead"
        BY <1>6, <1>9, <4>2, <4>3, <4>4
      <4>5. CASE kind \in {"flux", "mass"}
        BY <1>6, <1>8, <4>3, <4>5 DEF Promised
      <4> QED
        BY <4>1, <4>4, <4>5
    <3>2. CASE Stage.op = "ResetFlux"
      <4>1. kind = "register"
        BY <1>6, <2>1, <3>2 DEF MadeBy
      <4> QED
        BY <1>6, <1>8, <3>2, <4>1 DEF Promised, Yields
    <3>3. CASE Stage.op = "SaveRadiationStep"
      <4>1. kind = "step"
        BY <1>6, <2>1, <3>3 DEF MadeBy
      <4> QED
        BY <1>6, <1>8, <3>3, <4>1 DEF Promised, Yields
    <3>4. CASE Stage.op = "PredictRadiationStep"
      <4>1. kind = "midpoint"
        BY <1>6, <2>1, <3>4 DEF MadeBy
      <4> QED
        BY <1>6, <1>8, <3>4, <4>1 DEF Promised, Yields
    <3>5. CASE Stage.op = "Probe"
      <4>1. kind = "rate"
        BY <1>6, <2>1, <3>5 DEF MadeBy, Promises
      <4> QED
        BY <1>6, <1>8, <3>5, <4>1 DEF Promised, Yields
    <3>6. CASE Stage.op = "PrepareGravityEnergy"
      <4>1. kind = "work"
        BY <1>6, <2>1, <3>6 DEF MadeBy
      <4>2. c \in Once({"oldGravity", "kickWork"}, b)
        BY <1>6, <1>8, <4>1 DEF Promised
      <4>3. Once({"oldGravity", "kickWork"}, b) \subseteq Once({"kickWork"}, b) \cup Run({"oldGravity"}, 0, b)
        BY DEF Once, Run
      <4>4. Yields(b) = Once({"kickWork"}, b) \cup Run({"oldGravity"}, 0, b)
        BY <3>6 DEF Yields
      <4> QED
        BY <4>2, <4>3, <4>4
    <3> QED
      BY <2>3, <3>1, <3>2, <3>3, <3>4, <3>5, <3>6
  <2>6. c \notin Spent
    <3> SUFFICES ASSUME c \in Spent PROVE FALSE
      OBVIOUS
    <3>1. Stage.op = "Advance" /\ c[1] = "step"
      BY <2>3, <2>4, SpentCells
    <3>2. kind \in {"ahead", "flux", "mass"}
      BY <1>6, <2>1, <3>1 DEF MadeBy, Promises
    <3>3. c[1] = "run"
      <4>1. CASE kind = "ahead"
        <5>1. c \in Run(AllFields, Other(OwnBank(b)'), b)
          BY <1>6, <1>9, <4>1
        <5> QED
          BY <5>1, Cell DEF Run
      <4>2. CASE kind # "ahead"
        BY <1>6, <1>8, <3>2, <4>2, PromisedCells
      <4> QED
        BY <4>1, <4>2
    <3> QED
      BY <3>1, <3>3
  <2> QED
    BY <2>2, <2>5, <2>6
<1> QED
  BY <1>10, <1>12, <1>13

(* What a level that is ahead has come to. *)
LEMMA ComingNext ==
  ASSUME Control, Interval, Grants, Where, mode = "running", Published, option' = option,
         NEW b \in Leaves, NEW c, InInterval', levels[TimeLevel(b)].pending', c \in Run(StateFields, NextBank(b)', b)
  PROVE  c \notin Spent /\ (Owed(c) \/ \E d \in Blocks : c \in Yields(d))
<1>1. InCall /\ Leaves # {}
  BY DEF InCall
<1>2. /\ OwnBank(b) \in {0, 1} /\ Other(OwnBank(b)) \in {0, 1} /\ Other(OwnBank(b)) # OwnBank(b)
      /\ InInterval => levels[TimeLevel(b)] \in LevelType
  BY OwnBanks
<1>3. c[1] = "run" /\ c[2] \in StateFields /\ c[2] \in AllFields /\ c[3] = NextBank(b)' /\ c[4] = b
  BY Cell, Kinships DEF Run
<1>4. "flux" \notin AllFields /\ AllFields \cap Registers(option) = {} /\ StateFields \subseteq AllFields
  BY Kinships
<1>5. \/ /\ InInterval /\ levels[TimeLevel(b)].pending /\ NextBank(b)' = NextBank(b)
         /\ Stage.op \notin {"Backup", "Normalize"} /\ ~(Stage.op \in Flips /\ b \in Blocks)
      \/ Stage.op = "Advance" /\ b \in Blocks /\ NextBank(b)' = Other(OwnBank(b))
      \/ Stage.op = "ForecastRadiationStep" /\ b \in Blocks /\ NextBank(b)' = 3
  BY Onward
<1>6. ASSUME c \in Spent PROVE Stage.op \in Flips /\ b \in Blocks
  <2>1. "Reflux" \in Flips
    BY DEF Flips
  <2> QED
    BY <1>3, <1>4, <1>6, <2>1, SpentCells
<1>7. "Advance" \notin Flips /\ "ForecastRadiationStep" \notin Flips
  BY DEF Flips
<1>8. CASE InInterval /\ levels[TimeLevel(b)].pending /\ NextBank(b)' = NextBank(b) /\ ~(Stage.op \in Flips /\ b \in Blocks)
  <2>1. Owed(c)
    BY <1>8 DEF Owed, Coming
  <2> QED
    BY <1>6, <1>8, <2>1
<1>9. CASE Stage.op = "Advance" /\ b \in Blocks /\ NextBank(b)' = Other(OwnBank(b))
  <2>1. Bank = OwnBank(b)
    BY <1>1, <1>9, Situated
  <2>2. c \in Run(AllFields, Other(Bank), b)
    BY <1>4, <1>9, <2>1 DEF Run
  <2>3. Run(AllFields, Other(Bank), b) \subseteq Yields(b)
    BY <1>9 DEF Yields
  <2> QED
    BY <1>6, <1>7, <1>9, <2>2, <2>3
<1>10. CASE Stage.op = "ForecastRadiationStep" /\ b \in Blocks /\ NextBank(b)' = 3
  <2>1. c \in Run(AllFields, 3, b)
    BY <1>4, <1>10 DEF Run
  <2>2. Yields(b) = Run(AllFields, 3, b)
    BY <1>10 DEF Yields
  <2> QED
    BY <1>6, <1>7, <1>10, <2>1, <2>2
<1> QED
  BY <1>5, <1>8, <1>9, <1>10

(* What a rollback restores. *)
LEMMA ReservedNext ==
  ASSUME Control, Interval, Grants, Where, mode = "running", Published, option' = option,
         NEW b \in Leaves, NEW c, InInterval', c \in Run(AllFields, 2, b)
  PROVE  c \notin Spent /\ (Owed(c) \/ \E d \in Blocks : c \in Yields(d))
<1>1. InCall /\ Leaves # {}
  BY DEF InCall
<1>2. c[1] = "run" /\ c[2] \in AllFields /\ c[3] = 2 /\ c[4] = b
  BY Cell DEF Run
<1>3. "flux" \notin AllFields /\ AllFields \cap Registers(option) = {}
  BY Kinships
<1>4. c \notin Spent
  <2> SUFFICES ASSUME c \in Spent PROVE FALSE
    OBVIOUS
  <2>1. c[3] = Bank /\ b \in Blocks
    BY <1>2, <1>3, SpentCells
  <2>2. Bank \in {0, 1}
    BY <1>1, <2>1, BankNow
  <2> QED
    BY <1>2, <2>1, <2>2
<1>5. CASE Stage.op = "Backup"
  <2>1. b \in Blocks
    BY <1>1, <1>5, Placed DEF Global, Blocks
  <2>2. Yields(b) = Run(AllFields, 2, b)
    BY <1>5 DEF Yields
  <2> QED
    BY <1>4, <2>1, <2>2
<1>6. CASE Stage.op # "Backup"
  <2>1. InInterval
    BY <1>6, Onward
  <2> QED
    BY <1>4, <2>1 DEF Owed, Reserved
<1> QED
  BY <1>5, <1>6

(* What a coupled step is taken back to. *)
LEMMA SecuredNext ==
  ASSUME Control, Interval, Grants, Where, mode = "running", Published, option' = option, pc' = pc + 1,
         NEW b \in Leaves, NEW c \in Saved(b), option.coupled, option.call = "advance"
  PROVE  c \notin Spent /\ (Owed(c) \/ \E d \in Blocks : c \in Yields(d))
<1>1. InCall /\ Leaves # {} /\ pc \in Nat /\ pc >= 1 /\ Stage = Plan[pc]
  BY StageNow DEF InCall, Control
<1>2. c[1] = "saved"
  BY Cell DEF Saved
<1>3. c \notin Spent
  BY <1>2, SpentCells
<1>4. CASE pc = 1
  <2>1. Stage.op = "Save" /\ Stage.level = -1
    BY <1>1, <1>4, CoupledBegins DEF Plan, Control
  <2>2. b \in Blocks /\ Yields(b) = Saved(b)
    BY <2>1 DEF Blocks, Yields, Saved
  <2> QED
    BY <1>3, <2>2
<1>5. CASE pc # 1
  <2>1. BackupHeld
    BY <1>1, <1>5 DEF BackupHeld
  <2> QED
    BY <1>3, <2>1 DEF Owed, Secured
<1> QED
  BY <1>4, <1>5

(* Whatever the next stage may count on is there at the end of this one.   *)
LEMMA Settles ==
  ASSUME Control, Interval, Grants, Where, mode = "running", Published, option' = option,
         (mode' = "running" /\ pc' = pc + 1) \/ mode' = "idle", NEW c, Owed(c)'
  PROVE  c \notin Spent /\ (Owed(c) \/ \E d \in Blocks : c \in Yields(d))
<1>1. PICK b \in Leaves : (\/ Current(b, c) \/ Coming(b, c) \/ Reserved(b, c) \/ Secured(b, c)
                           \/ mode = "running" /\ Pledged(b, c))'
  BY Zenon DEF Owed
<1>2. \/ Current(b, c)' \/ Coming(b, c)' \/ Reserved(b, c)' \/ Secured(b, c)'
      \/ mode' = "running" /\ Pledged(b, c)'
  BY <1>1
<1>3. AllFields' = AllFields
  BY DEF AllFields
<1>4. CASE Current(b, c)'
  <2>1. c \in Run(AllFields, OwnBank(b)', b)
    BY <1>3, <1>4 DEF Current, Run
  <2> QED
    BY <2>1, CurrentNext
<1>5. CASE Coming(b, c)'
  <2>1. InInterval' /\ levels[TimeLevel(b)].pending' /\ c \in Run(StateFields, NextBank(b)', b)
    BY <1>5 DEF Coming, Run, StateFields
  <2> QED
    BY <2>1, ComingNext
<1>6. CASE Reserved(b, c)'
  <2>1. InInterval' /\ c \in Run(AllFields, 2, b)
    BY <1>3, <1>6 DEF Reserved, Run
  <2> QED
    BY <2>1, ReservedNext
<1>7. CASE Secured(b, c)'
  <2>1. option.coupled /\ option.call = "advance" /\ mode' = "running" /\ c \in Saved(b)
    BY <1>3, <1>7 DEF Secured, BackupHeld, Saved
  <2> QED
    BY <2>1, SecuredNext
<1>8. CASE mode' = "running" /\ Pledged(b, c)'
  BY <1>8, PledgedNext
<1> QED
  BY <1>2, <1>4, <1>5, <1>6, <1>7, <1>8
-----------------------------------------------------------------------------
(* The blocks behind the coarse faces of a block are one level finer.      *)
LEMMA FinerBlocks ==
  ASSUME NEW b \in Leaves, NEW f \in FineSides[b]
  PROVE  f \in Leaves /\ f.level = b.level + 1 /\ b.level \in Nat
<1>1. PICK p \in Refluxes : BlockOf(Config, p[1]) = b /\ f = BlockOf(Config, p[2])
  BY DEF FineSides
<1> DEFINE faces == UNION {FacesOf(Config, d) : d \in Leaves}
           behind(g) == {n \in CellAcross(Config, g[1], g[2], g[3]) : Locate(Config, Leaves, n) = {}}
           plan(g) == {<<g[1], fine, g[2], g[3]>> : fine \in UNION {Facing(n, g[2], g[3]) : n \in behind(g)}}
<1>2. p \in UNION {plan(g) : g \in faces}
  BY <1>1 DEF Refluxes, RefluxPlan
<1> HIDE DEF plan, faces
<1>3. PICK g \in faces : p \in plan(g)
  BY <1>2
<1> HIDE DEF behind
<1>4. PICK fine \in UNION {Facing(n, g[2], g[3]) : n \in behind(g)} : p = <<g[1], fine, g[2], g[3]>>
  BY <1>3 DEF plan
<1>5. PICK n \in behind(g) : fine \in Facing(n, g[2], g[3])
  BY <1>4
<1>6. PICK d \in Leaves : g[1] \in CellsOf(Config, d)
  <2>1. PICK d \in Leaves : g \in FacesOf(Config, d)
    BY DEF faces
  <2> QED
    BY <2>1 DEF FacesOf
<1>7. \E i : g[1] = [level |-> d.level, at |-> [k \in Axes(Config) |-> Config.cells * d.at[k] + i[k]]]
  BY <1>6 DEF CellsOf
<1>8. n.level = g[1].level
  <2>1. \E at : n = [g[1] EXCEPT !.at = at]
    BY DEF behind, CellAcross, Shifted
  <2> QED
    BY <1>7, <2>1
<1>9. fine.level = n.level + 1
  BY <1>5 DEF Facing, Children
<1>10. p[1] = g[1] /\ p[2] = fine
  BY <1>4
<1>11. f.level = fine.level /\ b.level = g[1].level
  BY <1>1, <1>10 DEF BlockOf
<1> QED
  BY <1>1, <1>8, <1>9, <1>11, BalanceAssumption, MeshAssumption

(* A fact puts its cells at the disposal of the stage.                     *)
LEMMA Pledge ==
  ASSUME mode = "running", NEW b \in Leaves, NEW kind \in Promises, NEW level \in Int, About(level, b),
         Here(<<kind, level>>), NEW c \in Promised(kind, b)
  PROVE  Owed(c)
BY DEF Owed, Pledged

(* The fluxes behind the coarse faces of a block: the finer blocks are in    *)
(* the same substep, or in substeps of their own.                          *)
LEMMA FinerSides ==
  ASSUME Control, Interval, Where, mode = "running", Stage.op = "Reflux", NEW b \in Blocks, NEW f \in FineSides[b],
         NEW c \in Flux(FineBank(b), f)
  PROVE  Owed(c)
<1>1. InCall /\ b \in Leaves /\ Leaves # {}
  BY DEF InCall, Blocks
<1>2. f \in Leaves /\ f.level = b.level + 1 /\ b.level \in Nat
  BY <1>1, FinerBlocks
<1>3. /\ Stage.level \in Int
      /\ Stage.level >= 0 => InInterval /\ Stage.level = TimeLevel(b)
      /\ Stage.level < 0 => ~InInterval
  BY <1>1, Placed, Situated
<1>4. /\ TimeLevel(b) = IF option.coarseLevel > b.level THEN option.coarseLevel ELSE b.level
      /\ TimeLevel(f) = IF option.coarseLevel > f.level THEN option.coarseLevel ELSE f.level
      /\ option.coarseLevel \in Nat
  BY OptionAssumption DEF TimeLevel, TimeLevelOf, Control
<1>5. \A x \in Needs(option, Stage) : Here(x)
  BY Ready
<1>6. CASE FineBank(b) = 0
  <2>1. c \in Promised("flux", f)
    BY <1>6 DEF Promised
  <2>2. Here(<<"flux", Stage.level>>)
    <3>1. <<"flux", Stage.level>> \in Needs(option, Stage)
      BY DEF Needs
    <3> QED
      BY <1>5, <3>1
  <2>3. About(Stage.level, f)
    BY <1>2, <1>3, <1>4, <1>6 DEF FineBank, About
  <2> QED
    BY <1>2, <1>3, <2>1, <2>2, <2>3, Pledge DEF Promises
<1>7. CASE FineBank(b) # 0
  <2>1. InInterval /\ option.coarseLevel < b.level + 1 /\ FineBank(b) = 1
    BY <1>7 DEF FineBank
  <2>2. Stage.level = b.level /\ TimeLevel(f) = b.level + 1
    <3>1. Stage.level >= 0
      BY <1>3, <2>1
    <3> QED
      BY <1>2, <1>3, <1>4, <2>1, <3>1
  <2>3. TimeLevel(f) \in Finer(option, Stage.level) /\ Finer(option, Stage.level) \subseteq Nat
        /\ \A k \in Finer(option, Stage.level) : TimeLevel(f) <= k
    <3>1. TimeLevel(f) \in TimeLevels(option) /\ TimeLevels(option) \in SUBSET Nat
      BY <1>2, LevelsOf DEF TimeLevel, TimeLevels, Control
    <3> QED
      BY <1>2, <2>2, <3>1 DEF Finer
  <2>4. NextFiner(option, Stage.level) = TimeLevel(f)
    <3>1. \E m \in Finer(option, Stage.level) : \A k \in Finer(option, Stage.level) : m <= k
      BY <2>3
    <3>2. /\ NextFiner(option, Stage.level) \in Finer(option, Stage.level)
          /\ \A k \in Finer(option, Stage.level) : NextFiner(option, Stage.level) <= k
      BY <3>1 DEF NextFiner
    <3>3. NextFiner(option, Stage.level) <= TimeLevel(f) /\ TimeLevel(f) <= NextFiner(option, Stage.level)
      BY <2>3, <3>2
    <3>4. NextFiner(option, Stage.level) \in Nat /\ TimeLevel(f) \in Nat
      BY <2>3, <3>2
    <3> QED
      BY <3>3, <3>4
  <2>5. Here(<<"register", TimeLevel(f)>>)
    <3>1. ~(Stage.level < 0) /\ Finer(option, Stage.level) # {}
      BY <1>2, <2>2, <2>3
    <3>2. <<"register", NextFiner(option, Stage.level)>> \in Needs(option, Stage)
      BY <3>1 DEF Needs
    <3> QED
      BY <1>5, <2>4, <3>2
  <2>6. c \in Promised("register", f)
    BY <2>1 DEF Promised
  <2>7. TimeLevel(f) \in Int /\ About(TimeLevel(f), f)
    BY <1>2, <2>2 DEF About
  <2> QED
    BY <1>2, <2>5, <2>6, <2>7, Pledge DEF Promises
<1> QED
  BY <1>6, <1>7

(* Which stages run when. *)
LEMMA Right ==
  ASSUME Control, InCall
  PROVE  /\ Stage.op \in Ops
         /\ mode = "running" => Stage.op \in Served(option) /\ Stage.op \notin {"Restore", "RestoreRadiationStep"}
         /\ mode = "restoring" => Stage.op = "Restore" /\ Stage.level = -1
         /\ mode = "recovering" => Stage.op = "RestoreRadiationStep" /\ Stage.level = -1
<1>1. ASSUME mode = "running" PROVE Stage.op \in Served(option) /\ Stage.op \notin {"Restore", "RestoreRadiationStep"}
  <2>1. Stage = Plan[pc] /\ Plan \in Seq(ServedType(option)) /\ pc \in 1 .. Len(Plan)
    BY <1>1, StageNow, CallServed DEF Plan, Control
  <2>2. Stage \in ServedType(option)
    BY <2>1
  <2> QED
    BY <2>2 DEF ServedType, Served
<1>2. ASSUME mode = "restoring" PROVE Stage.op = "Restore" /\ Stage.level = -1
  BY <1>2 DEF Stage, StageIn, All, At
<1>3. ASSUME mode = "recovering" PROVE Stage.op = "RestoreRadiationStep" /\ Stage.level = -1
  BY <1>3 DEF Stage, StageIn, All, At
<1> QED
  BY <1>1, <1>2, <1>3, StageNow DEF StageType

(* The state of a block, and that of its halo, at the stage's time. *)
LEMMA OwnOwed ==
  ASSUME mode = "running", NEW d \in Leaves, NEW fields \in SUBSET AllFields, NEW c \in Run(fields, OwnBank(d), d)
  PROVE  Owed(c)
<1>1. c \in Run(AllFields, OwnBank(d), d)
  BY DEF Run
<1> QED
  BY <1>1 DEF Owed, Current

LEMMA ValuesOwed ==
  ASSUME Control, Interval, mode = "running", NEW d \in Leaves, NEW fields \in SUBSET StateFields, NEW c \in OwnValues(fields, d)
  PROVE  Owed(c)
<1>1. BankOf(d) = OwnBank(d) /\ fields \in SUBSET AllFields
  BY OwnBanks, Kinships
<1>2. CASE c \in Run(fields, BankOf(d), d)
  BY <1>1, <1>2, OwnOwed
<1>3. CASE Between(d) /\ c \in Run(fields, NextBank(d), d)
  <2>1. InInterval /\ levels[TimeLevel(d)].pending
    BY <1>3 DEF Between
  <2>2. c \in Run(StateFields, NextBank(d), d)
    BY <1>3 DEF Run
  <2> QED
    BY <2>1, <2>2 DEF Owed, Coming
<1> QED
  BY <1>2, <1>3 DEF OwnValues

LEMMA HaloOwed ==
  ASSUME Control, Interval, mode = "running", NEW b \in Leaves, NEW fields \in SUBSET StateFields, NEW c \in Halo(fields, b)
  PROVE  Owed(c)
<1>1. PICK d \in Donors[b] : c \in OwnValues(fields, d)
  BY DEF Halo
<1>2. d \in Leaves
  BY DonorsAreLeaves
<1> QED
  BY <1>1, <1>2, ValuesOwed

(* Every input of a task is due: an earlier stage of the call left it, or    *)
(* what the call began with.                                               *)
LEMMA ReadsOwed ==
  ASSUME Control, Interval, Where, InCall, NEW b \in Blocks
  PROVE  \A c \in Touched(AccessOf(b)) : Owed(c)
<1> DEFINE Due(x) == \A c \in Touched(x) : Owed(c)
           Whole(S) == \A c \in S : Owed(c)
           From(copies) == \A x \in copies : Owed(x[1])
<1>1. b \in Leaves /\ Leaves # {} /\ OwnBank(b) \in {0, 1} /\ BankOf(b) = OwnBank(b) /\ About(Stage.level, b)
  BY Situated DEF Blocks, About
<1>2. Stage.op \notin {"Normalize", "PredictRadiationStep"} => Bank = OwnBank(b)
  BY Situated
<1>3. /\ Stage.level \in Int /\ Stage.op \in Ops
      /\ Stage.level < 0 => Bank = bank
      /\ Stage.level < 0 /\ Stage.op \notin {"Normalize", "PredictRadiationStep"} => ~InInterval
      /\ Stage.op \in Global => Stage.level < 0
  BY <1>1, Placed
<1>4. /\ mode = "running" => Stage.op \in Served(option) /\ Stage.op \notin {"Restore", "RestoreRadiationStep"}
      /\ mode \in {"running", "restoring", "recovering"}
      /\ mode = "restoring" => Stage.op = "Restore"
      /\ mode = "recovering" => Stage.op = "RestoreRadiationStep"
  BY Right DEF InCall
<1>5. /\ StateFields \in SUBSET AllFields /\ Gravity \in SUBSET AllFields /\ {"gas"} \in SUBSET AllFields
      /\ {"radiation"} \in SUBSET AllFields /\ AllFields \in SUBSET AllFields
      /\ {"gas"} \cup Gravity \in SUBSET AllFields /\ {"radiation"} \cup Gravity \in SUBSET AllFields
      /\ {"radiation"} \in SUBSET StateFields /\ StateFields \in SUBSET StateFields
  BY DEF AllFields, FieldsOf, Gravity, StateFields
<1>6. ASSUME NEW reads, NEW computes, NEW copies, Whole(reads), From(copies) PROVE Due(Does(reads, computes, copies))
  BY <1>6 DEF Does, Touched
<1>7. ASSUME NEW fields, NEW k, NEW n, NEW d, Whole(Run(fields, k, d)) PROVE From(Copy(fields, k, n, d))
  BY <1>7, CopyEnds
<1>8. ASSUME mode = "running", NEW fields \in SUBSET AllFields PROVE Whole(Run(fields, OwnBank(b), b))
  BY <1>1, <1>8, OwnOwed
<1>9. ASSUME NEW X, NEW Y, Whole(X), Whole(Y) PROVE Whole(X \cup Y)
  BY <1>9
<1>10. Whole({}) /\ From({})
  OBVIOUS
<1>11. ASSUME mode = "running", NEW store PROVE Stage.op # "Normalize" /\ Stage.op # "PredictRadiationStep" => From(SavedIn(store, b))
  <2>1. {x[1] : x \in SavedIn(store, b)} = Run(AllFields, Bank, b)
    BY SavedEnds
  <2> QED
    BY <1>2, <1>5, <1>8, <1>11, <2>1
<1>12. ASSUME mode = "running", NEW d \in Leaves, NEW kind \in Promises, NEW level \in Int, About(level, d),
              <<kind, level>> \in Needs(option, Stage)
       PROVE  Whole(Promised(kind, d))
  <2>1. Here(<<kind, level>>)
    BY <1>12, Ready
  <2> QED
    BY <1>12, <2>1, Pledge
<1>13. ASSUME NEW d PROVE About(-1, d)
  BY DEF About
<1>14. ASSUME NEW fields, NEW more \in SUBSET fields, NEW k, NEW d
       PROVE  Run(more, k, d) \subseteq Run(fields, k, d) /\ Step(more, k, d) \subseteq Step(fields, k, d)
              /\ Once(more, d) \subseteq Once(fields, d)
  BY DEF Run, Step, Once
<1>15. ASSUME NEW fields \in SUBSET StateFields, mode = "running" PROVE Whole(Halo(fields, b))
  BY <1>1, <1>15, HaloOwed
<1> HIDE DEF Due, Whole, From
<1>20. CASE mode = "restoring"
  <2>1. AccessOf(b) = Does({}, {}, Copy(AllFields, 2, Bank, b))
    BY <1>4, <1>20, TaskOf
  <2>2. Whole(Run(AllFields, 2, b))
    BY <1>1, <1>20 DEF Whole, Owed, Reserved
  <2>3. Due(AccessOf(b))
    BY <1>6, <1>7, <1>10, <2>1, <2>2
  <2> QED
    BY <2>3 DEF Due
<1>21. CASE mode = "recovering"
  <2> DEFINE C == SavedIn("saved", b)
             R == {<<c[2], c[1]>> : c \in C}
  <2>1. AccessOf(b) = Does({}, {}, R)
    BY <1>4, <1>21, TaskOf
  <2>2. {x[2] : x \in C} = Saved(b)
    BY SavedEnds DEF Saved
  <2> HIDE DEF C
  <2>3. \A x \in R : x[1] \in Saved(b)
    BY <2>2
  <2>4. From(R)
    BY <1>1, <1>21, <2>3 DEF From, Owed, Secured
  <2> HIDE DEF R
  <2>5. Due(AccessOf(b))
    BY <1>6, <1>10, <2>1, <2>4
  <2> QED
    BY <2>5 DEF Due
<1>22. CASE mode = "running"
  <2>1. ASSUME Stage.op \in {"Backup", "Timestep", "Save", "SaveRadiationStep", "ResetFlux"} PROVE Due(AccessOf(b))
    <3>1. Whole(Run(AllFields, Bank, b)) /\ From(Copy(AllFields, Bank, 2, b))
      BY <1>2, <1>5, <1>7, <1>8, <1>22, <2>1
    <3>2. CASE Stage.op = "Backup"
      BY <1>6, <1>10, <3>1, <3>2, TaskOf
    <3>3. CASE Stage.op = "Timestep"
      BY <1>6, <1>10, <3>1, <3>3, TaskOf
    <3>4. CASE Stage.op = "Save"
      BY <1>6, <1>10, <1>11, <1>22, <3>4, TaskOf
    <3>5. CASE Stage.op = "SaveRadiationStep"
      BY <1>6, <1>10, <1>11, <1>22, <3>5, TaskOf
    <3>6. CASE Stage.op = "ResetFlux"
      BY <1>6, <1>10, <3>6, TaskOf
    <3> QED
      BY <2>1, <3>2, <3>3, <3>4, <3>5, <3>6
  <2>2. ASSUME Stage.op = "Normalize" PROVE Due(AccessOf(b))
    <3>1. AccessOf(b) = Does({}, {}, IF BankOf(b) = Other(Bank) THEN {} ELSE Copy(AllFields, Bank, Other(Bank), b))
      BY <2>2, TaskOf
    <3>2. CASE BankOf(b) = Other(Bank)
      BY <1>6, <1>10, <3>1, <3>2
    <3>3. CASE BankOf(b) # Other(Bank)
      <4>1. Bank = OwnBank(b)
        BY <1>1, <3>3, BankNow DEF Other
      <4>2. From(Copy(AllFields, Bank, Other(Bank), b))
        BY <1>5, <1>7, <1>8, <1>22, <4>1
      <4> QED
        BY <1>6, <1>10, <3>1, <3>3, <4>2
    <3> QED
      BY <3>2, <3>3
  <2>3. ASSUME Stage.op \in {"Advance", "Probe", "Reflux", "Kick", "KickTracked", "SolveGravity", "FinishGravityEnergy",
                             "FinishRadiationStep", "CoupleRadiation", "PrepareGravityEnergy", "ForecastRadiationStep"}
        PROVE  /\ Bank = OwnBank(b)
               /\ \A fields \in SUBSET AllFields : Whole(Run(fields, Bank, b)) /\ From(Copy(fields, Bank, Other(Bank), b))
    BY <1>2, <1>7, <1>8, <1>22, <2>3
  <2>4. ASSUME Stage.op = "Advance" PROVE Due(AccessOf(b))
    <3> DEFINE midpoints == IF option.coupled THEN UNION {Step(StateFields, 1, d) : d \in Donors[b] \cup {b}} ELSE {}
               register == IF InInterval THEN Flux(1, b) ELSE {}
               reads == Run(StateFields, Bank, b) \cup Halo(StateFields \ Reused(b), b) \cup midpoints \cup register
    <3>1. \E w : AccessOf(b) = Does(reads, w, Copy(Gravity, Bank, Other(Bank), b))
      BY <2>4, TaskOf
    <3>2. Whole(midpoints)
      <4>1. CASE option.coupled
        <5>1. Donors[b] \cup {b} \subseteq Leaves
          BY <1>1, DonorsAreLeaves
        <5>2. ASSUME NEW d \in Leaves PROVE Whole(Step(StateFields, 1, d))
          <6>1. <<"midpoint", -1>> \in Needs(option, Stage)
            BY <2>4, <4>1 DEF Needs, Fact
          <6>2. Promised("midpoint", d) = Step(StateFields, 1, d)
            BY DEF Promised
          <6> QED
            BY <1>12, <1>13, <1>22, <6>1, <6>2 DEF Promises
        <5> QED
          BY <4>1, <5>1, <5>2 DEF Whole
      <4>2. CASE ~option.coupled
        BY <1>10, <4>2
      <4> QED
        BY <4>1, <4>2
    <3>3. Whole(register)
      <4>1. CASE InInterval
        <5>1. Stage.level >= 0
          BY <1>3, <2>4, <4>1
        <5>2. <<"register", Stage.level>> \in Needs(option, Stage)
          BY <2>4, <5>1 DEF Needs
        <5>3. Promised("register", b) = Flux(1, b)
          BY DEF Promised
        <5> QED
          BY <1>1, <1>3, <1>12, <1>22, <4>1, <5>2, <5>3 DEF Promises
      <4>2. CASE ~InInterval
        BY <1>10, <4>2
      <4> QED
        BY <4>1, <4>2
    <3>4. StateFields \ Reused(b) \in SUBSET StateFields
      OBVIOUS
    <3>5. Whole(Run(StateFields, Bank, b)) /\ From(Copy(Gravity, Bank, Other(Bank), b)) /\ Whole(Halo(StateFields \ Reused(b), b))
      BY <1>5, <1>15, <1>22, <2>3, <2>4, <3>4
    <3> HIDE DEF midpoints, register
    <3>6. Whole(reads)
      BY <1>9, <3>2, <3>3, <3>5
    <3> HIDE DEF reads
    <3> QED
      BY <1>6, <3>1, <3>5, <3>6
  <2>5. ASSUME Stage.op = "Probe" PROVE Due(AccessOf(b))
    <3>1. \E w : AccessOf(b) = Does(Run(StateFields, Bank, b) \cup Halo(StateFields, b), w, Copy(Gravity, Bank, Other(Bank), b))
      BY <2>5, TaskOf
    <3>2. Whole(Run(StateFields, Bank, b)) /\ From(Copy(Gravity, Bank, Other(Bank), b)) /\ Whole(Halo(StateFields, b))
      BY <1>5, <1>15, <1>22, <2>3, <2>5
    <3> QED
      BY <1>6, <1>9, <3>1, <3>2
  <2>6. ASSUME Stage.op \in {"Reflux", "ForecastRadiationStep"} PROVE Whole(Run(AllFields, Other(Bank), b))
    <3>1. <<"ahead", Stage.level>> \in Needs(option, Stage)
      BY <2>6 DEF Needs
    <3>2. Promised("ahead", b) = Run(AllFields, Other(Bank), b)
      BY <2>3, <2>6 DEF Promised
    <3> QED
      BY <1>1, <1>3, <1>12, <1>22, <3>1, <3>2 DEF Promises
  <2>7. ASSUME Stage.op = "Reflux" PROVE Due(AccessOf(b))
    <3> DEFINE finer == UNION {Flux(FineBank(b), f) : f \in FineSides[b]}
    <3>1. \E w : AccessOf(b) = Does(Run(StateFields, Other(Bank), b) \cup Flux(0, b) \cup finer, w, {})
      BY <2>7, TaskOf
    <3>2. Whole(Run(StateFields, Other(Bank), b))
      BY <1>5, <1>14, <2>6, <2>7 DEF Whole
    <3>3. Whole(Flux(0, b))
      <4>1. <<"flux", Stage.level>> \in Needs(option, Stage)
        BY <2>7 DEF Needs
      <4>2. Promised("flux", b) = Flux(0, b)
        BY DEF Promised
      <4> QED
        BY <1>1, <1>3, <1>12, <1>22, <4>1, <4>2 DEF Promises
    <3>4. Whole(finer)
      BY <1>22, <2>7, FinerSides DEF Whole
    <3> HIDE DEF finer
    <3> QED
      BY <1>6, <1>9, <1>10, <3>1, <3>2, <3>3, <3>4
  <2>8. ASSUME Stage.op = "PrepareGravityEnergy" PROVE Due(AccessOf(b))
    <3> DEFINE x == <<<<"run", "gravity", Bank, b>>, <<"run", "oldGravity", 0, b>>>>
    <3>1. \E w : AccessOf(b) = Does({}, w, {x})
      BY <2>8, TaskOf
    <3>2. option.gravity
      BY <1>4, <1>22, <2>8 DEF Served
    <3>3. <<"run", "gravity", Bank, b>> \in Run(AllFields, Bank, b)
      BY <3>2 DEF Run, AllFields, FieldsOf, GravityOf
    <3>4. Owed(x[1])
      BY <1>5, <2>3, <2>8, <3>3 DEF Whole
    <3> HIDE DEF x
    <3>5. From({x})
      BY <3>4 DEF From
    <3> QED
      BY <1>6, <1>10, <3>1, <3>5
  <2>9. ASSUME Stage.op \in {"Kick", "KickTracked"} PROVE Due(AccessOf(b))
    <3> DEFINE impulse == IF option.coupled /\ (Stage.op = "KickTracked" => option.external)
                            THEN Step({"radiation"}, 0, b) \cup Step({"radiation"}, 1, b) \cup Step({"rate"}, 0, b)
                            ELSE {}
               work == IF Stage.op = "KickTracked" THEN Once({"kickWork"}, b) ELSE {}
    <3>1. \E w : AccessOf(b) = Does(Run({"gas"} \cup Gravity, Bank, b) \cup impulse \cup work, w,
                                    Copy({"radiation"} \cup Gravity, Bank, Other(Bank), b))
      BY <2>9, TaskOf
    <3>2. Whole(impulse)
      <4>1. CASE option.coupled
        <5>1. {<<"step", -1>>, <<"midpoint", -1>>, <<"rate", -1>>} \subseteq Needs(option, Stage)
          BY <2>9, <4>1 DEF Needs, Fact
        <5>2. /\ Promised("step", b) = Step(AllFields, 0, b) /\ Promised("midpoint", b) = Step(StateFields, 1, b)
              /\ Promised("rate", b) = Step({"rate"}, 0, b)
          BY DEF Promised
        <5>3. Whole(Step(AllFields, 0, b)) /\ Whole(Step(StateFields, 1, b)) /\ Whole(Step({"rate"}, 0, b))
          BY <1>1, <1>12, <1>13, <1>22, <5>1, <5>2 DEF Promises
        <5>4. Step({"radiation"}, 0, b) \subseteq Step(AllFields, 0, b) /\ Step({"radiation"}, 1, b) \subseteq Step(StateFields, 1, b)
          BY <1>5, <1>14
        <5>5. Whole(Step({"radiation"}, 0, b) \cup Step({"radiation"}, 1, b) \cup Step({"rate"}, 0, b))
          BY <5>3, <5>4 DEF Whole
        <5> QED
          BY <1>10, <5>5
      <4>2. CASE ~option.coupled
        BY <1>10, <4>2
      <4> QED
        BY <4>1, <4>2
    <3>3. Whole(work)
      <4>1. CASE Stage.op = "KickTracked"
        <5>1. <<"work", -1>> \in Needs(option, Stage)
          BY <4>1 DEF Needs, Fact
        <5>2. Promised("work", b) = Once({"oldGravity", "kickWork"}, b)
          BY DEF Promised
        <5>3. Whole(Once({"oldGravity", "kickWork"}, b))
          BY <1>1, <1>12, <1>13, <1>22, <5>1, <5>2 DEF Promises
        <5> QED
          BY <1>14, <4>1, <5>3 DEF Whole
      <4>2. CASE Stage.op # "KickTracked"
        BY <1>10, <4>2
      <4> QED
        BY <4>1, <4>2
    <3> HIDE DEF impulse, work
    <3>4. Whole(Run({"gas"} \cup Gravity, Bank, b)) /\ From(Copy({"radiation"} \cup Gravity, Bank, Other(Bank), b))
      BY <1>5, <2>3, <2>9
    <3> QED
      BY <1>6, <1>9, <3>1, <3>2, <3>3, <3>4
  <2>10. ASSUME Stage.op \in {"SolveGravity", "FinishGravityEnergy"}, NEW d \in Leaves, NEW fields \in SUBSET AllFields
         PROVE  Whole(Run(fields, Bank, d))
    <3>1. Bank = OwnBank(d)
      BY <1>3, <2>10 DEF Global, OwnBank
    <3> QED
      BY <1>22, <3>1, OwnOwed DEF Whole
  <2>11. ASSUME Stage.op = "SolveGravity" PROVE Due(AccessOf(b))
    <3> DEFINE gas == UNION {Run({"gas"}, Bank, d) : d \in Leaves}
    <3>1. \E w : AccessOf(b) = Does(gas, w, Copy(StateFields, Bank, Other(Bank), b))
      BY <2>11, TaskOf
    <3>2. Whole(gas)
      BY <1>5, <2>10, <2>11 DEF Whole
    <3> HIDE DEF gas
    <3> QED
      BY <1>5, <1>6, <2>3, <2>11, <3>1, <3>2
  <2>12. ASSUME Stage.op = "FinishGravityEnergy" PROVE Due(AccessOf(b))
    <3> DEFINE sides == {b} \cup WorkSides[b]
               finer == {d \in sides : d.level > b.level}
               near == UNION {Once({"oldGravity"}, d) \cup Run(Gravity, Bank, d) : d \in sides}
               moved == UNION {Once({"massFlux"}, d) : d \in finer \cup {b}}
    <3>1. \E w : AccessOf(b) = Does(near \cup moved \cup Once({"kickWork"}, b) \cup Run({"gas"}, Bank, b), w,
                                    Copy({"radiation"} \cup Gravity, Bank, Other(Bank), b))
      <4>1. AccessOf(b) = Closing(b)
        BY <2>12, TaskOf
      <4> QED
        BY <4>1 DEF Closing, Carried
    <3>2. sides \subseteq Leaves /\ finer \cup {b} \subseteq Leaves
      BY <1>1 DEF WorkSides
    <3> HIDE DEF sides, finer
    <3>3. ASSUME NEW d \in Leaves
          PROVE  Whole(Once({"oldGravity"}, d)) /\ Whole(Once({"kickWork"}, d)) /\ Whole(Once({"massFlux"}, d))
      <4>1. {<<"work", -1>>, <<"mass", -1>>} \subseteq Needs(option, Stage)
        BY <2>12 DEF Needs, Fact
      <4>2. Promised("work", d) = Once({"oldGravity", "kickWork"}, d) /\ Promised("mass", d) = Once({"massFlux"}, d)
        BY DEF Promised
      <4>3. Whole(Once({"oldGravity", "kickWork"}, d)) /\ Whole(Once({"massFlux"}, d))
        BY <1>12, <1>13, <1>22, <4>1, <4>2 DEF Promises
      <4> QED
        BY <1>14, <4>3 DEF Whole
    <3>4. Whole(near)
      BY <1>5, <2>10, <2>12, <3>2, <3>3 DEF Whole
    <3>5. Whole(moved)
      BY <3>2, <3>3 DEF Whole
    <3>6. Whole(Run({"gas"}, Bank, b)) /\ From(Copy({"radiation"} \cup Gravity, Bank, Other(Bank), b))
      BY <1>5, <2>3, <2>12
    <3> HIDE DEF near, moved
    <3> QED
      BY <1>1, <1>6, <1>9, <3>1, <3>3, <3>4, <3>5, <3>6
  <2>13. ASSUME Stage.op = "PredictRadiationStep" PROVE Due(AccessOf(b))
    <3>1. \E w : AccessOf(b) = Does(OwnValues(StateFields, b) \cup Run(Gravity, BankOf(b), b) \cup Step({"rate"}, 0, b), w, {})
      BY <2>13, TaskOf
    <3>2. Whole(OwnValues(StateFields, b))
      BY <1>1, <1>5, <1>22, ValuesOwed DEF Whole
    <3>3. Whole(Run(Gravity, BankOf(b), b))
      BY <1>1, <1>5, <1>8, <1>22
    <3>4. Whole(Step({"rate"}, 0, b))
      <4>1. <<"rate", -1>> \in Needs(option, Stage)
        BY <2>13 DEF Needs, Fact
      <4>2. Promised("rate", b) = Step({"rate"}, 0, b)
        BY DEF Promised
      <4> QED
        BY <1>1, <1>12, <1>13, <1>22, <4>1, <4>2 DEF Promises
    <3> QED
      BY <1>6, <1>9, <1>10, <3>1, <3>2, <3>3, <3>4
  <2>14. ASSUME Stage.op \in {"ForecastRadiationStep", "FinishRadiationStep"} PROVE Whole(Step(StateFields, 0, b))
    <3>1. <<"step", Stage.level>> \in Needs(option, Stage)
      BY <2>14 DEF Needs
    <3>2. Promised("step", b) = Step(AllFields, 0, b)
      BY DEF Promised
    <3>3. Whole(Step(AllFields, 0, b))
      BY <1>1, <1>3, <1>12, <1>22, <3>1, <3>2 DEF Promises
    <3> QED
      BY <1>5, <1>14, <3>3 DEF Whole
  <2>15. ASSUME Stage.op = "ForecastRadiationStep" PROVE Due(AccessOf(b))
    <3>1. \E w : AccessOf(b) = Does(Run(StateFields, Other(Bank), b) \cup Step(StateFields, 0, b), w,
                                    Copy(Gravity, Other(Bank), 3, b))
      BY <2>15, TaskOf
    <3>2. Whole(Run(StateFields, Other(Bank), b)) /\ Whole(Run(Gravity, Other(Bank), b))
      BY <1>5, <1>14, <2>6, <2>15 DEF Whole
    <3> QED
      BY <1>6, <1>7, <1>9, <2>14, <2>15, <3>1, <3>2
  <2>16. ASSUME Stage.op = "FinishRadiationStep" PROVE Due(AccessOf(b))
    <3>1. \E w : AccessOf(b) = Does(Run(StateFields, Bank, b) \cup Step(StateFields, 0, b), w, Copy(Gravity, Bank, Other(Bank), b))
      BY <2>16, TaskOf
    <3>2. Whole(Run(StateFields, Bank, b)) /\ From(Copy(Gravity, Bank, Other(Bank), b))
      BY <1>5, <2>3, <2>16
    <3> QED
      BY <1>6, <1>9, <2>14, <2>16, <3>1, <3>2
  <2>17. ASSUME Stage.op = "CoupleRadiation" PROVE Due(AccessOf(b))
    <3>1. \E w : AccessOf(b) = Does(Run(StateFields, Bank, b), w, Copy(Gravity, Bank, Other(Bank), b))
      BY <2>17, TaskOf
    <3>2. Whole(Run(StateFields, Bank, b)) /\ From(Copy(Gravity, Bank, Other(Bank), b))
      BY <1>5, <2>3, <2>17
    <3> QED
      BY <1>6, <3>1, <3>2
  <2>18. Due(AccessOf(b))
    BY <1>3, <1>4, <1>22, <2>1, <2>2, <2>4, <2>5, <2>7, <2>8, <2>9, <2>11, <2>12, <2>13, <2>15, <2>16, <2>17 DEF Ops
  <2> QED
    BY <2>18 DEF Due
<1> QED
  BY <1>4, <1>20, <1>21, <1>22
-----------------------------------------------------------------------------
(* The cells that the task of a block changes. *)
LEMMA YieldCells ==
  ASSUME Control, Interval, InCall, NEW b \in Blocks, NEW c \in Yields(b)
  PROVE  /\ c[4] = b
         /\ \/ /\ c[1] = "run" /\ c[2] \in AllFields /\ c[3] = Other(Bank)
               /\ Stage.op \in {"Normalize", "Advance", "Probe", "Reflux", "KickTracked", "Kick", "SolveGravity",
                                "FinishGravityEnergy", "FinishRadiationStep", "CoupleRadiation"}
            \/ c[1] = "run" /\ c[2] \in AllFields /\ c[3] = 2 /\ Stage.op = "Backup"
            \/ c[1] = "run" /\ c[2] \in AllFields /\ c[3] = Bank /\ Stage.op \in {"Restore", "RestoreRadiationStep"}
            \/ c[1] = "run" /\ c[2] \in AllFields /\ c[3] = 3 /\ Stage.op = "ForecastRadiationStep"
            \/ c[1] = "run" /\ c[2] = "flux" /\ c[3] = 0 /\ Stage.op \in {"Advance", "Probe"}
            \/ c[1] = "run" /\ c[2] = "flux" /\ c[3] = 1 /\ (Stage.op = "ResetFlux" \/ (Stage.op = "Advance" /\ InInterval))
            \/ c[1] = "run" /\ c[2] = "massFlux" /\ Stage.op \in {"Advance", "Probe"}
            \/ c[1] = "run" /\ c[2] = "kickWork" /\ Stage.op \in {"KickTracked", "PrepareGravityEnergy"}
            \/ c[1] = "run" /\ c[2] = "oldGravity" /\ Stage.op = "PrepareGravityEnergy"
            \/ c[1] = "step" /\ c[2] = "rate" /\ Stage.op = "Probe"
            \/ c[1] = "step" /\ c[2] \in AllFields /\ c[3] = 0 /\ Stage.op = "SaveRadiationStep"
            \/ c[1] = "step" /\ c[2] \in StateFields /\ c[3] = 1 /\ Stage.op = "PredictRadiationStep"
            \/ c[1] = "saved" /\ Stage.op = "Save"
<1> DEFINE across == Run(AllFields, Other(Bank), b)
<1>1. ASSUME NEW fields, NEW k, c \in Run(fields, k, b) PROVE c[1] = "run" /\ c[2] \in fields /\ c[3] = k /\ c[4] = b
  BY <1>1, Cell DEF Run
<1>2. ASSUME NEW fields, NEW k, c \in Step(fields, k, b) PROVE c[1] = "step" /\ c[2] \in fields /\ c[3] = k /\ c[4] = b
  BY <1>2, Cell DEF Step
<1>3. ASSUME NEW field, c \in Once({field}, b) PROVE c[1] = "run" /\ c[2] = field /\ c[4] = b
  <2>1. c \in Run({field} \cap Registers(option), 0, b)
    BY <1>3 DEF Once
  <2> QED
    BY <2>1, <1>1
<1>4. ASSUME NEW k, c \in Flux(k, b) PROVE c[1] = "run" /\ c[2] = "flux" /\ c[3] = k /\ c[4] = b
  <2>1. c \in Run({"flux"}, k, b)
    BY <1>4 DEF Flux
  <2> QED
    BY <2>1, <1>1
<1>5. c \in across => c[1] = "run" /\ c[2] \in AllFields /\ c[3] = Other(Bank) /\ c[4] = b
  BY <1>1
<1>6. Stage.op \in Ops
  BY StageNow DEF StageType
<1> HIDE DEF across
<1>7. CASE Stage.op = "Backup"
  BY <1>1, <1>7 DEF Yields
<1>8. CASE Stage.op \in {"Restore", "RestoreRadiationStep"}
  BY <1>1, <1>8 DEF Yields
<1>9. CASE Stage.op = "Normalize"
  BY <1>5, <1>9 DEF Yields, across
<1>10. CASE Stage.op = "ResetFlux"
  BY <1>4, <1>10 DEF Yields
<1>11. CASE Stage.op = "Advance"
  <2>1. c \in across \/ c \in Flux(0, b) \/ c \in Once({"massFlux"}, b) \/ (InInterval /\ c \in Flux(1, b))
    BY <1>11 DEF Yields, across
  <2> QED
    BY <1>3, <1>4, <1>5, <1>11, <2>1
<1>12. CASE Stage.op = "Probe"
  <2>1. c \in across \/ c \in Flux(0, b) \/ c \in Once({"massFlux"}, b) \/ c \in Step({"rate"}, 0, b)
    BY <1>12 DEF Yields, across
  <2> QED
    BY <1>2, <1>3, <1>4, <1>5, <1>12, <2>1
<1>13. CASE Stage.op = "Reflux"
  <2>1. c \in Run(StateFields, Other(Bank), b)
    BY <1>13 DEF Yields
  <2> QED
    BY <1>1, <1>13, <2>1, Kinships
<1>14. CASE Stage.op = "PrepareGravityEnergy"
  <2>1. c \in Once({"kickWork"}, b) \/ c \in Run({"oldGravity"}, 0, b)
    BY <1>14 DEF Yields
  <2> QED
    BY <1>1, <1>3, <1>14, <2>1
<1>15. CASE Stage.op = "KickTracked"
  <2>1. c \in across \/ c \in Once({"kickWork"}, b)
    BY <1>15 DEF Yields, across
  <2> QED
    BY <1>3, <1>5, <1>15, <2>1
<1>16. CASE Stage.op \in {"Kick", "SolveGravity", "FinishGravityEnergy", "FinishRadiationStep", "CoupleRadiation"}
  <2>1. c \in across
    BY <1>16 DEF Yields, across
  <2> QED
    BY <1>5, <1>16, <2>1
<1>17. CASE Stage.op = "Save"
  <2>1. c \in {"saved"} \X AllFields \X {0} \X {b}
    BY <1>17 DEF Yields
  <2> QED
    BY <1>17, <2>1, Cell
<1>18. CASE Stage.op = "SaveRadiationStep"
  BY <1>2, <1>18 DEF Yields
<1>19. CASE Stage.op = "PredictRadiationStep"
  BY <1>2, <1>19 DEF Yields
<1>20. CASE Stage.op = "ForecastRadiationStep"
  BY <1>1, <1>20 DEF Yields
<1>21. CASE Stage.op = "Timestep"
  BY <1>21 DEF Yields
<1> QED
  BY <1>6, <1>7, <1>8, <1>9, <1>10, <1>11, <1>12, <1>13, <1>14, <1>15, <1>16, <1>17, <1>18, <1>19, <1>20, <1>21 DEF Ops

(* A fact that the stage lets survive holds after it. *)
LEMMA HoldsOn ==
  ASSUME NEW A, NEW s, NEW p \in Nat, p >= 1, NEW x, Holds(A, s, p, x), Survives(s[p], x)
  PROVE  Holds(A, s, p + 1, x)
<1>1. (p + 1) - 1 = p /\ p \in 1 .. p
  OBVIOUS
<1>2. \A r \in 1 .. p : r = p \/ r \in 1 .. (p - 1)
  OBVIOUS
<1>3. CASE x \in A /\ \A r \in 1 .. (p - 1) : Survives(s[r], x)
  <2>1. \A r \in 1 .. p : Survives(s[r], x)
    BY <1>2, <1>3
  <2> QED
    BY <1>1, <1>3, <2>1 DEF Holds
<1>4. CASE \E q \in 1 .. (p - 1) : x \in Makes(s[q]) /\ \A r \in (q + 1) .. (p - 1) : Survives(s[r], x)
  <2>1. PICK q \in 1 .. (p - 1) : x \in Makes(s[q]) /\ \A r \in (q + 1) .. (p - 1) : Survives(s[r], x)
    BY <1>4
  <2>2. \A r \in (q + 1) .. p : r = p \/ r \in (q + 1) .. (p - 1)
    OBVIOUS
  <2>3. q \in 1 .. p /\ \A r \in (q + 1) .. p : Survives(s[r], x)
    BY <2>1, <2>2
  <2> QED
    BY <1>1, <2>1, <2>3 DEF Holds
<1> QED
  BY <1>3, <1>4 DEF Holds
-----------------------------------------------------------------------------
(***************************************************************************)
(* The steps.                                                              *)
(***************************************************************************)
Tight == Where /\ Listing /\ Sound /\ Stands /\ Completed

(* What is due, and what tasks change, depends on the call, the banks and    *)
(* the levels only.                                                        *)
LEMMA Steady ==
  ASSUME UNCHANGED <<option, mode, pc, bank, levels>>
  PROVE  /\ \A c : Owed(c)' <=> Owed(c)
         /\ \A b : Yields(b)' = Yields(b)
         /\ Where' <=> Where
         /\ Stage' = Stage /\ Bank' = Bank /\ Blocks' = Blocks /\ InCall' = InCall /\ Allocated' = Allocated
<1>1. Plan' = Plan /\ AllFields' = AllFields /\ Gravity' = Gravity /\ InInterval' = InInterval /\ InCall' = InCall
      /\ Stage' = Stage /\ Allocated' = Allocated /\ BackupHeld' = BackupHeld
  BY DEF Plan, AllFields, Gravity, InInterval, InCall, Stage, StageIn, Allocated, BackupHeld
<1>2. \A b : TimeLevel(b)' = TimeLevel(b)
  BY DEF TimeLevel
<1>3. Bank' = Bank /\ Blocks' = Blocks
  BY <1>1, <1>2 DEF Bank, Blocks
<1>4. \A b : OwnBank(b)' = OwnBank(b) /\ BankOf(b)' = BankOf(b) /\ NextBank(b)' = NextBank(b)
             /\ levels[TimeLevel(b)].pending' = levels[TimeLevel(b)].pending
  BY <1>1, <1>2, <1>3 DEF OwnBank, BankOf, NextBank
<1>5. \A b : Yields(b)' = Yields(b)
  BY <1>1, <1>3, <1>4 DEF Yields, Once, Registers
<1>6. \A x : Here(x)' <=> Here(x)
  BY <1>1 DEF Here
<1>7. Where' <=> Where
  BY <1>1, <1>6 DEF Where
<1>8. \A kind, b : Promised(kind, b)' = Promised(kind, b)
  BY <1>1, <1>4 DEF Promised, Once, Registers
<1>9. \A level, b : About(level, b)' <=> About(level, b)
  BY <1>2 DEF About
<1>10. \A b, c : Pledged(b, c)' <=> Pledged(b, c)
  BY <1>6, <1>8, <1>9 DEF Pledged
<1>11. \A b, c : /\ Current(b, c)' <=> Current(b, c)
                 /\ Coming(b, c)' <=> Coming(b, c)
                 /\ Reserved(b, c)' <=> Reserved(b, c)
                 /\ Secured(b, c)' <=> Secured(b, c)
  BY <1>1, <1>4 DEF Current, Coming, Reserved, Secured, Saved
<1>12. \A c : Owed(c)' <=> Owed(c)
  BY <1>10, <1>11 DEF Owed
<1> QED
  BY <1>1, <1>3, <1>5, <1>7, <1>12

(* No task is at work while none is listed, or when the stage is over. *)
LEMMA Calm ==
  ASSUME access = <<>>
  PROVE  \A c : ~Tearing(c)
BY DEF Tearing

LEMMA Over ==
  ASSUME Control, Interval, InCall, Typed, Tight, Done
  PROVE  /\ \A c : ~Tearing(c)
         /\ DOMAIN access = Blocks /\ \A b \in Blocks : tasks[b] = "done" /\ Changes(access[b]) = Yields(b)
         /\ \A c \in Allocated : Owed(c) \/ (\E d \in Blocks : c \in Yields(d)) => data[c] # 0
<1>1. /\ access # <<>> /\ DOMAIN access = Blocks /\ \A b \in Blocks : tasks[b] # "idle"
      /\ \A b \in Leaves : tasks[b] \in {"idle", "done"}
  BY DEF Done, Tight, Listing
<1>2. \A b \in Blocks : tasks[b] = "done"
  BY <1>1 DEF Blocks
<1>3. \A c : ~Tearing(c)
  BY <1>1, <1>2 DEF Tearing
<1>4. \A b \in Blocks : Changes(access[b]) = Yields(b)
  BY <1>1 DEF Tight, Sound
<1>5. \A b \in Blocks : \A c \in Yields(b) : data[c] # 0
  BY <1>1, <1>2, <1>4 DEF Tight, Completed
<1>6. \A c \in Allocated : Owed(c) => data[c] # 0
  BY <1>3 DEF Tight, Stands
<1> QED
  BY <1>1, <1>2, <1>3, <1>4, <1>5, <1>6

(* The coordinator goes on: nothing is listed, and all that is due is whole. *)
LEMMA Enters ==
  ASSUME access' = <<>>, option' = option, Where', \A c \in Allocated : Owed(c)' => data'[c] # 0
  PROVE  Tight'
<1>1. Allocated' = Allocated /\ DOMAIN <<>> = {}
  BY DEF Allocated
<1>2. Stands'
  BY <1>1 DEF Stands
<1>3. Completed'
  BY <1>1 DEF Completed
<1>4. Sound'
  BY <1>1 DEF Sound
<1>5. Listing'
  BY DEF Listing
<1> QED
  BY <1>2, <1>3, <1>4, <1>5 DEF Tight

(* What is due is not in the way of a task that failed.                    *)
LEMMA Whole ==
  ASSUME Control, Interval, InCall, Typed, Tight, data' = Torn, access # <<>>,
         NEW c \in Allocated, Owed(c), \A d \in Blocks : c \notin Yields(d)
  PROVE  data'[c] # 0
<1>1. DOMAIN access = Blocks /\ \A d \in Blocks : Changes(access[d]) = Yields(d)
  BY DEF Tight, Listing, Sound
<1>2. ~Tearing(c)
  BY <1>1 DEF Tearing
<1>3. data[c] # 0
  BY <1>2 DEF Tight, Stands
<1>4. c \notin UNION {Writes(d) : d \in DOMAIN access}
  BY <1>1 DEF Writes, Changes
<1>5. DOMAIN data = Allocated
  BY DEF Typed, Kinds
<1> HIDE DEF Writes
<1>6. data'[c] = data[c]
  BY <1>4, <1>5 DEF Torn
<1> QED
  BY <1>3, <1>6

(* A failed stage has tasks. *)
LEMMA FailedListed ==
  ASSUME Typed, Failed
  PROVE  access # <<>> /\ Leaves # {}
<1>1. PICK b \in Leaves : tasks[b] = "thrown"
  BY DEF Failed
<1>2. b \in DOMAIN access
  BY <1>1 DEF Typed, Listed
<1> QED
  BY <1>2

(* Start: what is published is all a call begins with.                     *)
LEMMA StartTight ==
  ASSUME IInv, Tight, Start
  PROVE  Tight'
<1>1. /\ mode = "idle" /\ mode' = "running" /\ pc' = 1 /\ access' = <<>>
      /\ UNCHANGED <<option, bank, levels, data>>
  BY DEF Start, Enter
<1>2. ~InInterval /\ ~InInterval' /\ access = <<>>
  BY <1>1 DEF IInv, Interval, InInterval, Tight, Listing, InCall
<1>3. \A x : Here(x)' => x \in Outset
  <2>1. \A x : Here(x)' => Holds(Outset, Plan', 1, x)
    BY <1>1 DEF Here
  <2>2. 1 .. (1 - 1) = {}
    OBVIOUS
  <2>3. \A s, x : Holds(Outset, s, 1, x) => x \in Outset
    BY <2>2 DEF Holds
  <2> QED
    BY <2>1, <2>3
<1>4. Where'
  <2>1. Fact("open") \notin Outset
    BY DEF Outset, Fact
  <2> QED
    BY <1>2, <1>3, <2>1 DEF Where
<1>5. AllFields' = AllFields /\ \A b : OwnBank(b)' = OwnBank(b)
  BY <1>1, <1>2 DEF AllFields, OwnBank
<1>6. ASSUME NEW c \in Allocated, Owed(c)' PROVE data'[c] # 0
  <2>1. PICK b \in Leaves : (\/ Current(b, c) \/ Coming(b, c) \/ Reserved(b, c) \/ Secured(b, c)
                             \/ mode = "running" /\ Pledged(b, c))'
    BY <1>6, Zenon DEF Owed
  <2>2. ~Coming(b, c)' /\ ~Reserved(b, c)' /\ ~Secured(b, c)'
    BY <1>1, <1>2 DEF Coming, Reserved, Secured, BackupHeld
  <2>3. ~Pledged(b, c)'
    <3>1. ASSUME NEW kind \in Promises, NEW level, Here(<<kind, level>>)' PROVE FALSE
      <4>1. <<kind, level>> \in Outset
        BY <1>3, <3>1
      <4> QED
        BY <4>1 DEF Outset, Fact, Promises
    <3> QED
      BY <3>1 DEF Pledged
  <2>4. Current(b, c)'
    BY <2>1, <2>2, <2>3
  <2>5. Current(b, c)
    BY <1>1, <1>5, <2>4 DEF Current
  <2>6. data[c] # 0
    BY <1>2, <2>5, Calm DEF Tight, Stands, Owed
  <2> QED
    BY <1>1, <2>6
<1> QED
  BY <1>1, <1>4, <1>6, Enters

(* Begin: the tasks of a stage find their inputs. *)
LEMMA BeginTight ==
  ASSUME IInv, Typed, Tight, Begin
  PROVE  Tight'
<1>1. /\ InCall /\ access = <<>> /\ access' = [b \in Blocks |-> AccessOf(b)]
      /\ tasks' = [b \in Leaves |-> IF b \in Blocks THEN "ready" ELSE "idle"]
      /\ UNCHANGED <<option, mode, pc, bank, levels, data>>
  BY DEF Begin
<1>2. /\ \A c : Owed(c)' <=> Owed(c)
      /\ \A b : Yields(b)' = Yields(b)
      /\ Where' <=> Where
      /\ Stage' = Stage /\ Bank' = Bank /\ Blocks' = Blocks /\ InCall' = InCall /\ Allocated' = Allocated
  BY <1>1, Steady
<1>3. \A b \in DOMAIN access' : b \in Blocks /\ access'[b] = AccessOf(b)
  BY <1>1
<1>4. \A b \in Blocks : b \in Leaves /\ tasks'[b] = "ready"
  BY <1>1 DEF Blocks
<1>5. Listing'
  BY <1>1, <1>2, <1>4 DEF Listing
<1>6. Stands'
  <2>1. \A c \in Allocated : Owed(c) => data[c] # 0
    BY <1>1, Calm DEF Tight, Stands
  <2> QED
    BY <1>1, <1>2, <2>1 DEF Stands
<1>7. Completed'
  BY <1>3, <1>4 DEF Completed
<1>8. Sound'
  <2>1. ASSUME NEW b \in Blocks
        PROVE  /\ \A c \in Touched(AccessOf(b)) : Owed(c)
               /\ Changes(AccessOf(b)) = Yields(b) /\ Orderly(AccessOf(b).copies, Yields(b))
               /\ Stage.op \in {"Kick", "KickTracked"} => Copy({"radiation"}, Bank, Other(Bank), b) \subseteq AccessOf(b).copies
    BY <1>1, ReadsOwed, TaskYields DEF IInv, Tight
  <2>2. ASSUME NEW b \in DOMAIN access'
        PROVE  /\ \A c \in Touched(access'[b]) : Owed(c)'
               /\ Changes(access'[b]) = Yields(b)' /\ Orderly(access'[b].copies, Yields(b)')
               /\ Stage'.op \in {"Kick", "KickTracked"} => Copy({"radiation"}, Bank', Other(Bank'), b) \subseteq access'[b].copies
    <3>1. b \in Blocks /\ access'[b] = AccessOf(b)
      BY <1>3
    <3> QED
      BY <1>2, <2>1, <3>1
  <2> QED
    BY <2>2 DEF Sound, Touched, Changes, Orderly, Copy, Other
<1> QED
  BY <1>2, <1>5, <1>6, <1>7, <1>8 DEF Tight

(* A step of one task leaves the rest of the stage alone. *)
LEMMA TaskStep ==
  ASSUME IInv, Typed, Tight, NEW b \in Leaves, NEW t, t # "idle", tasks[b] # "idle",
         UNCHANGED <<option, mode, pc, access, bank, levels>>, tasks' = [tasks EXCEPT ![b] = t],
         \A c \in Allocated : c \notin Changes(access[b]) => data'[c] = data[c]
  PROVE  /\ b \in DOMAIN access /\ tasks'[b] = t /\ \A d \in Leaves : d # b => tasks'[d] = tasks[d]
         /\ \A d \in DOMAIN access : d \in Leaves
         /\ Allocated' = Allocated /\ \A c : Owed(c)' <=> Owed(c)
         /\ Where' /\ Listing' /\ Sound'
         /\ \A d \in DOMAIN access : d # b /\ tasks[d] = "done" =>
              /\ \A c \in Changes(access[d]) : data'[c] # 0
              /\ \A x \in access[d].copies : data'[x[2]] = data'[x[1]]
<1>1. b \in DOMAIN access /\ tasks'[b] = t /\ \A d \in Leaves : d # b => tasks'[d] = tasks[d]
  BY DEF Typed, Listed, Kinds
<1>2. /\ \A c : Owed(c)' <=> Owed(c)
      /\ \A d : Yields(d)' = Yields(d)
      /\ Where' <=> Where
      /\ Stage' = Stage /\ Bank' = Bank /\ Blocks' = Blocks /\ InCall' = InCall /\ Allocated' = Allocated
  BY Steady
<1>3. DOMAIN access = Blocks /\ \A d \in Blocks : d \in Leaves
  BY <1>1 DEF Tight, Listing, Blocks
<1>4. Listing'
  <2>1. \A d \in Blocks : tasks'[d] # "idle"
    BY <1>1, <1>3 DEF Tight, Listing
  <2> QED
    BY <1>2, <1>3, <2>1 DEF Tight, Listing
<1>5. Sound'
  <2>1. ASSUME NEW d \in DOMAIN access
        PROVE  /\ \A c \in Touched(access[d]) : Owed(c)'
               /\ Changes(access[d]) = Yields(d)' /\ Orderly(access[d].copies, Yields(d)')
               /\ Stage'.op \in {"Kick", "KickTracked"} => Copy({"radiation"}, Bank', Other(Bank'), d) \subseteq access[d].copies
    BY <1>2 DEF Tight, Sound
  <2> QED
    BY <2>1 DEF Sound, Touched, Changes, Orderly, Copy, Other
<1>6. ASSUME NEW d \in DOMAIN access, d # b, tasks[d] = "done"
      PROVE  /\ \A c \in Changes(access[d]) : data'[c] # 0
             /\ \A x \in access[d].copies : data'[x[2]] = data'[x[1]]
  <2>1. Apart(access[b], access[d])
    BY <1>1, <1>6 DEF IInv, Isolated
  <2>2. \A c \in Changes(access[d]) \cup Touched(access[d]) : c \in Allocated /\ c \notin Changes(access[b])
    BY <2>1 DEF Apart, Changes, Touched, Typed, Within
  <2>3. \A c \in Changes(access[d]) \cup Touched(access[d]) : data'[c] = data[c]
    BY <2>2
  <2>4. \A x \in access[d].copies : x[1] \in Touched(access[d]) /\ x[2] \in Changes(access[d])
    BY DEF Touched, Changes
  <2>5. /\ \A c \in Changes(access[d]) : data[c] # 0
        /\ \A x \in access[d].copies : data[x[2]] = data[x[1]]
    BY <1>6 DEF Tight, Completed
  <2> QED
    BY <2>3, <2>4, <2>5
<1> QED
  BY <1>1, <1>2, <1>3, <1>4, <1>5, <1>6 DEF Tight

(* Open: what a task is about to change is in pieces. *)
LEMMA OpenTight ==
  ASSUME IInv, Typed, Tight, NEW b \in Leaves, Open(b)
  PROVE  Tight'
<1>1. /\ tasks[b] = "ready" /\ tasks' = [tasks EXCEPT ![b] = "open"]
      /\ UNCHANGED <<option, mode, pc, access, bank, levels>>
      /\ data' = [c \in DOMAIN data |-> IF c \in Changes(access[b]) THEN 0 ELSE data[c]]
  BY DEF Open, Writes, Changes
<1>2. \A c \in Allocated : data'[c] = IF c \in Changes(access[b]) THEN 0 ELSE data[c]
  BY <1>1 DEF Typed, Kinds
<1>8. tasks[b] # "idle" /\ "open" # "idle" /\ \A c \in Allocated : c \notin Changes(access[b]) => data'[c] = data[c]
  BY <1>1, <1>2
<1>3. /\ b \in DOMAIN access /\ tasks'[b] = "open" /\ \A d \in Leaves : d # b => tasks'[d] = tasks[d]
      /\ \A d \in DOMAIN access : d \in Leaves
      /\ Allocated' = Allocated /\ \A c : Owed(c)' <=> Owed(c)
      /\ Where' /\ Listing' /\ Sound'
      /\ \A d \in DOMAIN access : d # b /\ tasks[d] = "done" =>
           /\ \A c \in Changes(access[d]) : data'[c] # 0
           /\ \A x \in access[d].copies : data'[x[2]] = data'[x[1]]
  BY <1>1, <1>8, TaskStep
<1>4. \A d \in DOMAIN access : tasks[d] \in {"open", "thrown"} => tasks'[d] = tasks[d]
  BY <1>1, <1>3
<1>5. Completed'
  BY <1>1, <1>3 DEF Completed, Changes
<1>6. ASSUME NEW c \in Allocated, Owed(c) PROVE data'[c] # 0 \/ Tearing(c)'
  <2>1. CASE c \in Changes(access[b])
    BY <1>1, <1>3, <2>1 DEF Tearing, Changes
  <2>2. CASE Tearing(c)
    BY <1>1, <1>4, <2>2 DEF Tearing, Changes
  <2>3. CASE c \notin Changes(access[b]) /\ ~Tearing(c)
    BY <1>2, <1>6, <2>3 DEF Tight, Stands
  <2> QED
    BY <2>1, <2>2, <2>3
<1>7. Stands'
  BY <1>3, <1>6 DEF Stands
<1> QED
  BY <1>3, <1>5, <1>7 DEF Tight

(* What the result of a task consists of. *)
LEMMA ResultCells ==
  ASSUME DOMAIN data = Allocated, NEW b, Orderly(access[b].copies, Changes(access[b])),
         Changes(access[b]) \subseteq Allocated
  PROVE  /\ \A c \in Allocated : c \notin Changes(access[b]) => Result(b)[c] = data[c]
         /\ \A x \in access[b].copies : Result(b)[x[2]] = data[x[1]]
         /\ \A c \in Changes(access[b]) :
              Result(b)[c] = pc + 1 \/ \E x \in access[b].copies : Result(b)[c] = data[x[1]]
<1> DEFINE C == access[b].copies
           source == [c \in {x[2] : x \in C} |-> (CHOOSE x \in C : x[2] = c)[1]]
<1>1. ASSUME NEW x \in C PROVE x[2] \in DOMAIN source /\ source[x[2]] = x[1]
  <2>1. \E y \in C : y[2] = x[2]
    OBVIOUS
  <2>2. (CHOOSE y \in C : y[2] = x[2]) \in C /\ (CHOOSE y \in C : y[2] = x[2])[2] = x[2]
    BY <2>1
  <2>3. (CHOOSE y \in C : y[2] = x[2])[1] = x[1]
    BY <2>2 DEF Orderly
  <2> QED
    BY <2>3
<1>2. \A c \in DOMAIN source : \E x \in C : c = x[2]
  OBVIOUS
<1>3. \A c \in Allocated : Result(b)[c] = IF c \in DOMAIN source THEN data[source[c]]
                                         ELSE IF c \in access[b].computes THEN pc + 1 ELSE data[c]
  BY DEF Result
<1>4. \A x \in C : x[2] \in Changes(access[b]) /\ x[2] \in Allocated
  BY DEF Changes
<1>5. \A c \in access[b].computes : c \in Changes(access[b])
  BY DEF Changes
<1>6. \A c \in Changes(access[b]) : c \in Allocated /\ (c \in access[b].computes \/ \E x \in C : c = x[2])
  BY DEF Changes
<1> HIDE DEF source, C
<1>7. \A x \in C : Result(b)[x[2]] = data[x[1]]
  BY <1>1, <1>3, <1>4
<1>8. ASSUME NEW c \in Allocated, c \notin Changes(access[b]) PROVE Result(b)[c] = data[c]
  <2>1. c \notin DOMAIN source /\ c \notin access[b].computes
    BY <1>2, <1>4, <1>5, <1>8
  <2> QED
    BY <1>3, <2>1
<1>9. ASSUME NEW c \in Changes(access[b]) PROVE Result(b)[c] = pc + 1 \/ \E x \in C : Result(b)[c] = data[x[1]]
  <2>1. CASE \E x \in C : c = x[2]
    BY <1>7, <2>1
  <2>2. CASE ~\E x \in C : c = x[2]
    <3>1. c \notin DOMAIN source /\ c \in access[b].computes /\ c \in Allocated
      BY <1>2, <1>6, <2>2
    <3> QED
      BY <1>3, <3>1
  <2> QED
    BY <2>1, <2>2
<1> QED
  BY <1>7, <1>8, <1>9 DEF C

(* Close: the results of a task are whole, those it copies as well. *)
LEMMA CloseTight ==
  ASSUME IInv, Typed, Tight, NEW b \in Leaves, Close(b)
  PROVE  Tight'
<1>1. /\ tasks[b] = "open" /\ tasks' = [tasks EXCEPT ![b] = "done"]
      /\ UNCHANGED <<option, mode, pc, access, bank, levels>>
      /\ data' = Result(b)
  BY DEF Close
<1>2. b \in DOMAIN access
  BY <1>1 DEF Typed, Listed
<1>3. DOMAIN data = Allocated /\ Orderly(access[b].copies, Changes(access[b])) /\ Changes(access[b]) \subseteq Allocated
  BY <1>2 DEF Typed, Kinds, Within, Tight, Sound
<1>4. /\ \A c \in Allocated : c \notin Changes(access[b]) => data'[c] = data[c]
      /\ \A x \in access[b].copies : data'[x[2]] = data[x[1]]
      /\ \A c \in Changes(access[b]) : data'[c] = pc + 1 \/ \E x \in access[b].copies : data'[c] = data[x[1]]
  BY <1>1, <1>3, ResultCells
<1>5. /\ b \in DOMAIN access /\ tasks'[b] = "done" /\ \A d \in Leaves : d # b => tasks'[d] = tasks[d]
      /\ \A d \in DOMAIN access : d \in Leaves
      /\ Allocated' = Allocated /\ \A c : Owed(c)' <=> Owed(c)
      /\ Where' /\ Listing' /\ Sound'
      /\ \A d \in DOMAIN access : d # b /\ tasks[d] = "done" =>
           /\ \A c \in Changes(access[d]) : data'[c] # 0
           /\ \A x \in access[d].copies : data'[x[2]] = data'[x[1]]
  BY <1>1, <1>4, TaskStep
<1>6. ASSUME NEW x \in access[b].copies PROVE data[x[1]] # 0 /\ data'[x[1]] = data[x[1]]
  <2>1. x[1] \in Touched(access[b]) /\ x[1] \notin Changes(access[b])
    BY <1>3 DEF Touched, Orderly
  <2>2. x[1] \in Allocated /\ Owed(x[1])
    BY <1>2, <2>1 DEF Typed, Within, Tight, Sound
  <2>3. ASSUME NEW d \in DOMAIN access, x[1] \in Changes(access[d]) PROVE FALSE
    <3>1. d # b
      BY <2>1, <2>3
    <3>2. Apart(access[d], access[b])
      BY <1>2, <3>1 DEF IInv, Isolated
    <3> QED
      BY <2>1, <2>3, <3>2 DEF Apart, Changes, Touched
  <2>4. ~Tearing(x[1])
    BY <2>3 DEF Tearing
  <2> QED
    BY <1>4, <2>1, <2>2, <2>4 DEF Tight, Stands
<1>7. \A c \in Changes(access[b]) : data'[c] # 0
  BY <1>4, <1>6 DEF IInv, Control
<1>8. Completed'
  BY <1>1, <1>4, <1>5, <1>6, <1>7 DEF Completed, Changes
<1>9. \A d \in DOMAIN access : d # b /\ tasks[d] \in {"open", "thrown"} => tasks'[d] = tasks[d]
  BY <1>1, <1>5
<1>10. ASSUME NEW c \in Allocated, Owed(c) PROVE data'[c] # 0 \/ Tearing(c)'
  <2>1. CASE c \in Changes(access[b])
    BY <1>7, <2>1
  <2>2. CASE c \notin Changes(access[b]) /\ Tearing(c)
    BY <1>1, <1>9, <2>2 DEF Tearing, Changes
  <2>3. CASE c \notin Changes(access[b]) /\ ~Tearing(c)
    BY <1>4, <1>10, <2>3 DEF Tight, Stands
  <2> QED
    BY <2>1, <2>2, <2>3
<1>11. Stands'
  BY <1>5, <1>10 DEF Stands
<1> QED
  BY <1>5, <1>8, <1>11 DEF Tight

(* Throw: what a failed task was at stays in pieces. *)
LEMMA ThrowTight ==
  ASSUME IInv, Typed, Tight, NEW b \in Leaves, Throw(b)
  PROVE  Tight'
<1>1. /\ tasks[b] = "open" /\ tasks' = [tasks EXCEPT ![b] = "thrown"]
      /\ UNCHANGED <<option, mode, pc, access, bank, levels, data>>
  BY DEF Throw
<1>2. /\ b \in DOMAIN access /\ tasks'[b] = "thrown" /\ \A d \in Leaves : d # b => tasks'[d] = tasks[d]
      /\ \A d \in DOMAIN access : d \in Leaves
      /\ Allocated' = Allocated /\ \A c : Owed(c)' <=> Owed(c)
      /\ Where' /\ Listing' /\ Sound'
      /\ \A d \in DOMAIN access : d # b /\ tasks[d] = "done" =>
           /\ \A c \in Changes(access[d]) : data'[c] # 0
           /\ \A x \in access[d].copies : data'[x[2]] = data'[x[1]]
  BY <1>1, TaskStep
<1>3. \A d \in DOMAIN access : tasks[d] \in {"open", "thrown"} => tasks'[d] \in {"open", "thrown"}
  BY <1>1, <1>2
<1>4. Completed'
  BY <1>1, <1>2 DEF Completed, Changes
<1>5. ASSUME NEW c \in Allocated, Owed(c) PROVE data'[c] # 0 \/ Tearing(c)'
  <2>1. CASE Tearing(c)
    BY <1>1, <1>3, <2>1 DEF Tearing, Changes
  <2>2. CASE ~Tearing(c)
    BY <1>1, <1>5, <2>2 DEF Tight, Stands
  <2> QED
    BY <2>1, <2>2
<1>6. Stands'
  BY <1>2, <1>5 DEF Stands
<1> QED
  BY <1>2, <1>4, <1>6 DEF Tight

(* EndStage: what the next stage may count on is there. *)
LEMMA EndTight ==
  ASSUME IInv, Typed, Tight, EndStage
  PROVE  Tight'
<1>1. /\ Done /\ mode = "running" /\ mode' = "running" /\ pc' = pc + 1 /\ access' = <<>> /\ Published /\ option' = option
      /\ data' = [c \in DOMAIN data |-> IF c \in Spent THEN 0 ELSE data[c]]
  BY DEF EndStage, Enter
<1>2. InCall /\ Control /\ Interval /\ Grants /\ Where
  BY <1>1 DEF InCall, IInv, Typed, Tight
<1>3. Where'
  BY <1>1, <1>2, WhereNext
<1>4. ASSUME NEW c \in Allocated, Owed(c)' PROVE data'[c] # 0
  <2>1. c \notin Spent /\ (Owed(c) \/ \E d \in Blocks : c \in Yields(d))
    BY <1>1, <1>2, <1>4, Settles
  <2>2. data[c] # 0
    BY <1>1, <1>2, <2>1, Over
  <2> QED
    BY <1>1, <2>1, <2>2 DEF Typed, Kinds
<1> QED
  BY <1>1, <1>3, <1>4, Enters

(* What is whole stays so when it is published. *)
LEMMA IsPublished ==
  ASSUME Typed, NEW k, NEW b \in Leaves, NEW c \in Run(AllFields, k, b), c \in Allocated, data[c] # 0
  PROVE  OnlyPublished(k)[c] # 0
<1>1. c \in Cells("run", AllFields, {k})
  BY DEF Cells, Run
<1>2. c \in DOMAIN data
  BY DEF Typed, Kinds
<1> QED
  BY <1>1, <1>2 DEF OnlyPublished

(* Return: what a call publishes is whole. *)
LEMMA ReturnTight ==
  ASSUME IInv, Typed, Tight, Return, IInv'
  PROVE  Tight'
<1>1. /\ Done /\ mode = "running" /\ mode' = "idle" /\ access' = <<>> /\ Published /\ option' = option
      /\ data' = OnlyPublished(bank')
  BY DEF Return, Enter
<1>2. InCall /\ Control /\ Interval /\ Grants /\ Where
  BY <1>1 DEF InCall, IInv, Typed, Tight
<1>3. Where'
  BY <1>1 DEF Where
<1>4. AllFields' = AllFields
  BY <1>1 DEF AllFields
<1>5. ASSUME NEW c \in Allocated, Owed(c)' PROVE data'[c] # 0
  <2>1. c \notin Spent /\ (Owed(c) \/ \E d \in Blocks : c \in Yields(d))
    BY <1>1, <1>2, <1>5, Settles
  <2>2. data[c] # 0
    BY <1>1, <1>2, <2>1, Over
  <2>3. ~InInterval'
    BY <1>1 DEF IInv, Interval
  <2>4. PICK b \in Leaves : (\/ Current(b, c) \/ Coming(b, c) \/ Reserved(b, c) \/ Secured(b, c)
                             \/ mode = "running" /\ Pledged(b, c))'
    BY <1>5, Zenon DEF Owed
  <2>6. c \in Run(AllFields, OwnBank(b)', b)
    BY <1>1, <1>4, <2>4 DEF Current, Coming, Reserved, Secured, BackupHeld
  <2>5. c \in Run(AllFields, bank', b)
    BY <2>3, <2>6 DEF OwnBank
  <2> QED
    BY <1>1, <2>2, <2>5, IsPublished
<1> QED
  BY <1>1, <1>3, <1>5, Enters

(* RolledBack: a call that failed leaves the mesh as it found it. *)
LEMMA RolledBackTight ==
  ASSUME IInv, Typed, Tight, RolledBack, IInv'
  PROVE  Tight'
<1>1. /\ Done /\ mode \in {"recovering", "restoring"} /\ mode' = "idle" /\ access' = <<>>
      /\ UNCHANGED <<option, bank, levels>> /\ data' = OnlyPublished(bank)
  BY DEF RolledBack, Enter
<1>2. InCall /\ Control /\ Interval /\ ~InInterval
  BY <1>1 DEF InCall, IInv, Interval
<1>3. Where' /\ ~InInterval' /\ AllFields' = AllFields
  BY <1>1, <1>2 DEF Where, InInterval, AllFields
<1>4. ASSUME NEW c \in Allocated, Owed(c)' PROVE data'[c] # 0
  <2>1. PICK b \in Leaves : (\/ Current(b, c) \/ Coming(b, c) \/ Reserved(b, c) \/ Secured(b, c)
                             \/ mode = "running" /\ Pledged(b, c))'
    BY <1>4, Zenon DEF Owed
  <2>2. c \in Run(AllFields, OwnBank(b)', b)
    BY <1>1, <1>3, <2>1 DEF Current, Coming, Reserved, Secured, BackupHeld
  <2>3. c \in Run(AllFields, bank, b)
    BY <1>1, <1>3, <2>2 DEF OwnBank
  <2>4. Stage.op \in {"Restore", "RestoreRadiationStep"} /\ Stage.level = -1
    BY <1>1, <1>2, Right
  <2>5. Bank = bank /\ b \in Blocks
    BY <1>2, <2>4 DEF Bank, Blocks
  <2>6. c \in Yields(b)
    BY <2>3, <2>4, <2>5 DEF Yields
  <2>7. data[c] # 0
    BY <1>1, <1>2, <2>5, <2>6, Over
  <2> QED
    BY <1>1, <2>3, <2>7, IsPublished
<1> QED
  BY <1>1, <1>3, <1>4, Enters

(* Lose: nothing is promised any more. *)
LEMMA LoseTight ==
  ASSUME Lose
  PROVE  Tight'
<1>1. mode' = "lost" /\ access' = <<>> /\ option' = option
  BY DEF Lose, Enter
<1>2. Where'
  BY <1>1 DEF Where
<1>3. ASSUME NEW c \in Allocated, Owed(c)' PROVE FALSE
  <2>1. PICK b \in Leaves : (\/ Current(b, c) \/ Coming(b, c) \/ Reserved(b, c) \/ Secured(b, c)
                             \/ mode = "running" /\ Pledged(b, c))'
    BY <1>3, Zenon DEF Owed
  <2> QED
    BY <1>1, <2>1 DEF Current, Coming, Reserved, Secured
<1> QED
  BY <1>1, <1>2, <1>3, Enters

(* No task of a later stage touches the copies that a coupled step keeps.  *)
LEMMA SavedUntouched ==
  ASSUME Control, Interval, Where, InCall, mode = "running" => pc > 1, NEW b, NEW c \in Saved(b), NEW d \in Blocks
  PROVE  c \notin Yields(d)
<1>1. c[1] = "saved"
  BY Cell DEF Saved
<1>2. SUFFICES ASSUME c \in Yields(d) PROVE FALSE
  OBVIOUS
<1>3. Stage.op = "Save"
  <2> DEFINE f == c[2]
             k == c[3]
  <2>1. c[1] # "run" /\ c[1] # "step"
    BY <1>1
  <2> QED
    BY <1>2, <2>1, YieldCells, Zenon
<1>4. mode = "running"
  BY <1>3, Right DEF InCall
<1>5. Fact("start") \in Needs(option, Stage)
  BY <1>3 DEF Needs
<1>6. Here(Fact("start"))
  BY <1>4, <1>5, Ready
<1>7. pc \in Nat /\ pc > 1
  BY <1>4 DEF Control
<1> QED
  BY <1>6, <1>7, HoldsNot DEF Here

(* Restore: the backups are whole when the interval is taken back.         *)
LEMMA RestoreTight ==
  ASSUME IInv, Typed, Tight, Restore
  PROVE  Tight'
<1>1. /\ Failed /\ mode = "running" /\ InInterval /\ mode' = "restoring" /\ access' = <<>>
      /\ option' = option /\ levels' = <<>> /\ data' = Torn
  BY DEF Restore, Enter
<1>2. InCall /\ Control /\ Interval /\ Where /\ access # <<>> /\ Leaves # {}
  BY <1>1, FailedListed DEF InCall, IInv, Tight
<1>3. pc \in Nat /\ pc > 1
  BY <1>1, <1>2 DEF Control, Interval, BackedUp
<1>4. Where' /\ ~InInterval' /\ AllFields' = AllFields
  BY <1>1 DEF Where, InInterval, AllFields
<1>5. ASSUME NEW c \in Allocated, Owed(c)' PROVE data'[c] # 0
  <2>1. PICK b \in Leaves : (\/ Current(b, c) \/ Coming(b, c) \/ Reserved(b, c) \/ Secured(b, c)
                             \/ mode = "running" /\ Pledged(b, c))'
    BY <1>5, Zenon DEF Owed
  <2>2. c \in Run(AllFields, 2, b) \/ (option.coupled /\ option.call = "advance" /\ c \in Saved(b))
    BY <1>1, <1>4, <2>1 DEF Current, Coming, Reserved, Secured, BackupHeld, Saved
  <2>3. Reserved(b, c) \/ Secured(b, c)
    BY <1>1, <1>3, <2>2 DEF Reserved, Secured, BackupHeld
  <2>4. Owed(c)
    BY <2>3 DEF Owed
  <2>5. ASSUME NEW d \in Blocks, c \in Yields(d) PROVE FALSE
    <3>1. CASE c \in Saved(b)
      BY <1>2, <1>3, <2>5, <3>1, SavedUntouched
    <3>2. CASE c \in Run(AllFields, 2, b)
      <4>1. c[1] = "run" /\ c[2] \in AllFields /\ c[3] = 2
        BY <3>2, Cell DEF Run
      <4>2. Bank \in {0, 1} /\ Other(Bank) \in {0, 1}
        BY <1>2, <2>5, BankNow DEF Other
      <4>3. Stage.op # "Backup"
        BY <1>1, <1>2, Placed DEF Global
      <4> QED
        BY <1>2, <2>5, <4>1, <4>2, <4>3, YieldCells, Kinships
    <3> QED
      BY <2>2, <3>1, <3>2
  <2> QED
    BY <1>1, <1>2, <2>4, <2>5, Whole
<1> QED
  BY <1>1, <1>4, <1>5, Enters

(* Recover: the copies of the step are whole when it is taken back. *)
LEMMA RecoverTight ==
  ASSUME IInv, Typed, Tight, Recover
  PROVE  Tight'
<1>1. /\ BackupHeld /\ mode' = "recovering" /\ access' = <<>> /\ UNCHANGED <<option, levels>>
      /\ \/ Failed /\ mode \in {"running", "restoring"} /\ data' = Torn
         \/ Done /\ mode = "restoring" /\ data' = data
  BY DEF Recover, Enter
<1>2. InCall /\ Control /\ Interval /\ Where
  BY <1>1 DEF InCall, IInv, Tight
<1>3. Where' /\ AllFields' = AllFields
  BY <1>1 DEF Where, AllFields
<1>4. ASSUME NEW c \in Allocated, Owed(c)' PROVE data'[c] # 0
  <2>1. PICK b \in Leaves : (\/ Current(b, c) \/ Coming(b, c) \/ Reserved(b, c) \/ Secured(b, c)
                             \/ mode = "running" /\ Pledged(b, c))'
    BY <1>4, Zenon DEF Owed
  <2>2. c \in Saved(b)
    BY <1>1, <1>3, <2>1 DEF Current, Coming, Reserved, Secured, Saved
  <2>3. Secured(b, c)
    BY <1>1, <2>2 DEF Secured
  <2>4. Owed(c)
    BY <2>3 DEF Owed
  <2>5. CASE Done /\ data' = data
    BY <1>2, <2>4, <2>5, Over
  <2>6. CASE Failed /\ data' = Torn
    <3>1. access # <<>>
      BY <2>6, FailedListed
    <3>2. mode = "running" => pc > 1
      BY <1>1 DEF BackupHeld
    <3>3. \A d \in Blocks : c \notin Yields(d)
      BY <1>2, <2>2, <3>2, SavedUntouched
    <3> QED
      BY <1>2, <2>4, <2>6, <3>1, <3>3, Whole
  <2> QED
    BY <1>1, <2>5, <2>6
<1> QED
  BY <1>1, <1>3, <1>4, Enters

(* The exchange alone is a call of one stage. *)
LEMMA CoupleAlone ==
  ASSUME Control, option.coupled, option.call # "advance"
  PROVE  Len(Plan) = 1
<1>1. option.call = "coupleRadiation"
  BY OptionAssumption DEF Control
<1>2. Plan = <<All("CoupleRadiation")>>
  BY <1>1 DEF Control, Plan, StagesOf, Stages
<1> QED
  BY <1>2

(* A call that has not begun has left nothing. *)
LEMMA AtFirst ==
  ASSUME NEW s, NEW kind \in Promises \cup {"probed"}, NEW level
  PROVE  ~Holds(Outset, s, 1, <<kind, level>>)
<1>1. 1 .. (1 - 1) = {}
  OBVIOUS
<1>2. <<kind, level>> \notin Outset
  BY DEF Outset, Fact, Promises
<1> QED
  BY <1>1, <1>2 DEF Holds

Unrepeated == {"Normalize", "ResetFlux", "KickTracked", "Restore", "RestoreRadiationStep"}

(* Retry repeats stages of the whole mesh outside an interval, of a coupled  *)
(* call its first only; what they go by is as it was.                      *)
LEMMA Repeats ==
  ASSUME IInv, Typed, Tight, Retry
  PROVE  /\ Stage.level \in Int /\ Stage.level < 0 /\ Stage.op \in Served(option) \ Unrepeated
         /\ Bank = bank /\ bank \in {0, 1} /\ Other(bank) # bank /\ ~InInterval
         /\ option.coupled => pc = 1 /\ pc' = 1
         /\ Where'
         /\ \A kind \in Promises : \A level : Here(<<kind, level>>)' =>
              Here(<<kind, level>>) /\ (Stage.op = "Reflux" => kind \notin {"ahead", "flux", "mass"})
<1>1. /\ Failed /\ mode = "running" /\ ~InInterval /\ ~BackupHeld /\ Stage.op # "KickTracked"
      /\ mode' = "running" /\ pc' = (IF Stage.op = "Reflux" THEN pc - 1 ELSE pc)
      /\ option' = option /\ levels' = levels
  BY DEF Retry, Enter
<1>2. InCall /\ Control /\ Interval /\ Where /\ Leaves # {} /\ pc \in Nat /\ pc >= 1 /\ pc <= Len(Plan) /\ Len(Plan) \in Nat
  <2>1. Plan \in Seq(StageType)
    BY CallLeads DEF IInv, Control, Leads, Plan
  <2> QED
    BY <1>1, <2>1, FailedListed DEF InCall, IInv, Tight, Control
<1>3. Stage.level \in Int /\ Stage.level < 0 /\ Stage.op # "Normalize" /\ Bank = bank
  BY <1>1, <1>2, Placed
<1>4. \A x \in Needs(option, Stage) : Here(x)
  BY <1>1, <1>2, Ready
<1>5. ~Here(Fact("open"))
  BY <1>1, <1>2 DEF Where
<1>6. Stage.op # "ResetFlux"
  BY <1>4, <1>5 DEF Needs
<1>7. Stage.op \in Served(option) \ Unrepeated
  BY <1>1, <1>2, <1>3, <1>6, Right DEF Unrepeated
<1>8. option.coupled => pc = 1
  <2>1. ASSUME option.coupled, option.call # "advance" PROVE pc = 1
    <3>1. Len(Plan) = 1
      BY <1>2, <2>1, CoupleAlone
    <3> QED
      BY <1>2, <3>1
  <2>2. ASSUME option.coupled, option.call = "advance" PROVE pc = 1
    BY <1>1, <1>2, <2>2 DEF BackupHeld
  <2> QED
    BY <2>1, <2>2
<1>9. Stage.op = "Reflux" => pc > 1 /\ Plan[pc - 1].op = "Advance" /\ Plan[pc - 1].level = -1
  <2>1. Stage.op = "Reflux" => Fact("advanced") \in Needs(option, Stage)
    BY <1>3 DEF Needs
  <2>2. Holds(Outset, Plan, pc, Fact("advanced")) => pc > 1 /\ Plan[pc - 1].op = "Advance" /\ Plan[pc - 1].level = -1
    BY <1>2, HoldsNot
  <2> QED
    BY <1>4, <2>1, <2>2 DEF Here
<1>10. option.coupled => pc' = 1
  BY <1>1, <1>8, <1>9
<1>11. Plan' = Plan /\ InInterval' = InInterval
  BY <1>1 DEF Plan, InInterval
<1>12. \A x : Here(x)' <=> Holds(Outset, Plan, pc', x)
  BY <1>11 DEF Here
<1>13. CASE Stage.op # "Reflux"
  <2>1. \A x : Here(x)' <=> Here(x)
    BY <1>1, <1>12, <1>13 DEF Here
  <2>2. Where'
    BY <1>1, <1>5, <1>11, <2>1 DEF Where
  <2> QED
    BY <1>1, <1>2, <1>3, <1>7, <1>8, <1>10, <1>13, <2>1, <2>2 DEF Control, Other
<1>14. CASE Stage.op = "Reflux"
  <2> DEFINE p == pc - 1
  <2>1. p \in Nat /\ p >= 1 /\ p \in 1 .. Len(Plan) /\ p + 1 = pc /\ pc' = p /\ Plan[p].op = "Advance" /\ Plan[p].level = -1
    BY <1>1, <1>2, <1>9, <1>14
  <2> HIDE DEF p
  <2>2. Leads(option, Outset, Plan, {})
    BY <1>2, CallLeads DEF Control, Plan
  <2>3. Fact("unmoved") \in Needs(option, Plan[p])
    BY <2>1 DEF Needs
  <2>4. Holds(Outset, Plan, p, Fact("unmoved"))
    BY <2>1, <2>2, <2>3 DEF Leads
  <2>5. \A kind \in {"ahead", "flux", "mass"} : \A level : ~Holds(Outset, Plan, p, <<kind, level>>)
    BY <2>1, <2>4, HoldsNot
  <2>6. ASSUME NEW kind \in (Promises \cup {"open"}) \ {"ahead", "flux", "mass"}, NEW level PROVE Survives(Plan[p], <<kind, level>>)
    BY <2>1, <2>6 DEF Survives, Promises
  <2>7. ASSUME NEW kind \in (Promises \cup {"open"}) \ {"ahead", "flux", "mass"}, NEW level, Holds(Outset, Plan, p, <<kind, level>>)
        PROVE  Here(<<kind, level>>)
    <3>1. Holds(Outset, Plan, p + 1, <<kind, level>>)
      BY <2>1, <2>6, <2>7, HoldsOn
    <3> QED
      BY <2>1, <3>1 DEF Here
  <2>8. ~Here(Fact("open"))'
    BY <1>5, <1>12, <2>1, <2>7 DEF Fact
  <2>9. Where'
    BY <1>1, <1>11, <2>8 DEF Where
  <2>10. ASSUME NEW kind \in Promises, NEW level, Here(<<kind, level>>)'
         PROVE  Here(<<kind, level>>) /\ kind \notin {"ahead", "flux", "mass"}
    BY <1>12, <2>1, <2>5, <2>7, <2>10
  <2> QED
    BY <1>1, <1>2, <1>3, <1>7, <1>8, <1>10, <2>9, <2>10 DEF Control, Other
<1> QED
  BY <1>13, <1>14

(* Retry: the stage that is repeated has spoiled none of its inputs.       *)
LEMMA RetryTight ==
  ASSUME IInv, Typed, Tight, Retry
  PROVE  Tight'
<1>1. /\ Failed /\ mode = "running" /\ ~BackupHeld /\ mode' = "running" /\ access' = <<>>
      /\ UNCHANGED <<option, bank, levels>> /\ data' = Torn
  BY DEF Retry, Enter
<1>2. InCall /\ Control /\ Interval /\ Where /\ access # <<>>
  BY <1>1, FailedListed DEF InCall, IInv, Tight
<1>3. /\ Stage.level \in Int /\ Stage.level < 0 /\ Stage.op \in Served(option) \ Unrepeated
      /\ Bank = bank /\ bank \in {0, 1} /\ Other(bank) # bank /\ ~InInterval
      /\ option.coupled => pc = 1 /\ pc' = 1
      /\ Where'
      /\ \A kind \in Promises : \A level : Here(<<kind, level>>)' =>
           Here(<<kind, level>>) /\ (Stage.op = "Reflux" => kind \notin {"ahead", "flux", "mass"})
  BY Repeats
<1>4. AllFields' = AllFields /\ Gravity' = Gravity /\ ~InInterval' /\ \A b : OwnBank(b)' = bank /\ OwnBank(b) = bank
  BY <1>1, <1>3 DEF AllFields, Gravity, InInterval, OwnBank
<1>5. \A x \in Needs(option, Stage) : Here(x)
  BY <1>1, <1>2, Ready
<1>6. ASSUME NEW c \in Allocated, Owed(c)' PROVE Owed(c) /\ \A d \in Blocks : c \notin Yields(d)
  <2>1. PICK b \in Leaves : (\/ Current(b, c) \/ Coming(b, c) \/ Reserved(b, c) \/ Secured(b, c)
                             \/ mode = "running" /\ Pledged(b, c))'
    BY <1>6, Zenon DEF Owed
  <2>2. ~Coming(b, c)' /\ ~Reserved(b, c)'
    BY <1>1, <1>4 DEF Coming, Reserved
  <2>3. ~Secured(b, c)'
    <3>1. BackupHeld' => option.coupled /\ pc' > 1
      BY <1>1 DEF BackupHeld
    <3> QED
      BY <1>1, <1>3, <3>1 DEF Secured
  <2>4. CASE Current(b, c)'
    <3>1. c \in Run(AllFields, bank, b)
      BY <1>4, <2>4 DEF Current
    <3>2. Current(b, c)
      BY <1>1, <1>4, <3>1 DEF Current
    <3>3. c[1] = "run" /\ c[2] \in AllFields /\ c[3] = bank
      BY <3>1, Cell DEF Run
    <3>4. ASSUME NEW d \in Blocks, c \in Yields(d) PROVE FALSE
      BY <1>2, <1>3, <3>3, <3>4, YieldCells, Kinships DEF Unrepeated
    <3> QED
      BY <3>2, <3>4 DEF Owed
  <2>5. CASE Pledged(b, c)'
    <3>1. PICK kind \in Promises : \E level \in Int : (About(level, b) /\ Here(<<kind, level>>) /\ c \in Promised(kind, b))'
      BY <2>5, Zenon DEF Pledged
    <3>2. PICK level \in Int : (About(level, b) /\ Here(<<kind, level>>) /\ c \in Promised(kind, b))'
      BY <3>1, Zenon
    <3>3. Here(<<kind, level>>) /\ (Stage.op = "Reflux" => kind \notin {"ahead", "flux", "mass"})
      BY <1>3, <3>2
    <3>4. About(level, b)
      BY <1>1, <3>2 DEF About, TimeLevel
    <3>5. c \in Promised(kind, b)
      BY <1>1, <1>4, <3>2 DEF Promised, Once, Registers, Promises
    <3>6. Owed(c)
      BY <1>1, <3>3, <3>4, <3>5, Pledge
    <3>7. ~option.coupled
      <4>1. pc = 1 => ~Here(<<kind, level>>)
        BY AtFirst DEF Here
      <4> QED
        BY <1>3, <3>3, <4>1
    <3>8. Stage.op \notin Exchanging
      BY <1>3, <3>7 DEF Served
    <3>9. Stage.op = "Advance" => kind \notin {"ahead", "flux", "mass"}
      <4>1. Stage.op = "Advance" => Fact("unmoved") \in Needs(option, Stage)
        BY <1>3 DEF Needs
      <4> QED
        BY <1>2, <1>5, <3>3, <4>1, HoldsNot DEF Here, Control
    <3>10. Stage.op \in {"Kick", "SolveGravity", "FinishGravityEnergy", "CoupleRadiation"} => kind # "ahead"
      <4>1. Stage.op \in {"Kick", "SolveGravity", "FinishGravityEnergy", "CoupleRadiation"} => Fact("settled") \in Needs(option, Stage)
        BY DEF Needs
      <4> QED
        BY <1>2, <1>5, <3>3, <4>1, HoldsNot DEF Here, Control
    <3>11. Stage.op = "PrepareGravityEnergy" => kind # "work"
      <4>1. Stage.op = "PrepareGravityEnergy" => Fact("unworked") \in Needs(option, Stage)
        BY DEF Needs
      <4> QED
        BY <1>2, <1>5, <3>3, <4>1, HoldsNot DEF Here, Control
    <3>12. /\ kind = "ahead" => c[1] = "run" /\ c[2] \in AllFields /\ c[3] = Other(OwnBank(b))
           /\ kind = "flux" => c[1] = "run" /\ c[2] = "flux" /\ c[3] = 0
           /\ kind = "register" => c[1] = "run" /\ c[2] = "flux" /\ c[3] = 1
           /\ kind = "step" => c[1] = "step" /\ c[2] \in AllFields /\ c[3] = 0
           /\ kind = "midpoint" => c[1] = "step" /\ c[2] \in StateFields /\ c[3] = 1
           /\ kind = "rate" => c[1] = "step" /\ c[2] = "rate" /\ c[3] = 0
           /\ kind = "work" => c[1] = "run" /\ c[2] \in {"oldGravity", "kickWork"} /\ c[3] = 0
           /\ kind = "mass" => c[1] = "run" /\ c[2] = "massFlux" /\ c[3] = 0
      BY <3>5, PromisedCells
    <3>13. ASSUME NEW d \in Blocks, c \in Yields(d) PROVE FALSE
      <4>1. /\ Stage.op \notin {"Normalize", "ResetFlux", "KickTracked", "Restore", "RestoreRadiationStep"}
            /\ Bank = bank /\ Other(bank) \in {0, 1}
        BY <1>3 DEF Other, Unrepeated
      <4>2. \/ /\ c[1] = "run" /\ c[2] \in AllFields /\ c[3] = Other(bank)
               /\ Stage.op \in {"Advance", "Reflux", "Kick", "SolveGravity", "FinishGravityEnergy", "CoupleRadiation"}
            \/ c[1] = "run" /\ c[2] \in AllFields /\ c[3] = 2 /\ Stage.op = "Backup"
            \/ c[1] = "run" /\ c[2] = "flux" /\ c[3] = 0 /\ Stage.op = "Advance"
            \/ c[1] = "run" /\ c[2] = "massFlux" /\ Stage.op = "Advance"
            \/ c[1] = "run" /\ c[2] \in {"kickWork", "oldGravity"} /\ Stage.op = "PrepareGravityEnergy"
        BY <1>2, <1>3, <3>8, <3>13, <4>1, YieldCells DEF Exchanging
      <4>3. kind \in {"ahead", "flux", "register", "step", "midpoint", "rate", "work", "mass"}
        BY DEF Promises
      <4>4. kind = "ahead" => c[3] = Other(bank)
        BY <1>4, <3>12
      <4> QED
        BY <3>3, <3>9, <3>10, <3>11, <3>12, <4>1, <4>2, <4>3, <4>4, Kinships
    <3> QED
      BY <3>6, <3>13
  <2> QED
    BY <2>1, <2>2, <2>3, <2>4, <2>5
<1>7. ASSUME NEW c \in Allocated, Owed(c)' PROVE data'[c] # 0
  BY <1>1, <1>2, <1>6, <1>7, Whole
<1> QED
  BY <1>1, <1>3, <1>7, Enters

(* A step that changes nothing. *)
LEMMA StillTight ==
  ASSUME Tight, UNCHANGED vars
  PROVE  Tight'
<1>1. UNCHANGED <<option, mode, pc, tasks, access, bank, levels, data>>
  BY DEF vars
<1>2. /\ \A c : Owed(c)' <=> Owed(c)
      /\ \A b : Yields(b)' = Yields(b)
      /\ Where' <=> Where
      /\ Stage' = Stage /\ Bank' = Bank /\ Blocks' = Blocks /\ InCall' = InCall /\ Allocated' = Allocated
  BY <1>1, Steady
<1>3. \A c : Tearing(c)' <=> Tearing(c)
  BY <1>1 DEF Tearing
<1>4. Stands'
  BY <1>1, <1>2, <1>3 DEF Tight, Stands
<1>5. Completed' /\ Listing'
  BY <1>1, <1>2 DEF Tight, Completed, Listing
<1>6. Sound'
  BY <1>1, <1>2 DEF Tight, Sound, Orderly, Copy, Other
<1> QED
  BY <1>2, <1>4, <1>5, <1>6 DEF Tight

(* Every step keeps what is due whole. *)
LEMMA StepTight ==
  ASSUME IInv, Typed, Tight, [Next]_vars, IInv'
  PROVE  Tight'
<1>1. CASE UNCHANGED vars \/ Lost
  BY <1>1, StillTight DEF Lost
<1>2. CASE Start
  BY <1>2, StartTight
<1>3. CASE Begin
  BY <1>3, BeginTight
<1>4. CASE EndStage
  BY <1>4, EndTight
<1>5. CASE Return
  BY <1>5, ReturnTight
<1>6. ASSUME NEW b \in Leaves, Open(b) \/ Close(b) \/ Throw(b) PROVE Tight'
  BY <1>6, OpenTight, CloseTight, ThrowTight
<1>7. CASE Restore
  BY <1>7, RestoreTight
<1>8. CASE Recover
  BY <1>8, RecoverTight
<1>9. CASE Retry
  BY <1>9, RetryTight
<1>10. CASE RolledBack
  BY <1>10, RolledBackTight
<1>11. CASE Lose
  BY <1>11, LoseTight
<1> QED
  BY <1>1, <1>2, <1>3, <1>4, <1>5, <1>6, <1>7, <1>8, <1>9, <1>10, <1>11 DEF Next

(* The published bank is whole before the first call. *)
LEMMA InitTight == Init => Tight
<1> SUFFICES ASSUME Init PROVE Tight
  OBVIOUS
<1>1. /\ option \in Options /\ mode = "idle" /\ access = <<>> /\ bank = 0 /\ levels = <<>>
      /\ data = [c \in Allocated |-> IF c \in Cells("run", AllFields, {0}) THEN 1 ELSE 0]
  BY DEF Init
<1>2. Where /\ Listing /\ Sound /\ Completed
  <2>1. Where
    BY <1>1 DEF Where
  <2>2. DOMAIN access = {}
    BY <1>1
  <2> QED
    BY <1>1, <2>1, <2>2 DEF Listing, Sound, Completed, InCall
<1>3. ASSUME NEW c \in Allocated, Owed(c) PROVE data[c] # 0
  <2>1. PICK b \in Leaves : \/ Current(b, c) \/ Coming(b, c) \/ Reserved(b, c) \/ Secured(b, c)
                            \/ mode = "running" /\ Pledged(b, c)
    BY <1>3, Zenon DEF Owed
  <2>2. c \in Run(AllFields, OwnBank(b), b)
    BY <1>1, <2>1 DEF Current, Coming, Reserved, Secured, BackupHeld
  <2>3. OwnBank(b) = 0
    BY <1>1 DEF OwnBank, InInterval
  <2>4. c \in Cells("run", AllFields, {0})
    BY <2>2, <2>3 DEF Run, Cells
  <2> QED
    BY <1>1, <2>4
<1>4. Stands
  BY <1>3 DEF Stands
<1> QED
  BY <1>2, <1>4 DEF Tight

LEMMA TightAlways == Spec => []Tight
<1>1. IInv /\ Typed /\ Tight /\ [Next]_vars /\ IInv' => Tight'
  BY StepTight
<1> QED
  BY <1>1, InitTight, TypesHold, Invariance, PTL DEF Spec

(* An active task finds its inputs whole: no task is at those of another.  *)
LEMMA TightFresh ==
  ASSUME IInv, Typed, Tight
  PROVE  InputsFresh
<1>1. SUFFICES ASSUME NEW b \in DOMAIN access, Active(b), NEW c \in Reads(b)
               PROVE  data[c] # 0 \/ (tasks[b] = "open" /\ c \in Writes(b))
  BY DEF InputsFresh
<1>2. c \in Touched(access[b]) /\ Writes(b) = Changes(access[b])
  BY DEF Reads, Touched, Writes, Changes
<1>3. c \in Allocated /\ Owed(c)
  BY <1>2 DEF Typed, Within, Tight, Sound
<1>4. ASSUME Tearing(c) PROVE tasks[b] = "open" /\ c \in Changes(access[b])
  <2>1. PICK d \in DOMAIN access : tasks[d] \in {"open", "thrown"} /\ c \in Changes(access[d])
    BY <1>4 DEF Tearing
  <2>2. d # b => Apart(access[d], access[b])
    BY DEF IInv, Isolated
  <2>3. d = b
    BY <1>2, <2>1, <2>2 DEF Apart, Changes, Touched
  <2> QED
    BY <1>1, <2>1, <2>3 DEF Active
<1> QED
  BY <1>2, <1>3, <1>4 DEF Tight, Stands
-----------------------------------------------------------------------------
(***************************************************************************)
(* The halos that a probe leaves in the caches. What a block sees of a field *)
(* in its halo at a time is the state of the blocks there, and, of a level   *)
(* that is ahead of that time, what it has come to.                        *)
(***************************************************************************)
BanksAt(d, at) ==
  {OwnBank(d)} \cup IF InInterval /\ levels[TimeLevel(d)].pending /\ levels[TimeLevel(d)].begin < at
                     THEN {NextBank(d)} ELSE {}
Seen(f, b, at) == UNION {{<<d, data[<<"run", f, k, d>>]>> : k \in BanksAt(d, at)} : d \in Donors[b]}

(* The cache of a block holds what the block sees, at the time it was probed;  *)
(* of the gas, as long as no kick has changed it.                          *)
Cached(b) ==
  \A f, at, halo :
    f \in (IF gasInvalid THEN {"radiation"} ELSE StateFields) /\ at = cache[b].key.at /\ halo = cache[b].halo[f] =>
      {<<c[4], halo[c]>> : c \in DOMAIN halo} = Seen(f, b, at)

(* From the probe on, through the stages that leave it alone, to transport. *)
Holding == {"PredictRadiationStep", "PrepareGravityEnergy", "Kick", "KickTracked"}
Probings ==
  mode = "running" /\ option.coupled =>
    /\ Stage.op \in Holding \cup {"Advance"} =>
         \A b \in Leaves : \A level \in Int :
           (/\ Here(<<"probed", level>>) /\ About(level, b) /\ cache[b] # <<>>
            /\ Stage.op = "Advance" => cache[b].key.at = Stage.at) => Cached(b)
    /\ Stage.op = "Probe" => \A b \in DOMAIN access : tasks[b] = "done" => cache[b].key.at = Stage.at /\ Cached(b)

LEMMA SeenSame ==
  ASSUME NEW b, NEW f, NEW at, \A d \in Donors[b] : BanksAt(d, at)' = BanksAt(d, at),
         \A d \in Donors[b] : \A k \in BanksAt(d, at) : data'[<<"run", f, k, d>>] = data[<<"run", f, k, d>>]
  PROVE  Seen(f, b, at)' = Seen(f, b, at)
<1> DEFINE now(d) == {<<d, data[<<"run", f, k, d>>]>> : k \in BanksAt(d, at)}
           then(d) == {<<d, data'[<<"run", f, k, d>>]>> : k \in BanksAt(d, at)'}
<1>1. ASSUME NEW d \in Donors[b] PROVE then(d) = now(d)
  <2>1. BanksAt(d, at)' = BanksAt(d, at)
    OBVIOUS
  <2>2. \A k \in BanksAt(d, at) : data'[<<"run", f, k, d>>] = data[<<"run", f, k, d>>]
    OBVIOUS
  <2> QED
    BY <2>1, <2>2
<1>2. Seen(f, b, at) = UNION {now(d) : d \in Donors[b]} /\ Seen(f, b, at)' = UNION {then(d) : d \in Donors[b]}
  BY DEF Seen
<1> HIDE DEF now, then
<1>3. {now(d) : d \in Donors[b]} = {then(d) : d \in Donors[b]}
  BY <1>1
<1> QED
  BY <1>2, <1>3

(* What a task of the stage sees is what it reads its halo from.           *)
LEMMA SeenHalo ==
  ASSUME Control, Interval, InCall, NEW b \in Blocks, NEW f
  PROVE  {<<c[4], data[c]>> : c \in Halo({f}, b)} = Seen(f, b, Stage.at)
<1> DEFINE H == Halo({f}, b)
           S == Seen(f, b, Stage.at)
           cell(k, d) == <<"run", f, k, d>>
<1>1. b \in Leaves /\ Donors[b] \subseteq Leaves
  BY DonorsAreLeaves DEF Blocks
<1>2. \A d \in Donors[b] : BankOf(d) = OwnBank(d)
  BY <1>1, OwnBanks
<1>3. ASSUME NEW d \in Donors[b] PROVE OwnValues({f}, d) = {cell(k, d) : k \in BanksAt(d, Stage.at)}
  <2>1. \A k : Run({f}, k, d) = {cell(k, d)}
    BY DEF Run
  <2> HIDE DEF cell
  <2>2. OwnValues({f}, d) = {cell(OwnBank(d), d)} \cup IF Between(d) THEN {cell(NextBank(d), d)} ELSE {}
    BY <1>2, <2>1 DEF OwnValues
  <2>3. BanksAt(d, Stage.at) = {OwnBank(d)} \cup IF Between(d) THEN {NextBank(d)} ELSE {}
    BY DEF BanksAt, Between
  <2> QED
    BY <2>2, <2>3
<1>4. \A c : c \in H <=> \E d \in Donors[b] : \E k \in BanksAt(d, Stage.at) : c = cell(k, d)
  <2>1. H = UNION {OwnValues({f}, d) : d \in Donors[b]}
    BY DEF Halo
  <2>2. \A c : c \in H <=> \E d \in Donors[b] : c \in OwnValues({f}, d)
    BY <2>1
  <2> HIDE DEF cell, H
  <2>3. \A d \in Donors[b] : \A c : c \in OwnValues({f}, d) <=> \E k \in BanksAt(d, Stage.at) : c = cell(k, d)
    BY <1>3
  <2> QED
    BY <2>2, <2>3
<1>5. \A x : x \in S <=> \E d \in Donors[b] : \E k \in BanksAt(d, Stage.at) : x = <<d, data[cell(k, d)]>>
  <2> DEFINE at == Stage.at
  <2>1. S = UNION {{<<d, data[cell(k, d)]>> : k \in BanksAt(d, at)} : d \in Donors[b]}
    BY DEF Seen
  <2> HIDE DEF cell, S, at
  <2>2. \A x : x \in S <=> \E d \in Donors[b] : \E k \in BanksAt(d, at) : x = <<d, data[cell(k, d)]>>
    BY <2>1
  <2> QED
    BY <2>2 DEF at
<1>6. \A k, d : cell(k, d)[4] = d
  OBVIOUS
<1> HIDE DEF cell, H, S
<1>7. ASSUME NEW c \in H PROVE <<c[4], data[c]>> \in S
  BY <1>4, <1>5, <1>6
<1>8. ASSUME NEW x \in S PROVE \E c \in H : x = <<c[4], data[c]>>
  BY <1>4, <1>5, <1>6
<1>9. {<<c[4], data[c]>> : c \in H} = S
  BY <1>7, <1>8
<1> QED
  BY <1>9 DEF H, S

(* The banks a block is seen in were allocated. *)
LEMMA SeenStored ==
  ASSUME Control, Interval, Grants, NEW d \in Leaves, NEW f \in StateFields, NEW at, NEW k \in BanksAt(d, at)
  PROVE  <<"run", f, k, d>> \in Allocated
<1>1. <<"run", f, k, d>> \in Run({f}, k, d)
  BY DEF Run
<1>2. {f} \in SUBSET AllFields
  BY Kinships
<1>3. OwnBank(d) \in {0, 1} /\ Other(OwnBank(d)) \in {0, 1} /\ TimeLevel(d) \in TimeLevels(option)
      /\ (InInterval => OwnBank(d) = levels[TimeLevel(d)].bank)
  BY OwnBanks DEF OwnBank
<1>4. k \in {0, 1} \/ (k = 3 /\ option.refinement /\ option.coupled)
  BY <1>3 DEF BanksAt, NextBank, Grants
<1> QED
  BY <1>1, <1>2, <1>4, Stored DEF Control

(* No task of these stages changes what a block sees.                      *)
LEMMA SeenUntouched ==
  ASSUME Control, Interval, Where, mode = "running", Stage.op \in Holding \cup {"Advance", "Probe"},
         NEW at, Stage.op \in {"Advance", "Probe"} => at = Stage.at,
         NEW d \in Leaves, NEW f \in StateFields, NEW k \in BanksAt(d, at), NEW a \in Blocks
  PROVE  <<"run", f, k, d>> \notin Yields(a)
<1> DEFINE c == <<"run", f, k, d>>
<1>1. c[1] = "run" /\ c[2] = f /\ c[3] = k /\ c[4] = d
  OBVIOUS
<1>2. InCall /\ a \in Leaves
  BY DEF InCall, Blocks
<1> HIDE DEF c
<1>3. SUFFICES ASSUME c \in Yields(a) PROVE FALSE
  BY DEF c
<1>4. c[3] = Other(Bank) /\ a = d /\ Stage.op \in {"Advance", "Probe", "KickTracked", "Kick"}
  BY <1>1, <1>2, <1>3, YieldCells, Kinships DEF Holding
<1>5. Bank \in {0, 1} /\ Other(Bank) # Bank
  BY <1>2, BankNow
<1>6. Bank = OwnBank(d) /\ BankOf(d) = OwnBank(d)
  BY <1>2, <1>4, Situated
<1>7. CASE Stage.op \in {"Advance", "Probe"}
  <2>1. ~Between(d)
    BY <1>2, <1>4, <1>7, BankNow
  <2>2. at = Stage.at
    BY <1>7
  <2>3. k = OwnBank(d)
    BY <2>1, <2>2 DEF BanksAt, Between
  <2> QED
    BY <1>1, <1>4, <1>5, <1>6, <2>3
<1>8. CASE Stage.op \in {"KickTracked", "Kick"}
  <2>1. Stage.op \in Global /\ Leaves # {}
    BY <1>8 DEF Global
  <2>2. ~InInterval
    BY <1>2, <1>8, <2>1, Placed
  <2>3. k = OwnBank(d)
    BY <2>2 DEF BanksAt
  <2> QED
    BY <1>1, <1>4, <1>5, <1>6, <2>3
<1> QED
  BY <1>4, <1>7, <1>8

(* What the cache holds stays what the block sees while the tasks run.     *)
LEMMA CachedSame ==
  ASSUME NEW b, cache'[b] = cache[b], gasInvalid' = gasInvalid,
         \A f \in StateFields : \A at : at = cache[b].key.at => Seen(f, b, at)' = Seen(f, b, at), Cached(b)
  PROVE  Cached(b)'
<1>1. \A f : f \in (IF gasInvalid THEN {"radiation"} ELSE StateFields) => f \in StateFields
  BY Kinships
<1> SUFFICES ASSUME NEW f, NEW at, NEW halo, f \in (IF gasInvalid THEN {"radiation"} ELSE StateFields),
                    at = cache[b].key.at, halo = cache[b].halo[f]
             PROVE  {<<c[4], halo[c]>> : c \in DOMAIN halo} = Seen(f, b, at)'
  BY DEF Cached
<1>2. {<<c[4], halo[c]>> : c \in DOMAIN halo} = Seen(f, b, at)
  BY DEF Cached
<1>3. Seen(f, b, at)' = Seen(f, b, at)
  BY <1>1
<1> QED
  BY <1>2, <1>3

LEMMA TasksSee ==
  ASSUME Control, Interval, Grants, Where, mode = "running", Stage.op \in Holding \cup {"Advance", "Probe"},
         UNCHANGED <<option, mode, pc, bank, levels>>,
         \A c \in Allocated : data'[c] = data[c] \/ \E d \in Blocks : c \in Yields(d),
         NEW b \in Leaves, NEW f \in StateFields, NEW at, Stage.op \in {"Advance", "Probe"} => at = Stage.at
  PROVE  Seen(f, b, at)' = Seen(f, b, at)
<1>1. Donors[b] \subseteq Leaves
  BY DonorsAreLeaves
<1>2. \A d : BanksAt(d, at)' = BanksAt(d, at)
  <2>1. \A d : TimeLevel(d)' = TimeLevel(d) /\ OwnBank(d)' = OwnBank(d) /\ NextBank(d)' = NextBank(d)
    BY DEF TimeLevel, OwnBank, NextBank, InInterval
  <2> QED
    BY <2>1 DEF BanksAt, InInterval
<1>3. ASSUME NEW d \in Donors[b], NEW k \in BanksAt(d, at) PROVE data'[<<"run", f, k, d>>] = data[<<"run", f, k, d>>]
  <2>1. d \in Leaves
    BY <1>1
  <2>2. <<"run", f, k, d>> \in Allocated
    BY <2>1, SeenStored
  <2>3. \A a \in Blocks : <<"run", f, k, d>> \notin Yields(a)
    BY <2>1, SeenUntouched
  <2> QED
    BY <2>2, <2>3
<1> QED
  BY <1>2, <1>3, SeenSame

(* A step of one task changes cells of its own only. *)
LEMMA TaskChanges ==
  ASSUME IInv, Typed, Tight, NEW b \in Leaves, Open(b) \/ Close(b) \/ Throw(b)
  PROVE  /\ UNCHANGED <<option, mode, pc, access, bank, levels, gasInvalid>>
         /\ b \in DOMAIN access /\ DOMAIN access = Blocks /\ InCall
         /\ \A d \in Leaves : d # b => tasks'[d] = tasks[d] /\ cache'[d] = cache[d]
         /\ \A c \in Allocated : data'[c] = data[c] \/ c \in Yields(b)
         /\ Stage.op \notin {"Probe", "Advance"} => cache'[b] = cache[b]
         /\ Stage.op = "Advance" => cache'[b] \in {cache[b], <<>>}
         /\ Stage.op = "Probe" /\ tasks'[b] = "done" => cache'[b] = Probed(b)
<1>1. /\ tasks[b] \in {"ready", "open"} /\ \E t : tasks' = [tasks EXCEPT ![b] = t]
      /\ UNCHANGED <<option, mode, pc, access, bank, levels, gasInvalid>>
  BY DEF Open, Close, Throw
<1>2. b \in DOMAIN access
  BY <1>1 DEF Typed, Listed
<1>3. DOMAIN access = Blocks /\ InCall
  BY <1>2 DEF Tight, Listing
<1>4. /\ DOMAIN data = Allocated /\ Changes(access[b]) = Yields(b)
      /\ Orderly(access[b].copies, Changes(access[b])) /\ Changes(access[b]) \subseteq Allocated
  BY <1>2 DEF Typed, Kinds, Within, Tight, Sound
<1>5. \A c \in Allocated : data'[c] = data[c] \/ c \in Yields(b)
  <2>1. CASE Open(b)
    <3>1. data' = [c \in DOMAIN data |-> IF c \in Changes(access[b]) THEN 0 ELSE data[c]]
      BY <2>1 DEF Open, Writes, Changes
    <3> QED
      BY <1>4, <3>1
  <2>2. CASE Close(b)
    <3>1. data' = Result(b)
      BY <2>2 DEF Close
    <3> QED
      BY <1>4, <3>1, ResultCells
  <2>3. CASE Throw(b)
    BY <2>3 DEF Throw
  <2> QED
    BY <2>1, <2>2, <2>3
<1>6. tasks \in [Leaves -> {"idle", "ready", "open", "done", "thrown"}] /\ DOMAIN cache = Leaves
  BY DEF Typed, Kinds
<1>7. \A d \in Leaves : d # b => tasks'[d] = tasks[d]
  BY <1>1, <1>6
<1>8. CASE Open(b) \/ Throw(b)
  <2>1. cache' = cache
    BY <1>8 DEF Open, Throw
  <2>2. tasks'[b] # "done"
    BY <1>6, <1>8 DEF Open, Throw
  <2> QED
    BY <1>1, <1>2, <1>3, <1>5, <1>7, <2>1, <2>2
<1>9. CASE Close(b)
  <2>1. cache' = CASE Stage.op = "Probe" -> [cache EXCEPT ![b] = Probed(b)]
                   [] Stage.op = "Advance" -> [cache EXCEPT ![b] = <<>>]
                   [] OTHER -> cache
    BY <1>9 DEF Close
  <2>2. CASE Stage.op = "Probe"
    BY <1>1, <1>2, <1>3, <1>5, <1>6, <1>7, <2>1, <2>2
  <2>3. CASE Stage.op = "Advance"
    BY <1>1, <1>2, <1>3, <1>5, <1>6, <1>7, <2>1, <2>3
  <2>4. CASE Stage.op \notin {"Probe", "Advance"}
    BY <1>1, <1>2, <1>3, <1>5, <1>7, <2>1, <2>4
  <2> QED
    BY <2>2, <2>3, <2>4
<1> QED
  BY <1>8, <1>9

(* Tasks: a probe stores what its block sees; the others do not change it. *)
LEMMA TaskProbings ==
  ASSUME IInv, Typed, Tight, Probings, NEW b \in Leaves, Open(b) \/ Close(b) \/ Throw(b)
  PROVE  Probings'
<1>1. /\ UNCHANGED <<option, mode, pc, access, bank, levels, gasInvalid>>
      /\ b \in DOMAIN access /\ DOMAIN access = Blocks /\ InCall
      /\ \A d \in Leaves : d # b => tasks'[d] = tasks[d] /\ cache'[d] = cache[d]
      /\ \A c \in Allocated : data'[c] = data[c] \/ c \in Yields(b)
      /\ Stage.op \notin {"Probe", "Advance"} => cache'[b] = cache[b]
      /\ Stage.op = "Advance" => cache'[b] \in {cache[b], <<>>}
      /\ Stage.op = "Probe" /\ tasks'[b] = "done" => cache'[b] = Probed(b)
  BY TaskChanges
<1>2. /\ Stage' = Stage /\ \A x : Here(x)' <=> Here(x)
      /\ \A level, d : About(level, d)' <=> About(level, d)
  BY <1>1 DEF Stage, StageIn, Here, Plan, About, TimeLevel
<1>3. SUFFICES ASSUME mode = "running", option.coupled
               PROVE  (/\ Stage.op \in Holding \cup {"Advance"} =>
                            \A d \in Leaves : \A level \in Int :
                              (/\ Here(<<"probed", level>>) /\ About(level, d) /\ cache[d] # <<>>
                               /\ Stage.op = "Advance" => cache[d].key.at = Stage.at) => Cached(d)
                       /\ Stage.op = "Probe" =>
                            \A d \in DOMAIN access : tasks[d] = "done" => cache[d].key.at = Stage.at /\ Cached(d))'
  BY <1>1, Zenon DEF Probings
<1>4. Control /\ Interval /\ Grants /\ Where
  BY DEF IInv, Typed, Tight
<1>5. ASSUME Stage.op \in Holding \cup {"Advance", "Probe"}, NEW d \in Leaves, NEW f \in StateFields, NEW at,
             Stage.op \in {"Advance", "Probe"} => at = Stage.at
      PROVE  Seen(f, d, at)' = Seen(f, d, at)
  <2>1. \A c \in Allocated : data'[c] = data[c] \/ \E a \in Blocks : c \in Yields(a)
    BY <1>1
  <2> QED
    BY <1>1, <1>3, <1>4, <1>5, <2>1, TasksSee
<1>6. ASSUME Stage.op \in Holding \cup {"Advance", "Probe"}, NEW d \in Leaves, cache'[d] = cache[d],
             Stage.op \in {"Advance", "Probe"} => cache[d].key.at = Stage.at, Cached(d)
      PROVE  Cached(d)'
  BY <1>1, <1>5, <1>6, CachedSame
<1>7. ASSUME Stage.op \in Holding \cup {"Advance"}, NEW d \in Leaves, NEW level \in Int,
             Here(<<"probed", level>>), About(level, d), cache'[d] # <<>>,
             Stage.op = "Advance" => cache'[d].key.at = Stage.at
      PROVE  Cached(d)'
  <2>1. cache'[d] = cache[d]
    BY <1>1, <1>7 DEF Holding
  <2>2. Cached(d)
    BY <1>3, <1>7, <2>1 DEF Probings
  <2> QED
    BY <1>6, <1>7, <2>1, <2>2 DEF Holding
<1>8. ASSUME Stage.op = "Probe", NEW d \in DOMAIN access, tasks'[d] = "done"
      PROVE  cache'[d].key.at = Stage.at /\ Cached(d)'
  <2>1. d \in Leaves
    BY <1>1 DEF Blocks
  <2>2. CASE d # b
    <3>1. tasks[d] = "done" /\ cache'[d] = cache[d]
      BY <1>1, <1>8, <2>1, <2>2
    <3>2. cache[d].key.at = Stage.at /\ Cached(d)
      BY <1>3, <1>8, <3>1 DEF Probings
    <3> QED
      BY <1>6, <1>8, <2>1, <3>1, <3>2
  <2>3. CASE d = b
    <3>1. cache'[d] = [key |-> HaloKey, halo |-> [f \in StateFields |-> HaloContent(f, d)]]
      BY <1>1, <1>8, <2>3 DEF Probed
    <3>2. cache'[d].key.at = Stage.at
      BY <3>1 DEF HaloKey
    <3>3. ASSUME NEW f, NEW at, NEW halo, f \in (IF gasInvalid THEN {"radiation"} ELSE StateFields),
                 at = cache'[d].key.at, halo = cache'[d].halo[f]
          PROVE  {<<c[4], halo[c]>> : c \in DOMAIN halo} = Seen(f, d, at)'
      <4>1. f \in StateFields /\ at = Stage.at
        BY <3>2, <3>3, Kinships
      <4>2. halo = [c \in Halo({f}, d) |-> data[c]]
        BY <3>1, <3>3, <4>1 DEF HaloContent
      <4>3. {<<c[4], halo[c]>> : c \in DOMAIN halo} = {<<c[4], data[c]>> : c \in Halo({f}, d)}
        BY <4>2
      <4>4. {<<c[4], data[c]>> : c \in Halo({f}, d)} = Seen(f, d, Stage.at)
        BY <1>1, <1>4, <1>8, SeenHalo
      <4>5. Seen(f, d, at)' = Seen(f, d, at)
        BY <1>5, <1>8, <2>1, <4>1
      <4> QED
        BY <4>1, <4>3, <4>4, <4>5
    <3>4. Cached(d)'
      BY <1>1, <3>3 DEF Cached
    <3> QED
      BY <3>2, <3>4
  <2> QED
    BY <2>2, <2>3
<1> QED
  BY <1>1, <1>2, <1>7, <1>8

(* Begin: no cache that transport may use is dropped. *)
LEMMA BeginProbings ==
  ASSUME IInv, Typed, Tight, Probings, Begin
  PROVE  Probings'
<1>1. /\ InCall /\ access' = [b \in Blocks |-> AccessOf(b)]
      /\ tasks' = [b \in Leaves |-> IF b \in Blocks THEN "ready" ELSE "idle"]
      /\ cache' = [b \in Leaves |-> IF Stage.op \in Voids /\ b \in Blocks THEN <<>> ELSE cache[b]]
      /\ UNCHANGED <<option, mode, pc, bank, levels, data, gasInvalid>>
  BY DEF Begin
<1>2. /\ Stage' = Stage /\ \A x : Here(x)' <=> Here(x)
      /\ \A level, d : About(level, d)' <=> About(level, d)
  BY <1>1 DEF Stage, StageIn, Here, Plan, About, TimeLevel
<1>3. \A d \in DOMAIN access' : tasks'[d] # "done"
  BY <1>1 DEF Blocks
<1>4. ASSUME mode = "running", Stage.op \in Holding \cup {"Advance"}, NEW d \in Leaves, cache'[d] # <<>>,
             Stage.op = "Advance" => cache'[d].key.at = Stage.at, cache[d] # <<>> => Cached(d)
      PROVE  Cached(d)'
  <2>1. cache'[d] = cache[d]
    BY <1>1, <1>4 DEF Holding, Voids
  <2>2. ASSUME NEW f \in StateFields, NEW at, at = cache[d].key.at PROVE Seen(f, d, at)' = Seen(f, d, at)
    <3>1. Control /\ Interval /\ Grants /\ Where
      BY DEF IInv, Typed, Tight
    <3>2. Stage.op \in {"Advance", "Probe"} => at = Stage.at
      BY <1>4, <2>1, <2>2 DEF Holding
    <3>3. Stage.op \in Holding \cup {"Advance", "Probe"}
      BY <1>4
    <3> QED
      BY <1>1, <1>4, <3>1, <3>2, <3>3, TasksSee
  <2>3. Cached(d)
    BY <1>4, <2>1
  <2> QED
    BY <1>1, <2>1, <2>2, <2>3, CachedSame
<1>5. ASSUME mode = "running", option.coupled, Stage.op \in Holding \cup {"Advance"}, NEW d \in Leaves, NEW level \in Int,
             Here(<<"probed", level>>), About(level, d), cache'[d] # <<>>,
             Stage.op = "Advance" => cache'[d].key.at = Stage.at
      PROVE  Cached(d)'
  <2>1. cache'[d] = cache[d]
    BY <1>1, <1>5 DEF Holding, Voids
  <2>2. Cached(d)
    BY <1>5, <2>1 DEF Probings
  <2> QED
    BY <1>4, <1>5, <2>2
<1> QED
  BY <1>1, <1>2, <1>3, <1>5 DEF Probings

(* A cell that the stage does not use up keeps its value. *)
LEMMA Unspent ==
  ASSUME Typed, data' = [c \in DOMAIN data |-> IF c \in Spent THEN 0 ELSE data[c]], NEW c \in Allocated, c \notin Spent
  PROVE  data'[c] = data[c]
BY DEF Typed, Kinds

(* What stages that publish nothing leave to see. *)
LEMMA SeenOn ==
  ASSUME IInv, Typed, mode = "running", Published, option' = option,
         data' = [c \in DOMAIN data |-> IF c \in Spent THEN 0 ELSE data[c]],
         Stage.op \in {"Probe", "PredictRadiationStep", "PrepareGravityEnergy"}, NEW b \in Leaves, Cached(b), cache' = cache
  PROVE  Cached(b)'
<1>1. Stage.op \notin Flips /\ bank' = bank /\ levels' = levels /\ gasInvalid' = gasInvalid
  BY DEF Published, Flips, FlipsLevel, Typed, Kinds
<1>2. \A c : c \notin Spent
  BY <1>1, SpentCells
<1>3. Control /\ Interval /\ Grants /\ Donors[b] \subseteq Leaves
  BY DonorsAreLeaves DEF IInv, Typed
<1>4. \A d, at : BanksAt(d, at)' = BanksAt(d, at)
  <2>1. \A d : TimeLevel(d)' = TimeLevel(d) /\ OwnBank(d)' = OwnBank(d) /\ NextBank(d)' = NextBank(d)
    BY <1>1 DEF TimeLevel, OwnBank, NextBank, InInterval
  <2> QED
    BY <1>1, <2>1 DEF BanksAt, InInterval
<1>5. ASSUME NEW f \in StateFields, NEW at PROVE Seen(f, b, at)' = Seen(f, b, at)
  <2>1. ASSUME NEW d \in Donors[b], NEW k \in BanksAt(d, at) PROVE data'[<<"run", f, k, d>>] = data[<<"run", f, k, d>>]
    BY <1>2, <1>3, SeenStored, Unspent
  <2> QED
    BY <1>4, <2>1, SeenSame
<1> QED
  BY <1>1, <1>5, CachedSame

(* A kick copies the radiation to the bank that is published. *)
LEMMA SeenMoved ==
  ASSUME NEW b, NEW f, NEW at, NEW k, NEW n, \A d \in Donors[b] : BanksAt(d, at) = {k} /\ BanksAt(d, at)' = {n},
         \A d \in Donors[b] : data'[<<"run", f, n, d>>] = data[<<"run", f, k, d>>]
  PROVE  Seen(f, b, at)' = Seen(f, b, at)
<1> DEFINE now(d) == {<<d, data[<<"run", f, j, d>>]>> : j \in BanksAt(d, at)}
           then(d) == {<<d, data'[<<"run", f, j, d>>]>> : j \in BanksAt(d, at)'}
<1>1. ASSUME NEW d \in Donors[b] PROVE then(d) = now(d)
  <2>1. BanksAt(d, at) = {k} /\ BanksAt(d, at)' = {n} /\ data'[<<"run", f, n, d>>] = data[<<"run", f, k, d>>]
    OBVIOUS
  <2>2. then(d) = {<<d, data'[<<"run", f, n, d>>]>>} /\ now(d) = {<<d, data[<<"run", f, k, d>>]>>}
    BY <2>1
  <2> QED
    BY <2>1, <2>2
<1>2. Seen(f, b, at) = UNION {now(d) : d \in Donors[b]} /\ Seen(f, b, at)' = UNION {then(d) : d \in Donors[b]}
  BY DEF Seen
<1> HIDE DEF now, then
<1>3. {now(d) : d \in Donors[b]} = {then(d) : d \in Donors[b]}
  BY <1>1
<1> QED
  BY <1>2, <1>3

LEMMA KickSeen ==
  ASSUME IInv, Typed, Tight, Done, mode = "running", Published, option' = option, option.coupled,
         data' = [c \in DOMAIN data |-> IF c \in Spent THEN 0 ELSE data[c]],
         Stage.op \in {"Kick", "KickTracked"}, NEW b \in Leaves, Cached(b), cache' = cache
  PROVE  Cached(b)'
<1>1. Control /\ Interval /\ Grants /\ Where /\ InCall /\ Donors[b] \subseteq Leaves
  BY DonorsAreLeaves DEF IInv, Typed, Tight, InCall
<1>2. Stage.level \in Int /\ Stage.level < 0 /\ ~InInterval /\ Bank = bank
  BY <1>1, Placed DEF Global
<1>3. levels' = levels /\ bank' = Other(bank) /\ gasInvalid' = TRUE
  BY <1>2 DEF Published, Flips, FlipsLevel
<1>4. \A d, at : BanksAt(d, at) = {bank} /\ BanksAt(d, at)' = {Other(bank)}
  <2>1. ~InInterval'
    BY <1>2, <1>3 DEF InInterval
  <2> QED
    BY <1>2, <1>3, <2>1 DEF BanksAt, OwnBank
<1>5. ASSUME NEW d \in Donors[b]
      PROVE  data'[<<"run", "radiation", Other(bank), d>>] = data[<<"run", "radiation", bank, d>>]
  <2> DEFINE c == <<"run", "radiation", Other(bank), d>>
             x == <<<<"run", "radiation", bank, d>>, c>>
  <2>1. d \in Leaves /\ d \in Blocks
    BY <1>1, <1>2 DEF Blocks
  <2>2. DOMAIN access = Blocks /\ tasks[d] = "done"
    BY <1>1, <2>1, Over
  <2>3. x \in Copy({"radiation"}, Bank, Other(Bank), d)
    BY <1>2 DEF Copy
  <2>4. x \in access[d].copies
    BY <2>1, <2>2, <2>3 DEF Tight, Sound
  <2>5. data[c] = data[<<"run", "radiation", bank, d>>]
    <3>1. data[x[2]] = data[x[1]]
      BY <2>1, <2>2, <2>4 DEF Tight, Completed
    <3> QED
      BY <3>1
  <2>6. c[2] = "radiation" /\ c[3] = Other(Bank)
    BY <1>2
  <2>7. c \notin Spent
    <3>1. Other(Bank) # Bank
      BY <1>1, <2>1, BankNow
    <3> HIDE DEF c
    <3> QED
      BY <2>6, <3>1, SpentCells
  <2>8. c \in Allocated
    <3>1. c \in Run({"radiation"}, Other(bank), d)
      BY DEF Run
    <3>2. {"radiation"} \in SUBSET AllFields /\ Other(bank) \in {0, 1}
      BY <1>1, Kinships DEF Control, Other
    <3> HIDE DEF c
    <3> QED
      BY <1>1, <2>1, <3>1, <3>2, Stored DEF Control
  <2> HIDE DEF c
  <2>9. data'[c] = data[c]
    BY <2>7, <2>8, Unspent
  <2> QED
    BY <2>5, <2>9 DEF c
<1>6. \A at : Seen("radiation", b, at)' = Seen("radiation", b, at)
  BY <1>4, <1>5, SeenMoved
<1> SUFFICES ASSUME NEW f, NEW at, NEW halo, f = "radiation", at = cache[b].key.at, halo = cache[b].halo[f]
             PROVE  {<<c[4], halo[c]>> : c \in DOMAIN halo} = Seen(f, b, at)'
  BY <1>3 DEF Cached
<1>7. {<<c[4], halo[c]>> : c \in DOMAIN halo} = Seen(f, b, at)
  BY Kinships DEF Cached
<1> QED
  BY <1>6, <1>7

(* EndStage: from the probe on a cache stays as good as it was. *)
LEMMA EndProbings ==
  ASSUME IInv, Typed, Tight, Probings, EndStage
  PROVE  Probings'
<1>1. /\ Done /\ mode = "running" /\ mode' = "running" /\ pc' = pc + 1 /\ access' = <<>> /\ Published /\ option' = option
      /\ cache' = cache /\ data' = [c \in DOMAIN data |-> IF c \in Spent THEN 0 ELSE data[c]]
  BY DEF EndStage, Enter
<1>2. InCall /\ Control /\ Interval /\ Stage = Plan[pc] /\ pc \in Nat /\ pc >= 1
  BY <1>1, StageNow DEF InCall, IInv, Control
<1>3. DOMAIN access = Blocks /\ \A d \in Blocks : tasks[d] = "done"
  BY <1>1, <1>2, Over
<1>4. ASSUME option.coupled, NEW d \in Leaves, NEW level \in Int, Here(<<"probed", level>>)', About(level, d), cache[d] # <<>>
      PROVE  Cached(d)'
  <2> DEFINE x == <<"probed", level>>
  <2>1. Holds(Outset, Plan, pc + 1, x)
    BY <1>1, <1>4 DEF Here, Plan
  <2>2. (Here(x) /\ Survives(Stage, x)) \/ x \in Makes(Stage)
    BY <1>2, <2>1, HoldsNext DEF Here
  <2>3. x[1] = "probed" /\ x[2] = level
    OBVIOUS
  <2>4. CASE Here(x) /\ Survives(Stage, x)
    <3>1. Stage.op \in Holding
      BY <2>3, <2>4 DEF Survives, Holding
    <3>2. Stage.op # "Advance"
      BY <3>1 DEF Holding
    <3>3. Cached(d)
      BY <1>1, <1>4, <2>4, <3>1, <3>2 DEF Probings
    <3> QED
      BY <1>1, <1>4, <3>1, <3>3, SeenOn, KickSeen DEF Holding
  <2>5. CASE x \in Makes(Stage)
    <3>1. PICK kind \in MadeBy(Stage.op) : x = <<kind, Stage.level>>
      BY <2>5 DEF Makes
    <3>2. kind = "probed" /\ level = Stage.level
      BY <3>1
    <3>3. Stage.op = "Probe"
      BY <3>1, <3>2 DEF MadeBy
    <3>4. d \in Blocks
      BY <1>4, <3>2 DEF About, Blocks
    <3>5. Cached(d)
      BY <1>1, <1>3, <1>4, <3>3, <3>4 DEF Probings
    <3> QED
      BY <1>1, <3>3, <3>5, SeenOn
  <2> QED
    BY <2>2, <2>4, <2>5
<1>5. \A level, d : About(level, d)' <=> About(level, d)
  BY <1>1 DEF About, TimeLevel
<1>6. DOMAIN access' = {}
  BY <1>1
<1> QED
  BY <1>1, <1>4, <1>5, <1>6 DEF Probings

(* A coupled call that begins, or begins again, has not probed yet.        *)
LEMMA AnewProbings ==
  ASSUME access' = <<>>, mode' = "running" /\ option'.coupled => pc' = 1
  PROVE  Probings'
<1>1. DOMAIN access' = {}
  OBVIOUS
<1>2. ASSUME mode' = "running", option'.coupled, NEW level, Here(<<"probed", level>>)' PROVE FALSE
  <2>1. Holds(Outset, Plan', 1, <<"probed", level>>)
    BY <1>2 DEF Here
  <2> QED
    BY <2>1, AtFirst
<1> QED
  BY <1>1, <1>2 DEF Probings

(* Every step keeps what is cached for transport. *)
LEMMA StepProbings ==
  ASSUME IInv, Typed, Tight, Probings, [Next]_vars
  PROVE  Probings'
<1>1. CASE UNCHANGED vars \/ Lost
  <2>1. UNCHANGED <<option, mode, pc, tasks, access, bank, levels, data, cache, gasInvalid>>
    BY <1>1 DEF vars, Lost
  <2>2. /\ Stage' = Stage /\ \A x : Here(x)' <=> Here(x)
        /\ \A level, d : About(level, d)' <=> About(level, d)
    BY <2>1 DEF Stage, StageIn, Here, Plan, About, TimeLevel
  <2>3. \A d, at : BanksAt(d, at)' = BanksAt(d, at)
    BY <2>1 DEF BanksAt, OwnBank, NextBank, TimeLevel, InInterval
  <2>4. \A f, d, at : Seen(f, d, at)' = Seen(f, d, at)
    BY <2>1, <2>3, SeenSame
  <2>5. \A d : Cached(d) => Cached(d)'
    BY <2>1, <2>4, CachedSame
  <2> QED
    BY <2>1, <2>2, <2>5 DEF Probings
<1>2. CASE Start
  BY <1>2, AnewProbings DEF Start, Enter
<1>3. CASE Begin
  BY <1>3, BeginProbings
<1>4. CASE EndStage
  BY <1>4, EndProbings
<1>5. CASE Return \/ Restore \/ Recover \/ RolledBack \/ Lose
  <2>1. access' = <<>> /\ mode' # "running"
    BY <1>5 DEF Return, Restore, Recover, RolledBack, Lose, Enter
  <2> QED
    BY <2>1, AnewProbings
<1>6. ASSUME NEW b \in Leaves, Open(b) \/ Close(b) \/ Throw(b) PROVE Probings'
  BY <1>6, TaskProbings
<1>7. CASE Retry
  <2>1. access' = <<>> /\ option' = option
    BY <1>7 DEF Retry, Enter
  <2>2. option.coupled => pc' = 1
    BY <1>7, Repeats
  <2> QED
    BY <2>1, <2>2, AnewProbings
<1> QED
  BY <1>1, <1>2, <1>3, <1>4, <1>5, <1>6, <1>7 DEF Next

LEMMA ProbingsAlways == Spec => []Probings
<1>1. Init => Probings
  BY DEF Init, Probings
<1>2. IInv /\ Typed /\ Tight /\ Probings /\ [Next]_vars => Probings'
  BY StepProbings
<1> QED
  BY <1>1, <1>2, TightAlways, TypesHold, Invariance, PTL DEF Spec

(* The halo a task takes from the cache is the one it would read.          *)
LEMMA ReuseCurrent ==
  ASSUME IInv, Typed, Tight, Probings
  PROVE  CachedHaloCurrent
<1> SUFFICES ASSUME NEW b \in DOMAIN access, Active(b), NEW f \in Reused(b)
             PROVE  {<<c[4], cache[b].halo[f][c]>> : c \in DOMAIN cache[b].halo[f]}
                      = {<<c[4], data[c]>> : c \in Halo({f}, b)}
  BY Zenon DEF CachedHaloCurrent
<1>1. DOMAIN access = Blocks /\ InCall
  BY DEF Tight, Listing
<1>2. Control /\ Interval /\ b \in Blocks /\ b \in Leaves
  BY <1>1 DEF IInv, Blocks
<1>3. /\ option.coupled /\ Stage.op = "Advance" /\ Matches(cache[b])
      /\ f \in IF gasInvalid THEN {"radiation"} ELSE StateFields
  BY DEF Reused
<1>4. cache[b] # <<>> /\ cache[b].key.at = Stage.at
  BY <1>3 DEF Matches
<1>5. mode = "running"
  BY <1>1, <1>2, <1>3, Right DEF InCall
<1>6. Here(<<"probed", Stage.level>>) /\ Stage.level \in Int /\ About(Stage.level, b)
  <2>1. <<"probed", Stage.level>> \in Needs(option, Stage)
    BY <1>3 DEF Needs
  <2>2. Stage.level \in Int
    BY <1>1, <1>2, StageNow DEF StageType
  <2> QED
    BY <1>2, <1>5, <2>1, <2>2, Ready DEF About, Blocks
<1>7. Cached(b)
  BY <1>2, <1>3, <1>4, <1>5, <1>6 DEF Probings
<1>8. ASSUME NEW at, NEW halo, at = cache[b].key.at, halo = cache[b].halo[f]
      PROVE  {<<c[4], halo[c]>> : c \in DOMAIN halo} = Seen(f, b, at)
  BY <1>3, <1>7, <1>8 DEF Cached
<1>9. {<<c[4], data[c]>> : c \in Halo({f}, b)} = Seen(f, b, Stage.at)
  BY <1>1, <1>2, SeenHalo
<1> QED
  BY <1>4, <1>8, <1>9

(* Every task reads what an earlier stage computed for it, in whole, and a   *)
(* halo it takes from the cache instead is the one it would read: whatever *)
(* the mesh, the options, the order of the tasks and the stages that fail. *)
THEOREM InputsAreCurrent == Spec => []InputsCurrent
<1>1. IInv /\ Typed /\ Tight /\ Probings => InputsCurrent
  BY TightFresh, ReuseCurrent DEF InputsCurrent
<1> QED
  BY <1>1, ProbingsAlways, TightAlways, TypesHold, Invariance, PTL
=============================================================================
