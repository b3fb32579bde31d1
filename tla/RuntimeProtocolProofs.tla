------------------------ MODULE RuntimeProtocolProofs ------------------------
(***************************************************************************)
(* Proofs about RuntimeProtocol, for every set of blocks, configuration and *)
(* bound: what the public calls keep, whichever stage of whichever call    *)
(* fails.  A call's stages are a sequence; the invariant says of what is   *)
(* left of it only which stages may still come and in which order.         *)
(***************************************************************************)
EXTENDS RuntimeProtocol, SequenceTheorems, TLAPS

StageName == {"transport", "kick", "begin", "finish", "closed", "interval", "exchange", "regrid",
              "solve", "assign", "save", "probe", "source", "floor"}
Moves == {"transport", "interval"}      \* the stages that complete a step
Opening == {"closed", "save"}           \* what precedes advanceCoupled's try
Single == {"kickGravity", "beginGravityEnergy", "solveGravity", "setGravity", "regrid"}

Has(s, S) == \E i \in 1 .. Len(s) : s[i] \in S
Precedes(s, R, S) == \E i, j \in 1 .. Len(s) : i < j /\ s[i] \in R /\ s[j] \in S
Thrice(s, S) == \E i, j, k \in 1 .. Len(s) : i < j /\ j < k /\ {s[i], s[j], s[k]} \subseteq S

(* What every rest of a call's program keeps. *)
Plan(c, s) ==
  /\ s \in Seq(StageName)
  /\ c \in Single => Len(s) <= 1
  /\ Has(s, {"regrid"}) => c = "regrid"
  /\ Has(s, Opening) => c = "advanceCoupled"
  /\ Has(s, {"save"}) => Coupling
  /\ ~Precedes(s, Moves, Moves)
  /\ ~Precedes(s, {"kick"}, {"begin"})
  /\ ~Thrice(s, {"kick"})
  /\ ~Precedes(s, {"save"}, Opening)
  /\ ~Precedes(s, StageName \ Opening, {"save"})

(* What the whole of a program keeps besides. *)
Entire(c, s) ==
  /\ s # <<>>
  /\ Has(s, Moves) => c \in {"advance", "advanceGravity", "advanceCoupled"}
  /\ (c = "advanceCoupled" /\ Coupling) => Has(s, {"save"})
  /\ c # "advanceCoupled" => ~Has(s, {"save"})
  /\ Has(s, {"save"}) => Has(s, {"closed"})
  /\ (c # "kickGravity" /\ Has(s, {"kick"})) => Has(s, {"begin"})

Planned ==
  mode = "running" =>
    /\ Plan(call, todo)
    /\ Has(todo, Moves) => time < MaxTime
    /\ Has(todo, {"regrid"}) => mesh < MaxMesh
    /\ Has(todo, {"save"}) => backup = <<>>
    /\ (call = "advanceCoupled" /\ Coupling /\ backup = <<>>) => Has(todo, {"save"})

Clock == mode # "lost" => gravityTime <= time /\ (regridEnergyPending => ~gravityReady)

(* The kicks a call still makes fit the ledger. *)
Room(b, n) == kickWork[b].n <= n /\ Published(b).kicks <= n
KickRoom ==
  mode = "running" =>
    IF call = "kickGravity" THEN \A b \in Block : Room(b, MaxKicks - 1)
    ELSE ~Has(todo, {"begin"}) =>
      /\ Has(todo, {"kick"}) => \A b \in Block : Room(b, 1)
      /\ Precedes(todo, {"kick"}, {"kick"}) => \A b \in Block : Room(b, 0)

(* The published cells, and those that advanceCoupled has saved. *)
WholeCell(cell, m, t, synchronised) ==
  /\ cell.gas = Mass(m, t) /\ cell.rest = Mass(m, t)
  /\ synchronised => cell.gravity = cell.gas
Whole ==
  mode \in {"idle", "running"} => \A b \in Block :
    /\ WholeCell(Published(b), mesh, time, Synchronised)
    /\ ~regridEnergyPending => Published(b).whole
    /\ ~gravityEnergyActive => Published(b).kicks = 0

Pending == (mode # "lost" /\ regridEnergyPending) => \A b \in Block : kickWork[b] = Combined(mesh)

Ledger ==
  (mode \in {"idle", "running"} /\ gravityEnergyActive /\ Tracked /\ ~kickFailed) => \A b \in Block :
    /\ kickWork[b] = Register("work", mesh, Published(b).kicks)
    /\ oldGravity[b] = Mass(mesh, gravityEnergyStart)

(* Between the checks of advanceCoupled and its backup the interval is       *)
(* closed; the backup is what the caller saw.                              *)
Closed ==
  (mode = "running" /\ Has(todo, {"save"}) /\ ~Has(todo, {"closed"})) =>
    ~gravityEnergyActive /\ ~regridEnergyPending

Backups ==
  [bank : {0, 1}, cells : [Block -> Cells], time : 0 .. MaxTime, gravityTime : 0 .. MaxTime,
   gravityReady : BOOLEAN, start : 0 .. MaxTime]
SavedView ==
  [cells |-> backup.cells, time |-> backup.time, mesh |-> mesh, ready |-> backup.gravityReady,
   gravityTime |-> backup.gravityTime, active |-> FALSE, pending |-> regridEnergyPending]
Saved ==
  (mode \in {"running", "restoring"} /\ backup # <<>>) =>
    /\ backup \in Backups /\ backup.gravityTime <= backup.time
    /\ call = "advanceCoupled" /\ Coupling /\ ~regridEnergyPending
    /\ before = SavedView
    /\ \A b \in Block :
         /\ WholeCell(backup.cells[b], mesh, backup.time,
                      backup.gravityReady /\ backup.gravityTime = backup.time)
         /\ backup.cells[b].whole /\ backup.cells[b].kicks = 0
Restoring == mode = "restoring" => backup # <<>>

(* As long as an atomic call can still fail without a rollback it has changed *)
(* nothing that can be seen.                                               *)
Unseen == (mode = "running" /\ call \in Atomic /\ backup = <<>>) => View = before

IInv ==
  /\ TypeOK /\ Planned /\ Clock /\ KickRoom /\ Whole /\ Pending /\ Ledger
  /\ Closed /\ Saved /\ Restoring /\ Unseen /\ FailedCallUnchanged
-----------------------------------------------------------------------------
(* What is left of a program after its first stage. *)
LEMMA TailShape ==
  ASSUME NEW s \in Seq(StageName), s # <<>>
  PROVE  /\ Tail(s) \in Seq(StageName) /\ Head(s) \in StageName /\ Head(s) = s[1]
         /\ Len(s) \in Nat \ {0} /\ Len(Tail(s)) = Len(s) - 1
         /\ (Len(s) = 1) <=> (Tail(s) = <<>>)
         /\ \A i \in 1 .. Len(Tail(s)) : i + 1 \in 1 .. Len(s) /\ Tail(s)[i] = s[i + 1]
<1>1. /\ Tail(s) \in Seq(StageName) /\ Head(s) \in StageName /\ Len(Tail(s)) = Len(s) - 1
      /\ \A i \in 1 .. Len(Tail(s)) : Tail(s)[i] = s[i + 1]
  BY HeadTailProperties
<1>2. Len(s) \in Nat \ {0}
  BY EmptySeq
<1>3. (Len(s) = 1) <=> (Tail(s) = <<>>)
  <2>1. Len(Tail(s)) = 0 <=> Tail(s) = <<>>
    BY <1>1, EmptySeq
  <2> QED
    BY <1>1, <1>2, <2>1
<1> QED
  BY <1>1, <1>2, <1>3

(* What a list of stages has, and in which order, from its head and its tail. *)
LEMMA TailHas ==
  ASSUME NEW s \in Seq(StageName), s # <<>>, NEW R, NEW S
  PROVE  /\ Has(Tail(s), S) => Has(s, S)
         /\ Head(s) \in S => Has(s, S)
         /\ (Has(s, S) /\ Head(s) \notin S) => Has(Tail(s), S)
         /\ (Head(s) \in R /\ Has(Tail(s), S)) => Precedes(s, R, S)
         /\ Precedes(Tail(s), R, S) => Precedes(s, R, S)
         /\ Thrice(Tail(s), S) => Thrice(s, S)
         /\ (Head(s) \in S /\ Precedes(Tail(s), S, S)) => Thrice(s, S)
<1> USE TailShape
<1>1. \A i \in 1 .. Len(s) : i = 1 \/ (i - 1 \in 1 .. Len(Tail(s)) /\ Tail(s)[i - 1] = s[i])
  OBVIOUS
<1>2. 1 \in 1 .. Len(s)
  OBVIOUS
<1>3. Has(Tail(s), S) => Has(s, S)
  BY DEF Has
<1>4. Head(s) \in S => Has(s, S)
  BY <1>2 DEF Has
<1>5. (Has(s, S) /\ Head(s) \notin S) => Has(Tail(s), S)
  BY <1>1 DEF Has
<1>6. (Head(s) \in R /\ Has(Tail(s), S)) => Precedes(s, R, S)
  BY <1>2 DEF Has, Precedes
<1>7. Precedes(Tail(s), R, S) => Precedes(s, R, S)
  BY DEF Precedes
<1>8. Thrice(Tail(s), S) => Thrice(s, S)
  <2> SUFFICES ASSUME NEW i \in 1 .. Len(Tail(s)), NEW j \in 1 .. Len(Tail(s)),
                      NEW k \in 1 .. Len(Tail(s)), i < j, j < k,
                      {Tail(s)[i], Tail(s)[j], Tail(s)[k]} \subseteq S
               PROVE  Thrice(s, S)
    BY DEF Thrice
  <2>1. i + 1 < j + 1 /\ j + 1 < k + 1 /\ {s[i + 1], s[j + 1], s[k + 1]} \subseteq S
    OBVIOUS
  <2>2. i + 1 \in 1 .. Len(s) /\ j + 1 \in 1 .. Len(s) /\ k + 1 \in 1 .. Len(s)
    OBVIOUS
  <2> QED
    BY <2>1, <2>2 DEF Thrice
<1>9. (Head(s) \in S /\ Precedes(Tail(s), S, S)) => Thrice(s, S)
  <2> SUFFICES ASSUME Head(s) \in S, NEW j \in 1 .. Len(Tail(s)), NEW k \in 1 .. Len(Tail(s)), j < k,
                      Tail(s)[j] \in S, Tail(s)[k] \in S
               PROVE  Thrice(s, S)
    BY DEF Precedes
  <2>1. 1 < j + 1 /\ j + 1 < k + 1 /\ {s[1], s[j + 1], s[k + 1]} \subseteq S
    OBVIOUS
  <2>2. j + 1 \in 1 .. Len(s) /\ k + 1 \in 1 .. Len(s)
    OBVIOUS
  <2> QED
    BY <1>2, <2>1, <2>2 DEF Thrice
<1> QED
  BY <1>3, <1>4, <1>5, <1>6, <1>7, <1>8, <1>9

(* What is left of a plan after a stage is still a plan. *)
LEMMA TailPlan ==
  ASSUME NEW c, NEW s, Plan(c, s), s # <<>>
  PROVE  Plan(c, Tail(s))
<1>1. s \in Seq(StageName)
  BY DEF Plan
<1>2. c \in Single => Len(Tail(s)) <= 1
  BY <1>1, TailShape DEF Plan
<1> QED
  BY <1>1, <1>2, TailShape, TailHas DEF Plan

(* An empty list has no stage. *)
LEMMA EmptyPlan == ~Has(<<>>, {"save"}) /\ \A S : ~Has(<<>>, S)
  BY EmptySeq DEF Has

(* The programs of the calls with a choice, written out. *)
LEMMA Concatenated ==
  /\ Legacy \in Seq(StageName)
  /\ <<"interval">> \o <<"floor">> = <<"interval", "floor">>
  /\ Legacy \o <<"floor">> = <<"begin", "kick", "transport", "solve", "kick", "finish", "floor">>
  /\ <<"closed">> \o <<"interval">> \o <<"floor">> = <<"closed", "interval", "floor">>
  /\ <<"closed">> \o Legacy \o <<"floor">> =
       <<"closed", "begin", "kick", "transport", "solve", "kick", "finish", "floor">>
  /\ <<"closed", "save", "probe">> \o Legacy \o <<"source", "floor">> =
       <<"closed", "save", "probe", "begin", "kick", "transport", "solve", "kick", "finish", "source", "floor">>
<1> DEFINE Same(s, t) == s \in Seq(StageName) /\ t \in Seq(StageName) /\ Len(s) = Len(t)
                         /\ \A i \in 1 .. Len(s) : s[i] = t[i]
<1>0. ASSUME NEW s, NEW t, Same(s, t) PROVE s = t
  BY <1>0, SeqEqual
<1>1. Legacy \in Seq(StageName)
  BY DEF Legacy, StageName
<1>2. Same(<<"interval">> \o <<"floor">>, <<"interval", "floor">>)
  BY DEF StageName
<1>3. Same(Legacy \o <<"floor">>, <<"begin", "kick", "transport", "solve", "kick", "finish", "floor">>)
  BY DEF StageName, Legacy
<1>4. Same(<<"closed">> \o <<"interval">> \o <<"floor">>, <<"closed", "interval", "floor">>)
  BY DEF StageName
<1>5. Same(<<"closed">> \o Legacy \o <<"floor">>,
           <<"closed", "begin", "kick", "transport", "solve", "kick", "finish", "floor">>)
  BY DEF StageName, Legacy
<1>6. Same(<<"closed", "save", "probe">> \o Legacy \o <<"source", "floor">>,
           <<"closed", "save", "probe", "begin", "kick", "transport", "solve", "kick", "finish", "source", "floor">>)
  BY DEF StageName, Legacy
<1> HIDE DEF Same
<1> QED
  BY <1>0, <1>1, <1>2, <1>3, <1>4, <1>5, <1>6

(* The stages a call begins with are a whole plan, for every call and configuration. *)
LEMMA ProgramPlan ==
  ASSUME NEW c \in Calls, Coupling \in BOOLEAN, Refined \in BOOLEAN, gravityEnergyActive \in BOOLEAN
  PROVE  Plan(c, Program(c)) /\ Entire(c, Program(c))
<1> DEFINE Sane(s) == s \in Seq(StageName) => Plan(c, s) /\ Entire(c, s)
<1>1. CASE c = "advance"
  <2>1. <<"transport">> \in Seq(StageName) /\ <<"transport", "floor">> \in Seq(StageName)
    BY DEF StageName
  <2>2. Sane(<<"transport">>) /\ Sane(<<"transport", "floor">>)
    BY <1>1 DEF StageName, Moves, Opening, Single, Has, Precedes, Thrice, Plan, Entire
  <2> QED
    BY <1>1, <2>1, <2>2 DEF Program
<1>2. CASE c = "advanceGravity"
  <2>1. <<"interval", "floor">> \in Seq(StageName)
        /\ <<"begin", "kick", "transport", "solve", "kick", "finish", "floor">> \in Seq(StageName)
    BY DEF StageName
  <2>2. Sane(<<"interval", "floor">>)
    BY <1>2 DEF StageName, Moves, Opening, Single, Has, Precedes, Thrice, Plan, Entire
  <2>3. Sane(<<"begin", "kick", "transport", "solve", "kick", "finish", "floor">>)
    BY <1>2 DEF StageName, Moves, Opening, Single, Has, Precedes, Thrice, Plan, Entire
  <2>4. Program(c) \in {<<"interval", "floor">>,
                        <<"begin", "kick", "transport", "solve", "kick", "finish", "floor">>}
    BY <1>2, Concatenated DEF Program, Interval
  <2> QED
    BY <2>1, <2>2, <2>3, <2>4
<1>3. CASE c = "advanceCoupled" /\ ~Coupling
  <2>1. <<"closed", "interval", "floor">> \in Seq(StageName)
        /\ <<"closed", "begin", "kick", "transport", "solve", "kick", "finish", "floor">> \in Seq(StageName)
    BY DEF StageName
  <2>2. Sane(<<"closed", "interval", "floor">>)
    BY <1>3 DEF StageName, Moves, Opening, Single, Has, Precedes, Thrice, Plan, Entire
  <2>3. Sane(<<"closed", "begin", "kick", "transport", "solve", "kick", "finish", "floor">>)
    BY <1>3 DEF StageName, Moves, Opening, Single, Has, Precedes, Thrice, Plan, Entire
  <2>4. Program(c) \in {<<"closed", "interval", "floor">>,
                        <<"closed", "begin", "kick", "transport", "solve", "kick", "finish", "floor">>}
    BY <1>3, Concatenated DEF Program, Interval
  <2> QED
    BY <2>1, <2>2, <2>3, <2>4
<1>4. CASE c = "advanceCoupled" /\ Coupling
  <2> DEFINE long == <<"closed", "save", "probe", "begin", "kick", "transport", "solve", "kick", "finish",
                       "source", "floor">>
  <2>1. <<"closed", "save", "interval", "floor">> \in Seq(StageName) /\ long \in Seq(StageName)
    BY DEF StageName
  <2>2. Sane(<<"closed", "save", "interval", "floor">>)
    BY <1>4 DEF StageName, Moves, Opening, Single, Has, Precedes, Thrice, Plan, Entire
  <2>3. Sane(long)
    BY <1>4 DEF StageName, Moves, Opening, Single, Has, Precedes, Thrice, Plan, Entire
  <2>4. Program(c) \in {<<"closed", "save", "interval", "floor">>, long}
    BY <1>4, Concatenated DEF Program
  <2> QED
    BY <2>1, <2>2, <2>3, <2>4
<1>5. CASE c \in {"coupleRadiation", "finishGravityEnergy"}
  <2>1. <<"exchange", "floor">> \in Seq(StageName) /\ <<"finish", "floor">> \in Seq(StageName)
    BY DEF StageName
  <2>2. Sane(<<"exchange", "floor">>) /\ Sane(<<"finish", "floor">>)
    BY <1>5 DEF StageName, Moves, Opening, Single, Has, Precedes, Thrice, Plan, Entire
  <2> QED
    BY <1>5, <2>1, <2>2 DEF Program
<1>6. CASE c \in Single
  <2> DEFINE stage == CASE c = "solveGravity" -> "solve" [] c = "setGravity" -> "assign"
                        [] c = "kickGravity" -> "kick" [] c = "beginGravityEnergy" -> "begin"
                        [] c = "regrid" -> "regrid"
  <2>1. <<stage>> \in Seq(StageName)
    BY <1>6 DEF Single, StageName
  <2>2. Sane(<<stage>>)
    BY <1>6 DEF StageName, Moves, Opening, Single, Has, Precedes, Thrice, Plan, Entire
  <2>3. Program(c) = <<stage>>
    BY <1>6 DEF Single, Program
  <2> QED
    BY <2>1, <2>2, <2>3
<1> QED
  BY <1>1, <1>2, <1>3, <1>4, <1>5, <1>6 DEF Calls, Single
-----------------------------------------------------------------------------
USE BlockAssumption, OptionAssumption, BoundAssumption

(* Where a running call stands, and where a stage takes it. *)
LEMMA Running ==
  ASSUME TypeOK, Planned, mode = "running"
  PROVE  /\ todo \in Seq(StageName) /\ todo # <<>> /\ Head(todo) \in StageName
         /\ Plan(call, todo) /\ Plan(call, Tail(todo))
         /\ call \in Single => Tail(todo) = <<>>
         /\ Proceed => /\ todo' = Tail(todo) /\ call' = call /\ before' = before
                       /\ \/ Tail(todo) = <<>> /\ mode' = "idle" /\ outcome' = "returned"
                          \/ Tail(todo) # <<>> /\ mode' = "running" /\ outcome' = outcome
<1>1. todo # <<>> /\ Plan(call, todo) /\ todo \in Seq(StageName)
  BY DEF TypeOK, Planned, Plan
<1>2. /\ Head(todo) \in StageName /\ (Len(todo) = 1 <=> Tail(todo) = <<>>) /\ Plan(call, Tail(todo))
      /\ Len(todo) \in Nat \ {0}
  BY <1>1, TailShape, TailPlan
<1>3. call \in Single => Tail(todo) = <<>>
  BY <1>1, <1>2 DEF Plan
<1> QED
  BY <1>1, <1>2, <1>3 DEF Proceed

(* An exception empties the plan, and goes to the rollback where there is a backup. *)
LEMMA Raised ==
  ASSUME Raise
  PROVE  /\ todo' = <<>> /\ call' = call /\ before' = before /\ outcome' = "threw"
         /\ \/ mode' = "restoring" /\ backup # <<>>
            \/ mode' = "idle" /\ backup = <<>>
  BY DEF Raise

(* The two banks: what a stage publishes, and what tearing a bank leaves. *)
LEMMA Banks ==
  ASSUME TypeOK
  PROVE  /\ bank \in {0, 1} /\ Other(bank) \in {0, 1} /\ Other(bank) # bank
         /\ \A k \in {0, 1} : data[k] \in [Block -> Cells]
         /\ \A b \in Block : Published(b) \in Cells
         /\ NoCell \in Cells
<1>1. bank \in {0, 1} /\ Other(bank) \in {0, 1} /\ Other(bank) # bank
  BY DEF TypeOK, Other
<1>2. \A k \in {0, 1} : data[k] \in [Block -> Cells]
  BY DEF TypeOK
<1>3. NoCell \in Cells
  BY DEF NoCell, Unknown, Mass, Cells, Masses
<1> QED
  BY <1>1, <1>2, <1>3 DEF Published

(* A stage that writes the other bank and publishes it. *)
LEMMA Publishes ==
  ASSUME TypeOK, NEW f \in [Block -> Cells], data' = [data EXCEPT ![Other(bank)] = f],
         bank' = Other(bank)
  PROVE  /\ data' \in [{0, 1} -> [Block -> Cells]] /\ bank' \in {0, 1}
         /\ \A b \in Block : Published(b)' = f[b]
  BY Banks DEF TypeOK, Published

(* A torn bank other than the published one leaves the published fields alone. *)
LEMMA Tears ==
  ASSUME TypeOK, NEW k \in {0, 1}, NEW blocks \in SUBSET Block, data' = TornIn(k, blocks)
  PROVE  /\ data' \in [{0, 1} -> [Block -> Cells]]
         /\ k # bank => data'[bank] = data[bank]
  BY Banks DEF TypeOK, TornIn

(* The initial state has its types. *)
LEMMA TypeInit == Init => TypeOK
<1> SUFFICES ASSUME Init PROVE TypeOK
  OBVIOUS
<1>1. data \in [{0, 1} -> [Block -> Cells]]
  BY DEF Init, Cells, Masses, Mass, Unknown, NoCell
<1>2. oldGravity \in [Block -> Masses]
  BY DEF Init, Masses, Mass, Unknown
<1>3. kickWork \in [Block -> [kind : {"none", "work", "combined"}, mesh : 0 .. MaxMesh, n : 0 .. MaxKicks]]
  BY DEF Init, Register
<1>4. {gravityReady, gravityEnergyActive, regridEnergyPending, kickFailed} \subseteq BOOLEAN
  BY DEF Init
<1>5. /\ options \in Options /\ mode \in {"idle", "running", "restoring", "lost"}
      /\ call \in Calls \cup {"none"} /\ outcome \in {"none", "returned", "threw"}
  BY DEF Init
<1>6. (mode = "running" <=> todo # <<>>)
  BY DEF Init
<1>7. /\ bank \in {0, 1} /\ time \in 0 .. MaxTime /\ mesh \in 0 .. MaxMesh
      /\ gravityTime \in 0 .. MaxTime /\ gravityEnergyStart \in 0 .. MaxTime
  BY DEF Init
<1> QED
  BY <1>1, <1>2, <1>3, <1>4, <1>5, <1>6, <1>7 DEF TypeOK

(* The parts of the type invariant. *)
ControlOK ==
  /\ mode \in {"idle", "running", "restoring", "lost"} /\ call \in Calls \cup {"none"}
  /\ outcome \in {"none", "returned", "threw"} /\ (mode = "running" <=> todo # <<>>)
BanksOK == bank \in {0, 1} /\ data \in [{0, 1} -> [Block -> Cells]]
ClockOK == /\ time \in 0 .. MaxTime /\ mesh \in 0 .. MaxMesh
           /\ gravityTime \in 0 .. MaxTime /\ gravityEnergyStart \in 0 .. MaxTime
FlagsOK == {gravityReady, gravityEnergyActive, regridEnergyPending, kickFailed} \subseteq BOOLEAN
Registers == [Block -> [kind : {"none", "work", "combined"}, mesh : 0 .. MaxMesh, n : 0 .. MaxKicks]]
LedgerOK == kickWork \in Registers /\ oldGravity \in [Block -> Masses]

(* The type invariant in parts. *)
LEMMA TypeParts ==
  /\ TypeOK => options \in Options /\ ControlOK /\ BanksOK /\ ClockOK /\ FlagsOK /\ LedgerOK
  /\ (options \in Options /\ ControlOK /\ BanksOK /\ ClockOK /\ FlagsOK /\ LedgerOK)' => TypeOK'
  BY DEF TypeOK, ControlOK, BanksOK, ClockOK, FlagsOK, LedgerOK, Registers

(* The configuration has its types. *)
LEMMA OptionType == ASSUME TypeOK
  PROVE  {Coupling, Tracked, Floored, Refined, Conserve, gravityEnergyActive} \subseteq BOOLEAN
  BY DEF TypeOK, Refined, Conserve

(* Every step keeps the types of the control state. *)
LEMMA ControlStep ==
  ASSUME TypeOK, Planned, mode = "running", Proceed \/ Raise
  PROVE  ControlOK'
<1>1. CASE Proceed
  BY <1>1, Running, TypeParts DEF ControlOK
<1>2. CASE Raise
  BY <1>2, Raised, TypeParts DEF ControlOK
<1> QED
  BY <1>1, <1>2

(* A step leaves a type as it was, or one of the following applies. *)
LEMMA CellTypes ==
  ASSUME TypeOK, NEW b \in Block
  PROVE  /\ \A t \in 0 .. MaxTime : [Published(b) EXCEPT !.gas.at = t, !.rest.at = t] \in Cells
         /\ \A g \in Masses, w \in BOOLEAN : [Published(b) EXCEPT !.gravity = g, !.whole = w] \in Cells
         /\ \A n \in 0 .. MaxKicks, g \in Masses :
              [Published(b) EXCEPT !.kicks = n, !.gravity = g] \in Cells
         /\ \A t \in 0 .. MaxTime, g \in Masses :
              [Published(b) EXCEPT !.gas.at = t, !.rest.at = t, !.gravity = g] \in Cells
         /\ Published(b).gravity \in Masses /\ Published(b).gas \in Masses
         /\ Published(b).kicks \in 0 .. MaxKicks
         /\ Settled(b) \in Cells
<1>1. Published(b) \in Cells
  BY Banks
<1>2. /\ Published(b).gravity \in Masses /\ Published(b).gas \in Masses /\ Published(b).rest \in Masses
      /\ Published(b).kicks \in 0 .. MaxKicks /\ Published(b).whole \in BOOLEAN
  BY <1>1 DEF Cells
<1>3. \A t \in 0 .. MaxTime : [Published(b).gas EXCEPT !.at = t] \in Masses
                           /\ [Published(b).rest EXCEPT !.at = t] \in Masses
  BY <1>2 DEF Masses
<1>4. \A t \in 0 .. MaxTime : [Published(b) EXCEPT !.gas.at = t, !.rest.at = t] \in Cells
  BY <1>1, <1>3 DEF Cells
<1>5. \A g \in Masses, w \in BOOLEAN : [Published(b) EXCEPT !.gravity = g, !.whole = w] \in Cells
  BY <1>1 DEF Cells
<1>6. \A n \in 0 .. MaxKicks, g \in Masses : [Published(b) EXCEPT !.kicks = n, !.gravity = g] \in Cells
  BY <1>1 DEF Cells
<1>7. \A t \in 0 .. MaxTime, g \in Masses :
        [Published(b) EXCEPT !.gas.at = t, !.rest.at = t, !.gravity = g] \in Cells
  BY <1>1, <1>3 DEF Cells
<1>8. Settled(b) \in Cells
  BY <1>1 DEF Cells, Settled
<1> QED
  BY <1>2, <1>4, <1>5, <1>6, <1>7, <1>8

-----------------------------------------------------------------------------
(* What each stage that publishes a bank does to the published cells. *)
LEMMA Moving ==
  ASSUME TypeOK, Planned, Stage("transport") \/ Stage("interval")
  PROVE  time + 1 \in 0 .. MaxTime /\ ~Has(Tail(todo), Moves)
<1>1. mode = "running" /\ Head(todo) \in Moves
  BY DEF Stage, Moves
<1>2. todo \in Seq(StageName) /\ todo # <<>> /\ Plan(call, todo)
  BY <1>1, Running
<1>3. Has(todo, Moves) /\ ~Has(Tail(todo), Moves)
  BY <1>1, <1>2, TailHas DEF Plan
<1>4. time < MaxTime /\ time \in 0 .. MaxTime
  BY <1>1, <1>3 DEF Planned, TypeOK
<1> QED
  BY <1>3, <1>4

(* What transport publishes. *)
LEMMA Transported ==
  ASSUME TypeOK, Planned, Transport
  PROVE  /\ BanksOK'
         /\ \A b \in Block : Published(b)' = [Published(b) EXCEPT !.gas.at = time + 1, !.rest.at = time + 1]
<1> DEFINE f == [b \in Block |-> [Published(b) EXCEPT !.gas.at = time + 1, !.rest.at = time + 1]]
<1>1. time + 1 \in 0 .. MaxTime
  BY Moving DEF Transport, Succeeds
<1>2. f \in [Block -> Cells]
  BY <1>1, CellTypes
<1>3. data' = [data EXCEPT ![Other(bank)] = f] /\ bank' = Other(bank)
  BY DEF Transport, Publish
<1> HIDE DEF f
<1>4. BanksOK' /\ \A b \in Block : Published(b)' = f[b]
  BY <1>2, <1>3, Publishes DEF BanksOK
<1> QED
  BY <1>4 DEF f

(* What a whole interval publishes. *)
LEMMA Advanced ==
  ASSUME TypeOK, Planned, RefinedInterval
  PROVE  /\ BanksOK'
         /\ \A b \in Block : Published(b)' = [Published(b) EXCEPT !.gas.at = time + 1, !.rest.at = time + 1,
                                                                  !.gravity = Mass(mesh, time + 1)]
<1> DEFINE f == [b \in Block |-> [Published(b) EXCEPT !.gas.at = time + 1, !.rest.at = time + 1,
                                                      !.gravity = Mass(mesh, time + 1)]]
<1>1. time + 1 \in 0 .. MaxTime
  BY Moving DEF RefinedInterval, Succeeds
<1>2. Mass(mesh, time + 1) \in Masses
  BY <1>1 DEF TypeOK, Masses, Mass
<1>3. f \in [Block -> Cells]
  BY <1>1, <1>2, CellTypes
<1>4. data' = [data EXCEPT ![Other(bank)] = f] /\ bank' = Other(bank)
  BY DEF RefinedInterval, Publish
<1> HIDE DEF f
<1>5. BanksOK' /\ \A b \in Block : Published(b)' = f[b]
  BY <1>3, <1>4, Publishes DEF BanksOK
<1> QED
  BY <1>5 DEF f

(* A tracked kick finds room in the ledger and in what the gas counts. *)
LEMMA KickFits ==
  ASSUME TypeOK, Planned, KickRoom, Stage("kick"), NEW b \in Block
  PROVE  kickWork[b].n < MaxKicks /\ Published(b).kicks < MaxKicks
<1>1. todo \in Seq(StageName) /\ todo # <<>> /\ Plan(call, todo) /\ mode = "running" /\ Head(todo) = "kick"
  BY Running DEF Stage
<1>2. Has(todo, {"kick"}) /\ ~Has(todo, {"begin"})
  <2>1. Has(todo, {"kick"})
    BY <1>1, TailHas
  <2>2. ~Has(Tail(todo), {"begin"})
    BY <1>1, TailHas DEF Plan
  <2>3. Has(todo, {"begin"}) /\ Head(todo) \notin {"begin"} => Has(Tail(todo), {"begin"})
    BY <1>1, TailHas
  <2> QED
    BY <1>1, <2>1, <2>2, <2>3
<1>3. Room(b, MaxKicks - 1) \/ Room(b, 1)
  BY <1>1, <1>2 DEF KickRoom
<1>4. kickWork[b].n \in Nat /\ Published(b).kicks \in Nat
  <2>1. Published(b).kicks \in 0 .. MaxKicks
    BY CellTypes
  <2>2. kickWork[b] \in [kind : {"none", "work", "combined"}, mesh : 0 .. MaxMesh, n : 0 .. MaxKicks]
    BY DEF TypeOK
  <2> QED
    BY <2>1, <2>2
<1> QED
  BY <1>3, <1>4 DEF Room

(* What a kick publishes. *)
LEMMA Kicked ==
  ASSUME TypeOK, Planned, KickRoom, Kick
  PROVE  /\ BanksOK'
         /\ \A b \in Block : Published(b)' = [Published(b) EXCEPT !.kicks = IF Tracks THEN @ + 1 ELSE @,
                                                                  !.gravity = Published(b).gravity]
<1> DEFINE f == [b \in Block |-> [Published(b) EXCEPT !.kicks = IF Tracks THEN @ + 1 ELSE @,
                                                      !.gravity = Published(b).gravity]]
<1>1. \A b \in Block : Published(b).kicks + 1 \in 0 .. MaxKicks
  <2> SUFFICES ASSUME NEW b \in Block PROVE Published(b).kicks + 1 \in 0 .. MaxKicks
    OBVIOUS
  <2>1. Published(b).kicks < MaxKicks
    BY KickFits DEF Kick, Succeeds
  <2>2. Published(b).kicks \in 0 .. MaxKicks
    BY CellTypes
  <2> QED
    BY <2>1, <2>2
<1>2. f \in [Block -> Cells]
  <2> SUFFICES ASSUME NEW b \in Block
               PROVE  [Published(b) EXCEPT !.kicks = IF Tracks THEN @ + 1 ELSE @,
                                           !.gravity = Published(b).gravity] \in Cells
    OBVIOUS
  <2>1. (IF Tracks THEN Published(b).kicks + 1 ELSE Published(b).kicks) \in 0 .. MaxKicks
    BY <1>1, CellTypes
  <2> QED
    BY <2>1, CellTypes
<1>3. data' = [data EXCEPT ![Other(bank)] = f] /\ bank' = Other(bank)
  BY DEF Kick, Publish, CopiedGravity
<1> HIDE DEF f
<1>4. BanksOK' /\ \A b \in Block : Published(b)' = f[b]
  BY <1>2, <1>3, Publishes DEF BanksOK
<1> QED
  BY <1>4 DEF f

(* What a gravity solve publishes. *)
LEMMA Solved ==
  ASSUME TypeOK, Solve
  PROVE  /\ BanksOK'
         /\ \A b \in Block : Published(b)' = [Published(b) EXCEPT !.gravity = Published(b).gas,
                                                                  !.whole = Recovered(b)]
<1> DEFINE f == [b \in Block |-> [Published(b) EXCEPT !.gravity = Published(b).gas, !.whole = Recovered(b)]]
<1>1. f \in [Block -> Cells]
  <2> SUFFICES ASSUME NEW b \in Block
               PROVE  [Published(b) EXCEPT !.gravity = Published(b).gas, !.whole = Recovered(b)] \in Cells
    OBVIOUS
  <2>1. Recovered(b) \in BOOLEAN
    BY Banks DEF Recovered, Cells
  <2> QED
    BY <2>1, CellTypes
<1>2. data' = [data EXCEPT ![Other(bank)] = f] /\ bank' = Other(bank)
  BY DEF Solve, Publish
<1> HIDE DEF f
<1>3. BanksOK' /\ \A b \in Block : Published(b)' = f[b]
  BY <1>1, <1>2, Publishes DEF BanksOK
<1> QED
  BY <1>3 DEF f

(* What the end of an energy interval publishes. *)
LEMMA Finished ==
  ASSUME TypeOK, FinishGravityEnergy
  PROVE  BanksOK' /\ \A b \in Block : Published(b)' = Settled(b)
<1> DEFINE f == [b \in Block |-> Settled(b)]
<1>1. f \in [Block -> Cells]
  BY CellTypes
<1>2. data' = [data EXCEPT ![Other(bank)] = f] /\ bank' = Other(bank)
  BY DEF FinishGravityEnergy, Publish
<1> HIDE DEF f
<1>3. BanksOK' /\ \A b \in Block : Published(b)' = f[b]
  BY <1>1, <1>2, Publishes DEF BanksOK
<1> QED
  BY <1>3 DEF f

(* What an exchange publishes. *)
LEMMA Exchanged ==
  ASSUME TypeOK, Exchange
  PROVE  BanksOK' /\ \A b \in Block : Published(b)' = Published(b)
<1> DEFINE f == [b \in Block |-> Published(b)]
<1>1. f \in [Block -> Cells]
  BY Banks
<1>2. data' = [data EXCEPT ![Other(bank)] = f] /\ bank' = Other(bank)
  BY DEF Exchange, Publish
<1> HIDE DEF f
<1>3. BanksOK' /\ \A b \in Block : Published(b)' = f[b]
  BY <1>1, <1>2, Publishes DEF BanksOK
<1> QED
  BY <1>3 DEF f

(* What a regrid publishes. *)
LEMMA Installed ==
  ASSUME TypeOK, Planned, Install
  PROVE  /\ mesh + 1 \in 0 .. MaxMesh /\ call = "regrid"
         /\ BanksOK' /\ \A b \in Block : Published(b)' = Transferred(b)
<1>1. todo \in Seq(StageName) /\ todo # <<>> /\ Plan(call, todo) /\ mode = "running" /\ Head(todo) = "regrid"
  BY Running DEF Install, Succeeds, Stage
<1>2. Has(todo, {"regrid"})
  BY <1>1, TailHas
<1>3. mesh < MaxMesh /\ call = "regrid" /\ mesh \in 0 .. MaxMesh
  BY <1>1, <1>2 DEF Planned, Plan, TypeOK
<1>4. \A b \in Block : Transferred(b) \in Cells
  <2> SUFFICES ASSUME NEW b \in Block PROVE Transferred(b) \in Cells
    OBVIOUS
  <2>1. Published(b).gravity \in Masses
    BY CellTypes
  <2>2. time \in 0 .. MaxTime
    BY DEF TypeOK
  <2>3. Mass(mesh + 1, time) \in Masses
    BY <1>3, <2>2 DEF Mass, Masses
  <2> QED
    BY <2>1, <2>3 DEF Transferred, Cells
<1>5. NoCell \in Cells
  BY Banks
<1>6. BanksOK'
  BY <1>4, <1>5 DEF BanksOK, Install
<1>7. \A b \in Block : Published(b)' = Transferred(b)
  BY DEF Install, Published
<1> QED
  BY <1>3, <1>6, <1>7

(* The steps that leave the published bank alone. *)
Reads ==
  \/ \E c \in Calls : Call(c)
  \/ BeginGravityEnergy \/ Prepare \/ Save \/ Floor \/ Unchanged
Fails == Refused \/ StageFails \/ KickFails \/ BeginFails

(* The steps that publish nothing. *)
LEMMA Kept ==
  ASSUME TypeOK, Reads \/ Fails \/ UNCHANGED vars
  PROVE  /\ BanksOK' /\ bank' = bank /\ data'[bank] = data[bank]
         /\ \A b \in Block : Published(b)' = Published(b)
<1>1. SUFFICES BanksOK' /\ bank' = bank /\ data'[bank] = data[bank]
  BY DEF Published
<1>2. CASE Prepare
  <2> PICK torn \in SUBSET Block :
        data' = [data EXCEPT ![Other(bank)] = [b \in Block |-> IF b \in torn THEN NoCell ELSE @[b]]]
    BY <1>2 DEF Prepare
  <2>1. [b \in Block |-> IF b \in torn THEN NoCell ELSE data[Other(bank)][b]] \in [Block -> Cells]
    BY Banks
  <2>2. bank' = bank
    BY <1>2 DEF Prepare
  <2> QED
    BY <2>1, <2>2, Banks DEF BanksOK, TypeOK
<1>3. CASE StageFails \/ KickFails
  <2>1. PICK blocks \in SUBSET Block : data' = TornIn(Other(bank), blocks)
    BY <1>3 DEF StageFails, KickFails
  <2>2. bank' = bank
    BY <1>3 DEF StageFails, KickFails
  <2> QED
    BY <2>1, <2>2, Banks, Tears DEF BanksOK
<1>4. CASE \E c \in Calls : Call(c)
  BY <1>4, TypeParts DEF BanksOK, Call
<1>5. CASE BeginGravityEnergy \/ Save \/ Floor \/ Unchanged \/ Refused \/ BeginFails \/ UNCHANGED vars
  BY <1>5, TypeParts DEF BanksOK, BeginGravityEnergy, Save, Floor, Unchanged, Refused, BeginFails, vars
<1> QED
  BY <1>2, <1>3, <1>4, <1>5 DEF Reads, Fails

(* An emptied kick register is well formed. *)
LEMMA EmptyRegister == ASSUME TypeOK, NEW b \in Block
  PROVE  /\ EmptyLedger(b) \in [kind : {"none", "work", "combined"}, mesh : 0 .. MaxMesh, n : 0 .. MaxKicks]
         /\ Published(b).gravity \in Masses
<1>1. mesh \in 0 .. MaxMesh /\ 0 \in 0 .. MaxKicks
  BY DEF TypeOK
<1>2. Published(b).gravity \in Masses
  BY CellTypes
<1>3. EmptyLedger(b) \in [kind : {"none", "work", "combined"}, mesh : 0 .. MaxMesh, n : 0 .. MaxKicks]
  BY <1>1 DEF EmptyLedger, Register
<1> QED
  BY <1>2, <1>3

(* A register that records one more kick is well formed: there is room for it. *)
LEMMA RecordedRegister ==
  ASSUME TypeOK, Planned, KickRoom, Stage("kick"), NEW b \in Block
  PROVE  Recorded(b) \in [kind : {"none", "work", "combined"}, mesh : 0 .. MaxMesh, n : 0 .. MaxKicks]
<1>1. kickWork[b] \in [kind : {"none", "work", "combined"}, mesh : 0 .. MaxMesh, n : 0 .. MaxKicks]
  BY DEF TypeOK
<1>2. kickWork[b].n < MaxKicks
  BY KickFits
<1> QED
  BY <1>1, <1>2 DEF Recorded

(* Every step keeps the types, given what bounds the steps, kicks and meshes. *)
LEMMA TypeStep ==
  ASSUME TypeOK, Planned, KickRoom, Saved, Restoring, [Next]_vars
  PROVE  TypeOK'
<1> USE TypeParts
<1>a. options' \in Options
  BY DEF Next, vars, Call, Transport, Kick, Solve, BeginGravityEnergy, FinishGravityEnergy, RefinedInterval,
         Exchange, Prepare, Save, Floor, Unchanged, Install, Refused, StageFails, KickFails, BeginFails,
         PublishedBankFails, Restore, RestoreFails, Lost
<1>b. (mode = "running" /\ (Proceed \/ Raise)) => ControlOK'
  BY ControlStep
<1>1. ASSUME NEW c \in Calls, Call(c) PROVE TypeOK'
  <2>1. BanksOK' /\ ClockOK' /\ FlagsOK' /\ LedgerOK'
    BY <1>1, Kept DEF Reads, Call, ClockOK, FlagsOK, LedgerOK, flags, ledger
  <2>2. Program(c) # <<>>
    BY ProgramPlan, OptionType DEF Entire, FlagsOK
  <2>3. ControlOK'
    BY <1>1, <2>2 DEF Call, ControlOK
  <2> QED
    BY <1>a, <2>1, <2>3
<1>2. CASE Transport
  <2>1. time' \in 0 .. MaxTime
    BY <1>2, Moving DEF Transport, Succeeds
  <2>2. ClockOK' /\ FlagsOK' /\ LedgerOK'
    BY <1>2, <2>1 DEF Transport, ClockOK, FlagsOK, LedgerOK, flags, ledger
  <2> QED
    BY <1>a, <1>b, <1>2, <2>2, Transported DEF Transport, Succeeds, Stage
<1>3. CASE Kick
  <2>1. kickWork' \in Registers
    BY <1>3, RecordedRegister DEF Kick, Succeeds, Registers, LedgerOK
  <2>2. ClockOK' /\ FlagsOK' /\ LedgerOK'
    BY <1>3, <2>1 DEF Kick, ClockOK, FlagsOK, LedgerOK, flags
  <2> QED
    BY <1>a, <1>b, <1>3, <2>2, Kicked DEF Kick, Succeeds, Stage
<1>4. CASE Solve
  <2>1. ClockOK' /\ FlagsOK' /\ LedgerOK'
    BY <1>4 DEF Solve, ClockOK, FlagsOK, LedgerOK, ledger
  <2> QED
    BY <1>a, <1>b, <1>4, <2>1, Solved DEF Solve, Succeeds, Stage
<1>5. CASE BeginGravityEnergy
  <2>1. kickWork' \in Registers /\ oldGravity' \in [Block -> Masses]
    BY <1>5, EmptyRegister DEF BeginGravityEnergy, Registers
  <2>2. ClockOK' /\ FlagsOK' /\ LedgerOK'
    BY <1>5, <2>1 DEF BeginGravityEnergy, ClockOK, FlagsOK, LedgerOK
  <2> QED
    BY <1>a, <1>b, <1>5, <2>2, Kept DEF Reads, BeginGravityEnergy, Succeeds, Stage
<1>6. CASE FinishGravityEnergy
  <2>1. ClockOK' /\ FlagsOK' /\ LedgerOK'
    BY <1>6 DEF FinishGravityEnergy, ClockOK, FlagsOK, LedgerOK, ledger
  <2> QED
    BY <1>a, <1>b, <1>6, <2>1, Finished DEF FinishGravityEnergy, Succeeds, Stage
<1>7. CASE RefinedInterval
  <2>1. time' \in 0 .. MaxTime
    BY <1>7, Moving DEF RefinedInterval, Succeeds
  <2>2. ClockOK' /\ FlagsOK' /\ LedgerOK'
    BY <1>7, <2>1 DEF RefinedInterval, ClockOK, FlagsOK, LedgerOK, ledger
  <2> QED
    BY <1>a, <1>b, <1>7, <2>2, Advanced DEF RefinedInterval, Succeeds, Stage
<1>8. CASE Exchange
  <2>1. ClockOK' /\ FlagsOK' /\ LedgerOK'
    BY <1>8 DEF Exchange, ClockOK, FlagsOK, LedgerOK, flags, ledger
  <2> QED
    BY <1>a, <1>b, <1>8, <2>1, Exchanged DEF Exchange, Succeeds, Stage
<1>9. CASE Prepare \/ Save \/ Floor \/ Unchanged
  <2>1. ClockOK' /\ FlagsOK' /\ LedgerOK'
    BY <1>9 DEF Prepare, Save, Floor, Unchanged, ClockOK, FlagsOK, LedgerOK, flags, ledger
  <2> QED
    BY <1>a, <1>b, <1>9, <2>1, Kept DEF Reads, Prepare, Save, Floor, Unchanged, Succeeds, Stage
<1>10. CASE Install
  <2>1. mesh' \in 0 .. MaxMesh
    BY <1>10, Installed DEF Install
  <2>2. kickWork' \in Registers /\ oldGravity' \in [Block -> Masses]
    BY <1>10, <2>1 DEF Install, Registers, Combined, Register, Unknown, Mass, Masses
  <2>3. ClockOK' /\ FlagsOK' /\ LedgerOK'
    BY <1>10, <2>1, <2>2, OptionType DEF Install, ClockOK, FlagsOK, LedgerOK, ReadyAfterInstall
  <2> QED
    BY <1>a, <1>b, <1>10, <2>3, Installed DEF Install, Succeeds, Stage
<1>11. CASE Refused \/ StageFails
  <2>1. ClockOK' /\ FlagsOK' /\ LedgerOK'
    BY <1>11 DEF Refused, StageFails, ClockOK, FlagsOK, LedgerOK, flags, ledger
  <2> QED
    BY <1>a, <1>b, <1>11, <2>1, Kept DEF Fails, Refused, StageFails
<1>12. CASE KickFails
  <2>1. kickWork' \in Registers
    BY <1>12, RecordedRegister DEF KickFails, Succeeds, Registers, LedgerOK
  <2>2. ClockOK' /\ FlagsOK' /\ LedgerOK'
    BY <1>12, <2>1 DEF KickFails, ClockOK, FlagsOK, LedgerOK, flags
  <2> QED
    BY <1>a, <1>b, <1>12, <2>2, Kept DEF Fails, KickFails, Succeeds, Stage
<1>13. CASE BeginFails
  <2>1. kickWork' \in Registers /\ oldGravity' \in [Block -> Masses]
    BY <1>13, EmptyRegister DEF BeginFails, Registers, LedgerOK
  <2>2. ClockOK' /\ FlagsOK' /\ LedgerOK'
    BY <1>13, <2>1 DEF BeginFails, ClockOK, FlagsOK, LedgerOK, flags
  <2> QED
    BY <1>a, <1>b, <1>13, <2>2, Kept DEF Fails, BeginFails, Succeeds, Stage
<1>14. CASE PublishedBankFails
  <2>1. ClockOK' /\ FlagsOK' /\ LedgerOK'
    BY <1>14 DEF PublishedBankFails, ClockOK, FlagsOK, LedgerOK, flags, ledger, history
  <2>2. BanksOK'
    BY <1>14, Banks, Tears DEF PublishedBankFails, BanksOK
  <2>3. ControlOK'
    BY <1>14 DEF PublishedBankFails, ControlOK
  <2> QED
    BY <1>a, <2>1, <2>2, <2>3
<1>15. CASE Restore \/ RestoreFails
  <2>1. backup \in Backups
    BY <1>15 DEF Restore, RestoreFails, Saved, Restoring
  <2>2. ClockOK' /\ FlagsOK' /\ LedgerOK'
    BY <1>15, <2>1 DEF Restore, RestoreFails, Backups, ClockOK, FlagsOK, LedgerOK, flags, ledger, history,
                       RestoredReady, RestoredGravityTime, ActiveAfterRestore
  <2>3. BanksOK'
    <3>1. CASE Restore
      BY <3>1, <2>1 DEF Restore, Backups, BanksOK
    <3>2. CASE RestoreFails
      BY <3>2, <2>1, Tears DEF RestoreFails, Backups, BanksOK
    <3> QED
      BY <1>15, <3>1, <3>2
  <2>4. ControlOK'
    BY <1>15 DEF Restore, RestoreFails, ControlOK
  <2> QED
    BY <1>a, <2>2, <2>3, <2>4
<1>16. CASE UNCHANGED vars
  BY <1>16 DEF vars, flags, ledger, history, ControlOK, BanksOK, ClockOK, FlagsOK, LedgerOK
<1> QED
  BY <1>1, <1>2, <1>3, <1>4, <1>5, <1>6, <1>7, <1>8, <1>9, <1>10, <1>11, <1>12, <1>13, <1>14, <1>15, <1>16
     DEF Next, Lost

-----------------------------------------------------------------------------
(* A record is not the empty sequence: a backup can be told from none. *)
LEMMA BackupTaken == Save => backup' # <<>>
<1>1. ASSUME NEW r, NEW s, NEW t, NEW u, NEW v, NEW w
      PROVE  [bank |-> r, cells |-> s, time |-> t, gravityTime |-> u, gravityReady |-> v, start |-> w] # <<>>
  OBVIOUS
<1> QED
  BY <1>1 DEF Save

(* The stages left after one of them are still a plan. *)
LEMMA PlannedProceed ==
  ASSUME TypeOK, Planned, mode = "running", Proceed,
         time' = time \/ Stage("transport") \/ Stage("interval"),
         mesh' = mesh \/ call \in Single,
         (backup' = backup /\ ~Stage("save")) \/ (Stage("save") /\ backup' # <<>>)
  PROVE  Planned'
<1> SUFFICES ASSUME mode' = "running"
             PROVE  /\ Plan(call, Tail(todo))
                    /\ Has(Tail(todo), Moves) => time' < MaxTime
                    /\ Has(Tail(todo), {"regrid"}) => mesh' < MaxMesh
                    /\ Has(Tail(todo), {"save"}) => backup' = <<>>
                    /\ (call = "advanceCoupled" /\ Coupling /\ backup' = <<>>) => Has(Tail(todo), {"save"})
  BY Running DEF Planned
<1>1. /\ todo \in Seq(StageName) /\ todo # <<>> /\ Plan(call, todo) /\ Plan(call, Tail(todo))
      /\ Tail(todo) # <<>> /\ call \notin Single
  BY Running
<1>2. Has(Tail(todo), Moves) => time' < MaxTime
  <2>1. CASE time' = time
    BY <1>1, <2>1, TailHas DEF Planned
  <2>2. CASE Stage("transport") \/ Stage("interval")
    BY <2>2, Moving
  <2> QED
    BY <2>1, <2>2
<1>3. Has(Tail(todo), {"regrid"}) => mesh' < MaxMesh
  BY <1>1, TailHas DEF Planned
<1>4. Stage("save") => ~Has(Tail(todo), {"save"})
  <2>1. Stage("save") /\ Has(Tail(todo), {"save"}) => Precedes(todo, {"save"}, {"save"})
    BY <1>1, TailHas DEF Stage
  <2>2. Precedes(todo, {"save"}, {"save"}) => Precedes(todo, {"save"}, Opening)
    BY DEF Precedes, Opening
  <2> QED
    BY <1>1, <2>1, <2>2 DEF Plan
<1>5. Has(Tail(todo), {"save"}) => backup' = <<>>
  BY <1>1, <1>4, TailHas DEF Planned
<1>6. (call = "advanceCoupled" /\ Coupling /\ backup' = <<>>) => Has(Tail(todo), {"save"})
  <2> SUFFICES ASSUME call = "advanceCoupled", Coupling, backup' = <<>> PROVE Has(Tail(todo), {"save"})
    OBVIOUS
  <2>1. backup = <<>> /\ ~Stage("save")
    OBVIOUS
  <2>2. Has(todo, {"save"}) /\ Head(todo) \notin {"save"}
    BY <2>1 DEF Planned, Stage
  <2> QED
    BY <1>1, <2>2, TailHas
<1> QED
  BY <1>1, <1>2, <1>3, <1>5, <1>6

(* The program of a call is bounded when the call is accepted. *)
LEMMA PlannedStep ==
  ASSUME TypeOK, Planned, [Next]_vars
  PROVE  Planned'
<1>1. ASSUME NEW c \in Calls, Call(c) PROVE Planned'
  <2>1. Plan(c, Program(c)) /\ Entire(c, Program(c))
    BY ProgramPlan, OptionType
  <2>2. Has(Program(c), Moves) => time < MaxTime
    BY <1>1, <2>1 DEF Entire, Call, Bounded
  <2>3. Has(Program(c), {"regrid"}) => mesh < MaxMesh
    BY <1>1, <2>1 DEF Plan, Call, Bounded
  <2>4. (c = "advanceCoupled" /\ Coupling) => Has(Program(c), {"save"})
    BY <2>1 DEF Entire
  <2> QED
    BY <1>1, <2>1, <2>2, <2>3, <2>4 DEF Planned, Call
<1>2. CASE Transport
  BY <1>2, PlannedProceed DEF Transport, Succeeds, Stage
<1>3. CASE RefinedInterval
  BY <1>3, PlannedProceed DEF RefinedInterval, Succeeds, Stage
<1>4. CASE Save
  BY <1>4, PlannedProceed, BackupTaken DEF Save, Succeeds, Stage
<1>5. CASE Install
  <2>1. call \in Single
    BY <1>5, Installed DEF Single
  <2> QED
    BY <1>5, <2>1, PlannedProceed DEF Install, Succeeds, Stage
<1>6. CASE Kick \/ Solve \/ BeginGravityEnergy \/ FinishGravityEnergy
  BY <1>6, PlannedProceed DEF Kick, Solve, BeginGravityEnergy, FinishGravityEnergy, Succeeds, Stage
<1>7. CASE Exchange \/ Prepare \/ Floor \/ Unchanged
  BY <1>7, PlannedProceed DEF Exchange, Prepare, Floor, Unchanged, Succeeds, Stage
<1>8. CASE Fails
  BY <1>8, Raised DEF Fails, Refused, StageFails, KickFails, BeginFails, Planned
<1>9. CASE PublishedBankFails \/ Restore \/ RestoreFails
  BY <1>9 DEF PublishedBankFails, Restore, RestoreFails, Planned
<1>10. CASE UNCHANGED vars
  BY <1>10 DEF vars, Planned
<1> QED
  BY <1>1, <1>2, <1>3, <1>4, <1>5, <1>6, <1>7, <1>8, <1>9, <1>10 DEF Next, Lost, Fails

(* Gravity is never ahead of the gas; and none is ready while energy awaits  *)
(* recovery, which the next solve performs.                                *)
LEMMA ClockStep ==
  ASSUME TypeOK, Clock, Saved, Restoring, [Next]_vars
  PROVE  Clock'
<1>0. time \in Nat /\ gravityTime \in Nat
  BY DEF TypeOK
<1>1. ASSUME NEW c \in Calls, Call(c) PROVE Clock'
  BY <1>1 DEF Clock, Call, flags
<1>2. CASE Transport
  BY <1>0, <1>2 DEF Transport, Succeeds, Stage, Clock, flags
<1>3. CASE Kick \/ Exchange \/ Prepare \/ Save \/ Floor \/ Unchanged
  BY <1>3 DEF Kick, Exchange, Prepare, Save, Floor, Unchanged, Succeeds, Stage, Clock, flags
<1>4. CASE Solve
  BY <1>0, <1>4 DEF Solve, Clock
<1>5. CASE BeginGravityEnergy \/ FinishGravityEnergy
  BY <1>5 DEF BeginGravityEnergy, FinishGravityEnergy, Succeeds, Stage, Clock
<1>6. CASE RefinedInterval
  BY <1>0, <1>6 DEF RefinedInterval, Succeeds, Demand, NotPending, Clock
<1>7. CASE Install
  BY <1>7 DEF Install, Succeeds, Stage, Clock, ReadyAfterInstall
<1>8. CASE Fails \/ PublishedBankFails
  BY <1>8 DEF Fails, Refused, StageFails, KickFails, BeginFails, PublishedBankFails, Clock, flags,
             Succeeds, Stage
<1>9. CASE Restore
  BY <1>9 DEF Restore, Saved, Restoring, RestoredReady, RestoredGravityTime, Clock
<1>10. CASE RestoreFails
  BY <1>10 DEF RestoreFails, Clock
<1>11. CASE UNCHANGED vars
  BY <1>11 DEF vars, flags, Clock
<1> QED
  BY <1>1, <1>2, <1>3, <1>4, <1>5, <1>6, <1>7, <1>8, <1>9, <1>10, <1>11 DEF Next, Lost, Fails

(* What each stage leaves of a published cell, field by field. *)
Holds(cell, gas, rest, gravity, whole, kicks) ==
  /\ cell.gas = gas /\ cell.rest = rest /\ cell.gravity = gravity
  /\ cell.whole = whole /\ cell.kicks = kicks

(* Fields of a new time on the same mesh. *)
LEMMA Restamped ==
  ASSUME TypeOK, NEW b \in Block
  PROVE  /\ [Published(b).gas EXCEPT !.at = time + 1] = Mass(Published(b).gas.mesh, time + 1)
         /\ [Published(b).rest EXCEPT !.at = time + 1] = Mass(Published(b).rest.mesh, time + 1)
         /\ Published(b) \in Cells
  BY Banks DEF Cells, Masses, Mass

(* The fields transport leaves. *)
LEMMA TransportFields ==
  ASSUME TypeOK, Planned, Transport, NEW b \in Block
  PROVE  Holds(Published(b)', Mass(Published(b).gas.mesh, time + 1), Mass(Published(b).rest.mesh, time + 1),
               Published(b).gravity, Published(b).whole, Published(b).kicks)
  BY Restamped, Transported DEF Cells, Holds

(* The fields an interval leaves. *)
LEMMA IntervalFields ==
  ASSUME TypeOK, Planned, RefinedInterval, NEW b \in Block
  PROVE  Holds(Published(b)', Mass(Published(b).gas.mesh, time + 1), Mass(Published(b).rest.mesh, time + 1),
               Mass(mesh, time + 1), Published(b).whole, Published(b).kicks)
  BY Restamped, Advanced DEF Cells, Holds

(* The fields a kick leaves. *)
LEMMA KickFields ==
  ASSUME TypeOK, Planned, KickRoom, Kick, NEW b \in Block
  PROVE  Holds(Published(b)', Published(b).gas, Published(b).rest, Published(b).gravity, Published(b).whole,
               IF Tracks THEN Published(b).kicks + 1 ELSE Published(b).kicks)
  BY Restamped, Kicked DEF Cells, Holds

(* The fields a solve leaves. *)
LEMMA SolveFields ==
  ASSUME TypeOK, Solve, NEW b \in Block
  PROVE  Holds(Published(b)', Published(b).gas, Published(b).rest, Published(b).gas, Recovered(b),
               Published(b).kicks)
  BY Restamped, Solved DEF Cells, Holds

(* The fields the end of an energy interval leaves. *)
LEMMA FinishFields ==
  ASSUME TypeOK, FinishGravityEnergy, NEW b \in Block
  PROVE  Holds(Published(b)', Published(b).gas, Published(b).rest, Published(b).gravity, Published(b).whole, 0)
  BY Restamped, Finished DEF Cells, Holds, Settled

(* The fields a regrid leaves. *)
LEMMA InstallFields ==
  ASSUME TypeOK, Planned, Install, NEW b \in Block
  PROVE  Holds(Published(b)', Mass(mesh + 1, time), Mass(mesh + 1, time), Published(b).gravity, ~Conserve, 0)
  BY Installed DEF Holds, Transferred


(* advanceCoupled's catch block publishes what it has saved. *)
LEMMA Restored ==
  ASSUME TypeOK, Saved, Restoring, Restore
  PROVE  /\ data'[bank'] = backup.cells /\ \A b \in Block : Published(b)' = backup.cells[b]
         /\ View' = SavedView /\ before = SavedView
<1>1. backup \in Backups /\ before = SavedView
  BY DEF Restore, Saved, Restoring
<1>2. bank' = backup.bank /\ backup.bank \in {0, 1} /\ data' = [data EXCEPT ![backup.bank] = backup.cells]
  BY <1>1 DEF Restore, Backups
<1>3. data'[bank'] = backup.cells
  BY <1>2 DEF TypeOK
<1>4. \A b \in Block : Published(b)' = backup.cells[b]
  BY <1>3 DEF Published
<1>5. View' = SavedView
  BY <1>3 DEF View, SavedView, Restore, RestoredReady, RestoredGravityTime, ActiveAfterRestore
<1> QED
  BY <1>1, <1>3, <1>4, <1>5
-----------------------------------------------------------------------------
(* Between two stages the published cells belong to the installed mesh and   *)
(* the published time, whatever the stages before have written.            *)
WholeAt(b) ==
  /\ WholeCell(Published(b), mesh, time, Synchronised)
  /\ ~regridEnergyPending => Published(b).whole
  /\ ~gravityEnergyActive => Published(b).kicks = 0

(* Every step keeps the published fields of one time and one mesh. *)
LEMMA WholeStep ==
  ASSUME TypeOK, Planned, Clock, KickRoom, Whole, Pending, Saved, Restoring, [Next]_vars
  PROVE  Whole'
<1> SUFFICES ASSUME NEW b \in Block, mode' \in {"idle", "running"} PROVE WholeAt(b)'
  BY DEF Whole, WholeAt
<1>0. mode \in {"idle", "running"} => WholeAt(b)
  BY DEF Whole, WholeAt
<1>t. time \in Nat /\ gravityTime \in Nat /\ mesh \in Nat
  BY DEF TypeOK
<1> USE DEF WholeAt, WholeCell, Synchronised, Succeeds, Stage, flags
<1>1. CASE Reads \/ Fails \/ UNCHANGED vars
  <2>1. Published(b)' = Published(b)
    BY <1>1, Kept
  <2>2. time' = time /\ mesh' = mesh /\ gravityTime' = gravityTime /\ gravityReady' = gravityReady
    BY <1>1 DEF Reads, Fails, Call, Prepare, Save, Floor, Unchanged, BeginGravityEnergy, Refused, StageFails,
                KickFails, BeginFails, vars
  <2>3. regridEnergyPending' = regridEnergyPending /\ (~gravityEnergyActive' => ~gravityEnergyActive)
    BY <1>1 DEF Reads, Fails, Call, Prepare, Save, Floor, Unchanged, BeginGravityEnergy, Refused, StageFails,
                KickFails, BeginFails, vars
  <2>4. mode \in {"idle", "running"}
    BY <1>1 DEF Reads, Fails, Call, Prepare, Save, Floor, Unchanged, BeginGravityEnergy, Refused, StageFails,
                KickFails, BeginFails, vars
  <2> QED
    BY <1>0, <2>1, <2>2, <2>3, <2>4
<1>2. CASE Transport
  <2>1. WholeAt(b) /\ ~regridEnergyPending /\ gravityTime <= time
    BY <1>0, <1>2 DEF Transport, Demand, NotPending, Clock
  <2>2. time' = time + 1 /\ UNCHANGED <<mesh, gravityTime, gravityEnergyActive>>
    BY <1>2 DEF Transport
  <2> QED
    BY <1>2, <1>t, <2>1, <2>2, TransportFields DEF Holds, Mass
<1>3. CASE Kick
  <2>1. WholeAt(b) /\ UNCHANGED <<time, mesh, flags>>
    BY <1>0, <1>3 DEF Kick
  <2> QED
    BY <1>3, <2>1, KickFields DEF Holds, Tracks
<1>4. CASE Solve
  <2>1. WholeAt(b) /\ UNCHANGED <<time, mesh, gravityEnergyActive>>
    BY <1>0, <1>4 DEF Solve
  <2>2. Recovered(b)
    BY <1>4, <2>1 DEF Recovered, Pending, Solve
  <2> QED
    BY <1>4, <2>1, <2>2, SolveFields DEF Holds
<1>5. CASE FinishGravityEnergy
  <2>1. WholeAt(b) /\ UNCHANGED <<time, mesh, gravityReady, gravityTime, regridEnergyPending>>
    BY <1>0, <1>5 DEF FinishGravityEnergy
  <2> QED
    BY <1>5, <2>1, FinishFields DEF Holds
<1>6. CASE RefinedInterval
  <2>1. WholeAt(b) /\ ~regridEnergyPending /\ ~gravityEnergyActive
    BY <1>0, <1>6 DEF RefinedInterval, Demand, NotPending
  <2>2. time' = time + 1 /\ UNCHANGED <<mesh, gravityEnergyActive>>
    BY <1>6 DEF RefinedInterval
  <2> QED
    BY <1>6, <2>1, <2>2, IntervalFields DEF Holds, Mass
<1>7. CASE Exchange
  <2>1. WholeAt(b) /\ UNCHANGED <<time, mesh, flags>>
    BY <1>0, <1>7 DEF Exchange
  <2> QED
    BY <1>7, <2>1, Exchanged
<1>8. CASE Install
  <2>1. mesh' = mesh + 1 /\ time' = time /\ ~gravityReady' /\ regridEnergyPending' = Conserve
    BY <1>8 DEF Install, ReadyAfterInstall
  <2> QED
    BY <1>8, <2>1, InstallFields DEF Holds
<1>9. CASE PublishedBankFails \/ RestoreFails
  BY <1>9 DEF PublishedBankFails, RestoreFails
<1>10. CASE Restore
  <2>1. /\ WholeCell(backup.cells[b], mesh, backup.time,
                     backup.gravityReady /\ backup.gravityTime = backup.time)
        /\ backup.cells[b].whole /\ backup.cells[b].kicks = 0
    BY <1>10 DEF Restore, Saved, Restoring
  <2>2. /\ time' = backup.time /\ gravityReady' = backup.gravityReady
        /\ gravityTime' = backup.gravityTime /\ mesh' = mesh
    BY <1>10 DEF Restore, RestoredReady, RestoredGravityTime
  <2> QED
    BY <1>10, <2>1, <2>2, Restored
<1> QED
  BY <1>1, <1>2, <1>3, <1>4, <1>5, <1>6, <1>7, <1>8, <1>9, <1>10 DEF Next, Reads, Fails, Lost

(* Every step keeps what is pending between kicks and intervals. *)
LEMMA PendingStep ==
  ASSUME TypeOK, Clock, Whole, Pending, Saved, Restoring, [Next]_vars
  PROVE  Pending'
<1> SUFFICES ASSUME mode' # "lost", regridEnergyPending', NEW b \in Block
             PROVE  kickWork'[b] = Combined(mesh')
  BY DEF Pending
<1>0. (mode # "lost" /\ regridEnergyPending) => (kickWork[b] = Combined(mesh) /\ ~gravityReady)
  BY DEF Pending, Clock
<1> USE DEF Succeeds, Stage, flags, ledger
<1>1. ASSUME NEW c \in Calls, Call(c) PROVE kickWork'[b] = Combined(mesh')
  BY <1>0, <1>1 DEF Call
<1>2. CASE Transport \/ RefinedInterval \/ Exchange \/ Prepare \/ Save \/ Floor \/ Unchanged
  BY <1>0, <1>2 DEF Transport, RefinedInterval, Exchange, Prepare, Save, Floor, Unchanged
<1>3. CASE Kick \/ KickFails
  BY <1>0, <1>3 DEF Kick, KickFails, Demand, KickReady, Synchronised
<1>4. CASE Solve
  BY <1>4 DEF Solve
<1>5. CASE BeginGravityEnergy \/ BeginFails
  BY <1>0, <1>5 DEF BeginGravityEnergy, BeginFails, Demand, Synchronised
<1>6. CASE FinishGravityEnergy
  BY <1>0, <1>6 DEF FinishGravityEnergy
<1>7. CASE Install
  <2>1. Synchronised /\ Conserve
    BY <1>7 DEF Install, MeshMayChange
  <2>2. Published(b).gravity = Published(b).gas
    BY <1>7, <2>1 DEF Whole, WholeCell, Install
  <2> QED
    BY <1>7, <2>1, <2>2 DEF Install
<1>8. CASE Refused \/ StageFails \/ PublishedBankFails
  BY <1>0, <1>8 DEF Refused, StageFails, PublishedBankFails
<1>9. CASE Restore \/ RestoreFails
  BY <1>9 DEF Restore, RestoreFails, Saved, Restoring
<1>10. CASE UNCHANGED vars
  BY <1>0, <1>10 DEF vars
<1> QED
  BY <1>1, <1>2, <1>3, <1>4, <1>5, <1>6, <1>7, <1>8, <1>9, <1>10 DEF Next, Lost

(* Each kick is booked where it is applied; a failed one may not be. *)
Booked(b) ==
  /\ kickWork[b] = Register("work", mesh, Published(b).kicks)
  /\ oldGravity[b] = Mass(mesh, gravityEnergyStart)

(* Every step keeps the ledger of kick work. *)
LEMMA LedgerStep ==
  ASSUME TypeOK, Planned, KickRoom, Whole, Ledger, [Next]_vars
  PROVE  Ledger'
<1> SUFFICES ASSUME mode' \in {"idle", "running"}, gravityEnergyActive', Tracked, ~kickFailed', NEW b \in Block
             PROVE  Booked(b)'
  BY DEF Ledger, Booked
<1>0. (mode \in {"idle", "running"} /\ gravityEnergyActive /\ ~kickFailed) => Booked(b)
  BY DEF Ledger, Booked
<1> USE DEF Booked, Succeeds, Stage, flags, ledger
<1>1. CASE Reads \/ Fails \/ UNCHANGED vars
  <2>1. Published(b)' = Published(b)
    BY <1>1, Kept
  <2>2. CASE BeginGravityEnergy
    <3>1. /\ ~gravityEnergyActive /\ Synchronised /\ mode = "running"
      BY <2>2 DEF BeginGravityEnergy, Demand
    <3>2. /\ Published(b).gas = Mass(mesh, time) /\ Published(b).gravity = Published(b).gas
          /\ Published(b).kicks = 0
      BY <3>1 DEF Whole, WholeCell
    <3>3. /\ kickWork'[b] = Register("work", mesh, 0) /\ oldGravity'[b] = Published(b).gravity
          /\ gravityEnergyStart' = time /\ mesh' = mesh
      BY <2>2 DEF BeginGravityEnergy, EmptyLedger
    <3> QED
      BY <2>1, <3>2, <3>3
  <2>3. CASE BeginFails
    BY <2>3 DEF BeginFails, Demand
  <2>4. CASE KickFails
    BY <2>4 DEF KickFails
  <2>5. CASE \E c \in Calls : Call(c)
    BY <1>0, <2>1, <2>5 DEF Call
  <2>6. CASE Prepare \/ Save \/ Floor \/ Unchanged \/ Refused \/ StageFails
    <3>1. mode = "running" /\ UNCHANGED <<mesh, flags, ledger, kickFailed>>
      BY <2>6 DEF Prepare, Save, Floor, Unchanged, Refused, StageFails
    <3> QED
      BY <1>0, <2>1, <3>1
  <2>7. CASE UNCHANGED vars
    BY <1>0, <2>1, <2>7 DEF vars, history
  <2> QED
    BY <1>1, <2>2, <2>3, <2>4, <2>5, <2>6, <2>7 DEF Reads, Fails
<1>2. CASE Transport
  <2>1. Booked(b) /\ UNCHANGED <<mesh, gravityEnergyStart, ledger>>
    BY <1>0, <1>2 DEF Transport
  <2> QED
    BY <1>2, <2>1, TransportFields DEF Holds
<1>3. CASE Kick
  <2>1. Booked(b) /\ UNCHANGED <<mesh, gravityEnergyStart, oldGravity>> /\ Tracks
    BY <1>0, <1>3 DEF Kick, Tracks
  <2>2. kickWork'[b] = Register("work", mesh, Published(b).kicks + 1)
    BY <1>3, <2>1 DEF Kick, Recorded, Register
  <2> QED
    BY <1>3, <2>1, <2>2, KickFields DEF Holds
<1>4. CASE Solve
  <2>1. Booked(b) /\ UNCHANGED <<mesh, gravityEnergyStart, ledger>>
    BY <1>0, <1>4 DEF Solve
  <2> QED
    BY <1>4, <2>1, SolveFields DEF Holds
<1>5. CASE FinishGravityEnergy \/ Restore
  BY <1>5 DEF FinishGravityEnergy, Restore, ActiveAfterRestore
<1>6. CASE RefinedInterval \/ Install
  BY <1>6 DEF RefinedInterval, Install, Demand
<1>7. CASE Exchange
  <2>1. Booked(b) /\ UNCHANGED <<mesh, gravityEnergyStart, ledger>>
    BY <1>0, <1>7 DEF Exchange
  <2> QED
    BY <1>7, <2>1, Exchanged
<1>8. CASE PublishedBankFails \/ RestoreFails
  BY <1>8 DEF PublishedBankFails, RestoreFails
<1> QED
  BY <1>1, <1>2, <1>3, <1>4, <1>5, <1>6, <1>7, <1>8 DEF Next, Reads, Fails, Lost

(* Stages in order are stages that are there. *)
LEMMA PrecedesHas == ASSUME NEW s, NEW R, NEW S, Precedes(s, R, S) PROVE Has(s, R) /\ Has(s, S)
  BY DEF Precedes, Has

(* The counts of kicks are numbers. *)
LEMMA KickCounts ==
  ASSUME TypeOK, NEW b \in Block
  PROVE  kickWork[b].n \in Nat /\ Published(b).kicks \in Nat
<1>1. Published(b).kicks \in 0 .. MaxKicks
  BY CellTypes
<1>2. kickWork[b] \in [kind : {"none", "work", "combined"}, mesh : 0 .. MaxMesh, n : 0 .. MaxKicks]
  BY DEF TypeOK
<1> QED
  BY <1>1, <1>2

(* A stage other than a kick or a begin leaves the room for kicks that is left. *)
LEMMA RoomKept ==
  ASSUME TypeOK, Planned, KickRoom, mode = "running", Proceed, Head(todo) \notin {"kick", "begin"},
         \A b \in Block : \A n \in Nat : Room(b, n) => Room(b, n)'
  PROVE  KickRoom'
<1> SUFFICES ASSUME mode' = "running", ~Has(Tail(todo), {"begin"})
             PROVE  /\ call # "kickGravity"
                    /\ Has(Tail(todo), {"kick"}) => \A b \in Block : Room(b, 1)'
                    /\ Precedes(Tail(todo), {"kick"}, {"kick"}) => \A b \in Block : Room(b, 0)'
  <2>1. call' = call /\ todo' = Tail(todo) /\ (mode' = "running" => call # "kickGravity")
    BY Running DEF Single
  <2> QED
    BY <2>1 DEF KickRoom
<1>1. todo \in Seq(StageName) /\ todo # <<>> /\ call # "kickGravity"
  BY Running DEF Single
<1>2. ~Has(todo, {"begin"})
  BY <1>1, TailHas
<1>3. /\ Has(Tail(todo), {"kick"}) => \A b \in Block : Room(b, 1)
      /\ Precedes(Tail(todo), {"kick"}, {"kick"}) => \A b \in Block : Room(b, 0)
  BY <1>1, <1>2, TailHas DEF KickRoom
<1> QED
  BY <1>1, <1>3

(* begin empties the ledger, and of a call's kicks at most two follow it. *)
LEMMA KickRoomStep ==
  ASSUME TypeOK, Planned, KickRoom, Whole, [Next]_vars
  PROVE  KickRoom'
<1> USE DEF Succeeds, Stage
<1>1. ASSUME NEW c \in Calls, Call(c) PROVE KickRoom'
  <2>1. UNCHANGED <<kickWork, bank, data>> /\ call' = c /\ todo' = Program(c)
    BY <1>1 DEF Call, ledger
  <2>2. CASE c = "kickGravity"
    <3>1. \A b \in Block : Room(b, MaxKicks - 1)
      BY <1>1, <2>2, KickCounts DEF Call, Bounded, Room
    <3> QED
      BY <2>1, <2>2, <3>1 DEF KickRoom, Room, Published
  <2>3. CASE c # "kickGravity"
    <3>1. Has(Program(c), {"kick"}) => Has(Program(c), {"begin"})
      BY <2>3, ProgramPlan, OptionType DEF Entire
    <3> QED
      BY <2>1, <2>3, <3>1, PrecedesHas DEF KickRoom
  <2> QED
    BY <2>2, <2>3
<1>2. CASE Transport
  BY <1>2, TransportFields, RoomKept DEF Transport, Holds, Room, ledger
<1>3. CASE Kick
  <2> SUFFICES ASSUME mode' = "running"
               PROVE  /\ call # "kickGravity"
                      /\ Has(Tail(todo), {"kick"}) => \A b \in Block : Room(b, 1)'
                      /\ ~Precedes(Tail(todo), {"kick"}, {"kick"})
    <3>1. call' = call /\ todo' = Tail(todo)
      BY <1>3, Running DEF Kick
    <3> QED
      BY <3>1 DEF KickRoom
  <2>1. /\ todo \in Seq(StageName) /\ todo # <<>> /\ Plan(call, todo) /\ call # "kickGravity"
        /\ mode = "running" /\ Head(todo) = "kick"
    BY <1>3, Running DEF Kick, Single
  <2>2. ~Has(todo, {"begin"})
    BY <2>1, TailHas DEF Plan
  <2>3. ~Precedes(Tail(todo), {"kick"}, {"kick"})
    BY <2>1, TailHas DEF Plan
  <2>4. Has(Tail(todo), {"kick"}) => \A b \in Block : Room(b, 0)
    BY <2>1, <2>2, TailHas DEF KickRoom
  <2>5. ASSUME NEW b \in Block, Room(b, 0) PROVE Room(b, 1)'
    <3>1. kickWork[b].n = 0 /\ Published(b).kicks = 0
      BY <2>5, KickCounts DEF Room
    <3>2. kickWork[b] \in [kind : {"none", "work", "combined"}, mesh : 0 .. MaxMesh, n : 0 .. MaxKicks]
      BY DEF TypeOK
    <3>3. kickWork'[b].n <= 1
      BY <1>3, <3>1, <3>2 DEF Kick, Recorded
    <3>4. Published(b)'.kicks <= 1
      BY <1>3, <3>1, KickFields DEF Holds
    <3> QED
      BY <3>3, <3>4 DEF Room
  <2> QED
    BY <2>1, <2>3, <2>4, <2>5
<1>4. CASE Solve
  BY <1>4, SolveFields, RoomKept DEF Solve, Holds, Room, ledger
<1>5. CASE BeginGravityEnergy
  <2>1. ASSUME NEW b \in Block PROVE Room(b, 0)' /\ Room(b, 1)'
    <3>1. Published(b)' = Published(b) /\ Published(b).kicks = 0
      BY <1>5, Kept DEF Whole, Reads, BeginGravityEnergy, Demand
    <3>2. kickWork'[b].n = 0
      BY <1>5 DEF BeginGravityEnergy, EmptyLedger, Register
    <3> QED
      BY <3>1, <3>2 DEF Room
  <2>2. mode' = "running" => call' # "kickGravity"
    BY <1>5, Running DEF BeginGravityEnergy, Single
  <2> QED
    BY <2>1, <2>2 DEF KickRoom
<1>6. CASE FinishGravityEnergy
  <2>1. \A b \in Block : \A n \in Nat : Room(b, n) => Room(b, n)'
    <3>1. \A b \in Block : Published(b)'.kicks = 0
      BY <1>6, FinishFields DEF Holds
    <3>2. kickWork' = kickWork
      BY <1>6 DEF FinishGravityEnergy, ledger
    <3> QED
      BY <3>1, <3>2 DEF Room
  <2> QED
    BY <1>6, <2>1, RoomKept DEF FinishGravityEnergy
<1>7. CASE RefinedInterval
  BY <1>7, IntervalFields, RoomKept DEF RefinedInterval, Holds, Room, ledger
<1>8. CASE Exchange
  BY <1>8, Exchanged, RoomKept DEF Exchange, Room, ledger
<1>9. CASE Prepare \/ Save \/ Floor \/ Unchanged
  <2>1. \A b \in Block : \A n \in Nat : Room(b, n) => Room(b, n)'
    <3>1. \A b \in Block : Published(b)' = Published(b)
      BY <1>9, Kept DEF Reads
    <3>2. kickWork' = kickWork
      BY <1>9 DEF Prepare, Save, Floor, Unchanged, ledger
    <3> QED
      BY <3>1, <3>2 DEF Room
  <2> QED
    BY <1>9, <2>1, RoomKept DEF Prepare, Save, Floor, Unchanged
<1>10. CASE Install
  BY <1>10, Installed, Running DEF Install, Single, KickRoom
<1>11. CASE Fails
  BY <1>11, Raised DEF Fails, Refused, StageFails, KickFails, BeginFails, KickRoom
<1>12. CASE PublishedBankFails \/ Restore \/ RestoreFails
  BY <1>12 DEF PublishedBankFails, Restore, RestoreFails, KickRoom
<1>13. CASE UNCHANGED vars
  BY <1>13 DEF vars, ledger, KickRoom, Room, Published
<1> QED
  BY <1>1, <1>2, <1>3, <1>4, <1>5, <1>6, <1>7, <1>8, <1>9, <1>10, <1>11, <1>12, <1>13
     DEF Next, Fails, Lost

-----------------------------------------------------------------------------
(* advanceCoupled's prelude: its checks, then its backup, then its stages. *)
LEMMA Prelude ==
  ASSUME TypeOK, Planned, mode = "running"
  PROVE  /\ Has(Tail(todo), {"save"}) => Head(todo) = "closed" /\ Has(todo, {"save"}) /\ backup = <<>>
         /\ (Has(todo, {"save"}) /\ Head(todo) # "save") => Has(Tail(todo), {"save"})
         /\ Head(todo) = "save" => /\ ~Has(todo, {"closed"}) /\ Has(todo, {"save"})
                                   /\ call = "advanceCoupled" /\ Coupling /\ backup = <<>>
<1>1. /\ todo \in Seq(StageName) /\ todo # <<>> /\ Plan(call, todo) /\ Head(todo) \in StageName
      /\ Has(todo, {"save"}) => backup = <<>>
  BY Running DEF Planned
<1>2. Has(Tail(todo), {"save"}) => Head(todo) \in Opening
  BY <1>1, TailHas DEF Plan
<1>3. Head(todo) = "save" => ~Has(Tail(todo), Opening)
  BY <1>1, TailHas DEF Plan
<1>4. \A s : (Has(s, {"save"}) \/ Has(s, {"closed"})) => Has(s, Opening)
  BY DEF Has, Opening
<1>5. Head(todo) = "save" => Has(todo, {"save"})
  BY <1>1, TailHas
<1>6. Has(todo, {"save"}) => call = "advanceCoupled" /\ Coupling
  BY <1>1, <1>4 DEF Plan
<1>7. Head(todo) = "save" => ~Has(todo, {"closed"})
  BY <1>1, <1>3, <1>4, TailHas
<1>8. Has(Tail(todo), {"save"}) => Has(todo, {"save"})
  BY <1>1, TailHas
<1>9. (Has(todo, {"save"}) /\ Head(todo) # "save") => Has(Tail(todo), {"save"})
  BY <1>1, TailHas
<1> QED
  BY <1>1, <1>2, <1>3, <1>4, <1>5, <1>6, <1>7, <1>8, <1>9 DEF Opening

(* Every step keeps closed what a plan has closed. *)
LEMMA ClosedStep ==
  ASSUME TypeOK, Planned, Closed, [Next]_vars
  PROVE  Closed'
<1> SUFFICES ASSUME mode' = "running", Has(todo', {"save"}), ~Has(todo', {"closed"})
             PROVE  ~gravityEnergyActive' /\ ~regridEnergyPending'
  BY DEF Closed
<1> USE DEF Succeeds, Stage, flags
<1>1. ASSUME NEW c \in Calls, Call(c) PROVE ~gravityEnergyActive' /\ ~regridEnergyPending'
  <2>1. Has(Program(c), {"save"}) => Has(Program(c), {"closed"})
    BY ProgramPlan, OptionType DEF Entire
  <2> QED
    BY <1>1, <2>1 DEF Call
<1>2. ASSUME mode = "running", Proceed PROVE Head(todo) = "closed"
  BY <1>2, Running, Prelude
<1>3. CASE Prepare
  BY <1>2, <1>3 DEF Prepare, Demand, NotPending
<1>4. CASE Transport \/ Kick \/ Solve \/ BeginGravityEnergy \/ FinishGravityEnergy \/ RefinedInterval
           \/ Exchange \/ Save \/ Floor \/ Unchanged \/ Install
  BY <1>2, <1>4 DEF Transport, Kick, Solve, BeginGravityEnergy, FinishGravityEnergy, RefinedInterval,
                    Exchange, Save, Floor, Unchanged, Install
<1>5. CASE Fails
  BY <1>5, Raised DEF Fails, Refused, StageFails, KickFails, BeginFails
<1>6. CASE PublishedBankFails \/ Restore \/ RestoreFails
  BY <1>6 DEF PublishedBankFails, Restore, RestoreFails
<1>7. CASE UNCHANGED vars
  BY <1>7 DEF vars, Closed
<1> QED
  BY <1>1, <1>3, <1>4, <1>5, <1>6, <1>7 DEF Next, Fails, Lost

(* The stages that leave all that a reader sees. *)
LEMMA ViewKept ==
  ASSUME TypeOK, Prepare \/ Save \/ Floor \/ Unchanged \/ Fails \/ UNCHANGED vars
  PROVE  View' = View
<1>1. data'[bank'] = data[bank]
  BY Kept DEF Reads
<1>2. UNCHANGED <<time, mesh, flags>>
  BY DEF Prepare, Save, Floor, Unchanged, Fails, Refused, StageFails, KickFails, BeginFails, vars
<1> QED
  BY <1>1, <1>2 DEF View, flags

(* advanceCoupled has not changed anything by the time it has its backup. *)
LEMMA UnseenStep ==
  ASSUME TypeOK, Planned, Unseen, [Next]_vars
  PROVE  Unseen'
<1> SUFFICES ASSUME mode' = "running", call' \in Atomic, backup' = <<>> PROVE View' = before'
  BY DEF Unseen, Atomic
<1> USE DEF Succeeds, Stage
<1>1. ASSUME NEW c \in Calls, Call(c) PROVE View' = before'
  BY <1>1 DEF Call, View, flags
<1>2. ASSUME mode = "running", Proceed, backup = <<>> PROVE Head(todo) \in {"closed", "save"}
  <2>1. call' = call /\ Tail(todo) # <<>> /\ call \notin Single
    BY <1>2, Running
  <2>2. call = "advanceCoupled" /\ Coupling
    BY <2>1 DEF Atomic, Single
  <2>3. Has(todo, {"save"})
    BY <1>2, <2>2 DEF Planned
  <2> QED
    BY <1>2, <2>3, Prelude
<1>3. CASE Prepare
  <2>1. View = before
    BY <1>3, Running DEF Prepare, Unseen, Atomic
  <2> QED
    BY <1>3, <2>1, ViewKept, Running DEF Prepare
<1>4. CASE Save
  BY <1>4, BackupTaken
<1>5. CASE Transport \/ Kick \/ Solve \/ BeginGravityEnergy \/ FinishGravityEnergy \/ RefinedInterval
           \/ Exchange \/ Floor \/ Unchanged \/ Install
  BY <1>2, <1>5 DEF Transport, Kick, Solve, BeginGravityEnergy, FinishGravityEnergy, RefinedInterval,
                    Exchange, Floor, Unchanged, Install
<1>6. CASE Fails
  BY <1>6, Raised DEF Fails, Refused, StageFails, KickFails, BeginFails
<1>7. CASE PublishedBankFails \/ Restore \/ RestoreFails
  BY <1>7 DEF PublishedBankFails, Restore, RestoreFails
<1>8. CASE UNCHANGED vars
  BY <1>8, ViewKept DEF vars, Unseen, history, Atomic
<1> QED
  BY <1>1, <1>3, <1>4, <1>5, <1>6, <1>7, <1>8 DEF Next, Fails, Lost

(* The backup stays what the caller saw, and is whole. *)
LEMMA SavedStep ==
  ASSUME TypeOK, Planned, Clock, Whole, Closed, Saved, Unseen, [Next]_vars, TypeOK'
  PROVE  Saved'
<1> DEFINE Good == /\ backup \in Backups /\ backup.gravityTime <= backup.time
                   /\ call = "advanceCoupled" /\ Coupling /\ ~regridEnergyPending
                   /\ before = SavedView
                   /\ \A b \in Block :
                        /\ WholeCell(backup.cells[b], mesh, backup.time,
                                     backup.gravityReady /\ backup.gravityTime = backup.time)
                        /\ backup.cells[b].whole /\ backup.cells[b].kicks = 0
<1> SUFFICES ASSUME mode' \in {"running", "restoring"}, backup' # <<>> PROVE Good'
  BY DEF Saved
<1>0. (mode \in {"running", "restoring"} /\ backup # <<>>) => Good
  BY DEF Saved
<1>1. ASSUME mode \in {"running", "restoring"}, UNCHANGED <<backup, call, before, mesh>>,
             regridEnergyPending' => regridEnergyPending
      PROVE  Good'
  <2>1. Good
    BY <1>0, <1>1
  <2>2. regridEnergyPending' = regridEnergyPending
    <3>1. regridEnergyPending \in BOOLEAN /\ regridEnergyPending' \in BOOLEAN
      BY DEF TypeOK
    <3>2. ~regridEnergyPending /\ ~regridEnergyPending'
      BY <1>1, <2>1
    <3> QED
      BY <3>1, <3>2
  <2> QED
    BY <1>1, <2>1, <2>2 DEF SavedView
<1> HIDE DEF Good
<1> USE DEF Succeeds, Stage, flags
<1>2. ASSUME NEW c \in Calls, Call(c) PROVE Good'
  BY <1>2 DEF Call
<1>3. CASE Save
  <2>1. /\ mode = "running" /\ Has(todo, {"save"}) /\ ~Has(todo, {"closed"})
        /\ call = "advanceCoupled" /\ Coupling /\ backup = <<>>
    BY <1>3, Prelude DEF Save
  <2>2. ~gravityEnergyActive /\ ~regridEnergyPending
    BY <2>1 DEF Closed
  <2>3. View = before
    BY <2>1 DEF Unseen, Atomic
  <2>4. /\ call' = call /\ before' = before
        /\ UNCHANGED <<bank, data, time, mesh, gravityReady, gravityTime, regridEnergyPending>>
    BY <1>3 DEF Save, Proceed
  <2>5. backup' = [bank |-> bank, cells |-> data[bank], time |-> time, gravityTime |-> gravityTime,
                   gravityReady |-> gravityReady, start |-> gravityEnergyStart]
    BY <1>3 DEF Save
  <2>6. backup' \in Backups
    BY <2>5, TypeParts DEF Backups, BanksOK, ClockOK, FlagsOK
  <2>7. gravityEnergyActive = FALSE
    BY <2>2, TypeParts DEF FlagsOK
  <2>8. before' = SavedView'
    BY <2>3, <2>4, <2>5, <2>7 DEF View, SavedView
  <2>9. ASSUME NEW b \in Block
        PROVE  /\ WholeCell(data[bank][b], mesh, time, gravityReady /\ gravityTime = time)
               /\ data[bank][b].whole /\ data[bank][b].kicks = 0
    BY <2>1, <2>2 DEF Whole, Published, Synchronised
  <2>10. gravityTime <= time
    BY <2>1 DEF Clock
  <2> QED
    BY <2>1, <2>2, <2>4, <2>5, <2>6, <2>8, <2>9, <2>10 DEF Good
<1>4. CASE Transport \/ Kick \/ BeginGravityEnergy \/ FinishGravityEnergy \/ RefinedInterval
  BY <1>1, <1>4 DEF Transport, Kick, BeginGravityEnergy, FinishGravityEnergy, RefinedInterval, Proceed
<1>5. CASE Solve \/ Exchange \/ Prepare \/ Floor \/ Unchanged
  BY <1>1, <1>5 DEF Solve, Exchange, Prepare, Floor, Unchanged, Proceed
<1>6. CASE Install
  BY <1>6, Installed, Running DEF Install, Single
<1>7. CASE Fails
  <2>1. /\ mode = "running" /\ UNCHANGED <<backup, mesh, regridEnergyPending, call, before>>
    BY <1>7, Raised DEF Fails, Refused, StageFails, KickFails, BeginFails
  <2> QED
    BY <1>1, <2>1
<1>8. CASE PublishedBankFails
  BY <1>1, <1>8 DEF PublishedBankFails, history
<1>9. CASE Restore \/ RestoreFails
  BY <1>9 DEF Restore, RestoreFails
<1>10. CASE UNCHANGED vars
  BY <1>1, <1>10 DEF vars, history
<1> QED
  BY <1>2, <1>3, <1>4, <1>5, <1>6, <1>7, <1>8, <1>9, <1>10 DEF Next, Fails, Lost

(* Every step keeps the backup a rollback needs. *)
LEMMA RestoringStep ==
  ASSUME TypeOK, Planned, Restoring, [Next]_vars
  PROVE  Restoring'
<1> SUFFICES ASSUME mode' = "restoring" PROVE backup' # <<>>
  BY DEF Restoring
<1> USE DEF Succeeds, Stage
<1>1. CASE \E c \in Calls : Call(c)
  BY <1>1 DEF Call
<1>2. CASE Transport \/ Kick \/ Solve \/ BeginGravityEnergy \/ FinishGravityEnergy \/ RefinedInterval
           \/ Exchange \/ Prepare \/ Save \/ Floor \/ Unchanged \/ Install
  BY <1>2, Running DEF Transport, Kick, Solve, BeginGravityEnergy, FinishGravityEnergy, RefinedInterval,
                    Exchange, Prepare, Save, Floor, Unchanged, Install
<1>3. CASE Fails
  BY <1>3, Raised DEF Fails, Refused, StageFails, KickFails, BeginFails
<1>4. CASE PublishedBankFails \/ Restore \/ RestoreFails
  BY <1>4 DEF PublishedBankFails, Restore, RestoreFails
<1>5. CASE UNCHANGED vars
  BY <1>5 DEF vars, Restoring
<1> QED
  BY <1>1, <1>2, <1>3, <1>4, <1>5 DEF Next, Fails, Lost

(* A call that fails leaves its input: at once, or through its backup. *)
LEMMA FailedStep ==
  ASSUME TypeOK, Planned, Saved, Restoring, Unseen, FailedCallUnchanged, [Next]_vars
  PROVE  FailedCallUnchanged'
<1> SUFFICES ASSUME mode' = "idle", outcome' = "threw", call' \in Atomic PROVE View' = before'
  BY DEF FailedCallUnchanged, Atomic
<1> USE DEF Succeeds, Stage
<1>1. CASE \E c \in Calls : Call(c)
  BY <1>1 DEF Call
<1>2. CASE Transport \/ Kick \/ Solve \/ BeginGravityEnergy \/ FinishGravityEnergy \/ RefinedInterval
           \/ Exchange \/ Prepare \/ Save \/ Floor \/ Unchanged \/ Install
  BY <1>2, Running DEF Transport, Kick, Solve, BeginGravityEnergy, FinishGravityEnergy, RefinedInterval,
                    Exchange, Prepare, Save, Floor, Unchanged, Install
<1>3. CASE Fails
  <2>1. mode = "running" /\ backup = <<>> /\ call' = call /\ before' = before
    BY <1>3, Raised DEF Fails, Refused, StageFails, KickFails, BeginFails
  <2>2. View = before
    BY <2>1 DEF Unseen
  <2> QED
    BY <1>3, <2>1, <2>2, ViewKept
<1>4. CASE PublishedBankFails \/ RestoreFails
  BY <1>4 DEF PublishedBankFails, RestoreFails
<1>5. CASE Restore
  BY <1>5, Restored DEF Restore, history
<1>6. CASE UNCHANGED vars
  BY <1>6, ViewKept DEF vars, history, FailedCallUnchanged
<1> QED
  BY <1>1, <1>2, <1>3, <1>4, <1>5, <1>6 DEF Next, Fails, Lost
-----------------------------------------------------------------------------
(* The initial state satisfies the inductive invariant. *)
LEMMA InitIInv == Init => IInv
<1> SUFFICES ASSUME Init PROVE IInv
  OBVIOUS
<1>1. TypeOK
  BY TypeInit
<1>2. \A b \in Block : Published(b) = [gas |-> Mass(0, 0), kicks |-> 0, whole |-> TRUE, gravity |-> Unknown,
                                       rest |-> Mass(0, 0)]
  BY DEF Init, Published
<1>3. Whole
  BY <1>2 DEF Init, Whole, WholeCell, Synchronised
<1>4. Planned /\ KickRoom /\ Closed /\ Saved /\ Restoring /\ Unseen /\ FailedCallUnchanged
  BY DEF Init, Planned, KickRoom, Closed, Saved, Restoring, Unseen, FailedCallUnchanged
<1>5. Clock /\ Pending /\ Ledger
  BY DEF Init, Clock, Pending, Ledger
<1> QED
  BY <1>1, <1>3, <1>4, <1>5 DEF IInv

(* Every step preserves the inductive invariant. *)
LEMMA Inductive == IInv /\ [Next]_vars => IInv'
<1> SUFFICES ASSUME IInv, [Next]_vars PROVE IInv'
  OBVIOUS
<1>1. /\ TypeOK /\ Planned /\ Clock /\ KickRoom /\ Whole /\ Pending /\ Ledger
      /\ Closed /\ Saved /\ Restoring /\ Unseen /\ FailedCallUnchanged
  BY DEF IInv
<1>2. TypeOK' /\ Planned' /\ Clock' /\ KickRoom'
  BY <1>1, TypeStep, PlannedStep, ClockStep, KickRoomStep
<1>3. Whole' /\ Pending' /\ Ledger'
  BY <1>1, WholeStep, PendingStep, LedgerStep
<1>4. Closed' /\ Saved' /\ Restoring'
  BY <1>1, <1>2, ClosedStep, SavedStep, RestoringStep
<1>5. Unseen' /\ FailedCallUnchanged'
  BY <1>1, UnseenStep, FailedStep
<1> QED
  BY <1>2, <1>3, <1>4, <1>5 DEF IInv

(* The inductive invariant holds for ever. *)
LEMMA Invariance == Spec => []IInv
  BY InitIInv, Inductive, PTL DEF Spec
-----------------------------------------------------------------------------
(* The types of the public API's state: no sequence of calls and failures    *)
(* takes a counter, a bank or a register out of its range.                 *)
THEOREM ProtocolTypes == Spec => []TypeOK
<1>1. IInv => TypeOK
  BY DEF IInv
<1> QED
  BY <1>1, Invariance, PTL

(* Whatever is called and whatever fails, a reader between two calls finds   *)
(* every block and every field at the published time, on the installed mesh. *)
THEOREM SnapshotsAreWhole == Spec => []SnapshotsWhole
<1>1. IInv => SnapshotsWhole
  BY DEF IInv, Whole, WholeCell, SnapshotsWhole
<1> QED
  BY <1>1, Invariance, PTL

(* The combined energy of an energy-conserving regrid waits in the kick      *)
(* register until gravity is solved, and nothing advances the gas meanwhile. *)
THEOREM RegridEnergyIsKept == Spec => []RegridEnergyKept
<1>1. IInv => RegridEnergyKept
  <2> SUFFICES ASSUME IInv, mode # "lost"
               PROVE  /\ regridEnergyPending => \A b \in Block : kickWork[b] = Combined(mesh)
                      /\ (mode = "idle" /\ ~regridEnergyPending) => \A b \in Block : Published(b).whole
                      /\ (mode = "running" /\ Head(todo) \in {"transport", "kick", "interval", "exchange"}
                            /\ Demand(Head(todo))) => \A b \in Block : Published(b).whole
    BY DEF RegridEnergyKept
  <2>1. regridEnergyPending => \A b \in Block : kickWork[b] = Combined(mesh)
    BY DEF IInv, Pending
  <2>2. (mode \in {"idle", "running"} /\ ~regridEnergyPending) => \A b \in Block : Published(b).whole
    BY DEF IInv, Whole
  <2>3. (Head(todo) \in {"transport", "kick", "interval", "exchange"} /\ Demand(Head(todo)))
          => ~regridEnergyPending
    <3>1. Head(todo) = "kick" /\ Demand(Head(todo)) => ~regridEnergyPending
      BY DEF Demand, KickReady, Synchronised, IInv, Clock
    <3>2. Head(todo) \in {"transport", "interval", "exchange"} /\ Demand(Head(todo)) => ~regridEnergyPending
      BY DEF Demand, NotPending
    <3> QED
      BY <3>1, <3>2
  <2> QED
    BY <2>1, <2>2, <2>3
<1> QED
  BY <1>1, Invariance, PTL

(* The energy interval closes on a ledger that holds each kick once, unless  *)
(* a kick has failed within it.                                            *)
THEOREM LedgerIsExact == Spec => []LedgerExact
<1>1. IInv => LedgerExact
  BY DEF IInv, Ledger, LedgerExact, LedgerMatches, Stage, Demand
<1> QED
  BY <1>1, Invariance, PTL

(* A failed call that promises atomicity leaves what a reader sees: the      *)
(* single stages because they publish last, advanceCoupled because its       *)
(* backup is the caller's state and its catch block republishes it.        *)
THEOREM FailedCallsLeaveTheirInput == Spec => []FailedCallUnchanged
<1>1. IInv => FailedCallUnchanged
  BY DEF IInv
<1> QED
  BY <1>1, Invariance, PTL
=============================================================================
