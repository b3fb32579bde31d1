-------------------------- MODULE RuntimeProtocol --------------------------
(***************************************************************************)
(* The public API of Runtime for self-gravitating gas: which stages a call *)
(* runs, what each stage demands of the state it finds, which bank it      *)
(* writes and publishes, and what a failure at any stage leaves behind.    *)
(* apiGate makes a call one critical section, so calls follow each other;  *)
(* the caller may make them in any order, and calls again after a failure. *)
(*                                                                         *)
(* Numbers are abstracted to where they come from: a gas state to its mesh,*)
(* its transport time and the tracked kicks of the open energy interval, a *)
(* gravity field to the mass distribution it was solved from.  A stage is  *)
(* StageContract's: it processes every block or throws, and then may have  *)
(* written any of them.  The refined interval of advanceGravity is one     *)
(* stage that succeeds or restores its input.                              *)
(***************************************************************************)
EXTENDS Integers, Sequences, FiniteSets

CONSTANTS
  Block,      \* the blocks of a mesh
  Options,    \* the [refined, conserve] configurations to explore:
              \*   refined: amr.enabled and timestep.refinement
              \*   conserve: gravity.conserveRegridEnergy
  Coupling,   \* radiation-matter coupling enabled
  Tracked,    \* energyTreatment is "mullen"
  Floored,    \* the Helmholtz temperature floor acts
  MaxTime, MaxMesh, MaxKicks  \* bounds on steps, regrids, kicks per interval

ASSUME BlockAssumption == IsFiniteSet(Block) /\ Block # {}
ASSUME OptionAssumption ==
  Options \subseteq [refined : BOOLEAN, conserve : BOOLEAN] /\ {Coupling, Tracked, Floored} \subseteq BOOLEAN
ASSUME BoundAssumption ==  \* a step makes two kicks
  MaxTime \in Nat /\ MaxMesh \in Nat /\ MaxKicks \in Nat \ {0, 1}

VARIABLES
  options,       \* the configuration of this Runtime
  mode,          \* idle, running, restoring (advanceCoupled's catch block), lost
  call, todo,    \* the public call and the stages it still has to run
  outcome,       \* none, returned, threw
  bank, data,    \* the published bank, and what each bank of each block holds
  time, mesh,    \* Impl::time in steps, and the topology installed
  gravityReady, gravityTime, gravityEnergyActive, gravityEnergyStart, regridEnergyPending,
  kickWork,      \* field gravityKickWork: the work ledger, or E + rho*phi/2
  oldGravity,    \* field oldGravity: the gravity at the start of the interval
  backup,        \* what advanceCoupled saved
  before,        \* history: what a reader of the API saw when the call began
  kickFailed     \* history: has a kick failed in this energy interval?

flags == <<gravityReady, gravityTime, gravityEnergyActive, gravityEnergyStart, regridEnergyPending>>
ledger == <<kickWork, oldGravity>>
history == <<before, kickFailed>>
vars == <<options, mode, call, todo, outcome, bank, data, time, mesh, flags, ledger, backup, history>>

Refined == options.refined
Conserve == options.conserve

Mass(m, t) == [mesh |-> m, at |-> t]
Unknown == Mass(-1, 0)   \* torn, or never written
NoCell == [gas |-> Unknown, kicks |-> 0, whole |-> FALSE, gravity |-> Unknown, rest |-> Unknown]
Register(kind, m, n) == [kind |-> kind, mesh |-> m, n |-> n]
Combined(m) == Register("combined", m, 0)  \* E + rho*phi/2 on mesh m

Other(b) == 1 - b
Published(b) == data[bank][b]
Synchronised == gravityReady /\ gravityTime = time
View == [cells |-> data[bank], time |-> time, mesh |-> mesh, ready |-> gravityReady,
         gravityTime |-> gravityTime, active |-> gravityEnergyActive, pending |-> regridEnergyPending]

(* The constructor: initial fields, no gravity solved yet. *)
Init ==
  /\ options \in Options
  /\ mode = "idle" /\ call = "none" /\ todo = <<>> /\ outcome = "none"
  /\ bank = 0 /\ time = 0 /\ mesh = 0
  /\ data = [k \in {0, 1} |-> [b \in Block |-> IF k = 1 THEN NoCell ELSE
       [gas |-> Mass(0, 0), kicks |-> 0, whole |-> TRUE, gravity |-> Unknown, rest |-> Mass(0, 0)]]]
  /\ gravityReady = FALSE /\ gravityTime = 0
  /\ gravityEnergyActive = FALSE /\ gravityEnergyStart = 0 /\ regridEnergyPending = FALSE
  /\ kickWork = [b \in Block |-> Register("none", 0, 0)]
  /\ oldGravity = [b \in Block |-> Unknown]
  /\ backup = <<>> /\ before = View /\ kickFailed = FALSE
-----------------------------------------------------------------------------
(***************************************************************************)
(* Calls.                                                                  *)
(***************************************************************************)
Legacy == <<"begin", "kick", "transport", "solve", "kick", "finish">>
Interval == IF Refined THEN <<"interval">> ELSE Legacy

Program(c) ==
  CASE c = "advance" -> IF gravityEnergyActive THEN <<"transport">> ELSE <<"transport", "floor">>
    [] c = "advanceGravity" -> Interval \o <<"floor">>
    [] c = "advanceCoupled" ->
         IF ~Coupling THEN <<"closed">> \o Interval \o <<"floor">>
         ELSE IF Refined THEN <<"closed", "save", "interval", "floor">>
         ELSE <<"closed", "save", "probe">> \o Legacy \o <<"source", "floor">>
    [] c = "coupleRadiation" -> <<"exchange", "floor">>
    [] c = "finishGravityEnergy" -> <<"finish", "floor">>
    [] c = "solveGravity" -> <<"solve">>
    [] c = "setGravity" -> <<"assign">>
    [] c = "kickGravity" -> <<"kick">>
    [] c = "beginGravityEnergy" -> <<"begin">>
    [] c = "regrid" -> <<"regrid">>

Calls == {"advance", "advanceGravity", "advanceCoupled", "coupleRadiation", "finishGravityEnergy",
          "solveGravity", "setGravity", "kickGravity", "beginGravityEnergy", "regrid"}
Bounded(c) ==
  /\ c \in {"advance", "advanceGravity", "advanceCoupled"} => time < MaxTime
  /\ c = "kickGravity" => \A b \in Block : kickWork[b].n < MaxKicks /\ Published(b).kicks < MaxKicks
  /\ c = "regrid" => mesh < MaxMesh
  /\ c = "coupleRadiation" => Coupling

Call(c) ==
  /\ mode = "idle" /\ Bounded(c)
  /\ mode' = "running" /\ call' = c /\ todo' = Program(c) /\ outcome' = "none"
  /\ before' = View /\ backup' = <<>>
  /\ UNCHANGED <<options, bank, data, time, mesh, flags, ledger, kickFailed>>

(* What a stage demands; otherwise it throws before it touches anything. *)
KickReady == Synchronised
PendingIgnored == TRUE  \* seeded fault
NotPending == ~regridEnergyPending
Demand(s) ==
  CASE s = "transport" -> NotPending
    [] s = "kick" -> KickReady
    [] s = "begin" -> ~gravityEnergyActive /\ Synchronised
    [] s = "finish" -> gravityEnergyActive /\ gravityEnergyStart < time /\ gravityTime = time
    [] s \in {"closed", "interval"} -> ~gravityEnergyActive /\ NotPending /\ Synchronised
    [] s \in {"exchange", "regrid"} -> ~gravityEnergyActive /\ NotPending
    [] s \in {"solve", "assign", "save", "probe", "source", "floor"} -> TRUE

Stage(s) == mode = "running" /\ Head(todo) = s
Succeeds(s) == Stage(s) /\ Demand(s)
(* The call goes on to its next stage, or returns. *)
Proceed ==
  /\ todo' = Tail(todo)
  /\ IF Len(todo) = 1 THEN mode' = "idle" /\ outcome' = "returned" ELSE UNCHANGED <<mode, outcome>>
  /\ UNCHANGED <<call, before>>
-----------------------------------------------------------------------------
(***************************************************************************)
(* Stages.  Each one reads the published bank and writes the other, which  *)
(* it publishes at its end; the fields it does not compute it copies.      *)
(***************************************************************************)
Publish(cell(_)) ==
  /\ data' = [data EXCEPT ![Other(bank)] = [b \in Block |-> cell(b)]]
  /\ bank' = Other(bank)

Transport ==
  /\ Succeeds("transport") /\ Proceed
  /\ time' = time + 1
  /\ Publish(LAMBDA b : [Published(b) EXCEPT !.gas.at = time', !.rest.at = time'])
  /\ UNCHANGED <<options, mesh, flags, ledger, backup, kickFailed>>

(* A kick adds its work to the ledger, which has no second bank. *)
GravityNotCopied(b) == data[Other(bank)][b].gravity  \* seeded fault
CopiedGravity(b) == Published(b).gravity
Tracks == Tracked /\ gravityEnergyActive
Recorded(b) == [kickWork[b] EXCEPT !.n = @ + 1]
Kick ==
  /\ Succeeds("kick") /\ Proceed
  /\ Publish(LAMBDA b : [Published(b) EXCEPT !.kicks = IF Tracks THEN @ + 1 ELSE @,
                                             !.gravity = CopiedGravity(b)])
  /\ kickWork' = [b \in Block |-> IF Tracks THEN Recorded(b) ELSE kickWork[b]]
  /\ UNCHANGED <<options, time, mesh, flags, oldGravity, backup, kickFailed>>

(* The solve, or an assigned field; recoverRegridEnergy turns the combined   *)
(* energy of the last regrid into gas energy with the new potential.       *)
Recovered(b) == IF regridEnergyPending THEN kickWork[b] = Combined(mesh) ELSE Published(b).whole
Solve ==
  /\ (Succeeds("solve") \/ Succeeds("assign")) /\ Proceed
  /\ Publish(LAMBDA b : [Published(b) EXCEPT !.gravity = Published(b).gas, !.whole = Recovered(b)])
  /\ gravityTime' = time /\ gravityReady' = TRUE /\ regridEnergyPending' = FALSE
  /\ UNCHANGED <<options, time, mesh, gravityEnergyActive, gravityEnergyStart, ledger, backup, kickFailed>>

LedgerKept(b) == kickWork[b]  \* seeded fault
EmptyLedger(b) == Register("work", mesh, 0)
BeginGravityEnergy ==
  /\ Succeeds("begin") /\ Proceed
  /\ oldGravity' = [b \in Block |-> Published(b).gravity]
  /\ kickWork' = [b \in Block |-> EmptyLedger(b)]
  /\ gravityEnergyStart' = time /\ gravityEnergyActive' = TRUE /\ kickFailed' = FALSE
  /\ UNCHANGED <<options, bank, data, time, mesh, gravityReady, gravityTime, regridEnergyPending, backup>>

(* The kicks' own work is replaced by the work of the mass fluxes.           *)
Settled(b) == [Published(b) EXCEPT !.kicks = 0]
FinishGravityEnergy ==
  /\ Succeeds("finish") /\ Proceed
  /\ Publish(Settled)
  /\ gravityEnergyActive' = FALSE
  /\ UNCHANGED <<options, time, mesh, gravityReady, gravityTime, gravityEnergyStart, regridEnergyPending,
                 ledger, backup, kickFailed>>

(* advanceGravityUnlocked's refined path. *)
RefinedInterval ==
  /\ Succeeds("interval") /\ Proceed
  /\ time' = time + 1 /\ gravityTime' = time'
  /\ Publish(LAMBDA b : [Published(b) EXCEPT !.gas.at = time', !.rest.at = time',
                                             !.gravity = Mass(mesh, time')])
  /\ UNCHANGED <<options, mesh, gravityReady, gravityEnergyActive, gravityEnergyStart, regridEnergyPending,
                 ledger, backup, kickFailed>>

(* coupleRadiation, and the FinishRadiationStep of a coupled global step. *)
Exchange ==
  /\ (Succeeds("exchange") \/ Succeeds("source")) /\ Proceed
  /\ Publish(LAMBDA b : Published(b))
  /\ UNCHANGED <<options, time, mesh, flags, ledger, backup, kickFailed>>

(* The checks, and the probe stages that write the unpublished bank only. *)
Prepare ==
  /\ (Succeeds("closed") \/ Succeeds("probe")) /\ Proceed
  /\ \E torn \in SUBSET Block :
       data' = [data EXCEPT ![Other(bank)] = [b \in Block |-> IF b \in torn THEN NoCell ELSE @[b]]]
  /\ UNCHANGED <<options, bank, time, mesh, flags, ledger, backup, kickFailed>>

Save ==
  /\ Succeeds("save") /\ Proceed
  /\ backup' = [bank |-> bank, cells |-> data[bank], time |-> time,
                gravityTime |-> gravityTime, gravityReady |-> gravityReady,
                start |-> gravityEnergyStart]
  /\ UNCHANGED <<options, bank, data, time, mesh, flags, ledger, kickFailed>>

(* applyEosFloor, in place. *)
Floor ==
  /\ Succeeds("floor") /\ Proceed
  /\ UNCHANGED <<options, bank, data, time, mesh, flags, ledger, backup, kickFailed>>

(* regrid: it is not due or selects the old mesh, or install replaces mesh,  *)
(* fields and executors after everything has been built.                   *)
Unchanged ==
  /\ Succeeds("regrid") /\ Proceed
  /\ UNCHANGED <<options, bank, data, time, mesh, flags, ledger, backup, kickFailed>>

ReadyAfterInstall == FALSE
Transferred(b) == [gas |-> Mass(mesh + 1, time), kicks |-> 0, whole |-> ~Conserve,
                   gravity |-> Published(b).gravity, rest |-> Mass(mesh + 1, time)]
MeshMayChange == Conserve => Synchronised
Install ==
  /\ Succeeds("regrid") /\ MeshMayChange /\ Proceed
  /\ mesh' = mesh + 1 /\ bank' = 0
  /\ data' = [k \in {0, 1} |-> [b \in Block |-> IF k = 0 THEN Transferred(b) ELSE NoCell]]
  /\ kickWork' = [b \in Block |->
       IF Conserve /\ Published(b).gravity = Published(b).gas THEN Combined(mesh')
                                                              ELSE Register("none", mesh', 0)]
  /\ oldGravity' = [b \in Block |-> Unknown]
  /\ gravityReady' = ReadyAfterInstall /\ regridEnergyPending' = Conserve
  /\ UNCHANGED <<options, time, gravityTime, gravityEnergyActive, gravityEnergyStart, backup, kickFailed>>
-----------------------------------------------------------------------------
(***************************************************************************)
(* Failures.  A stage that throws is refused, or has worked on some of the *)
(* blocks; the exception leaves the call, through advanceCoupled's catch   *)
(* block if that has saved something to restore.                           *)
(***************************************************************************)
Raise ==
  /\ outcome' = "threw" /\ todo' = <<>>
  /\ mode' = (IF backup # <<>> THEN "restoring" ELSE "idle")
  /\ UNCHANGED <<call, before>>

Refused ==
  /\ mode = "running" /\ Raise
  /\ ~Demand(Head(todo)) \/ (Stage("regrid") /\ ~MeshMayChange)
  /\ UNCHANGED <<options, bank, data, time, mesh, flags, ledger, backup, kickFailed>>

TornIn(k, blocks) ==
  [data EXCEPT ![k] = [b \in Block |-> IF b \in blocks THEN NoCell ELSE data[k][b]]]

(* A stage that computes state tears the unpublished bank. *)
StageFails ==
  /\ mode = "running" /\ Head(todo) \notin {"closed", "begin", "kick"}
  /\ (Head(todo) = "floor" => Floored) /\ Demand(Head(todo)) /\ Raise
  /\ \E blocks \in SUBSET Block :
       /\ data' = TornIn(Other(bank), blocks)
       /\ Head(todo) \in {"save", "floor", "regrid"} => blocks = {}
  /\ UNCHANGED <<options, bank, time, mesh, flags, ledger, backup, kickFailed>>

(* A tracked kick has by then added to the ledger of some blocks. *)
KickFails ==
  /\ Succeeds("kick") /\ Raise
  /\ \E blocks \in SUBSET Block :
       /\ data' = TornIn(Other(bank), blocks)
       /\ kickWork' = [b \in Block |->
            IF b \in blocks /\ Tracks THEN Recorded(b) ELSE kickWork[b]]
  /\ kickFailed' = TRUE
  /\ UNCHANGED <<options, bank, time, mesh, flags, oldGravity, backup>>

BeginFails ==
  /\ Succeeds("begin") /\ Raise
  /\ \E blocks \in SUBSET Block :
       /\ oldGravity' = [b \in Block |-> IF b \in blocks THEN Published(b).gravity ELSE oldGravity[b]]
       /\ kickWork' = [b \in Block |-> IF b \in blocks THEN EmptyLedger(b) ELSE kickWork[b]]
  /\ UNCHANGED <<options, bank, data, time, mesh, flags, backup, kickFailed>>

(* The writers of the published bank: the floor, and the Restore of a failed *)
(* refined interval.  A caller that gets no rollback is left with the ruin. *)
PublishedBankFails ==
  /\ mode = "running" /\ Demand(Head(todo))
  /\ (Head(todo) = "floor" /\ Floored) \/ Head(todo) = "interval"
  /\ \E blocks \in (SUBSET Block) \ {{}} : data' = TornIn(bank, blocks)
  /\ outcome' = "threw" /\ todo' = <<>>
  /\ mode' = (IF backup # <<>> THEN "restoring" ELSE "lost")
  /\ UNCHANGED <<options, call, bank, time, mesh, flags, ledger, backup, history>>

(* advanceCoupled's catch block, which may itself throw. *)
ReadinessKept == gravityReady /\ gravityTime = time  \* seeded fault
RestoredReady == backup.gravityReady
RestoredGravityTime == backup.gravityTime
ActiveAfterRestore == FALSE
Restore ==
  /\ mode = "restoring" /\ mode' = "idle"
  /\ bank' = backup.bank /\ time' = backup.time
  /\ data' = [data EXCEPT ![backup.bank] = backup.cells]
  /\ gravityTime' = RestoredGravityTime /\ gravityReady' = RestoredReady
  /\ gravityEnergyStart' = backup.start /\ gravityEnergyActive' = ActiveAfterRestore
  /\ UNCHANGED <<options, call, todo, outcome, mesh, regridEnergyPending, ledger, backup, history>>

RestoreFails ==
  /\ mode = "restoring" /\ mode' = "lost"
  /\ bank' = backup.bank /\ time' = backup.time
  /\ \E blocks \in SUBSET Block : data' = TornIn(backup.bank, blocks)
  /\ UNCHANGED <<options, call, todo, outcome, mesh, flags, ledger, backup, history>>

(* The program has ended with the runtime. *)
Lost == mode = "lost" /\ UNCHANGED vars

Next ==
  \/ \E c \in Calls : Call(c)
  \/ Transport \/ Kick \/ Solve \/ BeginGravityEnergy \/ FinishGravityEnergy
  \/ RefinedInterval \/ Exchange \/ Prepare \/ Save \/ Floor \/ Unchanged \/ Install
  \/ Refused \/ StageFails \/ KickFails \/ BeginFails \/ PublishedBankFails \/ Restore \/ RestoreFails \/ Lost

Spec == Init /\ [][Next]_vars
-----------------------------------------------------------------------------
Masses == [mesh : -1 .. MaxMesh, at : 0 .. MaxTime]
Cells == [gas : Masses, kicks : 0 .. MaxKicks, whole : BOOLEAN, gravity : Masses, rest : Masses]
TypeOK ==
  /\ options \in Options
  /\ mode \in {"idle", "running", "restoring", "lost"} /\ call \in Calls \cup {"none"}
  /\ outcome \in {"none", "returned", "threw"} /\ (mode = "running" <=> todo # <<>>)
  /\ bank \in {0, 1} /\ time \in 0 .. MaxTime /\ mesh \in 0 .. MaxMesh
  /\ data \in [{0, 1} -> [Block -> Cells]]
  /\ gravityTime \in 0 .. MaxTime /\ gravityEnergyStart \in 0 .. MaxTime
  /\ {gravityReady, gravityEnergyActive, regridEnergyPending, kickFailed} \subseteq BOOLEAN
  /\ kickWork \in [Block -> [kind : {"none", "work", "combined"}, mesh : 0 .. MaxMesh,
                             n : 0 .. MaxKicks]]
  /\ oldGravity \in [Block -> Masses]

(* A snapshot taken between two calls is whole: every block, and every field *)
(* of it, belongs to the installed mesh and to the published time, although *)
(* each stage computes some fields and carries the others along.  Gravity   *)
(* that is declared synchronised was solved from exactly this gas.         *)
SnapshotsWhole ==
  mode = "idle" => \A b \in Block :
    /\ Published(b).gas = Mass(mesh, time) /\ Published(b).rest = Mass(mesh, time)
    /\ Synchronised => Published(b).gravity = Published(b).gas

(* Energy-conserving regrid: until gravity is solved the gas energy awaits   *)
(* recovery and the kick register keeps the combined energy of this very    *)
(* mesh, through every refused or failed call; nothing is advanced, kicked  *)
(* or remapped meanwhile, and after the solve no block is left unrecovered.  *)
RegridEnergyKept ==
  mode # "lost" =>
    /\ regridEnergyPending => \A b \in Block : kickWork[b] = Combined(mesh)
    /\ (mode = "idle" /\ ~regridEnergyPending) => \A b \in Block : Published(b).whole
    /\ (Conserve /\ mode = "running" /\ Head(todo) \in {"transport", "kick", "interval", "exchange"}
          /\ Demand(Head(todo))) => \A b \in Block : Published(b).whole

(* When the energy interval closes, the work ledger holds each kick that the *)
(* published gas has received since it opened, once per block, and the old  *)
(* gravity is that of its start, provided no kick failed in between.       *)
LedgerMatches ==
  (Stage("finish") /\ Demand("finish") /\ Tracked) => \A b \in Block :
    /\ kickWork[b] = Register("work", mesh, Published(b).kicks)
    /\ oldGravity[b] = Mass(mesh, gravityEnergyStart)
LedgerExact == ~kickFailed => LedgerMatches

(* STORAGE.md:87-90: failures "permit retry ... Gravity kicks use the same   *)
(* transaction": a repeated kick leaves the ledger as exact as a first one. *)
KicksPermitRetry == LedgerMatches

(* A call that promises to be atomic and fails leaves what a reader of the   *)
(* API sees, and what later calls demand, as it was: the single stages, and *)
(* the whole of a coupled step, global or refined.                         *)
Atomic ==
  {"kickGravity", "beginGravityEnergy", "solveGravity", "setGravity", "regrid"}
  \cup (IF Coupling THEN {"advanceCoupled"} ELSE {})
FailedCallUnchanged ==
  (mode = "idle" /\ outcome = "threw" /\ call \in Atomic) => View = before
=============================================================================
