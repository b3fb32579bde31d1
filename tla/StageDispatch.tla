--------------------------- MODULE StageDispatch ---------------------------
(***************************************************************************)
(* One stage of the runtime: Runtime::Impl::phase on the coordinator, and  *)
(* on every locality a LocalExecutor whose worker tasks drain their own    *)
(* queue of blocks and then steal from the other localities in ring order. *)
(*                                                                         *)
(* The queue order is abstracted: queue[l] is the unclaimed rest           *)
(* active_[next_ ..] as a set.  Operations are grouped by what the         *)
(* scheduler does with them (see Operation); what an operation computes is *)
(* the subject of other modules.  A worker can throw, begin can throw, and *)
(* the coordinator can reject a stage before it is sent.                   *)
(***************************************************************************)
EXTENDS Integers, FiniteSets

CONSTANTS
  N,             \* number of localities
  Worker, Home,  \* the worker tasks and the locality of each one's workspace
  Block, Owner,  \* the subgrids and the partition that stores each
  TimeLevel,     \* Config timestep.timeLevel of each block's spatial level
  NoBlock,       \* what an idle worker holds
  WorkStealing,  \* config.runtime.workStealing
  MaxDispatch    \* bound on the number of stages

Locality == 0 .. N - 1

ASSUME LocalityAssumption == N \in Nat \ {0}
ASSUME WorkerAssumption ==
  Home \in [Worker -> Locality] /\ \A l \in Locality : \E w \in Worker : Home[w] = l
ASSUME BlockAssumption ==
  IsFiniteSet(Block) /\ NoBlock \notin Block
  /\ Owner \in [Block -> Locality] /\ TimeLevel \in [Block -> Nat]
ASSUME ParameterAssumption == WorkStealing \in BOOLEAN /\ MaxDispatch \in Nat

(***************************************************************************)
(* "Probe" saves a halo cache per block, "CachedAdvance" is an Advance     *)
(* with a positive referenceStep (affinity queues, no stealing, may reuse  *)
(* the cache), "Advance" one without, "Rollback" stands for Backup,        *)
(* Restore, Normalize and RestoreRadiationStep (they drop the caches),     *)
(* "Other" for every operation that leaves the caches alone.               *)
(***************************************************************************)
Operation == {"Probe", "CachedAdvance", "Advance", "Rollback", "Other"}

KeepsCacheOnRollback(o) == o = "Probe"  \* seeded fault
Invalidates(o) == o \in {"Probe", "Rollback"}

AllLevels == -1
Level == {AllLevels} \cup {TimeLevel[b] : b \in Block}
AtLevel(level) == {b \in Block : level = AllLevels \/ TimeLevel[b] = level}

VARIABLES
  coordinator,  \* where phase() is: idle, waiting for begins, or for runs
  dispatch,     \* the token of the last stage
  op, level,    \* the arguments of that stage
  outcome,      \* how it ended
  cacheOwners,  \* locality to which each block's cached corrector is sent
  request,      \* state of the coordinator's request at each locality
  generation,   \* LocalExecutor::generation_
  queue,        \* the unclaimed blocks of active_
  stealing,     \* allowStealing_
  cache,        \* blockCaches_: the Probe dispatch that filled the slot, or 0
  cachedBlocks, \* blocks whose cache this run saved at this locality
  wpc,          \* control of each worker task
  distance,     \* ring distance of the queue a worker is draining
  held,         \* the block a busy worker processes
  localTasks, stolenTasks, \* scheduling statistics of the stage
  done,         \* history: blocks whose operation completed in this stage
  probed,       \* history: dispatch of the Probe whose cache must be found
  rolledBack    \* history: last dispatch that rolled the block back

executorVars == <<request, generation, queue, stealing, cachedBlocks>>
workerVars == <<wpc, distance, held, localTasks, stolenTasks, done>>
cacheVars == <<cacheOwners, cache, probed, rolledBack>>
stageVars == <<dispatch, op, level>>
vars == <<coordinator, outcome, stageVars, executorVars, workerVars, cacheVars>>

Staged == AtLevel(level)
Donor(w) == (Home[w] + distance[w]) % N

Init ==
  /\ coordinator = "idle" /\ dispatch = 0 /\ op = "Other" /\ level = AllLevels
  /\ outcome = "none"
  /\ cacheOwners = Owner
  /\ request = [l \in Locality |-> "none"]
  /\ generation = [l \in Locality |-> 0]
  /\ queue = [l \in Locality |-> {}]
  /\ stealing = [l \in Locality |-> TRUE]
  /\ cache = [l \in Locality |-> [b \in Block |-> 0]]
  /\ cachedBlocks = [l \in Locality |-> {}]
  /\ wpc = [w \in Worker |-> "off"]
  /\ distance = [w \in Worker |-> 0]
  /\ held = [w \in Worker |-> NoBlock]
  /\ localTasks = 0 /\ stolenTasks = 0 /\ done = {}
  /\ probed = [b \in Block |-> 0]
  /\ rolledBack = [b \in Block |-> 0]
-----------------------------------------------------------------------------
(***************************************************************************)
(* The coordinator: Runtime::Impl::phase.                                  *)
(***************************************************************************)

(* The blocks phase() puts on locality l's affinity queue. *)
CachedWork(l) == {b \in Staged : cacheOwners[b] = l}

(* ++dispatch and the begin requests.  Every call of a cached Advance in     *)
(* the runtime follows a completed Probe of the same blocks.               *)
Dispatch(o, lev) ==
  /\ coordinator = "idle" /\ dispatch < MaxDispatch
  /\ o = "CachedAdvance" => \A b \in AtLevel(lev) : probed[b] # 0
  /\ dispatch' = dispatch + 1 /\ op' = o /\ level' = lev
  /\ coordinator' = "beginning" /\ outcome' = "none"
  /\ request' = [l \in Locality |-> "begin"]
  /\ localTasks' = 0 /\ stolenTasks' = 0 /\ done' = {}
  /\ cachedBlocks' = [l \in Locality |-> {}]
  /\ probed' = [b \in Block |-> IF Invalidates(o) /\ b \in AtLevel(lev) THEN 0 ELSE probed[b]]
  /\ UNCHANGED <<generation, queue, stealing, wpc, distance, held, cacheOwners, cache, rolledBack>>

(* The halo-time check throws after ++dispatch and before any begin. *)
RejectHaloTime ==
  /\ coordinator = "idle" /\ dispatch < MaxDispatch
  /\ dispatch' = dispatch + 1 /\ outcome' = "threw"
  /\ UNCHANGED <<coordinator, op, level, executorVars, workerVars, cacheVars>>

(* A future is ready; an operation was refused if one of them holds an error. *)
AnyErrorEndsWait(l) == \E m \in Locality : request[m] \in {"begun", "ok", "failed"}  \* seeded fault
Answered(l) == request[l] \in {"begun", "beginFailed", "ok", "failed"}

SwallowError == FALSE  \* seeded fault
Refused == \E l \in Locality : request[l] \in {"beginFailed", "failed"}

(* The locality that executes block b's cached corrector after the merge. *)
AffinityNotMerged(b) == cacheOwners[b]  \* seeded fault
MergedOwner(b) ==
  IF \E l \in Locality : b \in cachedBlocks[l]
    THEN CHOOSE l \in Locality : b \in cachedBlocks[l]
    ELSE cacheOwners[b]

(* finish(starts) has drained every begin: rethrow, or ask every locality    *)
(* to run.                                                                 *)
FinishBegins ==
  /\ coordinator = "beginning" /\ \A l \in Locality : Answered(l)
  /\ IF Refused
       THEN /\ coordinator' = "idle" /\ outcome' = "threw"
            /\ UNCHANGED <<request, rolledBack>>
       ELSE /\ coordinator' = "running"
            /\ request' = [l \in Locality |-> "run"]
            /\ rolledBack' = [b \in Block |-> IF op = "Rollback" /\ b \in Staged
                                                THEN dispatch ELSE rolledBack[b]]
            /\ UNCHANGED outcome
  /\ UNCHANGED <<stageVars, generation, queue, stealing, cachedBlocks, workerVars,
                 cacheOwners, cache, probed>>

(* collect(pending) has drained every run: rethrow the first error, or merge *)
(* the results, which throws when the task count is short.                   *)
FinishRuns ==
  /\ coordinator = "running" /\ \A l \in Locality : Answered(l)
  /\ coordinator' = "idle"
  /\ IF Refused
       THEN /\ outcome' = "threw"
            /\ UNCHANGED <<cacheOwners, probed>>
       ELSE /\ outcome' = IF localTasks + stolenTasks = Cardinality(Staged)
                            THEN "ok" ELSE "incomplete"
            /\ cacheOwners' = [b \in Block |-> MergedOwner(b)]
            /\ probed' = [b \in Block |-> IF op = "Probe" /\ b \in Staged
                                            THEN dispatch ELSE probed[b]]
  /\ UNCHANGED <<stageVars, executorVars, workerVars, cache, rolledBack>>
-----------------------------------------------------------------------------
(***************************************************************************)
(* The executors: LocalExecutor::begin and run.                            *)
(***************************************************************************)

(* The blocks begin makes active at locality l. *)
AllOwnedActive(l) == {b \in Block : Owner[b] = l}  \* seeded fault
Active(l) == IF op = "CachedAdvance" THEN CachedWork(l) ELSE {b \in Staged : Owner[b] = l}

Begin(l) ==
  /\ request[l] = "begin"
  /\ request' = [request EXCEPT ![l] = "begun"]
  /\ generation' = [generation EXCEPT ![l] = dispatch]
  /\ stealing' = [stealing EXCEPT ![l] = op # "CachedAdvance"]
  /\ queue' = [queue EXCEPT ![l] = Active(l)]
  /\ cache' = [cache EXCEPT ![l] =
       [b \in Block |-> IF Invalidates(op) /\ b \in Staged THEN 0 ELSE cache[l][b]]]
  /\ UNCHANGED <<coordinator, outcome, stageVars, cachedBlocks, workerVars,
                 cacheOwners, probed, rolledBack>>

(* begin throws: in transit, or with its token recorded while it fills the    *)
(* queue or drops the caches.                                              *)
BeginFails(l) ==
  /\ request[l] = "begin"
  /\ request' = [request EXCEPT ![l] = "beginFailed"]
  /\ \/ UNCHANGED <<generation, stealing, queue, cache>>
     \/ /\ generation' = [generation EXCEPT ![l] = dispatch]
        /\ stealing' = [stealing EXCEPT ![l] = op # "CachedAdvance"]
        /\ \E filled \in SUBSET Active(l) : queue' = [queue EXCEPT ![l] = filled]
        /\ \E dropped \in SUBSET Staged : cache' = [cache EXCEPT ![l] =
             [b \in Block |-> IF Invalidates(op) /\ b \in dropped THEN 0 ELSE cache[l][b]]]
  /\ UNCHANGED <<coordinator, outcome, stageVars, cachedBlocks, workerVars,
                 cacheOwners, probed, rolledBack>>

(* run checks the token and launches one worker per workspace. *)
Run(l) ==
  /\ request[l] = "run"
  /\ IF generation[l] = dispatch
       THEN /\ request' = [request EXCEPT ![l] = "running"]
            /\ wpc' = [w \in Worker |-> IF Home[w] = l THEN "claim" ELSE wpc[w]]
            /\ distance' = [w \in Worker |-> IF Home[w] = l THEN 0 ELSE distance[w]]
       ELSE /\ request' = [request EXCEPT ![l] = "failed"]
            /\ UNCHANGED <<wpc, distance>>
  /\ UNCHANGED <<coordinator, outcome, stageVars, generation, queue, stealing,
                 cachedBlocks, held, localTasks, stolenTasks, done, cacheVars>>

OnlyExitedCount(l) == \A w \in Worker : Home[w] = l => wpc[w] = "exited"  \* seeded fault
WorkersEnded(l) == \A w \in Worker : Home[w] = l => wpc[w] \in {"exited", "threw"}

(* collect has drained the locality's workers; its answer leaves. *)
FinishRun(l) ==
  /\ request[l] = "running"
  /\ WorkersEnded(l)
  /\ request' = [request EXCEPT ![l] =
       IF \E w \in Worker : Home[w] = l /\ wpc[w] = "threw" THEN "failed" ELSE "ok"]
  /\ wpc' = [w \in Worker |-> IF Home[w] = l THEN "off" ELSE wpc[w]]
  /\ UNCHANGED <<coordinator, outcome, stageVars, generation, queue, stealing, cachedBlocks,
                 distance, held, localTasks, stolenTasks, done, cacheVars>>
-----------------------------------------------------------------------------
(***************************************************************************)
(* The workers: the claim loop of LocalExecutor::worker.  The token a      *)
(* worker presents is that of its run, which is the coordinator's dispatch *)
(* for as long as the run lasts (NoStaleWork).                             *)
(***************************************************************************)

(* What claim leaves on a queue, and whether a worker looks at one more queue. *)
ClaimedTwice(q, b) == q  \* seeded fault
Unclaimed(q, b) == q \ {b}

FullCircle(w) == WorkStealing /\ stealing[Home[w]] /\ distance[w] < N  \* seeded fault
MaySteal(w) == WorkStealing /\ stealing[Home[w]] /\ distance[w] + 1 < N

(* A block is taken off the queue being drained: the worker's own, or, past  *)
(* distance 0, the donor's.                                                *)
Claim(w) ==
  /\ wpc[w] = "claim" /\ generation[Donor(w)] = dispatch
  /\ \E b \in queue[Donor(w)] :
       /\ held' = [held EXCEPT ![w] = b]
       /\ queue' = [queue EXCEPT ![Donor(w)] = Unclaimed(@, b)]
  /\ wpc' = [wpc EXCEPT ![w] = "busy"]
  /\ UNCHANGED <<coordinator, outcome, stageVars, request, generation, stealing, cachedBlocks,
                 distance, localTasks, stolenTasks, done, cacheVars>>

(* An empty queue sends the worker to the next donor, or out of the loop     *)
(* after the last one or when it may not steal.                            *)
QueueEmpty(w) ==
  /\ wpc[w] = "claim" /\ generation[Donor(w)] = dispatch
  /\ queue[Donor(w)] = {}
  /\ IF MaySteal(w)
       THEN distance' = [distance EXCEPT ![w] = @ + 1] /\ UNCHANGED wpc
       ELSE wpc' = [wpc EXCEPT ![w] = "exited"] /\ UNCHANGED distance
  /\ UNCHANGED <<coordinator, outcome, stageVars, executorVars,
                 held, localTasks, stolenTasks, done, cacheVars>>

(* claim refuses a token that is not the executor's, or the remote call      *)
(* fails.                                                                  *)
ClaimThrows(w) ==
  /\ wpc[w] = "claim"
  /\ generation[Donor(w)] # dispatch \/ distance[w] > 0
  /\ wpc' = [wpc EXCEPT ![w] = "threw"]
  /\ UNCHANGED <<coordinator, outcome, stageVars, executorVars, distance, held,
                 localTasks, stolenTasks, done, cacheVars>>

(* Probe fills the cache slot of this locality and reports the block, Advance *)
(* releases the slot, the other operations leave the caches alone.           *)
UpdateCache(l, b) ==
  \/ /\ op = "Probe"
     /\ cache' = [cache EXCEPT ![l][b] = dispatch]
     /\ cachedBlocks' = [cachedBlocks EXCEPT ![l] = @ \cup {b}]
     /\ UNCHANGED probed
  \/ /\ op \in {"Advance", "CachedAdvance"}
     /\ cache' = [cache EXCEPT ![l][b] = 0]
     /\ probed' = [probed EXCEPT ![b] = 0]
     /\ UNCHANGED cachedBlocks
  \/ /\ op \notin {"Probe", "Advance", "CachedAdvance"}
     /\ UNCHANGED <<cache, cachedBlocks, probed>>

(* process(id) returns; the task counts as stolen when the block is stored   *)
(* at another locality.                                                      *)
Complete(w) ==
  LET l == Home[w]
      b == held[w]
  IN /\ wpc[w] = "busy"
     /\ wpc' = [wpc EXCEPT ![w] = "claim"]
     /\ held' = [held EXCEPT ![w] = NoBlock]
     /\ done' = done \cup {b}
     /\ IF Owner[b] = l
          THEN localTasks' = localTasks + 1 /\ UNCHANGED stolenTasks
          ELSE stolenTasks' = stolenTasks + 1 /\ UNCHANGED localTasks
     /\ UpdateCache(l, b)
     /\ UNCHANGED <<coordinator, outcome, stageVars, request, generation, queue, stealing,
                    distance, cacheOwners, rolledBack>>

(* process(id) throws: the worker ends and its block is lost to the stage,   *)
(* while the other workers go on draining.                                 *)
ProcessThrows(w) ==
  /\ wpc[w] = "busy"
  /\ wpc' = [wpc EXCEPT ![w] = "threw"]
  /\ held' = [held EXCEPT ![w] = NoBlock]
  /\ UNCHANGED <<coordinator, outcome, stageVars, executorVars, distance,
                 localTasks, stolenTasks, done, cacheVars>>
-----------------------------------------------------------------------------
ExecutorStep(l) == Begin(l) \/ BeginFails(l) \/ Run(l) \/ FinishRun(l)
WorkerStep(w) ==
  Claim(w) \/ QueueEmpty(w) \/ ClaimThrows(w) \/ Complete(w) \/ ProcessThrows(w)

(* The driver makes no further call: MaxDispatch bounds the model. *)
Finished == coordinator = "idle" /\ dispatch = MaxDispatch /\ UNCHANGED vars

Next ==
  \/ \E o \in Operation, lev \in Level : Dispatch(o, lev)
  \/ RejectHaloTime \/ FinishBegins \/ FinishRuns
  \/ \E l \in Locality : ExecutorStep(l)
  \/ \E w \in Worker : WorkerStep(w)
  \/ Finished

Spec == Init /\ [][Next]_vars

(* HPX runs every launched task and delivers every future; process ends, one *)
(* way or the other.                                                         *)
FairSpec ==
  /\ Spec
  /\ WF_vars(FinishBegins) /\ WF_vars(FinishRuns)
  /\ \A l \in Locality : WF_vars(ExecutorStep(l))
  /\ \A w \in Worker : WF_vars(WorkerStep(w))
-----------------------------------------------------------------------------
TypeOK ==
  /\ coordinator \in {"idle", "beginning", "running"}
  /\ dispatch \in 0 .. MaxDispatch /\ op \in Operation /\ level \in Level
  /\ outcome \in {"none", "ok", "threw", "incomplete"}
  /\ cacheOwners \in [Block -> Locality]
  /\ request \in [Locality -> {"none", "begin", "begun", "beginFailed",
                               "run", "running", "ok", "failed"}]
  /\ generation \in [Locality -> 0 .. MaxDispatch]
  /\ queue \in [Locality -> SUBSET Block]
  /\ stealing \in [Locality -> BOOLEAN]
  /\ cache \in [Locality -> [Block -> 0 .. MaxDispatch]]
  /\ cachedBlocks \in [Locality -> SUBSET Block]
  /\ wpc \in [Worker -> {"off", "claim", "busy", "exited", "threw"}]
  /\ distance \in [Worker -> Locality]
  /\ held \in [Worker -> Block \cup {NoBlock}]
  /\ localTasks \in Nat /\ stolenTasks \in Nat /\ done \subseteq Block
  /\ probed \in [Block -> 0 .. MaxDispatch]
  /\ rolledBack \in [Block -> 0 .. MaxDispatch]

(* Every block is in at most one place: on one queue, in one worker's hands, *)
(* or done (claim under queueMutex_; "only its assigned task touches the     *)
(* slot", internal.hpp:468).  Two workers never run one block.               *)
ExclusiveTask ==
  coordinator = "running" =>
    /\ \A l, m \in Locality : l # m => queue[l] \cap queue[m] = {}
    /\ \A w \in Worker : wpc[w] = "busy" =>
         /\ held[w] \notin done
         /\ \A l \in Locality : held[w] \notin queue[l]
         /\ \A u \in Worker \ {w} : wpc[u] = "busy" => held[u] # held[w]
    /\ \A l \in Locality : queue[l] \cap done = {}

(* Draining: once the coordinator has left a stage no worker of it is left,  *)
(* and while one runs every executor it may claim from carries its token, so *)
(* "Stale work request" and "Stale stage dispatch" are never thrown.         *)
NoStaleWork ==
  /\ \A w \in Worker : wpc[w] # "off" =>
       coordinator = "running" /\ request[Home[w]] = "running"
  /\ coordinator = "running" => \A l \in Locality : generation[l] = dispatch

(* A stage that returns has processed every block of its level, and a stage  *)
(* in which no task throws is never reported incomplete (the logic_error of  *)
(* stages.cpp:94 is unreachable).                                            *)
CompleteStage ==
  /\ outcome = "ok" => done = Staged
  /\ outcome # "incomplete"

(* Cache affinity: the corrector of a probed block runs where the block's    *)
(* cache is, and finds the cache its last Probe saved, however the probes    *)
(* were stolen and whatever failed in between.                               *)
CorrectorFindsProbe ==
  \A w \in Worker : (wpc[w] = "busy" /\ op = "CachedAdvance") =>
    /\ probed[held[w]] # 0
    /\ cache[Home[w]][held[w]] = probed[held[w]]

(* A block's halo is cached at one locality at most, and no cache outlives a *)
(* rollback of its block, so a retry from the restored state cannot match a  *)
(* cache of the abandoned attempt.                                           *)
NoCacheAcrossRollback ==
  \A l \in Locality, b \in Block : cache[l][b] # 0 =>
    /\ cache[l][b] > rolledBack[b]
    /\ \A m \in Locality \ {l} : cache[m][b] = 0

(* Every stage ends: a failing worker never leaves the coordinator waiting.  *)
StageEnds == coordinator # "idle" ~> coordinator = "idle"

(* The stage keeps the contract its callers rely on. *)
Contract == INSTANCE StageContract WITH
  status <- IF coordinator = "idle" THEN "idle" ELSE "open",
  todo <- Staged \ done,
  outcome <- outcome
ImplementsContract == Contract!Spec
-----------------------------------------------------------------------------
(***************************************************************************)
(* The inductive invariant behind the safety properties: Control relates   *)
(* the coordinator, the requests and the workers; Placement says where the *)
(* blocks of a running stage are; Accounting that none is missing when     *)
(* nothing failed; Caching, in five parts, where the halo caches are.       *)
(***************************************************************************)
Control ==
  /\ \A w \in Worker :
       /\ wpc[w] # "off" => coordinator = "running" /\ request[Home[w]] = "running"
       /\ wpc[w] = "busy" <=> held[w] \in Block
  /\ \A l \in Locality :
       /\ coordinator = "idle" => request[l] \notin {"begin", "run", "running"}
       /\ coordinator = "beginning" => request[l] \in {"begin", "begun", "beginFailed"}
       /\ coordinator = "running" =>
            /\ request[l] \in {"run", "running", "ok", "failed"}
            /\ generation[l] = dispatch /\ stealing[l] = (op # "CachedAdvance")
       /\ (coordinator = "beginning" /\ request[l] = "begun") =>
            /\ generation[l] = dispatch /\ stealing[l] = (op # "CachedAdvance")
            /\ queue[l] = Active(l)

Placement ==
  /\ done \subseteq Staged
  /\ coordinator = "beginning" => done = {}
  /\ coordinator = "running" =>
       /\ \A l \in Locality : queue[l] \subseteq Staged /\ queue[l] \cap done = {}
       /\ \A l, m \in Locality : l # m => queue[l] \cap queue[m] = {}
       /\ \A w \in Worker : wpc[w] = "busy" =>
            /\ held[w] \in Staged /\ held[w] \notin done
            /\ \A l \in Locality : held[w] \notin queue[l]
            /\ \A u \in Worker \ {w} : wpc[u] = "busy" => held[u] # held[w]

Unfailed ==
  /\ \A w \in Worker : wpc[w] # "threw"
  /\ \A l \in Locality : request[l] # "failed"

Accounting ==
  /\ localTasks + stolenTasks = Cardinality(done)
  /\ coordinator = "running" =>
       /\ \A w \in Worker :
            (wpc[w] = "exited" \/ (wpc[w] \in {"claim", "busy"} /\ distance[w] > 0)) =>
              queue[Home[w]] = {}
       /\ \A l \in Locality : request[l] = "ok" => queue[l] = {}
       /\ Unfailed => \A b \in Staged :
            \/ b \in done
            \/ \E l \in Locality : b \in queue[l]
            \/ \E w \in Worker : wpc[w] = "busy" /\ held[w] = b
  /\ outcome = "ok" => coordinator = "idle" /\ done = Staged
  /\ outcome # "incomplete"

RollbackTokens == \A b \in Block :
  /\ rolledBack[b] <= dispatch
  /\ (coordinator # "idle" /\ op = "Probe") => rolledBack[b] < dispatch

ProbedCache ==
  /\ \A b \in Block : probed[b] # 0 => cache[cacheOwners[b]][b] = probed[b]
  /\ (coordinator = "beginning" /\ Invalidates(op)) =>
       /\ \A b \in Staged : probed[b] = 0
       /\ \A l \in Locality : request[l] = "begun" => \A b \in Staged : cache[l][b] = 0

SavedCaches ==
  /\ (coordinator = "running" /\ op = "Probe") => \A b \in Staged :
       /\ b \in done => \E l \in Locality : b \in cachedBlocks[l]
       /\ b \notin done => \A l \in Locality : cache[l][b] = 0
  /\ coordinator # "idle" => \A l \in Locality : \A b \in cachedBlocks[l] :
       op = "Probe" /\ b \in done /\ cache[l][b] = dispatch

Affinity == op = "CachedAdvance" =>
  /\ coordinator # "idle" => \A b \in Staged \ done : probed[b] # 0
  /\ coordinator = "running" =>
       /\ \A l \in Locality : \A b \in queue[l] : cacheOwners[b] = l
       /\ \A w \in Worker : wpc[w] # "off" => distance[w] = 0
       /\ \A w \in Worker : wpc[w] = "busy" => cacheOwners[held[w]] = Home[w]

Caching == RollbackTokens /\ ProbedCache /\ NoCacheAcrossRollback /\ SavedCaches /\ Affinity

IInv == TypeOK /\ Control /\ Placement /\ Accounting /\ Caching
=============================================================================
