------------------------ MODULE StageDispatchProofs ------------------------
(***************************************************************************)
(* Proofs about StageDispatch, for every number of localities, workers and *)
(* blocks: the inductive invariant IInv part by part, then the safety      *)
(* properties it implies, and that a stage keeps StageContract.            *)
(***************************************************************************)
EXTENDS StageDispatch, FiniteSetTheorems, TLAPS

USE LocalityAssumption, WorkerAssumption, BlockAssumption, ParameterAssumption

(* Membership facts about the constants that every step below needs. *)
LEMMA RingMember == \A w \in Worker : TypeOK => Donor(w) \in Locality
<1>1. SUFFICES ASSUME NEW w \in Worker, TypeOK PROVE Donor(w) \in Locality
  OBVIOUS
<1>2. Home[w] \in Locality /\ distance[w] \in Locality
  BY <1>1 DEF TypeOK
<1>3. Home[w] \in Nat /\ distance[w] \in Nat /\ N \in Nat \ {0}
  BY <1>2 DEF Locality
<1> HIDE LocalityAssumption, WorkerAssumption, BlockAssumption, ParameterAssumption
<1> QED  BY <1>3 DEF Donor, Locality

(* At distance 0 a worker drains its own locality's queue. *)
LEMMA OwnRing ==
  ASSUME NEW w \in Worker, distance[w] = 0
  PROVE  Donor(w) = Home[w]
<1>1. Home[w] \in 0 .. N - 1 /\ N \in Nat \ {0}
  BY DEF Locality
<1> HIDE LocalityAssumption, WorkerAssumption, BlockAssumption, ParameterAssumption
<1>2. Home[w] + 0 = Home[w] /\ Home[w] \in Nat /\ Home[w] < N
  BY <1>1
<1>3. Home[w] % N = Home[w]
  BY <1>1, <1>2
<1> QED
  BY <1>2, <1>3 DEF Donor

(* The blocks of a level are a finite set of blocks. *)
LEMMA LevelBlocks == \A lev : AtLevel(lev) \subseteq Block /\ IsFiniteSet(AtLevel(lev))
  BY FS_Subset DEF AtLevel

(* A locality's active blocks are staged blocks, none of them active twice. *)
LEMMA ActiveBlocks ==
  ASSUME TypeOK
  PROVE  /\ \A l \in Locality : Active(l) \subseteq Staged
         /\ \A l, m \in Locality : l # m => Active(l) \cap Active(m) = {}
         /\ \A b \in Staged : \E l \in Locality : b \in Active(l)
  BY LevelBlocks DEF TypeOK, Active, CachedWork, Staged, AtLevel
-----------------------------------------------------------------------------
(* Every step keeps the type invariant of phase() and its executors. *)
LEMMA TypeInit == Init => TypeOK
  BY DEF Init, TypeOK, Operation, Level, Locality

(* Every step keeps the types. *)
LEMMA TypeStep == TypeOK /\ Control /\ [Next]_vars => TypeOK'
<1> SUFFICES ASSUME TypeOK, Control, [Next]_vars PROVE TypeOK'
  OBVIOUS
<1>a. dispatch \in 0 .. MaxDispatch /\ probed \in [Block -> 0 .. MaxDispatch]
  BY DEF TypeOK
<1>b. wpc \in [Worker -> {"off", "claim", "busy", "exited", "threw"}]
  BY DEF TypeOK
<1>c. distance \in [Worker -> Locality]
  BY DEF TypeOK
<1>d. /\ cache \in [Locality -> [Block -> 0 .. MaxDispatch]]
      /\ cachedBlocks \in [Locality -> SUBSET Block]
  BY DEF TypeOK
<1>e. cacheOwners \in [Block -> Locality]
  BY DEF TypeOK
<1>f. localTasks \in Nat /\ stolenTasks \in Nat /\ done \subseteq Block
  BY DEF TypeOK
<1>g. request \in [Locality -> {"none", "begin", "begun", "beginFailed",
                                 "run", "running", "ok", "failed"}]
  BY DEF TypeOK
<1>1. ASSUME NEW o \in Operation, NEW lev \in Level, Dispatch(o, lev) PROVE TypeOK'
  BY <1>1 DEF Dispatch, TypeOK
<1>2. CASE RejectHaloTime
  BY <1>2 DEF RejectHaloTime, TypeOK, executorVars, workerVars, cacheVars
<1>3. CASE FinishBegins
  <2>1. CASE Refused
    BY <1>3, <2>1 DEF FinishBegins, TypeOK, stageVars, workerVars
  <2>2. CASE ~Refused
    <3>0. dispatch \in 0 .. MaxDispatch /\ rolledBack \in [Block -> 0 .. MaxDispatch]
      BY DEF TypeOK
    <3>1. rolledBack' \in [Block -> 0 .. MaxDispatch]
      BY <1>3, <2>2, <3>0 DEF FinishBegins
    <3>2. request' \in [Locality -> {"run"}] /\ coordinator' = "running"
      BY <1>3, <2>2 DEF FinishBegins
    <3> QED
      BY <1>3, <2>2, <3>1, <3>2 DEF FinishBegins, TypeOK, stageVars, workerVars
  <2> QED
    BY <2>1, <2>2
<1>4. CASE FinishRuns
  <2>1. \A b \in Block : MergedOwner(b) \in Locality
    BY <1>e DEF MergedOwner
  <2>2. outcome' \in {"none", "ok", "threw", "incomplete"}
    BY <1>4 DEF FinishRuns
  <2>3. cacheOwners' \in [Block -> Locality]
    BY <1>4, <2>1, <1>e DEF FinishRuns
  <2>4. probed' \in [Block -> 0 .. MaxDispatch]
    BY <1>4, <1>a DEF FinishRuns
  <2> QED
    BY <1>4, <2>2, <2>3, <2>4 DEF FinishRuns, TypeOK, stageVars, executorVars, workerVars
<1>5. ASSUME NEW l \in Locality, Begin(l) PROVE TypeOK'
  <2>1. Active(l) \in SUBSET Block
    BY ActiveBlocks, LevelBlocks DEF Staged
  <2> QED
    BY <1>5, <2>1 DEF Begin, TypeOK, stageVars, workerVars
<1>6. ASSUME NEW l \in Locality, BeginFails(l) PROVE TypeOK'
  <2>1. Active(l) \subseteq Block
    BY ActiveBlocks, LevelBlocks DEF Staged
  <2>2. CASE UNCHANGED <<generation, stealing, queue, cache>>
    BY <1>6, <2>2 DEF BeginFails, TypeOK, stageVars, workerVars
  <2>3. CASE ~UNCHANGED <<generation, stealing, queue, cache>>
    <3>1. PICK filled \in SUBSET Active(l) : queue' = [queue EXCEPT ![l] = filled]
      BY <1>6, <2>3 DEF BeginFails
    <3>2. PICK dropped \in SUBSET Staged : cache' = [cache EXCEPT ![l] =
            [b \in Block |-> IF Invalidates(op) /\ b \in dropped THEN 0 ELSE cache[l][b]]]
      BY <1>6, <2>3 DEF BeginFails
    <3>3. /\ generation' = [generation EXCEPT ![l] = dispatch]
          /\ stealing' = [stealing EXCEPT ![l] = op # "CachedAdvance"]
      BY <1>6, <2>3 DEF BeginFails
    <3>4. cache' \in [Locality -> [Block -> 0 .. MaxDispatch]]
      BY <3>2 DEF TypeOK
    <3>5. queue' \in [Locality -> SUBSET Block]
      BY <2>1, <3>1 DEF TypeOK
    <3> QED
      BY <1>6, <3>3, <3>4, <3>5 DEF BeginFails, TypeOK, stageVars, workerVars
  <2> QED
    BY <2>2, <2>3
<1>7. ASSUME NEW l \in Locality, Run(l) PROVE TypeOK'
  <2>1. 0 \in Locality
    BY DEF Locality
  <2>2. wpc' \in [Worker -> {"off", "claim", "busy", "exited", "threw"}]
    BY <1>7, <1>b DEF Run
  <2>3. distance' \in [Worker -> Locality]
    BY <1>7, <2>1, <1>c DEF Run
  <2>4. request' \in [Locality -> {"none", "begin", "begun", "beginFailed",
                                   "run", "running", "ok", "failed"}]
    BY <1>7, <1>g DEF Run
  <2> QED
    BY <1>7, <2>2, <2>3, <2>4 DEF Run, TypeOK, stageVars, cacheVars
<1>8. ASSUME NEW l \in Locality, FinishRun(l) PROVE TypeOK'
  BY <1>8 DEF FinishRun, TypeOK, stageVars, cacheVars
<1>9. ASSUME NEW w \in Worker, Claim(w) PROVE TypeOK'
  <2>1. Donor(w) \in Locality
    BY RingMember
  <2> QED
    BY <1>9, <2>1 DEF Claim, Unclaimed, TypeOK, stageVars, cacheVars
<1>10. ASSUME NEW w \in Worker, QueueEmpty(w) PROVE TypeOK'
  <2>1. MaySteal(w) => distance[w] + 1 \in Locality
    <3>1. distance[w] \in Nat
      BY <1>c DEF Locality
    <3> QED
      BY <3>1 DEF MaySteal, Locality
  <2>2. distance' \in [Worker -> Locality]
    BY <1>10, <2>1, <1>c DEF QueueEmpty
  <2>3. wpc' \in [Worker -> {"off", "claim", "busy", "exited", "threw"}]
    BY <1>10, <1>b DEF QueueEmpty
  <2> QED
    BY <1>10, <2>2, <2>3 DEF QueueEmpty, TypeOK, stageVars, executorVars, cacheVars
<1>11. ASSUME NEW w \in Worker, ClaimThrows(w) PROVE TypeOK'
  BY <1>11 DEF ClaimThrows, TypeOK, stageVars, executorVars, cacheVars
<1>12. ASSUME NEW w \in Worker, Complete(w) PROVE TypeOK'
  <2>1. held[w] \in Block /\ Home[w] \in Locality
    BY <1>12 DEF Complete, Control
  <2>2. /\ cache' \in [Locality -> [Block -> 0 .. MaxDispatch]]
        /\ cachedBlocks' \in [Locality -> SUBSET Block]
        /\ probed' \in [Block -> 0 .. MaxDispatch]
    <3>1. CASE op = "Probe"
      <4>1. /\ cache' = [cache EXCEPT ![Home[w]][held[w]] = dispatch]
            /\ cachedBlocks' = [cachedBlocks EXCEPT ![Home[w]] = @ \cup {held[w]}]
            /\ probed' = probed
        BY <1>12, <3>1 DEF Complete, UpdateCache
      <4> QED
        BY <4>1, <2>1, <1>a, <1>d
    <3>2. CASE op \in {"Advance", "CachedAdvance"}
      <4>1. /\ cache' = [cache EXCEPT ![Home[w]][held[w]] = 0]
            /\ cachedBlocks' = cachedBlocks
            /\ probed' = [probed EXCEPT ![held[w]] = 0]
        BY <1>12, <3>2 DEF Complete, UpdateCache
      <4> QED
        BY <4>1, <2>1, <1>a, <1>d
    <3>3. CASE op \notin {"Probe", "Advance", "CachedAdvance"}
      BY <1>12, <3>3, <1>a, <1>d DEF Complete, UpdateCache
    <3> QED
      BY <3>1, <3>2, <3>3
  <2>3. wpc' \in [Worker -> {"off", "claim", "busy", "exited", "threw"}]
    BY <1>12, <1>b DEF Complete
  <2>4. localTasks' \in Nat /\ stolenTasks' \in Nat /\ done' \subseteq Block
    BY <1>12, <2>1, <1>f DEF Complete
  <2>5. held' \in [Worker -> Block \cup {NoBlock}]
    BY <1>12 DEF Complete, TypeOK
  <2> QED
    BY <1>12, <2>2, <2>3, <2>4, <2>5 DEF Complete, TypeOK, stageVars
<1>13. ASSUME NEW w \in Worker, ProcessThrows(w) PROVE TypeOK'
  BY <1>13 DEF ProcessThrows, TypeOK, stageVars, executorVars, cacheVars
<1>14. CASE Finished \/ UNCHANGED vars
  BY <1>14 DEF Finished, vars, TypeOK, stageVars, executorVars, workerVars, cacheVars
<1> QED
  BY <1>1, <1>2, <1>3, <1>4, <1>5, <1>6, <1>7, <1>8, <1>9, <1>10, <1>11, <1>12, <1>13, <1>14
  DEF Next, ExecutorStep, WorkerStep
-----------------------------------------------------------------------------
(* The type facts the later steps need, one function at a time. *)
LEMMA Shapes ==
  ASSUME TypeOK
  PROVE  /\ wpc \in [Worker -> {"off", "claim", "busy", "exited", "threw"}]
         /\ request \in [Locality -> {"none", "begin", "begun", "beginFailed",
                                      "run", "running", "ok", "failed"}]
         /\ held \in [Worker -> Block \cup {NoBlock}]
         /\ generation \in [Locality -> 0 .. MaxDispatch]
         /\ queue \in [Locality -> SUBSET Block]
         /\ stealing \in [Locality -> BOOLEAN]
         /\ distance \in [Worker -> Locality]
         /\ coordinator \in {"idle", "beginning", "running"}
  BY DEF TypeOK

(* Every step keeps coordinator, requests and workers in agreement. *)
LEMMA ControlInit == Init => Control
  BY DEF Init, Control

(* Every step keeps the control state consistent. *)
LEMMA ControlStep == TypeOK /\ Control /\ [Next]_vars => Control'
<1> SUFFICES ASSUME TypeOK, Control, [Next]_vars PROVE Control'
  OBVIOUS
<1> USE Shapes
<1>1. ASSUME NEW o \in Operation, NEW lev \in Level, Dispatch(o, lev) PROVE Control'
  BY <1>1 DEF Dispatch, Control
<1>2. CASE RejectHaloTime
  BY <1>2 DEF RejectHaloTime, Control, executorVars, workerVars, cacheVars
<1>3. CASE FinishBegins
  <2>1. \A l \in Locality : request[l] \in {"begun", "beginFailed"}
    BY <1>3 DEF FinishBegins, Answered, Control
  <2>2. \A w \in Worker : wpc[w] = "off"
    BY <1>3 DEF FinishBegins, Control
  <2>3. CASE Refused
    BY <1>3, <2>1, <2>2, <2>3 DEF FinishBegins, Control, stageVars, workerVars
  <2>4. CASE ~Refused
    BY <1>3, <2>1, <2>2, <2>4 DEF FinishBegins, Refused, Control, stageVars, workerVars
  <2> QED
    BY <2>3, <2>4
<1>4. CASE FinishRuns
  <2>1. \A l \in Locality : request[l] \in {"ok", "failed"}
    BY <1>4 DEF FinishRuns, Answered, Control
  <2>2. \A w \in Worker : wpc[w] = "off"
    BY <2>1 DEF Control
  <2>3. coordinator' = "idle" /\ UNCHANGED <<request, wpc, held>>
    BY <1>4 DEF FinishRuns, executorVars, workerVars
  <2> QED
    BY <2>1, <2>2, <2>3 DEF Control
<1>5. ASSUME NEW l \in Locality, Begin(l) PROVE Control'
  <2>1. coordinator = "beginning"
    BY <1>5 DEF Begin, Control
  <2>2. \A m \in Locality : Active(m)' = Active(m)
    BY <1>5 DEF Begin, Active, CachedWork, Staged, AtLevel, stageVars
  <2> QED
    BY <1>5, <2>1, <2>2 DEF Begin, Control, stageVars, workerVars
<1>6. ASSUME NEW l \in Locality, BeginFails(l) PROVE Control'
  <2>1. coordinator = "beginning"
    BY <1>6 DEF BeginFails, Control
  <2>2. \A m \in Locality : Active(m)' = Active(m)
    BY <1>6 DEF BeginFails, Active, CachedWork, Staged, AtLevel, stageVars
  <2> QED
    BY <1>6, <2>1, <2>2 DEF BeginFails, Control, stageVars, workerVars
<1>7. ASSUME NEW l \in Locality, Run(l) PROVE Control'
  <2>1. coordinator = "running"
    BY <1>7 DEF Run, Control
  <2>2. \A w \in Worker : Home[w] = l => wpc[w] = "off"
    BY <1>7 DEF Run, Control
  <2>0. /\ generation[l] = dispatch
        /\ request' = [request EXCEPT ![l] = "running"]
        /\ wpc' = [w \in Worker |-> IF Home[w] = l THEN "claim" ELSE wpc[w]]
    BY <1>7, <2>1 DEF Run, Control
  <2>3. coordinator' = "running" /\ generation' = generation /\ held' = held
    BY <1>7, <2>1 DEF Run
  <2>4. dispatch' = dispatch /\ op' = op /\ stealing' = stealing
    BY <1>7 DEF Run, stageVars
  <2>5. \A m \in Locality : request'[m] \in {"run", "running", "ok", "failed"}
    BY <1>7, <2>1 DEF Run, Control
  <2>6. \A w \in Worker : wpc'[w] # "off" => request'[Home[w]] = "running"
    BY <2>0, <2>1, <2>2 DEF Control
  <2>7. \A w \in Worker : wpc'[w] = "busy" <=> held[w] \in Block
    BY <2>0, <2>2 DEF Control
  <2> QED
    BY <2>1, <2>3, <2>4, <2>5, <2>6, <2>7 DEF Control
<1>8. ASSUME NEW l \in Locality, FinishRun(l) PROVE Control'
  <2>1. coordinator = "running"
    BY <1>8 DEF FinishRun, Control
  <2> QED
    BY <1>8, <2>1 DEF FinishRun, WorkersEnded, Control, stageVars
<1>9. ASSUME NEW w \in Worker, Claim(w) PROVE Control'
  <2>1. coordinator = "running" /\ Donor(w) \in Locality
    BY <1>9, RingMember DEF Claim, Control
  <2>2. PICK b \in Block : held' = [held EXCEPT ![w] = b]
    BY <1>9, <2>1 DEF Claim
  <2> QED
    BY <1>9, <2>1, <2>2 DEF Claim, Control, stageVars
<1>10. ASSUME NEW w \in Worker, QueueEmpty(w) \/ ClaimThrows(w) \/ ProcessThrows(w) PROVE Control'
  <2>1. coordinator = "running" /\ request[Home[w]] = "running"
    BY <1>10 DEF QueueEmpty, ClaimThrows, ProcessThrows, Control
  <2> QED
    BY <1>10, <2>1 DEF QueueEmpty, ClaimThrows, ProcessThrows, Control, stageVars, executorVars
<1>11. ASSUME NEW w \in Worker, Complete(w) PROVE Control'
  <2>1. coordinator = "running" /\ request[Home[w]] = "running"
    BY <1>11 DEF Complete, Control
  <2> QED
    BY <1>11, <2>1 DEF Complete, Control, stageVars
<1>12. CASE Finished \/ UNCHANGED vars
  <2>1. /\ UNCHANGED <<coordinator, request, generation, queue, stealing>>
        /\ UNCHANGED <<wpc, held, op, level, dispatch, cacheOwners>>
    BY <1>12 DEF Finished, vars, stageVars, executorVars, workerVars, cacheVars
  <2>2. \A m \in Locality : Active(m)' = Active(m)
    BY <2>1 DEF Active, CachedWork, Staged, AtLevel
  <2> QED
    BY <2>1, <2>2 DEF Control
<1> QED
  BY <1>1, <1>2, <1>3, <1>4, <1>5, <1>6, <1>7, <1>8, <1>9, <1>10, <1>11, <1>12
  DEF Next, ExecutorStep, WorkerStep
-----------------------------------------------------------------------------
(* Every step keeps each staged block in one place. *)
LEMMA PlacementInit == Init => Placement
  BY DEF Init, Placement

(* Every step keeps every block where it belongs. *)
LEMMA PlacementStep == TypeOK /\ Control /\ Placement /\ [Next]_vars => Placement'
<1> SUFFICES ASSUME TypeOK, Control, Placement, [Next]_vars PROVE Placement'
  OBVIOUS
<1> USE Shapes
<1>1. ASSUME NEW o \in Operation, NEW lev \in Level, Dispatch(o, lev) PROVE Placement'
  BY <1>1 DEF Dispatch, Placement
<1>2. CASE RejectHaloTime
  BY <1>2 DEF RejectHaloTime, Placement, Staged, executorVars, workerVars, cacheVars
<1>3. CASE FinishBegins
  <2>1. coordinator = "beginning" /\ UNCHANGED <<done, queue, wpc>> /\ Staged' = Staged
    BY <1>3 DEF FinishBegins, Staged, AtLevel, stageVars, workerVars
  <2>2. CASE Refused
    BY <1>3, <2>1, <2>2 DEF FinishBegins, Placement
  <2>3. CASE ~Refused
    <3>1. \A l \in Locality : request[l] = "begun"
      BY <1>3, <2>1, <2>3 DEF FinishBegins, Refused, Answered, Control
    <3>2. \A l \in Locality : queue[l] = Active(l)
      BY <2>1, <3>1 DEF Control
    <3>3. done = {} /\ \A w \in Worker : wpc[w] = "off"
      BY <2>1 DEF Control, Placement
    <3> QED
      BY <2>1, <3>2, <3>3, ActiveBlocks DEF Placement
  <2> QED
    BY <2>2, <2>3
<1>4. CASE FinishRuns
  BY <1>4 DEF FinishRuns, Placement, Staged, AtLevel, stageVars, workerVars
<1>5. ASSUME NEW l \in Locality, Begin(l) \/ BeginFails(l) PROVE Placement'
  <2>1. coordinator = "beginning"
    BY <1>5 DEF Begin, BeginFails, Control
  <2>2. UNCHANGED <<coordinator, done, level>>
    BY <1>5 DEF Begin, BeginFails, stageVars, workerVars
  <2> QED
    BY <2>1, <2>2 DEF Placement, Staged, AtLevel
<1>6. ASSUME NEW l \in Locality, Run(l) \/ FinishRun(l) PROVE Placement'
  <2>1. UNCHANGED <<coordinator, done, level, queue, held>>
    BY <1>6 DEF Run, FinishRun, stageVars
  <2>2. \A w \in Worker : wpc'[w] = "busy" => wpc[w] = "busy"
    BY <1>6 DEF Run, FinishRun
  <2> QED
    BY <2>1, <2>2 DEF Placement, Staged, AtLevel
<1>7. ASSUME NEW w \in Worker, Claim(w) PROVE Placement'
  <2>1. coordinator = "running" /\ Donor(w) \in Locality
    BY <1>7, RingMember DEF Claim, Control
  <2>2. PICK b \in queue[Donor(w)] : /\ held' = [held EXCEPT ![w] = b]
                                     /\ queue' = [queue EXCEPT ![Donor(w)] = @ \ {b}]
    BY <1>7 DEF Claim, Unclaimed
  <2>3. wpc' = [wpc EXCEPT ![w] = "busy"] /\ UNCHANGED <<coordinator, done, level>>
    BY <1>7 DEF Claim, stageVars
  <2>4. b \in Staged /\ b \notin done /\ \A l \in Locality : b \notin queue'[l]
    BY <2>1, <2>2 DEF Placement
  <2>5. \A l \in Locality : queue'[l] \subseteq queue[l]
    BY <2>1, <2>2
  <2>6. \A u \in Worker \ {w} : wpc[u] = "busy" => held[u] # b
    BY <2>1, <2>2 DEF Placement
  <2>7. \A u \in Worker \ {w} : wpc'[u] = wpc[u] /\ held'[u] = held[u]
    BY <2>2, <2>3
  <2>8. held'[w] = b
    BY <2>2
  <2>9. \A u \in Worker : wpc'[u] = "busy" =>
          /\ held'[u] \in Staged /\ held'[u] \notin done
          /\ \A l \in Locality : held'[u] \notin queue'[l]
          /\ \A x \in Worker \ {u} : wpc'[x] = "busy" => held'[x] # held'[u]
    <3> SUFFICES ASSUME NEW u \in Worker, wpc'[u] = "busy"
                 PROVE  /\ held'[u] \in Staged /\ held'[u] \notin done
                        /\ \A l \in Locality : held'[u] \notin queue'[l]
                        /\ \A x \in Worker \ {u} : wpc'[x] = "busy" => held'[x] # held'[u]
      OBVIOUS
    <3>1. CASE u = w
      BY <2>4, <2>6, <2>7, <2>8, <3>1
    <3>2. CASE u # w
      <4>1. wpc[u] = "busy" /\ held'[u] = held[u]
        BY <2>7, <3>2
      <4>2. /\ held[u] \in Staged /\ held[u] \notin done
            /\ \A l \in Locality : held[u] \notin queue[l]
            /\ \A x \in Worker \ {u} : wpc[x] = "busy" => held[x] # held[u]
        BY <2>1, <4>1 DEF Placement
      <4> QED
        BY <2>5, <2>6, <2>7, <2>8, <3>2, <4>1, <4>2
    <3> QED
      BY <3>1, <3>2
  <2> QED
    BY <2>1, <2>3, <2>5, <2>9 DEF Placement, Staged, AtLevel
<1>8. ASSUME NEW w \in Worker, QueueEmpty(w) \/ ClaimThrows(w) \/ ProcessThrows(w) PROVE Placement'
  <2>1. UNCHANGED <<coordinator, done, level, queue>>
    BY <1>8 DEF QueueEmpty, ClaimThrows, ProcessThrows, stageVars, executorVars
  <2>2. \A u \in Worker : wpc'[u] = "busy" => wpc[u] = "busy" /\ held'[u] = held[u]
    BY <1>8 DEF QueueEmpty, ClaimThrows, ProcessThrows
  <2> QED
    BY <2>1, <2>2 DEF Placement, Staged, AtLevel
<1>9. ASSUME NEW w \in Worker, Complete(w) PROVE Placement'
  <2>1. coordinator = "running" /\ wpc[w] = "busy"
    BY <1>9 DEF Complete, Control
  <2>2. UNCHANGED <<coordinator, queue, level>> /\ done' = done \cup {held[w]}
    BY <1>9 DEF Complete, stageVars
  <2>3. \A u \in Worker : wpc'[u] = "busy" => u # w /\ wpc[u] = "busy" /\ held'[u] = held[u]
    BY <1>9 DEF Complete
  <2>4. Staged' = Staged /\ coordinator' = "running" /\ queue' = queue
    BY <2>1, <2>2 DEF Staged, AtLevel
  <2>5. /\ held[w] \in Staged
        /\ \A l \in Locality : held[w] \notin queue[l]
        /\ \A u \in Worker \ {w} : wpc[u] = "busy" => held[u] # held[w]
    BY <2>1 DEF Placement
  <2>6. done' \subseteq Staged /\ \A l \in Locality : queue[l] \cap done' = {}
    BY <2>1, <2>2, <2>5 DEF Placement
  <2>7. \A u \in Worker : wpc'[u] = "busy" =>
          /\ held'[u] \in Staged /\ held'[u] \notin done'
          /\ \A l \in Locality : held'[u] \notin queue[l]
          /\ \A x \in Worker \ {u} : wpc'[x] = "busy" => held'[x] # held'[u]
    BY <2>1, <2>2, <2>3, <2>5 DEF Placement
  <2> QED
    BY <2>1, <2>4, <2>6, <2>7 DEF Placement
<1>10. CASE Finished \/ UNCHANGED vars
  <2>1. UNCHANGED <<coordinator, done, level, queue, wpc, held>>
    BY <1>10 DEF Finished, vars, stageVars, executorVars, workerVars
  <2> QED
    BY <2>1 DEF Placement, Staged, AtLevel
<1> QED
  BY <1>1, <1>2, <1>3, <1>4, <1>5, <1>6, <1>7, <1>8, <1>9, <1>10
  DEF Next, ExecutorStep, WorkerStep
-----------------------------------------------------------------------------
(* Every step keeps the books: the task count is the number of processed     *)
(* blocks, and a stage without failures has every block somewhere.           *)
LEMMA AccountingInit == Init => Accounting
  BY FS_EmptySet DEF Init, Accounting

(* Every step keeps the account of the blocks of a stage. *)
LEMMA AccountingStep ==
  TypeOK /\ Control /\ Placement /\ Accounting /\ [Next]_vars => Accounting'
<1> SUFFICES ASSUME TypeOK, Control, Placement, Accounting, [Next]_vars PROVE Accounting'
  OBVIOUS
<1> USE Shapes
<1>1. ASSUME NEW o \in Operation, NEW lev \in Level, Dispatch(o, lev) PROVE Accounting'
  BY <1>1, FS_EmptySet DEF Dispatch, Accounting
<1>2. CASE RejectHaloTime
  BY <1>2 DEF RejectHaloTime, Accounting, executorVars, workerVars
<1>3. CASE FinishBegins
  <2>1. UNCHANGED <<localTasks, stolenTasks, done, queue, wpc>> /\ Staged' = Staged
    BY <1>3 DEF FinishBegins, Staged, AtLevel, stageVars, workerVars
  <2>2. CASE Refused
    BY <1>3, <2>1, <2>2 DEF FinishBegins, Accounting
  <2>3. CASE ~Refused
    <3>1. \A l \in Locality : queue[l] = Active(l)
      BY <1>3, <2>3 DEF FinishBegins, Refused, Answered, Control
    <3>2. \A w \in Worker : wpc[w] = "off"
      BY <1>3 DEF FinishBegins, Control
    <3>3. \A l \in Locality : request'[l] = "run"
      BY <1>3, <2>3 DEF FinishBegins
    <3>4. coordinator' = "running" /\ outcome' = outcome
      BY <1>3, <2>3 DEF FinishBegins
    <3>5. \A b \in Staged : \E l \in Locality : b \in queue[l]
      BY <3>1, ActiveBlocks
    <3>6. outcome # "ok" /\ outcome # "incomplete"
      BY <1>3 DEF FinishBegins, Accounting
    <3> QED
      BY <2>1, <3>2, <3>3, <3>4, <3>5, <3>6 DEF Accounting
  <2> QED
    BY <2>2, <2>3
<1>4. CASE FinishRuns
  <2>1. UNCHANGED <<localTasks, stolenTasks, done, queue, wpc>> /\ Staged' = Staged
    BY <1>4 DEF FinishRuns, Staged, AtLevel, stageVars, executorVars, workerVars
  <2>2. coordinator' = "idle"
    BY <1>4 DEF FinishRuns
  <2>3. CASE Refused
    BY <1>4, <2>1, <2>2, <2>3 DEF FinishRuns, Accounting
  <2>4. CASE ~Refused
    <3>1. \A l \in Locality : request[l] = "ok"
      BY <1>4, <2>4 DEF FinishRuns, Refused, Answered, Control
    <3>2. \A w \in Worker : wpc[w] = "off"
      BY <3>1 DEF Control
    <3>3. Unfailed /\ \A l \in Locality : queue[l] = {}
      BY <1>4, <3>1, <3>2 DEF Unfailed, FinishRuns, Accounting
    <3>4. done = Staged
      <4>1. done \subseteq Staged /\ coordinator = "running"
        BY <1>4 DEF FinishRuns, Placement
      <4>2. \A b \in Staged : \/ b \in done
                              \/ \E l \in Locality : b \in queue[l]
                              \/ \E w \in Worker : wpc[w] = "busy" /\ held[w] = b
        BY <3>3, <4>1 DEF Accounting
      <4>3. \A w \in Worker : wpc[w] # "busy"
        BY <3>2
      <4>4. \A b \in Staged : b \in done
        BY <3>3, <4>2, <4>3
      <4> QED
        BY <4>1, <4>4
    <3>5. outcome' = "ok"
      BY <1>4, <2>4, <3>4 DEF FinishRuns, Accounting
    <3> QED
      BY <2>1, <2>2, <3>4, <3>5 DEF Accounting
  <2> QED
    BY <2>3, <2>4
<1>5. ASSUME NEW l \in Locality, Begin(l) \/ BeginFails(l) PROVE Accounting'
  <2>1. coordinator = "beginning"
    BY <1>5 DEF Begin, BeginFails, Control
  <2>2. UNCHANGED <<coordinator, outcome, done, level, localTasks, stolenTasks>>
    BY <1>5 DEF Begin, BeginFails, stageVars, workerVars
  <2> QED
    BY <2>1, <2>2 DEF Accounting, Staged, AtLevel
<1>6. ASSUME NEW l \in Locality, Run(l) PROVE Accounting'
  <2>1. coordinator = "running" /\ generation[l] = dispatch
    BY <1>6 DEF Run, Control
  <2>2. UNCHANGED <<coordinator, outcome, done, level, localTasks, stolenTasks, queue, held>>
    BY <1>6 DEF Run, stageVars
  <2>3. \A w \in Worker : Home[w] = l => wpc[w] = "off"
    BY <1>6 DEF Run, Control
  <2>4. /\ request' = [request EXCEPT ![l] = "running"]
        /\ wpc' = [w \in Worker |-> IF Home[w] = l THEN "claim" ELSE wpc[w]]
        /\ distance' = [w \in Worker |-> IF Home[w] = l THEN 0 ELSE distance[w]]
    BY <1>6, <2>1 DEF Run
  <2>5. Unfailed' => Unfailed
    BY <1>6, <2>3, <2>4 DEF Run, Unfailed
  <2>6. \A w \in Worker :
          (wpc'[w] = "exited" \/ (wpc'[w] \in {"claim", "busy"} /\ distance'[w] > 0)) =>
            queue[Home[w]] = {}
    BY <2>1, <2>3, <2>4 DEF Accounting
  <2>7. \A m \in Locality : request'[m] = "ok" => queue[m] = {}
    BY <2>1, <2>4 DEF Accounting
  <2>8. \A w \in Worker : wpc[w] = "busy" => wpc'[w] = "busy"
    BY <2>3, <2>4
  <2>9. Staged' = Staged
    BY <2>2 DEF Staged, AtLevel
  <2> QED
    BY <2>1, <2>2, <2>5, <2>6, <2>7, <2>8, <2>9 DEF Accounting
<1>7. ASSUME NEW l \in Locality, FinishRun(l) PROVE Accounting'
  <2>1. coordinator = "running"
    BY <1>7 DEF FinishRun, Control
  <2>2. UNCHANGED <<coordinator, outcome, done, level, localTasks, stolenTasks>>
    BY <1>7 DEF FinishRun, stageVars
  <2>3. UNCHANGED <<queue, held, distance>>
    BY <1>7 DEF FinishRun
  <2>4. \A w \in Worker : Home[w] = l => wpc[w] \in {"exited", "threw"}
    BY <1>7 DEF FinishRun, WorkersEnded
  <2>5. wpc' = [w \in Worker |-> IF Home[w] = l THEN "off" ELSE wpc[w]]
    BY <1>7 DEF FinishRun
  <2>6. \A m \in Locality : request'[m] = "ok" => queue[m] = {}
    <3>1. request'[l] = "ok" => queue[l] = {}
      <4>1. PICK w \in Worker : Home[w] = l
        OBVIOUS
      <4>2. request'[l] = "ok" => wpc[w] = "exited"
        BY <1>7, <2>4, <4>1 DEF FinishRun
      <4> QED
        BY <2>1, <4>1, <4>2 DEF Accounting
    <3>2. \A m \in Locality \ {l} : request'[m] = request[m]
      BY <1>7 DEF FinishRun
    <3> QED
      BY <2>1, <3>1, <3>2 DEF Accounting
  <2>7. Unfailed' => Unfailed
    <3>1. request' = [request EXCEPT ![l] =
            IF \E w \in Worker : Home[w] = l /\ wpc[w] = "threw" THEN "failed" ELSE "ok"]
      BY <1>7 DEF FinishRun
    <3>2. request[l] = "running"
      BY <1>7 DEF FinishRun
    <3> QED
      BY <2>5, <3>1, <3>2 DEF Unfailed
  <2>8. \A w \in Worker : wpc[w] = "busy" => wpc'[w] = "busy"
    BY <2>4, <2>5
  <2>9. Staged' = Staged
    BY <2>2 DEF Staged, AtLevel
  <2>10. \A w \in Worker :
          (wpc'[w] = "exited" \/ (wpc'[w] \in {"claim", "busy"} /\ distance[w] > 0)) =>
            queue[Home[w]] = {}
    BY <2>1, <2>5 DEF Accounting
  <2> QED
    BY <2>1, <2>2, <2>3, <2>6, <2>7, <2>8, <2>9, <2>10 DEF Accounting
<1>8. ASSUME NEW w \in Worker, Claim(w) PROVE Accounting'
  <2>1. coordinator = "running" /\ Donor(w) \in Locality /\ wpc[w] = "claim"
    BY <1>8, RingMember DEF Claim, Control
  <2>2. PICK b \in queue[Donor(w)] : /\ held' = [held EXCEPT ![w] = b]
                                     /\ queue' = [queue EXCEPT ![Donor(w)] = @ \ {b}]
    BY <1>8 DEF Claim, Unclaimed
  <2>3. UNCHANGED <<coordinator, outcome, done, level, localTasks, stolenTasks>>
    BY <1>8 DEF Claim, stageVars
  <2>4. wpc' = [wpc EXCEPT ![w] = "busy"] /\ UNCHANGED <<request, distance>>
    BY <1>8 DEF Claim
  <2>5. \A m \in Locality : queue'[m] \subseteq queue[m]
    BY <2>1, <2>2
  <2>6. \A u \in Worker :
          (wpc'[u] = "exited" \/ (wpc'[u] \in {"claim", "busy"} /\ distance[u] > 0)) =>
            queue'[Home[u]] = {}
    BY <2>1, <2>4, <2>5 DEF Accounting
  <2>7. \A c \in Staged :
          ((\E m \in Locality : c \in queue[m]) \/ (\E u \in Worker : wpc[u] = "busy" /\ held[u] = c))
          => (\E m \in Locality : c \in queue'[m]) \/ (\E u \in Worker : wpc'[u] = "busy" /\ held'[u] = c)
    BY <2>1, <2>2, <2>4
  <2>8. Unfailed' => Unfailed
    BY <2>1, <2>4 DEF Unfailed
  <2>9. Staged' = Staged
    BY <2>3 DEF Staged, AtLevel
  <2> QED
    BY <2>1, <2>3, <2>4, <2>5, <2>6, <2>7, <2>8, <2>9 DEF Accounting
<1>9. ASSUME NEW w \in Worker, QueueEmpty(w) PROVE Accounting'
  <2>1. coordinator = "running" /\ wpc[w] = "claim" /\ queue[Donor(w)] = {}
    BY <1>9 DEF QueueEmpty, Control
  <2>2. UNCHANGED <<coordinator, outcome, done, level, localTasks, stolenTasks, queue, request, held>>
    BY <1>9 DEF QueueEmpty, stageVars, executorVars
  <2>3. queue[Home[w]] = {}
    <3>1. CASE distance[w] > 0
      BY <2>1, <3>1 DEF Accounting
    <3>2. CASE ~(distance[w] > 0)
      <4>1. distance[w] = 0
        BY <3>2 DEF Locality
      <4> QED
        BY <2>1, <4>1, OwnRing
    <3> QED
      BY <3>1, <3>2
  <2>4. \A u \in Worker \ {w} : wpc'[u] = wpc[u] /\ distance'[u] = distance[u]
    BY <1>9 DEF QueueEmpty
  <2>5. wpc'[w] \in {"claim", "exited"}
    BY <1>9 DEF QueueEmpty
  <2>6. Unfailed' => Unfailed
    BY <2>1, <2>2, <2>4 DEF Unfailed
  <2>7. Staged' = Staged
    BY <2>2 DEF Staged, AtLevel
  <2>8. \A u \in Worker : wpc[u] = "busy" => wpc'[u] = "busy"
    BY <2>1, <2>4
  <2>9. \A u \in Worker :
          (wpc'[u] = "exited" \/ (wpc'[u] \in {"claim", "busy"} /\ distance'[u] > 0)) =>
            queue[Home[u]] = {}
    BY <2>1, <2>3, <2>4 DEF Accounting
  <2> QED
    BY <2>1, <2>2, <2>6, <2>7, <2>8, <2>9 DEF Accounting
<1>10. ASSUME NEW w \in Worker, ClaimThrows(w) \/ ProcessThrows(w) PROVE Accounting'
  <2>1. coordinator = "running"
    BY <1>10 DEF ClaimThrows, ProcessThrows, Control
  <2>2. UNCHANGED <<coordinator, outcome, done, level, localTasks, stolenTasks, queue, request, distance>>
    BY <1>10 DEF ClaimThrows, ProcessThrows, stageVars, executorVars
  <2>3. wpc' = [wpc EXCEPT ![w] = "threw"]
    BY <1>10 DEF ClaimThrows, ProcessThrows
  <2>4. ~Unfailed'
    BY <2>3 DEF Unfailed
  <2>5. Staged' = Staged
    BY <2>2 DEF Staged, AtLevel
  <2> QED
    BY <2>1, <2>2, <2>3, <2>4, <2>5 DEF Accounting
<1>11. ASSUME NEW w \in Worker, Complete(w) PROVE Accounting'
  <2>1. coordinator = "running" /\ wpc[w] = "busy"
    BY <1>11 DEF Complete, Control
  <2>2. UNCHANGED <<coordinator, outcome, level, queue, request, distance>>
    BY <1>11 DEF Complete, stageVars
  <2>3. wpc' = [wpc EXCEPT ![w] = "claim"] /\ done' = done \cup {held[w]}
    BY <1>11 DEF Complete
  <2>4. held' = [held EXCEPT ![w] = NoBlock]
    BY <1>11 DEF Complete
  <2>5. localTasks' + stolenTasks' = Cardinality(done')
    <3>1. held[w] \notin done /\ IsFiniteSet(done)
      BY <2>1, LevelBlocks, FS_Subset DEF Placement, Staged
    <3>2. Cardinality(done') = Cardinality(done) + 1
      BY <2>3, <3>1, FS_AddElement
    <3>3. localTasks \in Nat /\ stolenTasks \in Nat /\ Cardinality(done) \in Nat
      BY <3>1, FS_CardinalityType DEF TypeOK
    <3>4. \/ localTasks' = localTasks + 1 /\ stolenTasks' = stolenTasks
          \/ localTasks' = localTasks /\ stolenTasks' = stolenTasks + 1
      BY <1>11 DEF Complete
    <3>5. localTasks + stolenTasks = Cardinality(done)
      BY DEF Accounting
    <3>6. CASE localTasks' = localTasks + 1 /\ stolenTasks' = stolenTasks
      <4> HIDE Shapes
      <4> QED  BY <3>2, <3>3, <3>5, <3>6
    <3>7. CASE localTasks' = localTasks /\ stolenTasks' = stolenTasks + 1
      <4> HIDE Shapes
      <4> QED  BY <3>2, <3>3, <3>5, <3>7
    <3> QED
      BY <3>4, <3>6, <3>7
  <2>6. \A u \in Worker :
          (wpc'[u] = "exited" \/ (wpc'[u] \in {"claim", "busy"} /\ distance[u] > 0)) =>
            queue[Home[u]] = {}
    BY <2>1, <2>3 DEF Accounting
  <2>7. Unfailed' => Unfailed
    BY <2>1, <2>2, <2>3 DEF Unfailed
  <2>8. Unfailed' => \A b \in Staged :
          \/ b \in done'
          \/ \E l \in Locality : b \in queue[l]
          \/ \E u \in Worker : wpc'[u] = "busy" /\ held'[u] = b
    BY <2>1, <2>3, <2>4, <2>7 DEF Accounting
  <2>9. Staged' = Staged
    BY <2>2 DEF Staged, AtLevel
  <2>10. outcome # "ok" /\ outcome # "incomplete"
    BY <2>1 DEF Accounting
  <2>11. \A l \in Locality : request[l] = "ok" => queue[l] = {}
    BY <2>1 DEF Accounting
  <2> QED
    BY <2>2, <2>5, <2>6, <2>8, <2>9, <2>10, <2>11 DEF Accounting
<1>12. CASE Finished \/ UNCHANGED vars
  <2>1. UNCHANGED <<coordinator, outcome, done, level, localTasks, stolenTasks, queue, request,
                    wpc, held, distance>>
    BY <1>12 DEF Finished, vars, stageVars, executorVars, workerVars
  <2> QED
    BY <2>1 DEF Accounting, Unfailed, Staged, AtLevel
<1> QED
  BY <1>1, <1>2, <1>3, <1>4, <1>5, <1>6, <1>7, <1>8, <1>9, <1>10, <1>11, <1>12
  DEF Next, ExecutorStep, WorkerStep
-----------------------------------------------------------------------------
(* The type facts the caching steps need. *)
LEMMA CacheShapes ==
  ASSUME TypeOK
  PROVE  /\ cache \in [Locality -> [Block -> 0 .. MaxDispatch]]
         /\ cachedBlocks \in [Locality -> SUBSET Block]
         /\ cacheOwners \in [Block -> Locality]
         /\ probed \in [Block -> 0 .. MaxDispatch]
         /\ rolledBack \in [Block -> 0 .. MaxDispatch]
         /\ dispatch \in 0 .. MaxDispatch /\ done \subseteq Block
  BY DEF TypeOK

(* A step that changes none of the variables Caching reads keeps it. *)
LEMMA CachingFrame ==
  ASSUME Caching,
         UNCHANGED <<coordinator, dispatch, op, level, cacheVars>>,
         UNCHANGED <<request, queue, cachedBlocks, done>>,
         coordinator = "running",
         \A w \in Worker : wpc'[w] = "busy" => wpc[w] = "busy" /\ held'[w] = held[w],
         \A w \in Worker : wpc'[w] # "off" =>
           wpc[w] # "off" /\ (distance[w] = 0 /\ op = "CachedAdvance" => distance'[w] = 0)
  PROVE  Caching'
<1>1. Staged' = Staged
  BY DEF Staged, AtLevel
<1>2. RollbackTokens' /\ NoCacheAcrossRollback'
  BY DEF Caching, RollbackTokens, NoCacheAcrossRollback, cacheVars
<1>3. ProbedCache'
  BY <1>1 DEF Caching, ProbedCache, Invalidates, cacheVars
<1>4. SavedCaches'
  BY <1>1 DEF Caching, SavedCaches, cacheVars
<1>5. Affinity'
  BY <1>1 DEF Caching, Affinity, cacheVars
<1> QED
  BY <1>2, <1>3, <1>4, <1>5 DEF Caching

(* Every step keeps the halo caches where the coordinator will look for them *)
(* and no cache older than the last rollback of its block.                   *)
LEMMA CachingInit == Init => Caching
  BY DEF Init, Caching, RollbackTokens, ProbedCache, NoCacheAcrossRollback, SavedCaches, Affinity

(* Every step keeps the caches consistent. *)
LEMMA CachingStep ==
  TypeOK /\ Control /\ Placement /\ Accounting /\ Accounting' /\ Caching /\ [Next]_vars => Caching'
<1> SUFFICES ASSUME TypeOK, Control, Placement, Accounting, Accounting', Caching, [Next]_vars
             PROVE  Caching'
  OBVIOUS
<1> USE Shapes, CacheShapes
<1>1. ASSUME NEW o \in Operation, NEW lev \in Level, Dispatch(o, lev) PROVE Caching'
  <2>1. /\ coordinator = "idle" /\ coordinator' = "beginning"
        /\ dispatch' = dispatch + 1 /\ op' = o /\ Staged' = AtLevel(lev)
        /\ done' = {} /\ cachedBlocks' = [l \in Locality |-> {}]
        /\ UNCHANGED <<cacheOwners, cache, rolledBack>>
        /\ \A l \in Locality : request'[l] = "begin"
    BY <1>1 DEF Dispatch, Staged, AtLevel
  <2>2. probed' = [b \in Block |-> IF Invalidates(o) /\ b \in AtLevel(lev) THEN 0 ELSE probed[b]]
    BY <1>1 DEF Dispatch
  <2>3. AtLevel(lev) \subseteq Block
    BY LevelBlocks
  <2>4. RollbackTokens' /\ NoCacheAcrossRollback'
    BY <2>1 DEF Caching, RollbackTokens, NoCacheAcrossRollback
  <2>5. ProbedCache'
    BY <2>1, <2>2, <2>3 DEF Caching, ProbedCache, Invalidates
  <2>6. SavedCaches'
    BY <2>1 DEF SavedCaches
  <2>7. Affinity'
    <3>1. o = "CachedAdvance" => ~Invalidates(o) /\ \A b \in AtLevel(lev) : probed[b] # 0
      BY <1>1 DEF Dispatch, Invalidates
    <3> QED
      BY <2>1, <2>2, <2>3, <3>1 DEF Affinity
  <2> QED
    BY <2>4, <2>5, <2>6, <2>7 DEF Caching
<1>2. CASE RejectHaloTime
  <2>1. /\ coordinator = "idle" /\ coordinator' = "idle" /\ dispatch' = dispatch + 1
        /\ UNCHANGED <<op, level, cacheOwners, cache, probed, rolledBack, cachedBlocks>>
    BY <1>2 DEF RejectHaloTime, cacheVars, executorVars
  <2> QED
    BY <2>1 DEF Caching, RollbackTokens, ProbedCache, NoCacheAcrossRollback, SavedCaches, Affinity
<1>3. CASE FinishBegins
  <2>1. /\ coordinator = "beginning" /\ Staged' = Staged
        /\ UNCHANGED <<dispatch, op, queue, cachedBlocks, wpc, distance, held>>
        /\ UNCHANGED <<cacheOwners, cache, probed, done>>
    BY <1>3 DEF FinishBegins, Staged, AtLevel, stageVars, workerVars
  <2>2. CASE Refused
    <3>1. coordinator' = "idle" /\ UNCHANGED rolledBack
      BY <1>3, <2>2 DEF FinishBegins
    <3> QED
      BY <2>1, <3>1
      DEF Caching, RollbackTokens, ProbedCache, NoCacheAcrossRollback, SavedCaches, Affinity
  <2>3. CASE ~Refused
    <3>1. \A l \in Locality : request[l] = "begun" /\ queue[l] = Active(l)
      BY <1>3, <2>3 DEF FinishBegins, Refused, Answered, Control
    <3>2. done = {} /\ \A w \in Worker : wpc[w] = "off"
      BY <2>1 DEF Control, Placement
    <3>3. coordinator' = "running"
      BY <1>3, <2>3 DEF FinishBegins
    <3>4. rolledBack' = [b \in Block |-> IF op = "Rollback" /\ b \in Staged
                                           THEN dispatch ELSE rolledBack[b]]
      BY <1>3, <2>3 DEF FinishBegins
    <3>5. Invalidates(op) => \A l \in Locality : \A b \in Staged : cache[l][b] = 0
      BY <2>1, <3>1 DEF Caching, ProbedCache
    <3>6. RollbackTokens'
      BY <2>1, <3>3, <3>4 DEF Caching, RollbackTokens
    <3>7. NoCacheAcrossRollback'
      BY <2>1, <3>4, <3>5 DEF Caching, NoCacheAcrossRollback, Invalidates
    <3>8. ProbedCache'
      BY <2>1, <3>3 DEF Caching, ProbedCache
    <3>9. SavedCaches'
      BY <2>1, <3>2, <3>3, <3>5 DEF Caching, SavedCaches, Invalidates
    <3>10. Affinity'
      BY <2>1, <3>1, <3>2, <3>3 DEF Caching, Affinity, Active, CachedWork
    <3> QED
      BY <3>6, <3>7, <3>8, <3>9, <3>10 DEF Caching
  <2> QED
    BY <2>2, <2>3
<1>4. CASE FinishRuns
  <2>1. /\ coordinator = "running" /\ coordinator' = "idle" /\ Staged' = Staged
        /\ UNCHANGED <<dispatch, op, cachedBlocks, cache, done, rolledBack>>
    BY <1>4 DEF FinishRuns, Staged, AtLevel, stageVars, executorVars, workerVars
  <2>2. RollbackTokens' /\ NoCacheAcrossRollback' /\ SavedCaches' /\ Affinity'
    BY <2>1 DEF Caching, RollbackTokens, NoCacheAcrossRollback, SavedCaches, Affinity
  <2>3. ProbedCache'
    <3>1. CASE Refused
      <4>1. UNCHANGED <<cacheOwners, probed>>
        BY <1>4, <3>1 DEF FinishRuns
      <4> QED
        BY <2>1, <4>1 DEF Caching, ProbedCache
    <3>2. CASE ~Refused
      <4>1. /\ cacheOwners' = [b \in Block |-> MergedOwner(b)]
            /\ probed' = [b \in Block |-> IF op = "Probe" /\ b \in Staged
                                             THEN dispatch ELSE probed[b]]
        BY <1>4, <3>2 DEF FinishRuns
      <4>2. outcome' \in {"ok", "incomplete"} /\ done' = done
        BY <1>4, <3>2 DEF FinishRuns, workerVars
      <4>3. done = Staged
        BY <2>1, <4>2 DEF Accounting
      <4>4. ASSUME NEW b \in Block, probed'[b] # 0
            PROVE  cache[cacheOwners'[b]][b] = probed'[b]
        <5>1. CASE \E l \in Locality : b \in cachedBlocks[l]
          <6>1. PICK l \in Locality : MergedOwner(b) = l /\ b \in cachedBlocks[l]
            BY <5>1 DEF MergedOwner
          <6>2. op = "Probe" /\ b \in Staged /\ cache[l][b] = dispatch
            BY <2>1, <4>3, <6>1 DEF Caching, SavedCaches
          <6> QED
            BY <4>1, <6>1, <6>2
        <5>2. CASE ~\E l \in Locality : b \in cachedBlocks[l]
          <6>1. MergedOwner(b) = cacheOwners[b]
            BY <5>2 DEF MergedOwner
          <6>2. ~(op = "Probe" /\ b \in Staged)
            BY <2>1, <4>3, <5>2 DEF Caching, SavedCaches
          <6> QED
            BY <4>1, <4>4, <6>1, <6>2 DEF Caching, ProbedCache
        <5> QED
          BY <5>1, <5>2
      <4> QED
        BY <2>1, <4>4 DEF ProbedCache
    <3> QED
      BY <3>1, <3>2
  <2> QED
    BY <2>2, <2>3 DEF Caching
<1>5. ASSUME NEW l \in Locality, Begin(l) PROVE Caching'
  <2>0. coordinator = "beginning"
    BY <1>5 DEF Begin, Control
  <2>1. /\ coordinator = "beginning" /\ coordinator' = "beginning" /\ Staged' = Staged
        /\ UNCHANGED <<dispatch, op, cachedBlocks, done, cacheOwners, probed, rolledBack>>
    BY <1>5, <2>0 DEF Begin, Staged, AtLevel, stageVars, workerVars
  <2>2. request' = [request EXCEPT ![l] = "begun"]
    BY <1>5 DEF Begin
  <2>3. cache' = [cache EXCEPT ![l] =
          [b \in Block |-> IF Invalidates(op) /\ b \in Staged THEN 0 ELSE cache[l][b]]]
    BY <1>5 DEF Begin
  <2>4. \A m \in Locality, b \in Block :
          /\ cache'[m][b] \in {0, cache[m][b]}
          /\ ~(Invalidates(op) /\ b \in Staged) => cache'[m][b] = cache[m][b]
    BY <2>3
  <2>5. Invalidates(op) => \A b \in Staged : cache'[l][b] = 0
    BY <2>3, LevelBlocks DEF Staged
  <2>6. done = {}
    BY <2>1 DEF Placement
  <2>7. RollbackTokens'
    BY <2>1 DEF Caching, RollbackTokens
  <2>8. NoCacheAcrossRollback'
    BY <2>1, <2>4 DEF Caching, NoCacheAcrossRollback
  <2>9. ProbedCache'
    <3>1. \A b \in Block : probed[b] # 0 => cache'[cacheOwners[b]][b] = probed[b]
      BY <2>1, <2>4 DEF Caching, ProbedCache
    <3>2. Invalidates(op) => /\ \A b \in Staged : probed[b] = 0
                             /\ \A m \in Locality : request'[m] = "begun" =>
                                  \A b \in Staged : cache'[m][b] = 0
      <4>1. Staged \subseteq Block
        BY LevelBlocks DEF Staged
      <4> QED
        BY <2>1, <2>2, <2>4, <2>5, <4>1 DEF Caching, ProbedCache
    <3> QED
      BY <2>1, <3>1, <3>2 DEF ProbedCache
  <2>10. SavedCaches'
    BY <2>1, <2>6 DEF Caching, SavedCaches
  <2>11. Affinity'
    BY <2>1 DEF Caching, Affinity
  <2> QED
    BY <2>7, <2>8, <2>9, <2>10, <2>11 DEF Caching
<1>6. ASSUME NEW l \in Locality, BeginFails(l) PROVE Caching'
  <2>0. coordinator = "beginning"
    BY <1>6 DEF BeginFails, Control
  <2>1. /\ coordinator = "beginning" /\ coordinator' = "beginning" /\ Staged' = Staged
        /\ UNCHANGED <<dispatch, op, cachedBlocks, done, cacheOwners, probed, rolledBack>>
    BY <1>6, <2>0 DEF BeginFails, Staged, AtLevel, stageVars, workerVars
  <2>2. \A m \in Locality : request'[m] = "begun" => request[m] = "begun"
    BY <1>6 DEF BeginFails
  <2>3. \A m \in Locality, b \in Block :
          /\ cache'[m][b] \in {0, cache[m][b]}
          /\ ~(Invalidates(op) /\ b \in Staged) => cache'[m][b] = cache[m][b]
    <3>1. CASE cache' = cache
      BY <3>1
    <3>2. CASE cache' # cache
      <4>1. PICK dropped \in SUBSET Staged : cache' = [cache EXCEPT ![l] =
              [b \in Block |-> IF Invalidates(op) /\ b \in dropped THEN 0 ELSE cache[l][b]]]
        BY <1>6, <3>2 DEF BeginFails
      <4> QED
        BY <4>1
    <3> QED
      BY <3>1, <3>2
  <2>4. done = {}
    BY <2>1 DEF Placement
  <2>5. RollbackTokens'
    BY <2>1 DEF Caching, RollbackTokens
  <2>6. NoCacheAcrossRollback'
    BY <2>1, <2>3 DEF Caching, NoCacheAcrossRollback
  <2>7. ProbedCache'
    <3>1. \A b \in Block : probed[b] # 0 => cache'[cacheOwners[b]][b] = probed[b]
      BY <2>1, <2>3 DEF Caching, ProbedCache
    <3>2. Staged \subseteq Block
      BY LevelBlocks DEF Staged
    <3>3. Invalidates(op) => /\ \A b \in Staged : probed[b] = 0
                             /\ \A m \in Locality : request'[m] = "begun" =>
                                  \A b \in Staged : cache'[m][b] = 0
      BY <2>1, <2>2, <2>3, <3>2 DEF Caching, ProbedCache
    <3> QED
      BY <2>1, <3>1, <3>3 DEF ProbedCache
  <2>8. SavedCaches'
    BY <2>1, <2>4 DEF Caching, SavedCaches
  <2>9. Affinity'
    BY <2>1 DEF Caching, Affinity
  <2> QED
    BY <2>5, <2>6, <2>7, <2>8, <2>9 DEF Caching
<1>7. ASSUME NEW l \in Locality, Run(l) \/ FinishRun(l) PROVE Caching'
  <2>0. coordinator = "running"
    BY <1>7 DEF Run, FinishRun, Control
  <2>1. /\ coordinator = "running" /\ coordinator' = "running" /\ Staged' = Staged
        /\ UNCHANGED <<dispatch, op, cachedBlocks, done, cacheOwners, cache, probed, rolledBack>>
    BY <1>7, <2>0 DEF Run, FinishRun, Staged, AtLevel, stageVars, cacheVars
  <2>2. UNCHANGED <<queue, held>>
    BY <1>7 DEF Run, FinishRun
  <2>3. \A w \in Worker : wpc'[w] = "busy" => wpc[w] = "busy"
    BY <1>7 DEF Run, FinishRun
  <2>4. \A w \in Worker : wpc'[w] # "off" =>
          \/ wpc[w] # "off" /\ distance'[w] = distance[w]
          \/ distance'[w] = 0
    BY <1>7 DEF Run, FinishRun
  <2>5. RollbackTokens' /\ NoCacheAcrossRollback' /\ SavedCaches'
    BY <2>1 DEF Caching, RollbackTokens, NoCacheAcrossRollback, SavedCaches
  <2>6. ProbedCache'
    BY <2>1 DEF Caching, ProbedCache
  <2>7. Affinity'
    BY <2>1, <2>2, <2>3, <2>4 DEF Caching, Affinity
  <2> QED
    BY <2>5, <2>6, <2>7 DEF Caching
<1>8. ASSUME NEW w \in Worker, Claim(w) PROVE Caching'
  <2>1. coordinator = "running" /\ Donor(w) \in Locality /\ wpc[w] = "claim"
    BY <1>8, RingMember DEF Claim, Control
  <2>2. PICK b \in queue[Donor(w)] : /\ held' = [held EXCEPT ![w] = b]
                                     /\ queue' = [queue EXCEPT ![Donor(w)] = @ \ {b}]
    BY <1>8 DEF Claim, Unclaimed
  <2>3. /\ Staged' = Staged /\ UNCHANGED <<coordinator, dispatch, op, request, cachedBlocks>>
        /\ UNCHANGED <<distance, done, cacheOwners, cache, probed, rolledBack>>
    BY <1>8 DEF Claim, Staged, AtLevel, stageVars, cacheVars
  <2>4. wpc' = [wpc EXCEPT ![w] = "busy"]
    BY <1>8 DEF Claim
  <2>5. RollbackTokens' /\ NoCacheAcrossRollback' /\ SavedCaches'
    BY <2>3 DEF Caching, RollbackTokens, NoCacheAcrossRollback, SavedCaches
  <2>6. ProbedCache'
    BY <2>3 DEF Caching, ProbedCache
  <2>7. Affinity'
    <3>1. \A m \in Locality : queue'[m] \subseteq queue[m]
      BY <2>1, <2>2
    <3>2. op = "CachedAdvance" => cacheOwners[b] = Home[w]
      <4>1. op = "CachedAdvance" => distance[w] = 0
        BY <2>1 DEF Caching, Affinity
      <4> QED
        BY <2>1, <2>2, <4>1, OwnRing DEF Caching, Affinity
    <3>3. \A u \in Worker : wpc'[u] # "off" => wpc[u] # "off"
      BY <2>1, <2>4
    <3>4. op = "CachedAdvance" => \A u \in Worker : wpc'[u] = "busy" => cacheOwners[held'[u]] = Home[u]
      BY <2>1, <2>2, <2>4, <3>2 DEF Caching, Affinity
    <3> QED
      BY <2>1, <2>3, <3>1, <3>3, <3>4 DEF Caching, Affinity
  <2> QED
    BY <2>5, <2>6, <2>7 DEF Caching
<1>9. ASSUME NEW w \in Worker, QueueEmpty(w) PROVE Caching'
  <2>1. coordinator = "running" /\ wpc[w] = "claim" /\ request[Home[w]] = "running"
    BY <1>9 DEF QueueEmpty, Control
  <2>2. /\ UNCHANGED <<coordinator, dispatch, op, level, cacheVars>>
        /\ UNCHANGED <<request, queue, cachedBlocks, done>>
    BY <1>9 DEF QueueEmpty, stageVars, executorVars
  <2>3. op = "CachedAdvance" => ~MaySteal(w)
    BY <2>1 DEF Control, MaySteal
  <2>4. op = "CachedAdvance" => distance' = distance
    BY <1>9, <2>3 DEF QueueEmpty
  <2>5. \A u \in Worker : /\ wpc'[u] = "busy" => wpc[u] = "busy" /\ held'[u] = held[u]
                          /\ wpc'[u] # "off" => wpc[u] # "off"
    BY <1>9 DEF QueueEmpty
  <2>6. \A u \in Worker : wpc'[u] = "busy" => wpc[u] = "busy" /\ held'[u] = held[u]
    BY <2>5
  <2>7. \A u \in Worker : wpc'[u] # "off" =>
          wpc[u] # "off" /\ (distance[u] = 0 /\ op = "CachedAdvance" => distance'[u] = 0)
    BY <2>4, <2>5
  <2> HIDE Shapes, CacheShapes
  <2> QED
    BY <2>1, <2>2, <2>6, <2>7, CachingFrame
<1>10. ASSUME NEW w \in Worker, ClaimThrows(w) \/ ProcessThrows(w) PROVE Caching'
  <2>1. coordinator = "running" /\ wpc[w] # "off"
    BY <1>10 DEF ClaimThrows, ProcessThrows, Control
  <2>2. /\ UNCHANGED <<coordinator, dispatch, op, level, cacheVars>>
        /\ UNCHANGED <<request, queue, cachedBlocks, done>>
    BY <1>10 DEF ClaimThrows, ProcessThrows, stageVars, executorVars
  <2>3. \A u \in Worker : /\ wpc'[u] = "busy" => wpc[u] = "busy" /\ held'[u] = held[u]
                          /\ wpc'[u] # "off" => wpc[u] # "off"
    BY <1>10 DEF ClaimThrows, ProcessThrows
  <2>4. distance' = distance
    BY <1>10 DEF ClaimThrows, ProcessThrows
  <2>5. \A u \in Worker : wpc'[u] = "busy" => wpc[u] = "busy" /\ held'[u] = held[u]
    BY <2>3
  <2>6. \A u \in Worker : wpc'[u] # "off" =>
          wpc[u] # "off" /\ (distance[u] = 0 /\ op = "CachedAdvance" => distance'[u] = 0)
    BY <2>3, <2>4
  <2> HIDE Shapes, CacheShapes
  <2> QED
    BY <2>1, <2>2, <2>5, <2>6, CachingFrame
<1>11. ASSUME NEW w \in Worker, Complete(w) PROVE Caching'
  <2> DEFINE l == Home[w]
             b == held[w]
  <2>1. /\ coordinator = "running" /\ coordinator' = "running" /\ Staged' = Staged
        /\ UNCHANGED <<dispatch, op, queue, distance, cacheOwners, rolledBack>>
    BY <1>11 DEF Complete, Control, Staged, AtLevel, stageVars
  <2>2. l \in Locality /\ b \in Block /\ b \in Staged \ done /\ wpc[w] = "busy"
    BY <1>11, <2>1 DEF Complete, Control, Placement
  <2>3. /\ done' = done \cup {b}
        /\ \A u \in Worker : wpc'[u] = "busy" => wpc[u] = "busy" /\ held'[u] = held[u]
        /\ \A u \in Worker : wpc'[u] # "off" => wpc[u] # "off"
    BY <1>11 DEF Complete
  <2>4. RollbackTokens'
    BY <2>1 DEF Caching, RollbackTokens
  <2>5. CASE op = "Probe"
    <3>1. /\ cache' = [cache EXCEPT ![l][b] = dispatch]
          /\ cachedBlocks' = [cachedBlocks EXCEPT ![l] = @ \cup {b}]
          /\ probed' = probed
      BY <1>11, <2>5 DEF Complete, UpdateCache
    <3>2. \A m \in Locality : cache[m][b] = 0
      BY <2>1, <2>2, <2>5 DEF Caching, SavedCaches
    <3>3. probed[b] = 0
      BY <2>2, <3>2 DEF Caching, ProbedCache
    <3>4. \A m \in Locality, c \in Block :
            /\ c # b => cache'[m][c] = cache[m][c]
            /\ m # l => cache'[m][c] = cache[m][c]
      BY <2>2, <3>1
    <3>5. cache'[l][b] = dispatch
      BY <2>2, <3>1
    <3>6. ProbedCache'
      BY <2>1, <3>1, <3>3, <3>4 DEF Caching, ProbedCache
    <3>7. NoCacheAcrossRollback'
      <4>1. rolledBack[b] < dispatch
        BY <2>1, <2>2, <2>5 DEF Caching, RollbackTokens
      <4>2. ASSUME NEW m \in Locality, NEW c \in Block, cache'[m][c] # 0
            PROVE  /\ cache'[m][c] > rolledBack[c]
                   /\ \A k \in Locality \ {m} : cache'[k][c] = 0
        <5>1. CASE c = b
          <6>1. m = l
            BY <3>2, <3>4, <4>2, <5>1, <2>2
          <6> QED
            BY <2>2, <3>2, <3>4, <3>5, <4>1, <5>1, <6>1
        <5>2. CASE c # b
          BY <3>4, <4>2, <5>2 DEF Caching, NoCacheAcrossRollback
        <5> QED
          BY <5>1, <5>2
      <4> QED
        BY <2>1, <4>2 DEF NoCacheAcrossRollback
    <3>8. SavedCaches'
      <4>1. \A m \in Locality, c \in Block :
              /\ c \in cachedBlocks[m] => c \in cachedBlocks'[m]
              /\ c \in cachedBlocks'[m] => c \in cachedBlocks[m] \/ (c = b /\ m = l)
        BY <2>2, <3>1
      <4>2. b \in cachedBlocks'[l]
        BY <2>2, <3>1
      <4>3. Staged \subseteq Block
        BY LevelBlocks DEF Staged
      <4>4. \A c \in Staged : /\ c \in done' => \E m \in Locality : c \in cachedBlocks'[m]
                              /\ c \notin done' => \A m \in Locality : cache'[m][c] = 0
        BY <2>1, <2>2, <2>3, <2>5, <3>4, <4>1, <4>2, <4>3 DEF Caching, SavedCaches
      <4>5. \A m \in Locality : cachedBlocks'[m] \subseteq Block
        BY <2>2, <3>1
      <4>6. ASSUME NEW m \in Locality, NEW c \in cachedBlocks'[m]
            PROVE  c \in done' /\ cache'[m][c] = dispatch
        <5>1. CASE c = b /\ m = l
          BY <2>3, <3>5, <5>1
        <5>2. CASE ~(c = b /\ m = l)
          <6>1. c \in Block /\ c \in cachedBlocks[m]
            BY <4>1, <4>5, <5>2
          <6>2. c \in done /\ cache[m][c] = dispatch
            BY <2>1, <6>1 DEF Caching, SavedCaches
          <6> QED
            BY <2>2, <2>3, <3>4, <5>2, <6>1, <6>2
        <5> QED
          BY <5>1, <5>2
      <4>7. op' = "Probe" /\ dispatch' = dispatch /\ coordinator' = "running"
        BY <2>1, <2>5
      <4> HIDE DEF l, b
      <4> QED
        BY <2>1, <4>4, <4>6, <4>7 DEF SavedCaches
    <3>9. Affinity'
      BY <2>1, <2>5 DEF Affinity
    <3> QED
      BY <2>4, <3>6, <3>7, <3>8, <3>9 DEF Caching
  <2>6. CASE op \in {"Advance", "CachedAdvance"}
    <3>1. /\ cache' = [cache EXCEPT ![l][b] = 0]
          /\ cachedBlocks' = cachedBlocks
          /\ probed' = [probed EXCEPT ![b] = 0]
      BY <1>11, <2>6 DEF Complete, UpdateCache
    <3>2. \A m \in Locality, c \in Block :
            /\ cache'[m][c] \in {0, cache[m][c]}
            /\ c # b => cache'[m][c] = cache[m][c]
      BY <2>2, <3>1
    <3>3. ProbedCache'
      BY <2>1, <2>2, <3>1, <3>2 DEF Caching, ProbedCache
    <3>4. NoCacheAcrossRollback'
      BY <2>1, <3>2 DEF Caching, NoCacheAcrossRollback
    <3>5. SavedCaches'
      BY <2>1, <2>6, <3>1 DEF Caching, SavedCaches
    <3>6. Affinity'
      <4>1. Staged \subseteq Block
        BY LevelBlocks DEF Staged
      <4>2. op = "CachedAdvance" => \A c \in Staged \ done' : probed'[c] # 0
        BY <2>1, <2>3, <3>1, <4>1 DEF Caching, Affinity
      <4>3. op = "CachedAdvance" => \A u \in Worker : wpc'[u] = "busy" => cacheOwners[held'[u]] = Home[u]
        BY <2>1, <2>3 DEF Caching, Affinity
      <4>4. op = "CachedAdvance" => \A u \in Worker : wpc'[u] # "off" => distance[u] = 0
        BY <2>1, <2>3 DEF Caching, Affinity
      <4> QED
        BY <2>1, <4>2, <4>3, <4>4 DEF Caching, Affinity
    <3> QED
      BY <2>4, <3>3, <3>4, <3>5, <3>6 DEF Caching
  <2>7. CASE op \notin {"Probe", "Advance", "CachedAdvance"}
    <3>1. UNCHANGED <<cache, cachedBlocks, probed>>
      BY <1>11, <2>7 DEF Complete, UpdateCache
    <3>2. ProbedCache' /\ NoCacheAcrossRollback'
      BY <2>1, <3>1 DEF Caching, ProbedCache, NoCacheAcrossRollback
    <3>3. SavedCaches' /\ Affinity'
      BY <2>1, <2>7, <3>1 DEF Caching, SavedCaches, Affinity
    <3> QED
      BY <2>4, <3>2, <3>3 DEF Caching
  <2> QED
    BY <2>5, <2>6, <2>7
<1>12. CASE Finished \/ UNCHANGED vars
  <2>1. /\ UNCHANGED <<coordinator, dispatch, op, level, cacheVars>>
        /\ UNCHANGED <<request, queue, cachedBlocks, done, wpc, held, distance>>
    BY <1>12 DEF Finished, vars, stageVars, executorVars, workerVars
  <2>2. Staged' = Staged
    BY <2>1 DEF Staged, AtLevel
  <2>3. RollbackTokens' /\ NoCacheAcrossRollback' /\ ProbedCache'
    BY <2>1, <2>2 DEF Caching, RollbackTokens, NoCacheAcrossRollback, ProbedCache, cacheVars
  <2>4. SavedCaches' /\ Affinity'
    BY <2>1, <2>2 DEF Caching, SavedCaches, Affinity, cacheVars
  <2> QED
    BY <2>3, <2>4 DEF Caching
<1> QED
  BY <1>1, <1>2, <1>3, <1>4, <1>5, <1>6, <1>7, <1>8, <1>9, <1>10, <1>11, <1>12
  DEF Next, ExecutorStep, WorkerStep
-----------------------------------------------------------------------------
(* The invariant is inductive: phase(), the executors and the workers keep   *)
(* it whatever throws, whatever is stolen and in whatever order.             *)
LEMMA Inductive == IInv /\ [Next]_vars => IInv'
<1> SUFFICES ASSUME IInv, [Next]_vars PROVE IInv'
  OBVIOUS
<1>1. TypeOK' /\ Control'
  BY TypeStep, ControlStep DEF IInv
<1>2. Placement'
  BY PlacementStep DEF IInv
<1>3. Accounting'
  BY AccountingStep DEF IInv
<1>4. Caching'
  BY <1>3, CachingStep DEF IInv
<1> QED
  BY <1>1, <1>2, <1>3, <1>4 DEF IInv

(* The inductive invariant holds for ever. *)
LEMMA Invariance == Spec => []IInv
<1>1. Init => IInv
  BY TypeInit, ControlInit, PlacementInit, AccountingInit, CachingInit DEF IInv
<1> QED
  BY <1>1, Inductive, PTL DEF Spec

(* Every variable of the coordinator, the executors and the workers keeps    *)
(* its type, the ring distance of a thief its range among them.              *)
THEOREM TypeCorrect == Spec => []TypeOK
<1>1. IInv => TypeOK
  BY DEF IInv
<1> QED
  BY <1>1, Invariance, PTL

(* Two worker tasks never hold one block, and no block is on two queues or   *)
(* processed again, for every assignment of blocks and every steal.          *)
THEOREM ExclusiveTasks == Spec => []ExclusiveTask
<1>1. IInv => ExclusiveTask
  BY DEF IInv, Placement, ExclusiveTask
<1> QED
  BY <1>1, Invariance, PTL

(* When phase() has returned or thrown no worker of the stage is left, and a *)
(* running stage has its token at every executor: neither token check of     *)
(* localExecutor.cpp can fail.                                               *)
THEOREM NoStaleWorkEver == Spec => []NoStaleWork
<1>1. IInv => NoStaleWork
  BY DEF IInv, Control, NoStaleWork
<1> QED
  BY <1>1, Invariance, PTL

(* A stage that returns has processed every block of its level, and phase()  *)
(* never throws its task-count error.                                        *)
THEOREM StagesComplete == Spec => []CompleteStage
<1>1. IInv => CompleteStage
  BY DEF IInv, Accounting, CompleteStage
<1> QED
  BY <1>1, Invariance, PTL

(* The cached corrector of a block runs at the locality that holds the halo  *)
(* cache of the block's last completed probe.                                *)
THEOREM CorrectorFindsItsProbe == Spec => []CorrectorFindsProbe
<1>1. IInv => CorrectorFindsProbe
  <2> SUFFICES ASSUME IInv, NEW w \in Worker, wpc[w] = "busy", op = "CachedAdvance"
               PROVE  probed[held[w]] # 0 /\ cache[Home[w]][held[w]] = probed[held[w]]
    BY DEF CorrectorFindsProbe
  <2>1. coordinator = "running" /\ held[w] \in Block
    BY DEF IInv, Control
  <2>2. held[w] \in Staged \ done
    BY <2>1 DEF IInv, Placement
  <2>3. probed[held[w]] # 0 /\ cacheOwners[held[w]] = Home[w]
    BY <2>1, <2>2 DEF IInv, Caching, Affinity
  <2> QED
    BY <2>1, <2>3 DEF IInv, Caching, ProbedCache
<1> QED
  BY <1>1, Invariance, PTL

(* A halo cache is at one locality only and is younger than the last         *)
(* rollback of its block.                                                    *)
THEOREM NoCacheSurvivesRollback == Spec => []NoCacheAcrossRollback
<1>1. IInv => NoCacheAcrossRollback
  BY DEF IInv, Caching
<1> QED
  BY <1>1, Invariance, PTL
-----------------------------------------------------------------------------
(* Every step of a stage is a step of the contract, or none.                 *)
LEMMA ContractStep == IInv /\ IInv' /\ [Next]_vars => [Contract!Next]_(Contract!vars)
<1> SUFFICES ASSUME IInv, IInv', [Next]_vars PROVE [Contract!Next]_(Contract!vars)
  OBVIOUS
<1> USE DEF Contract!vars
<1>1. ASSUME NEW o \in Operation, NEW lev \in Level, Dispatch(o, lev) PROVE Contract!Next
  <2>1. Staged' \ done' = AtLevel(lev) /\ AtLevel(lev) \subseteq Block
    BY <1>1, LevelBlocks DEF Dispatch, Staged, AtLevel
  <2>2. coordinator = "idle" /\ coordinator' = "beginning" /\ outcome' = "none"
    BY <1>1 DEF Dispatch
  <2>3. Contract!Open(AtLevel(lev))
    BY <2>1, <2>2 DEF Contract!Open
  <2> QED
    BY <2>1, <2>3 DEF Contract!Next
<1>2. CASE RejectHaloTime
  <2>1. Staged' = Staged /\ done' = done /\ coordinator = "idle" /\ coordinator' = "idle"
    BY <1>2 DEF RejectHaloTime, Staged, AtLevel, workerVars
  <2>2. Contract!Reject
    BY <1>2, <2>1 DEF RejectHaloTime, Contract!Reject
  <2> QED
    BY <2>2 DEF Contract!Next
<1>3. CASE FinishBegins
  <2>1. Staged' = Staged /\ done' = done /\ coordinator = "beginning"
    BY <1>3 DEF FinishBegins, Staged, AtLevel, stageVars, workerVars
  <2>2. CASE Refused
    <3>1. Contract!Throw
      BY <1>3, <2>1, <2>2 DEF FinishBegins, Contract!Throw
    <3> QED
      BY <3>1 DEF Contract!Next
  <2>3. CASE ~Refused
    <3>1. coordinator' = "running" /\ outcome' = outcome
      BY <1>3, <2>3 DEF FinishBegins
    <3> QED
      BY <2>1, <3>1
  <2> QED
    BY <2>2, <2>3
<1>4. CASE FinishRuns
  <2>1. /\ Staged' = Staged /\ done' = done
        /\ coordinator = "running" /\ coordinator' = "idle"
    BY <1>4 DEF FinishRuns, Staged, AtLevel, stageVars, workerVars
  <2>2. CASE Refused
    <3>1. Contract!Throw
      BY <1>4, <2>1, <2>2 DEF FinishRuns, Contract!Throw
    <3> QED
      BY <3>1 DEF Contract!Next
  <2>3. CASE ~Refused
    <3>1. outcome' \in {"ok", "incomplete"}
      BY <1>4, <2>3 DEF FinishRuns
    <3>2. outcome' = "ok" /\ done' = Staged'
      BY <3>1 DEF IInv, Accounting
    <3>3. Contract!Return
      BY <2>1, <3>2 DEF Contract!Return
    <3> QED
      BY <3>3 DEF Contract!Next
  <2> QED
    BY <2>2, <2>3
<1>5. ASSUME NEW l \in Locality, ExecutorStep(l) PROVE UNCHANGED Contract!vars
  BY <1>5 DEF ExecutorStep, Begin, BeginFails, Run, FinishRun, Staged, AtLevel, stageVars, workerVars
<1>6. ASSUME NEW w \in Worker, Complete(w) PROVE Contract!Next
  <2>1. coordinator = "running" /\ wpc[w] = "busy" /\ held[w] \in Block
    BY <1>6 DEF Complete, IInv, Control
  <2>2. held[w] \in Staged \ done
    BY <2>1 DEF IInv, Placement
  <2>3. /\ Staged' = Staged /\ done' = done \cup {held[w]}
        /\ UNCHANGED <<coordinator, outcome>>
    BY <1>6 DEF Complete, Staged, AtLevel, stageVars
  <2>4. Contract!Process(held[w])
    BY <2>1, <2>2, <2>3 DEF Contract!Process
  <2> QED
    BY <2>1, <2>4 DEF Contract!Next
<1>7. ASSUME NEW w \in Worker, Claim(w) \/ QueueEmpty(w) \/ ClaimThrows(w) \/ ProcessThrows(w)
      PROVE  UNCHANGED Contract!vars
  BY <1>7 DEF Claim, QueueEmpty, ClaimThrows, ProcessThrows, Staged, AtLevel, stageVars
<1>8. CASE Finished \/ UNCHANGED vars
  BY <1>8 DEF Finished, vars, Staged, AtLevel, stageVars, workerVars
<1> QED
  BY <1>1, <1>2, <1>3, <1>4, <1>5, <1>6, <1>7, <1>8 DEF Next, WorkerStep

(* phase() and its executors keep the contract the runtime builds on: every  *)
(* block of the stage is processed at most once, and the call returns        *)
(* normally only when none is left.                                          *)
THEOREM StageKeepsContract == Spec => ImplementsContract
<1>1. Init => Contract!Init
  BY LevelBlocks DEF Init, Contract!Init, Staged
<1> QED
  BY <1>1, ContractStep, Invariance, PTL DEF Spec, ImplementsContract, Contract!Spec
=============================================================================
