-------------------------- MODULE IntervalContract --------------------------
(***************************************************************************)
(* What Runtime::advance promises on a refined mesh, and nothing about how *)
(* levels subcycle: the published fields, the clock, the boundary account  *)
(* and the step statistics move together, at one instant, when the whole   *)
(* interval has succeeded; a failed interval changes none of them.  Only a *)
(* failed rollback breaks the promise.                                     *)
(***************************************************************************)
EXTENDS Integers

VARIABLES
  spatial,   \* the occupied spatial levels, fixed during an interval
  clock,     \* the published time
  state,     \* per level, the time and the kind of the published fields
  boundary,  \* per level, the time for which boundary transport is booked
  steps,     \* per level, SchedulingStatistics::levelSteps
  lost       \* has a rollback failed?

vars == <<spatial, clock, state, boundary, steps, lost>>

Settled(t) == [s \in spatial |-> [at |-> t, kind |-> "state"]]

Init ==
  /\ clock = 0 /\ state = Settled(0) /\ lost = FALSE
  /\ boundary = [s \in spatial |-> 0] /\ steps = [s \in spatial |-> 0]

(* Publication: every level is at the new time, its boundary account covers  *)
(* the interval, and it took at least one step.                            *)
Publish ==
  /\ ~lost
  /\ clock' > clock
  /\ state' = Settled(clock')
  /\ boundary' = [s \in spatial |-> clock']
  /\ \A s \in spatial : steps'[s] > steps[s]
  /\ UNCHANGED <<spatial, lost>>

Lose == lost' = TRUE /\ UNCHANGED <<spatial, clock>>

Next == Publish \/ (~lost /\ Lose)

Spec == Init /\ [][Next]_vars
=============================================================================
