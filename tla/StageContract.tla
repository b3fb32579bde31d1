--------------------------- MODULE StageContract ---------------------------
(***************************************************************************)
(* What Runtime::Impl::phase promises its caller, and nothing about how:   *)
(* a stage opens with the set of blocks it has to process, every block is  *)
(* processed at most once, and the call returns normally only when none is *)
(* left.  The runtime publishes a storage bank on the strength of this     *)
(* promise alone.                                                          *)
(***************************************************************************)
CONSTANT Block

VARIABLES
  status,   \* is a stage open?
  todo,     \* the blocks the open stage has still to process
  outcome   \* how the last stage ended

vars == <<status, todo, outcome>>

(* Before the first stage todo means nothing. *)
Init == status = "idle" /\ todo \in SUBSET Block /\ outcome = "none"

(* A stage opens on a set of blocks. *)
Open(S) ==
  /\ status = "idle"
  /\ status' = "open" /\ todo' = S /\ outcome' = "none"

(* One block's operation has run to its end; no other step processes it. *)
Process(b) ==
  /\ status = "open" /\ b \in todo
  /\ todo' = todo \ {b}
  /\ UNCHANGED <<status, outcome>>

(* The call returns: every block has been processed. *)
Return ==
  /\ status = "open" /\ todo = {}
  /\ status' = "idle" /\ outcome' = "ok"
  /\ UNCHANGED todo

(* The call throws; what was processed stays processed, nothing else runs. *)
Throw ==
  /\ status = "open"
  /\ status' = "idle" /\ outcome' = "threw"
  /\ UNCHANGED todo

(* The call throws before any executor hears of it. *)
Reject ==
  /\ status = "idle"
  /\ outcome' = "threw"
  /\ UNCHANGED <<status, todo>>

Next ==
  \/ \E S \in SUBSET Block : Open(S)
  \/ \E b \in Block : Process(b)
  \/ Return \/ Throw \/ Reject

Spec == Init /\ [][Next]_vars
=============================================================================
