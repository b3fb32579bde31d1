----------------------------- MODULE BlockTree -----------------------------
(***************************************************************************)
(* The location of a block, a cell or a node in a 2^d-tree: [level, at],   *)
(* at being a sequence with one coordinate per axis.                       *)
(***************************************************************************)
EXTENDS Integers

(* The ancestor of c on level k. *)
Ancestor(c, k) == [level |-> k, at |-> [d \in DOMAIN c.at |-> c.at[d] \div 2^(c.level - k)]]
Parent(c) == Ancestor(c, c.level - 1)
Children(c) ==
  {[level |-> c.level + 1, at |-> [d \in DOMAIN c.at |-> 2 * c.at[d] + slot[d]]] :
     slot \in [DOMAIN c.at -> {0, 1}]}
=============================================================================
