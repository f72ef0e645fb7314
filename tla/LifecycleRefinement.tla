------------------------- MODULE LifecycleRefinement ------------------------
(***************************************************************************)
(* The write path implements the decision register: every commit of a      *)
(* triage is one atomic decision on the register, every replay, refusal,   *)
(* lost connection and lock wait is a stutter.                             *)
(***************************************************************************)
EXTENDS Lifecycle

Register == INSTANCE DecisionRegister WITH
  row    <- up,
  live   <- {p \in Postings : app[p] # Nil},
  answer <- [k \in Keys |-> IF idem[k] = Nil THEN Nil ELSE idem[k].res],
  ask    <- gest

(* The triage commands, run concurrently with redelivery, loss and the     *)
(* other lanes, behave like the register ("Repeating the key returns the   *)
(* first result instead of applying twice", "a mismatch raises").          *)
RegisterSpec == Register!Spec
=============================================================================
