--------------------------- MODULE BulkRefinement ---------------------------
(***************************************************************************)
(* app_set_triage_bulk implements the batch register: a commit is one step *)
(* of it, every turn of the loop, lock wait, conflict, abort and replay a  *)
(* stutter.                                                                *)
(***************************************************************************)
EXTENDS BulkTriage

Register == INSTANCE BatchRegister WITH row <- up, status <- app, answer <- idem, ask <- gest

(* Batches that overlap, deadlock, fail and are delivered twice behave as  *)
(* if each took effect in one step ("the batch is atomic", "The whole      *)
(* batch replays as a unit under one key"), and a key takes effect a       *)
(* second time only on rows sent without a version.                        *)
BatchRegisterSpec == Register!Spec
=============================================================================
