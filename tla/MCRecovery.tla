----------------------------- MODULE MCRecovery -----------------------------
(***************************************************************************)
(* Small instances of Recovery: its constants are those of MCEngine.       *)
(***************************************************************************)
EXTENDS MCEngine, Recovery
=============================================================================
