-------------------------- MODULE MCBootOperations --------------------------
(***************************************************************************)
(* BootOperations with a manager that asks for two operations, so that the *)
(* second meets what the first has left behind, and a run of the CLI that  *)
(* shares the helper.                                                      *)
(***************************************************************************)
EXTENDS BootOperations

=============================================================================
