-------------------------- MODULE MCKernelCommands --------------------------
(***************************************************************************)
(* KernelCommands with two commands at a time and two versions, one of     *)
(* them running: a removal meets a pin, an unpin, an install or another    *)
(* removal of the same version, from every database and every set of pins. *)
(***************************************************************************)
EXTENDS KernelCommands

=============================================================================
