-------------------------- MODULE MCKernelRefresh --------------------------
(***************************************************************************)
(* KernelRefresh on a small machine: the Fedora source and two others, two *)
(* versions of which one is running, two refreshes.  Three sources let one *)
(* fail while another answers and a third is waited for, and share their   *)
(* versions with each other and with rpm; two refreshes let what the first *)
(* one left behind meet the second.                                        *)
(***************************************************************************)
EXTENDS KernelRefresh

=============================================================================
