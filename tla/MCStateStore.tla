---------------------------- MODULE MCStateStore ----------------------------
(***************************************************************************)
(* Notifications with three processes, so that a third meets the database     *)
(* that two others race for, and a file of two notes.                      *)
(***************************************************************************)
EXTENDS Notifications

=============================================================================
