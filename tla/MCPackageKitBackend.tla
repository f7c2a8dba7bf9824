------------------------ MODULE MCPackageKitBackend ------------------------
(***************************************************************************)
(* PackageKitBackend with two operations and a query at a time, and a      *)
(* daemon that may go away: every message of one request meets every step  *)
(* of the others.                                                          *)
(***************************************************************************)
EXTENDS PackageKitBackend

=============================================================================
