-------------------------- MODULE MCNetworkClient --------------------------
(***************************************************************************)
(* NetworkClient with two requests at a time, one that may not be retried  *)
(* and retries up to two, and three places for replies: a retry finds a    *)
(* used address again while the timeout of an earlier attempt is armed.    *)
(***************************************************************************)
EXTENDS NetworkClient

=============================================================================
