--------------------------- MODULE RequestPromise ---------------------------
(***************************************************************************)
(* What a caller of NetworkClient::get may rely on: every request it makes *)
(* is answered by exactly one signal, requestFinished or requestFailed,    *)
(* however often it was tried.  Only the end of the program takes the      *)
(* answer away.                                                            *)
(***************************************************************************)
EXTENDS Integers, Sequences

CONSTANT MaxRequests     \* bound on the requests of a behaviour

VARIABLES
    made,        \* how many requests were made; they are numbered from 1
    signals,     \* the signals emitted for each request
    alive        \* whether the program still runs

vars == <<made, signals, alive>>

Ids == 1..MaxRequests

Init ==
    /\ made = 0
    /\ signals = [id \in Ids |-> <<>>]
    /\ alive = TRUE

Make ==
    /\ alive
    /\ made < MaxRequests
    /\ made' = made + 1
    /\ UNCHANGED <<signals, alive>>

Answer(id) ==
    /\ alive
    /\ id <= made
    /\ signals[id] = <<>>
    /\ \E s \in {"requestFinished", "requestFailed"} :
          signals' = [signals EXCEPT ![id] = <<s>>]
    /\ UNCHANGED <<made, alive>>

Die ==
    /\ alive
    /\ alive' = FALSE
    /\ UNCHANGED <<made, signals>>

Next == Make \/ (\E id \in Ids : Answer(id)) \/ Die

Spec == Init /\ [][Next]_vars

FairSpec == Spec /\ \A id \in Ids : WF_vars(Answer(id))

=============================================================================
