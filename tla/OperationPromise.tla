-------------------------- MODULE OperationPromise --------------------------
(***************************************************************************)
(* What a caller of IPackageBackend may rely on: every operation it asks   *)
(* for ends in one operationFinished; it ends in success exactly when the  *)
(* packages were changed, and in failure only after an operationFailed;    *)
(* and nothing is emitted for it afterwards.  An operation whose daemon    *)
(* goes away is lost.                                                      *)
(***************************************************************************)

CONSTANT Operations

VARIABLES
    state,      \* where each operation is, as its caller knows it
    told,       \* whether an operationFailed was emitted for it
    changed     \* whether its packages were installed or removed

vars == <<state, told, changed>>

Init ==
    /\ state = [id \in Operations |-> "none"]
    /\ told = [id \in Operations |-> FALSE]
    /\ changed = [id \in Operations |-> FALSE]

Fail(id) ==
    /\ told' = [told EXCEPT ![id] = TRUE]
    /\ state' = [state EXCEPT ![id] = "failed"]

\* It is asked for, and may fail before the call returns.
Ask(id) ==
    /\ state[id] = "none"
    /\ \/ state' = [state EXCEPT ![id] = "open"] /\ UNCHANGED told
       \/ Fail(id)
    /\ UNCHANGED changed

Change(id) ==
    /\ state[id] = "open"
    /\ ~told[id]
    /\ changed' = [changed EXCEPT ![id] = TRUE]
    /\ UNCHANGED <<state, told>>

\* operationFailed, while the operation is not over.
Tell(id) ==
    /\ state[id] = "open"
    /\ ~changed[id]
    /\ told' = [told EXCEPT ![id] = TRUE]
    /\ UNCHANGED <<state, changed>>

\* operationFinished.
End(id) ==
    /\ state[id] = "open"
    /\ \/ changed[id] /\ state' = [state EXCEPT ![id] = "ok"] /\ UNCHANGED told
       \/ ~changed[id] /\ Fail(id)
    /\ UNCHANGED changed

Lose(id) ==
    /\ state[id] = "open"
    /\ state' = [state EXCEPT ![id] = "lost"]
    /\ UNCHANGED <<told, changed>>

Next == \E id \in Operations : Ask(id) \/ Change(id) \/ Tell(id) \/ End(id) \/ Lose(id)

Spec == Init /\ [][Next]_vars

FairSpec == Spec /\ \A id \in Operations : WF_vars(End(id) \/ Lose(id))

=============================================================================
