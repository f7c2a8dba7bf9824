---------------------------- MODULE BootPromise ----------------------------
(***************************************************************************)
(* What a client of the boot configuration may rely on: it has one         *)
(* operation open at a time, the configuration is changed at most once for *)
(* each, and an operation is reported as done only after its change.  An   *)
(* operation reported as failed may still take effect.                     *)
(***************************************************************************)
EXTENDS Naturals, Sequences

CONSTANTS Clients, Most

Calls == Clients \X (1..Most)

VARIABLES
    state,      \* where each operation is, as its client knows it
    applied     \* the operations that changed the configuration, in that order

vars == <<state, applied>>

Init ==
    /\ state = [call \in Calls |-> "none"]
    /\ applied = <<>>

Become(call, new) == state' = [state EXCEPT ![call] = new] /\ UNCHANGED applied

NoneOpen(client) == \A n \in 1..Most : state[<<client, n>>] # "open"

Ask(call) ==
    /\ state[call] = "none"
    /\ \/ NoneOpen(call[1]) /\ Become(call, "open")
       \/ Become(call, "failed")

Apply(call) ==
    /\ state[call] \notin {"none", "ok"}
    /\ \A i \in DOMAIN applied : applied[i] # call
    /\ applied' = Append(applied, call)
    /\ UNCHANGED state

End(call) ==
    /\ state[call] = "open"
    /\ \/ (\E i \in DOMAIN applied : applied[i] = call) /\ Become(call, "ok")
       \/ Become(call, "failed")

\* Nobody will report its end: its client is gone, or waits for a program that does
\* not run.
Lose(call) ==
    /\ \/ state[call] = "open"
       \/ state[call] = "none" /\ NoneOpen(call[1])
    /\ Become(call, "lost")

Next == \E call \in Calls : Ask(call) \/ Apply(call) \/ End(call) \/ Lose(call)

Spec == Init /\ [][Next]_vars

FairSpec == Spec /\ \A call \in Calls : WF_vars(End(call) \/ (state[call] = "open" /\ Lose(call)))

=============================================================================
