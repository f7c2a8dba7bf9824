--------------------------- MODULE SourcePromise ---------------------------
(***************************************************************************)
(* What KernelRepository relies on when it asks a source: every            *)
(* fetchAvailable() is answered by one fetchFinished or fetchFailed, at    *)
(* once or later, and no signal comes unasked.  The answer of a source     *)
(* whose program never started, or of a program that ended, is lost.       *)
(***************************************************************************)
EXTENDS Integers

VARIABLES
    activity,     \* what the source is doing, as KernelRefresh sees it
    answers       \* how many signals it has emitted

vars == <<activity, answers>>

Init == activity = "idle" /\ answers = 0

\* It is asked: it fails at once, or gets to work, or is already lost.
Ask ==
    /\ activity = "idle"
    /\ \/ answers' = answers + 1 /\ UNCHANGED activity
       \/ activity' \in {"running", "lost"} /\ UNCHANGED answers

Answer ==
    /\ activity = "running"
    /\ activity' = "idle"
    /\ answers' = answers + 1

Lose ==
    /\ activity = "running"
    /\ activity' = "lost"
    /\ UNCHANGED answers

Next == Ask \/ Answer \/ Lose

Spec == Init /\ [][Next]_vars

\* A source that is at work answers or is lost.
FairSpec == Spec /\ WF_vars(Answer \/ Lose)

=============================================================================
