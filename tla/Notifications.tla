--------------------------- MODULE Notifications ---------------------------
(***************************************************************************)
(* Notifier::notifyNewKernel (core/notify) over a state store that every   *)
(* process opens for itself.  A call looks its version up in the table     *)
(* seen_versions, marks it, sends the notification and notes in the row    *)
(* that it was sent; none of the results is looked at, and the process may *)
(* die between any two of these.  A process whose store could not be       *)
(* opened goes on and only sends.                                          *)
(*                                                                         *)
(* Nothing calls it yet: SPEC.md has the window and a future daemon do so  *)
(* after a refresh.  The rest of the store is as in StateStore.            *)
(***************************************************************************)
EXTENDS StateStore, Naturals, Sequences

CONSTANTS
    NewKernels,     \* the versions found, of one source
    MaxAnnounced    \* bound on the notifications of a version

ASSUME NotificationsAssumption == MaxAnnounced \in Nat

VARIABLES
    seen,       \* seen_versions: whether a version has its row, and what the row says
    call,       \* each process's call: its version and what it has yet to do
    announced,  \* how often a version was sent to the notification service
    mayRepeat   \* versions two callers looked for at once, or a statement failed for

notifying == <<seen, call, announced, mayRepeat>>

Idle == [version |-> "none", steps |-> <<>>]

NotificationsInit ==
    /\ Init
    /\ seen = [v \in NewKernels |-> "unseen"]
    /\ call = [p \in Processes |-> Idle]
    /\ announced = [v \in NewKernels |-> 0]
    /\ mayRepeat = {}

IsOpen(p) == pc[p] = "open"

\* Mutant: a version is marked when its notification has been sent.
Steps_SendFirst(p) ==
    IF IsOpen(p) THEN <<"sendNotification", "markSeen", "setNotified">>
                 ELSE <<"sendNotification">>

\* What a call that did not find its version has to do.
Steps(p) ==
    IF IsOpen(p) THEN <<"markSeen", "sendNotification", "setNotified">>
                 ELSE <<"sendNotification">>

Doing(p, step) == call[p].steps # <<>> /\ Head(call[p].steps) = step

Done(p) ==
    call' = [call EXCEPT ![p] = IF Len(@.steps) = 1 THEN Idle
                                ELSE [version |-> @.version, steps |-> Tail(@.steps)]]

\* Some call for v has looked and not yet marked.
Looking(v) == \E p \in Processes : call[p].version = v /\ Doing(p, "markSeen")

-----------------------------------------------------------------------------

\* seenVersions(): a query that fails returns no versions.
lookUp(p, v) ==
    /\ IsOpen(p) \/ pc[p] = "failed"
    /\ import[p] = "none"
    /\ call[p] = Idle
    /\ call' = [call EXCEPT ![p] = [version |-> v, steps |-> Steps(p)]]
    /\ \/ /\ IsOpen(p) /\ MayRead(p)
          /\ seen[v] = "unseen"
          /\ mayRepeat' = IF Looking(v) THEN mayRepeat \cup {v} ELSE mayRepeat
       \/ mayRepeat' = mayRepeat \cup {v}
    /\ UNCHANGED <<vars, seen, announced>>

\* INSERT OR IGNORE, which may fail.
markSeen(p) ==
    /\ Doing(p, "markSeen")
    /\ LET v == call[p].version
       IN  \/ /\ MayCommit(p)
              /\ seen' = [seen EXCEPT ![v] = IF @ = "unseen" THEN "seen" ELSE @]
              /\ UNCHANGED mayRepeat
           \/ /\ mayRepeat' = mayRepeat \cup {v}
              /\ UNCHANGED seen
    /\ Done(p)
    /\ UNCHANGED <<vars, announced>>

\* Whether or not the service answers in time.
sendNotification(p) ==
    /\ Doing(p, "sendNotification")
    /\ announced[call[p].version] < MaxAnnounced
    /\ announced' = [announced EXCEPT ![call[p].version] = @ + 1]
    /\ Done(p)
    /\ UNCHANGED <<vars, seen, mayRepeat>>

\* UPDATE of the row, if there is one.
setNotified(p) ==
    /\ Doing(p, "setNotified")
    /\ \/ /\ MayCommit(p)
          /\ seen' = [seen EXCEPT ![call[p].version] = IF @ = "unseen" THEN @ ELSE "notified"]
       \/ UNCHANGED seen
    /\ Done(p)
    /\ UNCHANGED <<vars, announced, mayRepeat>>

notifyNewKernel(p) ==
    \/ \E v \in NewKernels : lookUp(p, v)
    \/ markSeen(p) \/ sendNotification(p) \/ setNotified(p)

\* What StateStore has a process do, which does one thing at a time; a process that
\* ends forgets its call.
storeStep(p) ==
    \/ /\ call[p] = Idle
       /\ \/ Open(p)
          \/ beginImport(p) \/ finishImport(p) \/ \E v \in Versions : setNote(p, v)
       /\ UNCHANGED notifying
    \/ /\ ends(p)
       /\ call' = [call EXCEPT ![p] = Idle]
       /\ UNCHANGED <<seen, announced, mayRepeat>>

NotificationsNext == \E p \in Processes : notifyNewKernel(p) \/ storeStep(p)

NotificationsSpec == NotificationsInit /\ [][NotificationsNext]_<<vars, notifying>>

-----------------------------------------------------------------------------

\* A new kernel is announced exactly once (SPEC.md), or not at all when the process
\* dies between marking and sending, however often processes look for it: a second
\* time only if two of them looked before either had marked it, or a statement
\* failed.  And a row says "notified" only of a version that was sent.
AnnouncedOnce ==
    \A v \in NewKernels :
        /\ announced[v] > 1 => v \in mayRepeat
        /\ seen[v] = "notified" => announced[v] > 0

=============================================================================
