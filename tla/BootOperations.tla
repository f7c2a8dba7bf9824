-------------------------- MODULE BootOperations --------------------------
(***************************************************************************)
(* Changes of the boot configuration: Grub2BlsManager (core/boot), the     *)
(* privileged helper (helper/) it calls over D-Bus, the bumpcap-cli runs   *)
(* that call the helper too, and the programs (grubby, grub2-mkconfig,     *)
(* grub2-reboot) that do the work.                                         *)
(*                                                                         *)
(* The helper has one thread: while it waits for polkit or for a program   *)
(* the calls that arrive are queued.  A caller waits for its reply for     *)
(* 25 seconds, the helper for its program for ten minutes, and polkit for  *)
(* the user as long as it takes, so a caller may give up on a call that is *)
(* served later.  When the helper is not there a manager runs the program  *)
(* itself, through pkexec.                                                 *)
(*                                                                         *)
(* Which program it is and what it writes is left out: a call is its       *)
(* client and a number.  Time is left out: a timeout may strike whenever   *)
(* its timer runs.                                                         *)
(***************************************************************************)
EXTENDS Naturals, Sequences, SequencesExt

CONSTANTS
    Managers,       \* the Grub2BlsManager objects
    Commands,       \* the runs of bumpcap-cli boot-order --set-default
    MaxCalls,       \* bound: the operations asked of each
    MayNotStart     \* whether the program of a fallback can be missing

ASSUME BootAssumption ==
    /\ Managers \cap Commands = {}
    /\ MaxCalls \in Nat \ {0}
    /\ MayNotStart \in BOOLEAN

Clients == Managers \cup Commands

Calls == Clients \X (1..MaxCalls)

VARIABLES
    operation_process_,         \* the calls whose client runs the program itself
    helper_operation_running_,  \* the calls whose client waits for a reply
    told,                       \* the operationFinished (or exit code) of each
    gone,                       \* the clients that have ended
    queue,                      \* the helper: calls that have not been read
    serving,                    \*   the calls being served
    replies,                    \*   its replies on the bus
    program,                    \* what became of the program run for a call
    applied,                    \* the calls that changed the configuration
    strays                      \* those whose program outlived its helper

client == <<operation_process_, helper_operation_running_, told, gone>>
helper == <<queue, serving, replies>>
work   == <<program, applied, strays>>
vars   == <<client, helper, work>>

Init ==
    /\ operation_process_ = {}
    /\ helper_operation_running_ = {}
    /\ told = [call \in Calls |-> <<>>]
    /\ gone = {}
    /\ queue = <<>>
    /\ serving = {}
    /\ replies = [call \in Calls |-> "none"]
    /\ program = [call \in Calls |-> "none"]
    /\ applied = <<>>
    /\ strays = {}

Awaited == operation_process_ \cup helper_operation_running_

Asked(call) == call \in Awaited \/ told[call] # <<>>

-----------------------------------------------------------------------------
(***************************************************************************)
(* The clients.                                                            *)
(***************************************************************************)

operationFinished(call, success) == told' = [told EXCEPT ![call] = Append(@, success)]

\* Whether the client can ask: it still runs, it asks in the order of the numbers,
\* and a run of the CLI asks once.
CanAsk(call) ==
    /\ call[1] \notin gone
    /\ ~Asked(call)
    /\ \A n \in 1..(call[2] - 1) : call[1] \in Managers /\ Asked(<<call[1], n>>)

\* Mutant: the operation that waits for the helper does not count.
Busy_ProcessOnly(manager) == \E call \in operation_process_ : call[1] = manager

\* The guard of setDefaultEntry, regenerateConfig and rebootIntoEntryOnce.
Busy(manager) == \E call \in Awaited : call[1] = manager

refuse(call) ==
    /\ operationFinished(call, FALSE)
    /\ UNCHANGED <<operation_process_, helper_operation_running_, gone, helper, work>>

\* callHelperOperation, when the helper is there; and the CLI's blocking call.
callHelperOperation(call) ==
    /\ helper_operation_running_' = helper_operation_running_ \cup {call}
    /\ queue' = Append(queue, call)
    /\ UNCHANGED <<operation_process_, told, gone, serving, replies, work>>

\* QDBusInterface::isValid: a helper at work owns its name; one that is idle may as
\* well not be installed, or not run.
HelperAbsent == queue = <<>> /\ serving = {}

startFallbackOperation(call) ==
    /\ operation_process_' = operation_process_ \cup {call}
    /\ \E start \in {"running"} \cup (IF MayNotStart THEN {"unstarted"} ELSE {}) :
          program' = [program EXCEPT ![call] = start]
    /\ UNCHANGED <<helper_operation_running_, told, gone, helper, applied, strays>>

\* setDefaultEntry, regenerateConfig and rebootIntoEntryOnce: the same but for the
\* program and its arguments.  A fallback whose path is not valid is refused too.
managerAsks(call) ==
    /\ call[1] \in Managers
    /\ CanAsk(call)
    /\ \/ Busy(call[1]) /\ refuse(call)
       \/ ~Busy(call[1]) /\ callHelperOperation(call)
       \/ ~Busy(call[1]) /\ HelperAbsent /\ (refuse(call) \/ startFallbackOperation(call))

\* BootOrderCommand
commandAsks(call) ==
    /\ call[1] \in Commands
    /\ CanAsk(call)
    /\ callHelperOperation(call) \/ (HelperAbsent /\ refuse(call))

\* Only QProcess::finished is connected: a program that did not start is never told.
finishOperation(call) ==
    /\ call \in operation_process_
    /\ call[1] \notin gone
    /\ program[call] \in {"ok", "failed"}
    /\ operation_process_' = operation_process_ \ {call}
    /\ operationFinished(call, program[call] = "ok")
    /\ UNCHANGED <<helper_operation_running_, gone, helper, work>>

\* The reply of a call that its client gave up, or that has no client, is dropped.
finishHelperOperation(call) ==
    /\ replies[call] # "none"
    /\ replies' = [replies EXCEPT ![call] = "none"]
    /\ IF call \in helper_operation_running_ /\ call[1] \notin gone
       THEN /\ helper_operation_running_' = helper_operation_running_ \ {call}
            /\ operationFinished(call, replies[call] = "ok")
       ELSE UNCHANGED <<helper_operation_running_, told>>
    /\ UNCHANGED <<operation_process_, gone, queue, serving, work>>

\* Mutant: the manager stays marked as waiting.
callTimesOut_FlagKept(call) ==
    /\ call \in helper_operation_running_
    /\ call[1] \notin gone
    /\ operationFinished(call, FALSE)
    /\ UNCHANGED <<operation_process_, helper_operation_running_, gone, helper, work>>

\* D-Bus answers for the helper with NoReply.
callTimesOut(call) ==
    /\ call \in helper_operation_running_
    /\ call[1] \notin gone
    /\ helper_operation_running_' = helper_operation_running_ \ {call}
    /\ operationFinished(call, FALSE)
    /\ UNCHANGED <<operation_process_, gone, helper, work>>

\* The client ends: what it kept is left as it was and nobody looks at it again.  Its
\* destructor kills a program of its own, which pkexec may not let it do.
clientEnds(who) ==
    /\ who \notin gone
    /\ gone' = gone \cup {who}
    /\ \E killed \in SUBSET {call \in operation_process_ : call[1] = who /\ program[call] = "running"} :
          program' = [call \in Calls |-> IF call \in killed THEN "failed" ELSE program[call]]
    /\ UNCHANGED <<operation_process_, helper_operation_running_, told, helper, applied, strays>>

(***************************************************************************)
(* The helper.                                                             *)
(***************************************************************************)

reply(call, answer) == replies' = [replies EXCEPT ![call] = answer]

\* Mutant: a refused call is served all the same.
reject_FallsThrough(call) == reply(call, "error") /\ serving' = serving \cup {call}

\* reject
reject(call) == reply(call, "error") /\ UNCHANGED serving

\* Mutant: the helper reads on while a program runs.
Idle_ReadsOn == \A call \in serving : program[call] # "none"

\* runCommand and checkAuthorizationSync block: the helper reads no further call.
Idle == serving = {}

\* A slot of HelperService, up to authorize: the arguments are valid or not.
helperReads ==
    /\ Idle
    /\ queue # <<>>
    /\ queue' = Tail(queue)
    /\ \/ reject(Head(queue))
       \/ serving' = serving \cup {Head(queue)} /\ UNCHANGED replies
    /\ UNCHANGED <<client, work>>

\* authorize is refused, by polkit or because the caller has left the bus; or the
\* program does not start.
deny(call) ==
    /\ call \in serving
    /\ program[call] = "none"
    /\ serving' = serving \ {call}
    /\ reply(call, "error")
    /\ UNCHANGED <<client, queue, work>>

\* authorize, and runCommand up to waitForFinished.
authorize(call) ==
    /\ call \in serving
    /\ program[call] = "none"
    /\ call[1] \notin gone
    /\ program' = [program EXCEPT ![call] = "running"]
    /\ UNCHANGED <<client, helper, applied, strays>>

\* The program has ended, or is killed after ten minutes.
runCommand(call) ==
    /\ call \in serving
    /\ program[call] \notin {"none", "unstarted"}
    /\ serving' = serving \ {call}
    /\ reply(call, IF program[call] = "ok" THEN "ok" ELSE "error")
    /\ program' = [program EXCEPT ![call] = IF @ = "running" THEN "failed" ELSE @]
    /\ UNCHANGED <<client, queue, applied, strays>>

\* The helper ends, by a signal: the bus answers the calls it had, and its program
\* goes on.
helperEnds ==
    /\ ~HelperAbsent
    /\ replies' = [call \in Calls |->
                      IF call \in serving \cup ToSet(queue) THEN "error" ELSE replies[call]]
    /\ strays' = strays \cup {call \in serving : program[call] = "running"}
    /\ queue' = <<>>
    /\ serving' = {}
    /\ UNCHANGED <<client, program, applied>>

(***************************************************************************)
(* The programs.                                                           *)
(***************************************************************************)

programApplies(call) ==
    /\ program[call] = "running"
    /\ call \notin ToSet(applied)
    /\ applied' = Append(applied, call)
    /\ UNCHANGED <<client, helper, program, strays>>

\* It succeeds once it has changed the configuration, and may fail before and after.
programEnds(call) ==
    /\ program[call] = "running"
    /\ \E end \in {"failed"} \cup (IF call \in ToSet(applied) THEN {"ok"} ELSE {}) :
          program' = [program EXCEPT ![call] = end]
    /\ UNCHANGED <<client, helper, applied, strays>>

-----------------------------------------------------------------------------

Next ==
    \/ helperReads \/ helperEnds
    \/ \E who \in Clients : clientEnds(who)
    \/ \E call \in Calls :
          \/ managerAsks(call) \/ commandAsks(call)
          \/ finishOperation(call) \/ finishHelperOperation(call) \/ callTimesOut(call)
          \/ deny(call) \/ authorize(call) \/ runCommand(call)
          \/ programApplies(call) \/ programEnds(call)

Spec == Init /\ [][Next]_vars

\* The bus delivers or gives up, and a program that was started ends.  That polkit
\* is answered, or that the helper gets to a call, is not assumed.
Fairness ==
    \A call \in Calls :
        /\ WF_vars(finishHelperOperation(call) \/ callTimesOut(call))
        /\ WF_vars(programEnds(call))
        /\ WF_vars(finishOperation(call))

FairSpec == Spec /\ Fairness

-----------------------------------------------------------------------------
(***************************************************************************)
(* Properties.                                                             *)
(***************************************************************************)

\* The state has its types, and an operation is reported once.
TypeOK ==
    /\ operation_process_ \subseteq Managers \X (1..MaxCalls)
    /\ helper_operation_running_ \subseteq Calls
    /\ told \in [Calls -> {<<>>, <<TRUE>>, <<FALSE>>}]
    /\ gone \subseteq Clients
    /\ queue \in Seq(Calls)
    /\ serving \subseteq Calls
    /\ replies \in [Calls -> {"none", "ok", "error"}]
    /\ program \in [Calls -> {"none", "unstarted", "running", "ok", "failed"}]
    /\ applied \in Seq(Calls)
    /\ strays \subseteq Calls

\* How many places hold a call that was sent to the helper: its queue, its thread,
\* the bus on the way back.
Places(call) ==
    {<<"queue", i>> : i \in {n \in DOMAIN queue : queue[n] = call}} \cup
    {<<"serving", 0>> : c \in serving \cap {call}} \cup
    {<<"reply", 0>> : c \in {c \in {call} : replies[c] # "none"}}

\* A call whose client waits for a reply is in one place: it was neither dropped by
\* a slot of the helper that returned early, nor answered twice; and no call is in two.
CallIsInOnePlace ==
    \A call \in Calls :
        /\ call \in helper_operation_running_ /\ call[1] \notin gone => Places(call) # {}
        /\ \A here, there \in Places(call) : here = there

\* An operation is not overtaken by a later one of its client, even one that was
\* reported as failed when D-Bus gave up on it and that the helper serves afterwards:
\* what the client asked for last is what the configuration says.  A program left by
\* a helper that was killed is on its own.
NotOvertaken ==
    \A i, j \in DOMAIN applied :
        i < j /\ applied[i][1] = applied[j][1] /\ applied[j] \notin strays
            => applied[i][2] < applied[j][2]

Lost(call) == call[1] \in gone \/ program[call] = "unstarted"

StateOf(call) ==
    IF call \in Awaited THEN IF Lost(call) THEN "lost" ELSE "open"
    ELSE IF ~Asked(call) THEN "none"
    ELSE IF told[call] = <<TRUE>> THEN "ok" ELSE "failed"

Promise == INSTANCE BootPromise WITH
    Most  <- MaxCalls,
    state <- [call \in Calls |-> StateOf(call)]

\* An operation is reported as done only when the configuration was changed for it,
\* it is changed once at most, a client has one operation under way, and every one
\* ends unless its program did not start or its client is gone.
KeepsPromise == Promise!FairSpec

=============================================================================
