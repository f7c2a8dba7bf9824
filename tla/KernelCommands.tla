--------------------------- MODULE KernelCommands ---------------------------
(***************************************************************************)
(* bumpcap-cli: install, remove, pin and unpin, each run of the program a  *)
(* process of its own.  The processes share the rpm database and the pins  *)
(* of the state store, and nothing else: no lock is held between the       *)
(* refresh a command decides by and the dnf it starts.                     *)
(*                                                                         *)
(* A command that installs or removes refreshes (a KernelRepository with   *)
(* the Fedora source and a DnfCliBackend), looks up its version in the     *)
(* list, and hands that row to another DnfCliBackend.  Both steps wait in  *)
(* an event loop with a timer, and any program they wait for may never     *)
(* answer: it was not started, it hangs, or it waits for a password.       *)
(*                                                                         *)
(* The dnf of a command runs as root under pkexec.  Killing it may fail,   *)
(* and it may end long after the command reported.                         *)
(***************************************************************************)
EXTENDS KernelMerge

CONSTANTS
    Processes,      \* the runs of bumpcap-cli
    Versions,       \* the kernel versions
    Fedora,         \* SourceId::FedoraStable, the one source of the CLI
    Running,        \* the version `uname -r` names
    PinReadFails,   \* whether reading a pin can fail (a locked database)
    NoCommand       \* what a process that has not begun was asked to do

ASSUME CommandsAssumption ==
    /\ PinReadFails \in BOOLEAN
    /\ NoCommand \notin [verb : {"install", "remove", "pin", "unpin"},
                         version : Versions, force : BOOLEAN]

VARIABLES
    rpmdb,        \* the versions installed
    pins,         \* the table pins of the state store
    command,      \* what each process was asked to do
    pc,           \* where it is
    asked,        \* the programs its refresh waits for
    errors,       \* whether its refresh collected an error
    available,    \* what the source answered to its refresh
    installed,    \* what rpm answered
    kernels,      \* the list its refresh ended with
    dnf,          \* the dnf it started
    outcome       \* what it reported

refreshing == <<asked, errors, available, installed, kernels>>
vars       == <<rpmdb, pins, command, pc, refreshing, dnf, outcome>>

\* --force is read by remove alone.
Commands ==
    [verb : {"install", "pin", "unpin"}, version : Versions, force : {FALSE}] \cup
    [verb : {"remove"}, version : Versions, force : BOOLEAN]

Places == {"start", "refreshing", "refreshed", "operating", "refused", "ended"}

-----------------------------------------------------------------------------

Init ==
    /\ rpmdb \in SUBSET Versions
    /\ pins \in SUBSET Versions
    /\ command = [p \in Processes |-> NoCommand]
    /\ pc = [p \in Processes |-> "start"]
    /\ asked = [p \in Processes |-> {}]
    /\ errors = [p \in Processes |-> FALSE]
    /\ available = [p \in Processes |-> {}]
    /\ installed = [p \in Processes |-> {}]
    /\ kernels = [p \in Processes |-> {}]
    /\ dnf = [p \in Processes |-> "none"]
    /\ outcome = [p \in Processes |-> "none"]

Go(p, place) == pc' = [pc EXCEPT ![p] = place]

\* PrintOk or PrintError, and the end of the program.
Report(p, result) == Go(p, "ended") /\ outcome' = [outcome EXCEPT ![p] = result]

-----------------------------------------------------------------------------
(***************************************************************************)
(* PinCommand: one statement of SQL, or an error.                          *)
(***************************************************************************)

PinCommand(p, c) ==
    /\ pc[p] = "start"
    /\ c.verb \in {"pin", "unpin"}
    /\ command' = [command EXCEPT ![p] = c]
    /\ \/ /\ pins' = IF c.verb = "pin" THEN pins \cup {c.version} ELSE pins \ {c.version}
          /\ Report(p, "ok")
       \/ Report(p, "error") /\ UNCHANGED pins
    /\ UNCHANGED <<rpmdb, refreshing, dnf>>

(***************************************************************************)
(* RefreshKernels.                                                         *)
(***************************************************************************)

\* The configuration or the store cannot be opened, or the sources are unknown.
refreshCannotBegin(p, c) ==
    /\ pc[p] = "start"
    /\ c.verb \in {"install", "remove"}
    /\ command' = [command EXCEPT ![p] = c]
    /\ Report(p, "error")
    /\ UNCHANGED <<rpmdb, pins, refreshing, dnf>>

\* The source is asked unless the configuration disables it.  It is counted
\* out with an error when there is no dnf on the PATH.
beginRefresh(p, c) ==
    /\ pc[p] = "start"
    /\ c.verb \in {"install", "remove"}
    /\ command' = [command EXCEPT ![p] = c]
    /\ Go(p, "refreshing")
    /\ \E programs \in {{"rpm"}, {"rpm", "repoquery"}}, noDnf \in BOOLEAN :
          /\ noDnf => programs = {"rpm"}
          /\ asked' = [asked EXCEPT ![p] = programs]
          /\ errors' = [errors EXCEPT ![p] = noDnf]
    /\ UNCHANGED <<rpmdb, pins, available, installed, kernels, dnf, outcome>>

forgetAnswers(p) ==
    /\ available' = [available EXCEPT ![p] = {}]
    /\ installed' = [installed EXCEPT ![p] = {}]

\* Mutant: the list carries no pins.
applyState_PinNotRead(kernel, pinned) ==
    [version |-> kernel.version, status |-> kernel.status, isPinned |-> FALSE]

\* Mutant: the state store is not asked.
applyState_NotApplied(kernel, pinned) == kernel

\* A row of the list: the kernel with its pin.
applyState(kernel, pinned) ==
    [version |-> kernel.version, status |-> kernel.status, isPinned |-> kernel.version \in pinned]

\* StateStore::isPinned: a query that fails says that there is no pin.
PinsRead == IF PinReadFails THEN SUBSET pins ELSE {pins}

\* What every answer ends with: the refresh is over when it was the last, and
\* the repository goes with it.  The pins are read here; a version has one row,
\* so a command reads its pin once.
finalizeRefreshIfReady(p, availableNow, installedNow) ==
    IF asked'[p] # {}
    THEN /\ available' = [available EXCEPT ![p] = availableNow]
         /\ installed' = [installed EXCEPT ![p] = installedNow]
         /\ UNCHANGED <<pc, kernels>>
    ELSE /\ Go(p, "refreshed")
         /\ \E pinned \in PinsRead :
               kernels' = [kernels EXCEPT ![p] =
                              {applyState(k, pinned) : k \in mergeKernelLists(availableNow, installedNow)}]
         /\ forgetAnswers(p)

Answers(p, program) ==
    /\ pc[p] = "refreshing"
    /\ program \in asked[p]
    /\ asked' = [asked EXCEPT ![p] = @ \ {program}]
    /\ UNCHANGED <<rpmdb, pins, command, dnf, outcome>>

repoqueryAnswers(p, versions) ==
    /\ Answers(p, "repoquery")
    /\ UNCHANGED errors
    /\ finalizeRefreshIfReady(p, AvailableFrom(Fedora, versions), installed[p])

rpmAnswers(p) ==
    /\ Answers(p, "rpm")
    /\ UNCHANGED errors
    /\ finalizeRefreshIfReady(p, available[p], InstalledFrom(Fedora, Running, rpmdb))

programFails(p, program) ==
    /\ Answers(p, program)
    /\ errors' = [errors EXCEPT ![p] = TRUE]
    /\ finalizeRefreshIfReady(p, available[p], installed[p])

\* Mutant: the timer is not started.
refreshTimesOut_NotStarted(p) == FALSE /\ UNCHANGED vars

refreshTimesOut(p) ==
    /\ pc[p] = "refreshing"
    /\ Report(p, "error")
    /\ asked' = [asked EXCEPT ![p] = {}]
    /\ forgetAnswers(p)
    /\ UNCHANGED <<rpmdb, pins, command, errors, kernels, dnf>>

(***************************************************************************)
(* InstallCommand and RemoveCommand once the refresh is over, down to the  *)
(* start of dnf: one step, for the process does not wait in between.       *)
(***************************************************************************)

\* FindKernelByVersion
Found(p) == {k \in kernels[p] : k.version = command[p].version}

IsInstalledStatus(status) == status \in {"Installed", "InstalledRunning"}

\* Mutant: the running kernel is told by its row alone.
removalBlocked_StatusOnly(kernel, force) ==
    \/ kernel.status = "InstalledRunning"
    \/ kernel.isPinned /\ ~force

\* removalBlocked asks uname itself and does not rely on the row's status.
removalBlocked(kernel, force) ==
    \/ kernel.status = "InstalledRunning"
    \/ kernel.version = Running
    \/ kernel.isPinned /\ ~force

\* startDnfOperation, or the queued signals of an operation that is not started.
startOrRefuse(p, start) ==
    /\ IF start THEN dnf' = [dnf EXCEPT ![p] = "running"] /\ Go(p, "operating")
                ELSE Go(p, "refused") /\ UNCHANGED dnf
    /\ UNCHANGED outcome

InstallCommand(p) ==
    /\ command[p].verb = "install"
    /\ \E kernel \in Found(p) :
          IF IsInstalledStatus(kernel.status)
          THEN Report(p, "ok") /\ UNCHANGED dnf
          ELSE \E hasDnf \in BOOLEAN : startOrRefuse(p, hasDnf)

RemoveCommand(p) ==
    /\ command[p].verb = "remove"
    /\ \E kernel \in Found(p) :
          IF ~IsInstalledStatus(kernel.status)
          THEN Report(p, "error") /\ UNCHANGED dnf
          ELSE \E hasDnf \in BOOLEAN :
                  startOrRefuse(p, hasDnf /\ ~removalBlocked(kernel, command[p].force))

\* An error of the refresh, or a version that is not in the list, ends the
\* command.  Only the row of the version is looked at from here on.
CannotOperate(p) == (errors[p] \/ Found(p) = {}) /\ Report(p, "error") /\ UNCHANGED dnf

continueCommand(p) ==
    /\ pc[p] = "refreshed"
    /\ \/ CannotOperate(p)
       \/ ~errors[p] /\ (InstallCommand(p) \/ RemoveCommand(p))
    /\ kernels' = [kernels EXCEPT ![p] = Found(p)]
    /\ UNCHANGED <<rpmdb, pins, command, asked, errors, available, installed>>

(***************************************************************************)
(* RunPackageOperation waits.                                              *)
(***************************************************************************)

\* The queued operationFailed and operationFinished of a refused operation.
deliverRefusal(p) ==
    /\ pc[p] = "refused"
    /\ Report(p, "error")
    /\ UNCHANGED <<rpmdb, pins, command, refreshing, dnf>>

\* Mutant: the exit code of dnf is not looked at.
finishOperation_ExitCodeIgnored(p) ==
    /\ pc[p] = "operating"
    /\ dnf[p] \in {"committed", "failed"}
    /\ Report(p, "ok")
    /\ UNCHANGED <<rpmdb, pins, command, refreshing, dnf>>

finishOperation(p) ==
    /\ pc[p] = "operating"
    /\ dnf[p] \in {"committed", "failed"}
    /\ Report(p, IF dnf[p] = "committed" THEN "ok" ELSE "error")
    /\ UNCHANGED <<rpmdb, pins, command, refreshing, dnf>>

\* cancelOperation kills pkexec, which may have become root by then.  The
\* program ends, dnf or not.
operationTimesOut(p) ==
    /\ pc[p] = "operating"
    /\ Report(p, "error")
    /\ dnf' = [dnf EXCEPT ![p] = "failed"] \/ UNCHANGED dnf
    /\ UNCHANGED <<rpmdb, pins, command, refreshing>>

(***************************************************************************)
(* dnf.                                                                    *)
(***************************************************************************)

dnfCommits(p) ==
    /\ dnf[p] = "running"
    /\ dnf' = [dnf EXCEPT ![p] = "committed"]
    /\ rpmdb' = IF command[p].verb = "install"
                THEN rpmdb \cup {command[p].version}
                ELSE rpmdb \ {command[p].version}
    /\ UNCHANGED <<pins, command, pc, refreshing, outcome>>

dnfFails(p) ==
    /\ dnf[p] = "running"
    /\ dnf' = [dnf EXCEPT ![p] = "failed"]
    /\ UNCHANGED <<rpmdb, pins, command, pc, refreshing, outcome>>

-----------------------------------------------------------------------------

Begin(p) ==
    \E c \in Commands : PinCommand(p, c) \/ refreshCannotBegin(p, c) \/ beginRefresh(p, c)

Refresh(p) ==
    \/ \E versions \in SUBSET Versions : repoqueryAnswers(p, versions)
    \/ rpmAnswers(p)
    \/ \E program \in {"rpm", "repoquery"} : programFails(p, program)
    \/ refreshTimesOut(p)

Operate(p) ==
    \/ continueCommand(p)
    \/ deliverRefusal(p)
    \/ finishOperation(p)
    \/ operationTimesOut(p)

Dnf(p) == dnfCommits(p) \/ dnfFails(p)

Next == \E p \in Processes : Begin(p) \/ Refresh(p) \/ Operate(p) \/ Dnf(p)

Spec == Init /\ [][Next]_vars

\* A process runs on, and its timers fire.  Nothing is assumed of the programs it
\* waits for, and nobody is obliged to run a command.
Fairness ==
    \A p \in Processes :
        /\ WF_vars(refreshTimesOut(p))
        /\ WF_vars(continueCommand(p))
        /\ WF_vars(deliverRefusal(p))
        /\ WF_vars(operationTimesOut(p))

FairSpec == Spec /\ Fairness

-----------------------------------------------------------------------------
(***************************************************************************)
(* Properties.                                                             *)
(***************************************************************************)

Row == [version : Versions, status : KernelStatus, isPinned : BOOLEAN]

TypeOK ==
    /\ rpmdb \subseteq Versions
    /\ pins \subseteq Versions
    /\ command \in [Processes -> Commands \cup {NoCommand}]
    /\ pc \in [Processes -> Places]
    /\ asked \in [Processes -> SUBSET {"rpm", "repoquery"}]
    /\ errors \in [Processes -> BOOLEAN]
    /\ available \in [Processes -> SUBSET KernelInfo({Fedora}, Versions)]
    /\ installed \in [Processes -> SUBSET KernelInfo({Fedora}, Versions)]
    /\ kernels \in [Processes -> SUBSET Row]
    /\ dnf \in [Processes -> {"none", "running", "committed", "failed"}]
    /\ outcome \in [Processes -> {"none", "ok", "error"}]

\* No command, forced or not, alone or beside others, takes the running kernel
\* off the machine, although the merge may hand removeKernel() a row that does
\* not say that the kernel runs.
\* DnfCliBackend::removalBlocked refuses whatever force is.  SPEC.md:464-466 says
\* otherwise of the forced case ("unless --force (CLI)"): the property is what the
\* code keeps, and stricter than that sentence.
RunningNeverRemoved == [][(Running \in rpmdb) => (Running \in rpmdb')]_vars

\* The list a command decides by has one row for a version: install and remove
\* look up the version alone and take the first row that has it.
VersionHasOneRow ==
    \A p \in Processes : \A j, k \in kernels[p] : j.version = k.version => j = k

\* A pin that is there from the beginning of a removal to its end prevents it,
\* whatever else runs meanwhile, unless it is forced.
PinPreventsRemoval ==
    \A p \in Processes, v \in Versions :
        []((/\ pc[p] = "refreshing"
            /\ command[p] = [verb |-> "remove", version |-> v, force |-> FALSE]
            /\ [](v \in pins))
           => [](dnf[p] = "none"))

\* A command that reports success did what it was asked: its own dnf committed,
\* or there was nothing to install.
OkMeansDone ==
    \A p \in Processes :
        /\ outcome[p] = "ok"
        /\ command[p].verb \in {"install", "remove"}
        => \/ dnf[p] = "committed"
           \/ /\ command[p].verb = "install"
              /\ dnf[p] = "none"
              /\ \E k \in Found(p) : IsInstalledStatus(k.status)

\* Every command reports in the end, whichever of its programs never answers.
EveryCommandEnds == \A p \in Processes : pc[p] # "start" ~> pc[p] = "ended"

\* A removal that is not forced never starts on a kernel that is pinned.
PinnedNeedsForce ==
    [][\A p \in Processes :
          (/\ dnf[p] = "none" /\ dnf'[p] = "running"
           /\ command[p].verb = "remove" /\ ~command[p].force)
          => command[p].version \notin pins]_vars

=============================================================================
