--------------------------- MODULE KernelRefresh ---------------------------
(***************************************************************************)
(* KernelRepository (core/repo) with the kernel sources and the package    *)
(* backend it asks.  All of them live on one thread: a handler runs to its *)
(* end before the event loop delivers the next answer, so every handler is *)
(* one action.  What interleaves is the order in which the programs and    *)
(* downloads behind the sources and behind the installed query end.        *)
(*                                                                         *)
(* A source that is asked either fails before fetchAvailable() returns (no *)
(* dnf on the PATH, a repoquery already running) or answers later from the *)
(* event loop, and so does the installed query.  A failure at once runs    *)
(* its handler inside refresh(), while others have yet to be asked; so     *)
(* refresh() is as many steps as it asks parties, and the event loop waits *)
(* until it has returned.  A program of MayNotStart can also fail to       *)
(* start: QProcess then reports errorOccurred, which no code is connected  *)
(* to, and never finished, so no answer ever comes.                        *)
(***************************************************************************)
EXTENDS KernelMerge, Integers, FiniteSets

CONSTANTS
    Sources,       \* the ids of the kernel sources
    Query,         \* the installed query, a party of a refresh like the sources
    Versions,      \* the kernel versions
    Fedora,        \* SourceId::FedoraStable, which installed kernels are listed under
    Running,       \* the version `uname -r` names
    MayNotStart,   \* the parties whose program may fail to start
    MaxRefreshes   \* bound on the refreshes of a behaviour

ASSUME SourcesAssumption ==
    /\ IsFiniteSet(Sources)
    /\ Fedora \in Sources
    /\ Query \notin Sources
    /\ MayNotStart \subseteq Sources \cup {Query}
    /\ MaxRefreshes \in Nat

VARIABLES
    sources_,                  \* the sources added to the repository
    package_backend_,          \* whether a backend is set
    refresh_in_progress_,
    pending_sources_,          \* how many sources have yet to answer
    pending_installed_query_,  \* whether the installed query has yet to answer
    available_kernels_,
    installed_kernels_,
    kernels_,                  \* the list published last
    fetch,                     \* what each source is doing
    query,                     \* what the installed query is doing
    toAsk,                     \* the parties refresh() has yet to ask
    refreshes                  \* the refreshes begun, for MaxRefreshes

wiring     == <<sources_, package_backend_>>
repository == <<refresh_in_progress_, pending_sources_, pending_installed_query_,
                available_kernels_, installed_kernels_, kernels_>>
parties    == <<fetch, query, toAsk>>
vars       == <<wiring, repository, parties, refreshes>>

\* idle, working on an answer, or waiting for a program that never started.
Activity == {"idle", "running", "lost"}

-----------------------------------------------------------------------------

Init ==
    /\ sources_ = {}
    /\ package_backend_ = FALSE
    /\ refresh_in_progress_ = FALSE
    /\ pending_sources_ = 0
    /\ pending_installed_query_ = FALSE
    /\ available_kernels_ = {}
    /\ installed_kernels_ = {}
    /\ kernels_ = {}
    /\ fetch = [s \in Sources |-> "idle"]
    /\ query = "idle"
    /\ toAsk = {}
    /\ refreshes = 0

(***************************************************************************)
(* Wiring.  Both programs wire the repository before its first refresh and *)
(* never again (gui/main.cpp, cli/main.cpp).  A source may be added at any *)
(* time; taking sources or the backend away while their answer is awaited  *)
(* would lose the answer, and nothing in the repository prevents it.       *)
(***************************************************************************)

CallerWiresWhenIdle == ~refresh_in_progress_

\* Nothing else runs before refresh() has returned.
EventLoop == toAsk = {}

\* Mutant: a source is asked as soon as it is added.
addSource_AsksAtOnce(s) ==
    /\ EventLoop
    /\ s \notin sources_
    /\ sources_' = sources_ \cup {s}
    /\ fetch' = [fetch EXCEPT ![s] = "running"]
    /\ pending_sources_' = pending_sources_ + 1
    /\ UNCHANGED <<package_backend_, refresh_in_progress_, pending_installed_query_,
                   available_kernels_, installed_kernels_, kernels_, query, toAsk, refreshes>>

addSource(s) ==
    /\ EventLoop
    /\ s \notin sources_
    /\ sources_' = sources_ \cup {s}
    /\ UNCHANGED <<package_backend_, repository, parties, refreshes>>

clearSources ==
    /\ CallerWiresWhenIdle
    /\ sources_ # {}
    /\ sources_' = {}
    /\ UNCHANGED <<package_backend_, repository, parties, refreshes>>

setPackageBackend ==
    /\ CallerWiresWhenIdle
    /\ package_backend_' = ~package_backend_
    /\ UNCHANGED <<sources_, repository, parties, refreshes>>

(***************************************************************************)
(* The refresh.                                                            *)
(***************************************************************************)

\* Mutant: the installed query is not waited for.
finalizeRefreshIfReady_QueryForgotten(inProgress) ==
    IF inProgress /\ ~(pending_sources_' > 0)
    THEN /\ kernels_' = mergeKernelLists(available_kernels_', installed_kernels_')
         /\ refresh_in_progress_' = FALSE
    ELSE /\ refresh_in_progress_' = inProgress
         /\ UNCHANGED kernels_

\* The end of every handler: nothing happens unless a refresh is under way and
\* everybody has answered.
finalizeRefreshIfReady(inProgress) ==
    IF inProgress /\ ~(pending_sources_' > 0) /\ ~pending_installed_query_'
    THEN /\ kernels_' = mergeKernelLists(available_kernels_', installed_kernels_')
         /\ refresh_in_progress_' = FALSE
    ELSE /\ refresh_in_progress_' = inProgress
         /\ UNCHANGED kernels_

\* refresh(), down to its loops.  Its last call of finalizeRefreshIfReady finds nothing
\* to do when anybody was asked: who failed at once has made the call already.
refresh ==
    /\ ~refresh_in_progress_
    /\ refreshes < MaxRefreshes
    /\ refreshes' = refreshes + 1
    /\ pending_sources_' = Cardinality(sources_)
    /\ pending_installed_query_' = package_backend_
    /\ available_kernels_' = {}
    /\ installed_kernels_' = {}
    /\ toAsk' = sources_ \cup (IF package_backend_ THEN {Query} ELSE {})
    /\ finalizeRefreshIfReady(TRUE)
    /\ UNCHANGED <<wiring, fetch, query>>

(***************************************************************************)
(* The handlers, called from the event loop or from inside refresh().      *)
(***************************************************************************)

\* qMax(0, pending_sources_ - 1)
OneSourceLess == IF pending_sources_ > 0 THEN pending_sources_ - 1 ELSE 0

onSourceFinished(s, versions) ==
    /\ available_kernels_' = available_kernels_ \cup AvailableFrom(s, versions)
    /\ pending_sources_' = OneSourceLess
    /\ UNCHANGED <<pending_installed_query_, installed_kernels_>>
    /\ finalizeRefreshIfReady(refresh_in_progress_)

\* Mutant: a failed source is still waited for.
onSourceFailed_NotCounted ==
    /\ UNCHANGED <<pending_sources_, pending_installed_query_, available_kernels_,
                   installed_kernels_>>
    /\ finalizeRefreshIfReady(refresh_in_progress_)

onSourceFailed ==
    /\ pending_sources_' = OneSourceLess
    /\ UNCHANGED <<pending_installed_query_, available_kernels_, installed_kernels_>>
    /\ finalizeRefreshIfReady(refresh_in_progress_)

onInstalledQueryFinished(versions) ==
    /\ installed_kernels_' = InstalledFrom(Fedora, Running, versions)
    /\ pending_installed_query_' = FALSE
    /\ UNCHANGED <<pending_sources_, available_kernels_>>
    /\ finalizeRefreshIfReady(refresh_in_progress_)

onInstalledQueryFailed ==
    /\ pending_installed_query_' = FALSE
    /\ UNCHANGED <<pending_sources_, available_kernels_, installed_kernels_>>
    /\ finalizeRefreshIfReady(refresh_in_progress_)

(***************************************************************************)
(* The loops of refresh(): the query is asked first, the sources after it  *)
(* in any order.                                                           *)
(***************************************************************************)

\* What a program that is started may turn out to do.
Started(p) == {"running"} \cup (IF p \in MayNotStart THEN {"lost"} ELSE {})

\* A repoquery or an rpm query that is still there makes the next one fail at
\* once (FedoraStableSource::fetchAvailable, DnfCliBackend::queryInstalled).
Busy(p) == IF p = Query THEN query # "idle" ELSE p = Fedora /\ fetch[p] # "idle"

queryInstalled ==
    /\ Query \in toAsk
    /\ toAsk' = toAsk \ {Query}
    /\ \/ onInstalledQueryFailed /\ UNCHANGED query
       \/ ~Busy(Query) /\ query' \in Started(Query) /\ UNCHANGED repository
    /\ UNCHANGED <<wiring, fetch, refreshes>>

fetchAvailable(s) ==
    /\ s \in toAsk
    /\ Query \notin toAsk
    /\ toAsk' = toAsk \ {s}
    /\ \/ onSourceFailed /\ UNCHANGED fetch
       \/ /\ ~Busy(s)
          /\ \E activity \in Started(s) : fetch' = [fetch EXCEPT ![s] = activity]
          /\ UNCHANGED repository
    /\ UNCHANGED <<wiring, query, refreshes>>

(***************************************************************************)
(* The answers of those that were started.                                 *)
(***************************************************************************)

SourceAnswers(s) ==
    /\ EventLoop
    /\ fetch[s] = "running"
    /\ fetch' = [fetch EXCEPT ![s] = "idle"]
    /\ UNCHANGED <<wiring, query, toAsk, refreshes>>

QueryAnswers ==
    /\ EventLoop
    /\ query = "running"
    /\ query' = "idle"
    /\ UNCHANGED <<wiring, fetch, toAsk, refreshes>>

-----------------------------------------------------------------------------

Ask == queryInstalled \/ \E s \in Sources : fetchAvailable(s)

SourceStep(s) ==
    /\ SourceAnswers(s)
    /\ onSourceFailed \/ \E versions \in SUBSET Versions : onSourceFinished(s, versions)

QueryStep ==
    /\ QueryAnswers
    /\ \/ onInstalledQueryFailed
       \/ \E versions \in SUBSET Versions : onInstalledQueryFinished(versions)

Next ==
    \/ \E s \in Sources : addSource(s)
    \/ clearSources
    \/ setPackageBackend
    \/ refresh
    \/ Ask
    \/ \E s \in Sources : SourceStep(s)
    \/ QueryStep

Spec == Init /\ [][Next]_vars

\* A loop goes on.  A program that started ends, and a download ends or times out:
\* the answer of a party that is running comes.  Nobody is obliged to refresh.
Fairness ==
    /\ WF_vars(Ask)
    /\ \A s \in Sources : WF_vars(SourceStep(s))
    /\ WF_vars(QueryStep)

FairSpec == Spec /\ Fairness

-----------------------------------------------------------------------------
(***************************************************************************)
(* Properties.                                                             *)
(***************************************************************************)

TypeOK ==
    /\ sources_ \subseteq Sources
    /\ package_backend_ \in BOOLEAN
    /\ refresh_in_progress_ \in BOOLEAN
    /\ pending_sources_ \in 0..Cardinality(Sources)
    /\ pending_installed_query_ \in BOOLEAN
    /\ available_kernels_ \subseteq KernelInfo(Sources, Versions)
    /\ installed_kernels_ \subseteq KernelInfo({Fedora}, Versions)
    /\ kernels_ \subseteq KernelInfo(Sources, Versions)
    /\ fetch \in [Sources -> Activity]
    /\ query \in Activity
    /\ toAsk \subseteq Sources \cup {Query}
    /\ refreshes \in 0..MaxRefreshes

\* Whose answer is still to come: of the sources, and of all parties.
Outstanding == {s \in Sources : s \in toAsk \/ fetch[s] # "idle"}

QueryOutstanding == Query \in toAsk \/ query # "idle"

Waiting == Outstanding \cup (IF QueryOutstanding THEN {Query} ELSE {})

\* The two pending members are all the repository knows of what it waits for:
\* they count exactly the answers still to come, through every interleaving of
\* answers and failures, those from inside refresh() included, whose handler must not
\* take who was not asked yet for answered; and between refreshes nothing is still
\* running.  So no answer can arrive outside the refresh that asked for it, which is
\* why the handlers need not tell the refreshes apart.
CountersMatchOutstanding ==
    /\ pending_sources_ = Cardinality(Outstanding)
    /\ pending_installed_query_ = QueryOutstanding
    /\ refresh_in_progress_ = (Outstanding # {} \/ QueryOutstanding)

\* What a finished refresh publishes: the keys of the list are the keys of what
\* the parties of this refresh answered, and each key has one row.  A kernel
\* answered by a source and by rpm is not listed twice, and none is dropped.
OneRowPerAnsweredKernel ==
    ~refresh_in_progress_ =>
        /\ Keys(kernels_) = Keys(available_kernels_ \cup installed_kernels_)
        /\ \A j, k \in kernels_ : KernelKey(j) = KernelKey(k) => j = k

\* A version rpm reported is never offered for installation again, by whichever
\* source and in whatever order the answers came.
ReportedNeverOffered ==
    ~refresh_in_progress_ =>
        \A k \in kernels_ :
            k.version \in InstalledVersions(installed_kernels_) => k.status # "Available"

\* The running kernel, when rpm reports it, is listed as the running one: the
\* status tells it apart from the kernels that may be removed.
RunningKernelIsMarked ==
    ~refresh_in_progress_ =>
        \A k \in kernels_ :
            /\ k.sourceId = Fedora
            /\ k.version = Running
            /\ Running \in InstalledVersions(installed_kernels_)
            => k.status = "InstalledRunning"

\* Every refresh comes to its end, and with it the next one becomes possible.
RefreshEnds == refresh_in_progress_ ~> ~refresh_in_progress_

\* The counting of the repository implements waiting for a set of parties.
Promise == INSTANCE RefreshPromise WITH
    open      <- refresh_in_progress_,
    waiting   <- Waiting,
    available <- available_kernels_,
    installed <- installed_kernels_,
    list      <- kernels_

\* A refresh publishes in the step that takes the last answer and in no other,
\* exactly the merge of the answers given to it; and it gets there.
KeepsPromise == Promise!FairSpec

=============================================================================
