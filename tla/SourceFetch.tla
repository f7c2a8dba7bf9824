---------------------------- MODULE SourceFetch ----------------------------
(***************************************************************************)
(* One kernel source (core/sources) from fetchAvailable() to its answer.   *)
(* FedoraStableSource, and FedoraRawhideSource on a Rawhide system, run    *)
(* dnf repoquery; FedoraRawhideSource elsewhere and CachyOsCoprSource make *)
(* HTTP requests one after the other and pipe the last body through a      *)
(* decompressor.  The network is what RequestPromise promises of           *)
(* NetworkClient: a request is answered once, by one of two signals.       *)
(*                                                                         *)
(* The caller asks again only after it was answered: KernelRepository does *)
(* not start a refresh while an answer is to come (the theorem             *)
(* CountersAreExact), and nobody else asks a source.                       *)
(***************************************************************************)
EXTENDS Integers

CONSTANTS
    Kinds,          \* the sources to look at
    MayNotStart,    \* whether a program can fail to start
    MaxFetches      \* bound on the fetches of a behaviour

ASSUME FetchAssumption ==
    /\ Kinds \subseteq {"FedoraStable", "RawhideLocal", "FedoraRawhide", "CachyOs"}
    /\ MayNotStart \in BOOLEAN
    /\ MaxFetches \in Nat

VARIABLES
    kind,                  \* which source this is
    stage_,
    active_request_id_,
    repoquery_process_,    \* the state of the program the pointer points to
    decompress_process_,
    made,                  \* the number of the last request
    pending,               \* the requests that have yet to be answered
    fetches,               \* how often the source was asked
    answers                \* how often it emitted fetchFinished or fetchFailed

vars == <<kind, stage_, active_request_id_, repoquery_process_, decompress_process_,
          made, pending, fetches, answers>>

Process == {"nullptr", "running", "lost"}

Stages == {"None", "PackageApi", "RepodataDirectory", "PrimaryXml"}

-----------------------------------------------------------------------------

Init ==
    /\ kind \in Kinds
    /\ stage_ = "None"
    /\ active_request_id_ = 0
    /\ repoquery_process_ = "nullptr"
    /\ decompress_process_ = "nullptr"
    /\ made = 0
    /\ pending = {}
    /\ fetches = 0
    /\ answers = 0

\* emit fetchFinished or emit fetchFailed
EmitAnswer == answers' = answers + 1

\* QProcess::start(): a program that cannot be started never finishes.
Started == IF MayNotStart THEN {"running", "lost"} ELSE {"running"}

\* Mutant: the id remembered is the one the client gives out next.
Request_OneAhead(stage, unanswered) ==
    /\ stage_' = stage
    /\ made' = made + 1
    /\ active_request_id_' = made' + 1
    /\ pending' = unanswered \cup {made'}

\* network_.get() for the URL of a stage, while `unanswered` are on their way.
Request(stage, unanswered) ==
    /\ stage_' = stage
    /\ made' = made + 1
    /\ active_request_id_' = made'
    /\ pending' = unanswered \cup {made'}

(***************************************************************************)
(* fetchAvailable().                                                       *)
(***************************************************************************)

CallerAsks ==
    /\ fetches = answers
    /\ fetches < MaxFetches
    /\ fetches' = fetches + 1
    /\ UNCHANGED kind

\* No dnf on the PATH; for FedoraStable also a repoquery that is still there.
fetchFailsAtOnce ==
    /\ CallerAsks
    /\ kind \in {"FedoraStable", "RawhideLocal"}
    /\ EmitAnswer
    /\ UNCHANGED <<stage_, active_request_id_, repoquery_process_, decompress_process_, made, pending>>

fetchWithRepoquery ==
    /\ CallerAsks
    /\ \/ kind = "FedoraStable" /\ repoquery_process_ = "nullptr"
       \/ kind = "RawhideLocal"
    /\ repoquery_process_' \in Started
    /\ UNCHANGED <<stage_, active_request_id_, decompress_process_, made, pending, answers>>

fetchFromNetwork ==
    /\ CallerAsks
    /\ \/ kind = "FedoraRawhide" /\ Request("RepodataDirectory", pending)
       \/ kind = "CachyOs" /\ Request("PackageApi", pending)
    /\ UNCHANGED <<repoquery_process_, decompress_process_, answers>>

\* Mutant: a repoquery that failed is not reported.
finishRepoquery_FailureSilent ==
    /\ repoquery_process_ = "running"
    /\ repoquery_process_' = "nullptr"
    /\ EmitAnswer \/ UNCHANGED answers
    /\ UNCHANGED <<kind, stage_, active_request_id_, decompress_process_, made, pending, fetches>>

\* The repoquery ends, with kernels or with an error.
finishRepoquery ==
    /\ repoquery_process_ = "running"
    /\ repoquery_process_' = "nullptr"
    /\ EmitAnswer
    /\ UNCHANGED <<kind, stage_, active_request_id_, decompress_process_, made, pending, fetches>>

(***************************************************************************)
(* The network answers; the source's slot runs inside the signal.          *)
(***************************************************************************)

\* emit fetchFailed; the stage stays what it was.
Fail(id) ==
    /\ EmitAnswer
    /\ pending' = pending \ {id}
    /\ UNCHANGED <<stage_, active_request_id_, decompress_process_, made>>

\* Mutant: a missing decompressor is reported, and the pipeline goes on.
decompressPrimaryXml_GoesOn(id) ==
    /\ EmitAnswer \/ UNCHANGED answers
    /\ decompress_process_' \in Started
    /\ pending' = pending \ {id}
    /\ UNCHANGED <<stage_, active_request_id_, made>>

\* There is no decompressor on the PATH, or it is started.
decompressPrimaryXml(id) ==
    \/ Fail(id)
    \/ /\ decompress_process_' \in Started
       /\ pending' = pending \ {id}
       /\ UNCHANGED <<stage_, active_request_id_, made, answers>>

\* The body of one stage leads to the request of the next, unless it is not what
\* the stage expects (no JSON object, no primary.xml in the directory).
NextRequest(id) ==
    \/ Fail(id)
    \/ /\ \/ stage_ = "PackageApi" /\ Request("RepodataDirectory", pending \ {id})
          \/ stage_ = "RepodataDirectory" /\ Request("PrimaryXml", pending \ {id})
       /\ UNCHANGED <<decompress_process_, answers>>

\* The answer to a request that is not the active one is dropped.
Ignore(id) ==
    /\ id # active_request_id_
    /\ pending' = pending \ {id}
    /\ UNCHANGED <<stage_, active_request_id_, decompress_process_, made, answers>>

onNetworkFinished(id) ==
    /\ id \in pending
    /\ \/ Ignore(id)
       \/ /\ id = active_request_id_
          /\ \/ stage_ \in {"PackageApi", "RepodataDirectory"} /\ NextRequest(id)
             \/ stage_ = "PrimaryXml" /\ decompressPrimaryXml(id)
    /\ UNCHANGED <<kind, repoquery_process_, fetches>>

onNetworkFailed(id) ==
    /\ id \in pending
    /\ \/ Ignore(id)
       \/ id = active_request_id_ /\ Fail(id)
    /\ UNCHANGED <<kind, repoquery_process_, fetches>>

\* The decompressor ends, with the metadata or with an error.
finishDecompress ==
    /\ decompress_process_ = "running"
    /\ decompress_process_' = "nullptr"
    /\ EmitAnswer
    /\ UNCHANGED <<kind, stage_, active_request_id_, repoquery_process_, made, pending, fetches>>

-----------------------------------------------------------------------------

NetworkAnswers(id) == onNetworkFinished(id) \/ onNetworkFailed(id)

Next ==
    \/ fetchFailsAtOnce
    \/ fetchWithRepoquery
    \/ fetchFromNetwork
    \/ finishRepoquery
    \/ \E id \in pending : NetworkAnswers(id)
    \/ finishDecompress

Spec == Init /\ [][Next]_vars

\* Programs that started end, and the network client answers every request.
Fairness ==
    /\ WF_vars(finishRepoquery)
    /\ WF_vars(finishDecompress)
    /\ WF_vars(\E id \in pending : NetworkAnswers(id))

FairSpec == Spec /\ Fairness

-----------------------------------------------------------------------------
(***************************************************************************)
(* Properties.                                                             *)
(***************************************************************************)

TypeOK ==
    /\ kind \in Kinds
    /\ stage_ \in Stages
    /\ active_request_id_ \in 0..made
    /\ repoquery_process_ \in Process
    /\ decompress_process_ \in Process
    /\ made \in Nat
    /\ pending \subseteq 1..made
    /\ fetches \in 0..MaxFetches
    /\ answers \in Nat

NoProgram == repoquery_process_ = "nullptr" /\ decompress_process_ = "nullptr"

\* A source that has yet to answer has one thing under way: its active request,
\* its repoquery or its decompressor.  A source that answered has nothing under
\* way, although neither the stage nor the active request is ever reset: what
\* they still say cannot be taken for the next fetch's.
OneThingUnderWay ==
    /\ fetches = answers => pending = {} /\ NoProgram
    /\ fetches # answers =>
          \/ pending = {active_request_id_} /\ NoProgram
          \/ pending = {} /\ repoquery_process_ # "nullptr" /\ decompress_process_ = "nullptr"
          \/ pending = {} /\ repoquery_process_ = "nullptr" /\ decompress_process_ # "nullptr"

Lost == "lost" \in {repoquery_process_, decompress_process_}

Promise == INSTANCE SourcePromise WITH
    activity <- IF fetches = answers THEN "idle" ELSE IF Lost THEN "lost" ELSE "running"

\* Every fetch is answered by one signal, no signal comes unasked, and a fetch
\* whose program runs is answered in the end.
KeepsPromise == Promise!FairSpec

=============================================================================
