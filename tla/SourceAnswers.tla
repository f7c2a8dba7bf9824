--------------------------- MODULE SourceAnswers ---------------------------
(***************************************************************************)
(* What a source answers with: SourceFetch with the output its programs    *)
(* end with, and the kernels that fetchFinished carries.                   *)
(***************************************************************************)
EXTENDS SourceFetch, KernelPackages

CONSTANTS
    Lines,          \* the lines repoquery's output can be made of
    Elements,       \* the package elements primary.xml can be made of
    MaxListed       \* bound on the length of an output

ASSUME ListedAssumption ==
    /\ \A item \in Lines \cup Elements :
          item.name \in STRING /\ item.version \in Nat /\ item.seconds \in Int
    /\ \A line \in Lines : line.columns \in 1..3
    /\ \A element \in Elements : element.checksum \in STRING
    /\ MaxListed \in Nat

VARIABLES
    variant_,       \* which of the two CachyOS sources this is
    supports,       \* the levels of the processor
    output,         \* what the program of the last fetch wrote
    fetched         \* what the last fetch answered: no kernels, or one list

answerVars == <<vars, variant_, supports, output, fetched>>

\* id() of the source.
Id ==
    IF kind = "CachyOs" THEN variant_
    ELSE IF kind = "FedoraStable" THEN "FedoraStable"
    ELSE "FedoraRawhide"

AnswersInit ==
    /\ Init
    /\ variant_ \in IF kind = "CachyOs" THEN {"CachyOsStable", "CachyOsLts"} ELSE {"none"}
    /\ supports \in {2..level : level \in IF kind = "CachyOs" THEN 1..4 ELSE {1}}
    /\ output = <<>>
    /\ fetched = {}

-----------------------------------------------------------------------------

Outputs(items) == UNION {[1..n -> items] : n \in 0..MaxListed}

\* The program ended normally, with this output.
FetchFinished(lines, kernels) ==
    /\ output' = lines
    /\ fetched' = {kernels}

\* The program failed, crashed, or had nothing to do with it.
NothingFetched == UNCHANGED <<output, fetched>>

\* fetchAvailable()
fetchAvailable ==
    /\ fetchFailsAtOnce \/ fetchWithRepoquery \/ fetchFromNetwork
    /\ output' = <<>>
    /\ fetched' = {}

repoqueryFinished ==
    /\ finishRepoquery
    /\ \/ NothingFetched
       \/ \E lines \in Outputs(Lines) : FetchFinished(lines, ParseRepoqueryOutput(lines, Id))

\* finishDecompress: the CachyOS kernels also get the host's compatibility.
WithCompatibility(kernels) ==
    [i \in DOMAIN kernels |->
        [kernels[i] EXCEPT !.compatibility = checkCompatibility(Id, supports)]]

decompressFinished ==
    /\ finishDecompress
    /\ \/ NothingFetched
       \/ \E elements \in Outputs(Elements) :
             FetchFinished(elements, WithCompatibility(ParsePrimaryXml(elements, Id)))

networkAnswers ==
    /\ \E id \in pending : NetworkAnswers(id)
    /\ NothingFetched

AnswersNext ==
    /\ \/ fetchAvailable
       \/ repoqueryFinished
       \/ decompressFinished
       \/ networkAnswers
    /\ UNCHANGED <<variant_, supports>>

AnswersSpec == AnswersInit /\ [][AnswersNext]_answerVars /\ Fairness

-----------------------------------------------------------------------------
(***************************************************************************)
(* Properties.                                                             *)
(***************************************************************************)

IsRepoquery == kind \in {"FedoraStable", "RawhideLocal"}

\* The packages of the output this source looks for, and those with a date.
Wanted ==
    {item \in Range(output) :
        IsKernelPackage(item, Id) /\ (IsRepoquery => item.columns >= 2)}

Dated(items) == {item \in items : item.seconds > 0 /\ (IsRepoquery => item.columns = 3)}

IsMadeOf(kernel, items) ==
    LET dates     == {item.seconds : item \in Dated(items)}
        checksums == IF IsRepoquery THEN {} ELSE {item.checksum : item \in items} \ {NoChecksum}
    IN  /\ Range(kernel.subPackages) = {item.name : item \in items}
        /\ IsInjective(kernel.subPackages)
        /\ IF dates = {}
           THEN kernel.releaseDate = NullDate
           ELSE kernel.releaseDate \in dates /\ \A d \in dates : kernel.releaseDate <= d
        /\ IF checksums = {} THEN kernel.sha256 = NoChecksum ELSE kernel.sha256 \in checksums

\* A fetch that succeeds tells of every kernel its program listed a package of,
\* once, and of no kernel of the other variant, which shares the repository; of
\* its packages without repeats and of the earliest date any of them has, in
\* whatever order the packages came and however they are mixed with those of
\* other kernels; and says that the processor runs a CachyOS kernel when it has
\* the level this variant is built for.
AnswerTellsPackages ==
    \A kernels \in fetched :
        /\ {kernels[i].version : i \in DOMAIN kernels} = {item.version : item \in Wanted}
        /\ \A i, j \in DOMAIN kernels : i < j => kernels[i].version > kernels[j].version
        /\ \A i \in DOMAIN kernels :
              /\ IsMadeOf(kernels[i], {item \in Wanted : item.version = kernels[i].version})
              /\ kind = "CachyOs" =>
                    kernels[i].compatibility
                        = {IF variant_ = "CachyOsLts" THEN 2 \in supports ELSE 3 \in supports}

=============================================================================
