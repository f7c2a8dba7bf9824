-------------------------- MODULE KernelPackages --------------------------
(***************************************************************************)
(* How a source makes kernels of the packages a repository lists           *)
(* (core/sources/KernelPackageUtils and CpuFeatures).                      *)
(*                                                                         *)
(* A package is a record of the fields the kernels are made of.  Versions  *)
(* are numbered in the order in which QString compares their texts, which  *)
(* is not the order of the releases ("6.9" comes after "6.11"); 0 is the   *)
(* empty text.  Times are the seconds of the build, as the text says them. *)
(* Summaries and changelogs are left out: neither source's packages carry  *)
(* the latter.                                                             *)
(***************************************************************************)
EXTENDS Integers, Sequences, FiniteSets, Functions

SourceIds == {"FedoraStable", "FedoraRawhide", "CachyOsStable", "CachyOsLts"}

NullDate == 0

NoChecksum == ""

-----------------------------------------------------------------------------
(***************************************************************************)
(* The packages a source looks for.  The two variants of CachyOS share one *)
(* repository, so that each of them reads the packages of the other.       *)
(***************************************************************************)

FedoraKernelPackageNames ==
    {"kernel", "kernel-core", "kernel-modules", "kernel-modules-extra",
     "kernel-devel", "kernel-headers"}

CachyKernelPackageNames(sourceId) ==
    IF sourceId = "CachyOsLts"
    THEN {"kernel-cachyos-lts", "kernel-cachyos-lts-core", "kernel-cachyos-lts-modules",
          "kernel-cachyos-lts-devel", "kernel-cachyos-lts-headers"}
    ELSE {"kernel-cachyos", "kernel-cachyos-core", "kernel-cachyos-modules",
          "kernel-cachyos-devel", "kernel-cachyos-headers"}

PackageNamesForSource(sourceId) ==
    IF sourceId \in {"CachyOsStable", "CachyOsLts"}
    THEN CachyKernelPackageNames(sourceId)
    ELSE FedoraKernelPackageNames

-----------------------------------------------------------------------------
(***************************************************************************)
(* GroupPackageRecords.                                                    *)
(***************************************************************************)

\* A time that is no number or not positive is no date.
BuildTimeFromEpoch(seconds) == IF seconds <= 0 THEN NullDate ELSE seconds

NewKernel(sourceId, version) ==
    [sourceId |-> sourceId, version |-> version, subPackages |-> <<>>,
     releaseDate |-> NullDate, sha256 |-> NoChecksum, compatibility |-> {}]

\* Mutant: a kernel whose date is not known yet keeps none.
Earliest_NullFirst(date, time) == IF time # NullDate /\ time < date THEN time ELSE date

Earliest(date, time) ==
    IF time # NullDate /\ (date = NullDate \/ time < date) THEN time ELSE date

WithPackage(kernel, package) ==
    [kernel EXCEPT
        !.subPackages = IF package.name \in Range(@) THEN @ ELSE Append(@, package.name),
        !.releaseDate = Earliest(@, package.buildTime),
        !.sha256      = IF @ = NoChecksum THEN package.checksum ELSE @]

IsKernelPackage(package, sourceId) ==
    package.name \in PackageNamesForSource(sourceId) /\ package.version # 0

\* The hash the packages are grouped in, from version to kernel, after one more.
AddRecord(grouped, package, sourceId) ==
    LET version == package.version
        kernel  == IF version \in DOMAIN grouped
                   THEN grouped[version]
                   ELSE NewKernel(sourceId, version)
    IN  IF ~IsKernelPackage(package, sourceId)
        THEN grouped
        ELSE [v \in DOMAIN grouped \cup {version} |->
                 IF v = version THEN WithPackage(kernel, package) ELSE grouped[v]]

\* The hash after each of the records.
Grouping(records, sourceId) ==
    LET grouped[n \in 0..Len(records)] ==
            IF n = 0 THEN <<>> ELSE AddRecord(grouped[n - 1], records[n], sourceId)
    IN  grouped

\* The values of the hash, the last in the order of the texts first.
SortedByVersion(grouped) ==
    LET later(version) == {other \in DOMAIN grouped : other > version}
    IN  [place \in 1..Cardinality(DOMAIN grouped) |->
            grouped[CHOOSE version \in DOMAIN grouped : Cardinality(later(version)) = place - 1]]

\* One kernel for each version.
GroupPackageRecords(records, sourceId) ==
    SortedByVersion(Grouping(records, sourceId)[Len(records)])

-----------------------------------------------------------------------------
(***************************************************************************)
(* What is read is a sequence of lines or of package elements: the name,   *)
(* the version, the seconds of the build, the checksum, and how many       *)
(* columns the line has.                                                   *)
(***************************************************************************)

\* A line has a time if it has three columns, and no checksum.
LineRecord(line) ==
    [name      |-> line.name,
     version   |-> line.version,
     buildTime |-> IF line.columns < 3 THEN NullDate ELSE BuildTimeFromEpoch(line.seconds),
     checksum  |-> NoChecksum]

\* The records after each of the lines; one of less than two columns is skipped.
LineRecords(lines) ==
    LET records[n \in 0..Len(lines)] ==
            IF n = 0 THEN <<>>
            ELSE IF lines[n].columns < 2 THEN records[n - 1]
            ELSE Append(records[n - 1], LineRecord(lines[n]))
    IN  records

ParseRepoqueryOutput(lines, sourceId) ==
    GroupPackageRecords(LineRecords(lines)[Len(lines)], sourceId)

ElementRecord(element) ==
    [name      |-> element.name,
     version   |-> element.version,
     buildTime |-> BuildTimeFromEpoch(element.seconds),
     checksum  |-> element.checksum]

\* The elements are those before the end of the document or before its first
\* error, after which the reader goes on as at the end.
ParsePrimaryXml(elements, sourceId) ==
    GroupPackageRecords([i \in DOMAIN elements |-> ElementRecord(elements[i])], sourceId)

-----------------------------------------------------------------------------
(***************************************************************************)
(* Whether the processor runs a CachyOS kernel.  `supports` are the levels *)
(* __builtin_cpu_supports() grants, each of which includes those below it. *)
(***************************************************************************)

DetectWithBuiltins(supports) ==
    IF 4 \in supports THEN 4
    ELSE IF 3 \in supports THEN 3
    ELSE IF 2 \in supports THEN 2
    ELSE 1

requiredLevel(sourceId) == IF sourceId = "CachyOsLts" THEN 2 ELSE 3

SupportsLevel(level, required) == level >= required

\* The result of a CachyOS source; the Fedora sources have none.
checkCompatibility(sourceId, supports) ==
    IF sourceId \in {"CachyOsStable", "CachyOsLts"}
    THEN {SupportsLevel(DetectWithBuiltins(supports), requiredLevel(sourceId))}
    ELSE {}

=============================================================================
