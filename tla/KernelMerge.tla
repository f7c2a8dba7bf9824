---------------------------- MODULE KernelMerge ----------------------------
(***************************************************************************)
(* How KernelRepository turns the answers of a refresh into the list it    *)
(* publishes.  A KernelInfo is a record of the fields the list's meaning   *)
(* depends on; names, dates, checksums and notes are left out.             *)
(*                                                                         *)
(* The code keeps its lists as QList and merges through a QHash keyed by   *)
(* source and version.  A source answers once per refresh and groups its   *)
(* packages by version, so the keys of the available list never repeat and *)
(* the lists are sets here.                                                *)
(***************************************************************************)

\* Every status the enumeration has.  No code assigns UpdateAvailable.
KernelStatus == {"Available", "Installed", "InstalledRunning", "UpdateAvailable"}

KernelInfo(sources, versions) ==
    [sourceId : sources, version : versions, status : KernelStatus]

-----------------------------------------------------------------------------
(***************************************************************************)
(* What the parties of a refresh answer with.                              *)
(***************************************************************************)

\* The records GroupPackageRecords makes of the versions a repository offers.
AvailableFrom(source, versions) ==
    {[sourceId |-> source, version |-> v, status |-> "Available"] : v \in versions}

\* The records DnfCliBackend makes of the versions rpm lists: always under the
\* Fedora source, and InstalledRunning for the one `uname -r` names.
InstalledFrom(fedora, running, versions) ==
    {[sourceId |-> fedora,
      version  |-> v,
      status   |-> IF v = running THEN "InstalledRunning" ELSE "Installed"]
        : v \in versions}

-----------------------------------------------------------------------------
(***************************************************************************)
(* KernelRepository::mergeKernelLists.                                     *)
(***************************************************************************)

KernelKey(kernel) == <<kernel.sourceId, kernel.version>>

Keys(kernels) == {KernelKey(kernel) : kernel \in kernels}

InstalledVersions(installed) == {kernel.version : kernel \in installed}

\* An Available kernel whose version is installed becomes Installed; any other
\* status is left alone.
MarkInstalled(kernel, versions) ==
    IF kernel.version \in versions /\ kernel.status = "Available"
    THEN [kernel EXCEPT !.status = "Installed"]
    ELSE kernel

\* Mutant: every installed kernel gets a row of its own.
mergeKernelLists_NoKeyCheck(available, installed) ==
    {MarkInstalled(k, InstalledVersions(installed)) : k \in available} \cup installed

\* Mutant: only the source that lists an installed kernel has it marked.
mergeKernelLists_MarkByKey(available, installed) ==
    LET mark(k) == IF KernelKey(k) \in Keys(installed)
                   THEN MarkInstalled(k, {k.version})
                   ELSE k
    IN  {mark(k) : k \in available} \cup
        {k \in installed : KernelKey(k) \notin Keys(available)}

\* The available list, marked; and the installed kernels whose key it lacks.
mergeKernelLists(available, installed) ==
    LET versions == InstalledVersions(installed)
        listed   == {MarkInstalled(k, versions) : k \in available}
    IN  listed \cup {MarkInstalled(k, versions) :
                        k \in {i \in installed : KernelKey(i) \notin Keys(listed)}}

=============================================================================
