----------------------- MODULE KernelCommands_proofs -----------------------
(***************************************************************************)
(* Safety of the commands of KernelCommands for any number of processes    *)
(* and versions.                                                           *)
(*                                                                         *)
(* The invariant IInv adds to the properties what carries them from one    *)
(* step to the next: a process has a command once it left "start", reports *)
(* once, starts its dnf only where it waits for it (Progress), never has a *)
(* dnf remove the running kernel (RemovesOthers), and its two lists of     *)
(* answers have one kernel for a key (KeysDecide), without which the merge *)
(* could make two rows of a version.                                       *)
(***************************************************************************)
EXTENDS KernelCommands, TLAPS

\* A process has a command once it began, reports when it ends, and starts its
\* dnf where it waits for it.
Progress ==
    \A p \in Processes :
        /\ pc[p] # "start" => command[p] \in Commands
        /\ pc[p] # "ended" => outcome[p] = "none"
        /\ pc[p] \notin {"operating", "ended"} => dnf[p] = "none"

\* No dnf that runs removes the running kernel.
RemovesOthers ==
    \A p \in Processes :
        dnf[p] = "running" => command[p].verb = "install" \/ command[p].version # Running

\* A key names one kernel of a list.
OnePerKey(list) == \A j, k \in list : KernelKey(j) = KernelKey(k) => j = k

KeysDecide == \A p \in Processes : OnePerKey(available[p]) /\ OnePerKey(installed[p])

IInv ==
    /\ TypeOK
    /\ Progress
    /\ RemovesOthers
    /\ KeysDecide
    /\ VersionHasOneRow
    /\ OkMeansDone

-----------------------------------------------------------------------------
(***************************************************************************)
(* What the parties answer with, and the list made of it.                  *)
(***************************************************************************)

\* A source's answer is a list of kernels with one for each key.
LEMMA AvailableAnswer ==
    ASSUME NEW versions \in SUBSET Versions
    PROVE  /\ AvailableFrom(Fedora, versions) \subseteq KernelInfo({Fedora}, Versions)
           /\ OnePerKey(AvailableFrom(Fedora, versions))
BY DEF AvailableFrom, KernelInfo, KernelStatus, OnePerKey, KernelKey

\* So is rpm's.
LEMMA InstalledAnswer ==
    ASSUME NEW versions \in SUBSET Versions
    PROVE  /\ InstalledFrom(Fedora, Running, versions) \subseteq KernelInfo({Fedora}, Versions)
           /\ OnePerKey(InstalledFrom(Fedora, Running, versions))
<1>1. InstalledFrom(Fedora, Running, versions) \subseteq KernelInfo({Fedora}, Versions)
  BY DEF InstalledFrom, KernelInfo, KernelStatus
<1>2. OnePerKey(InstalledFrom(Fedora, Running, versions))
  BY DEF InstalledFrom, OnePerKey, KernelKey
<1> QED
  BY <1>1, <1>2

\* The merge of two lists, with the pins.
Rows(a, i, pinned) == {applyState(k, pinned) : k \in mergeKernelLists(a, i)}

\* k is j, perhaps marked, and j is of the second list only if the first lacks its key.
ComesFrom(k, j, a, i) ==
    /\ k = MarkInstalled(j, InstalledVersions(i)) /\ KernelKey(j) = KernelKey(k)
    /\ j \in a \/ (j \in i /\ \A l \in a : KernelKey(l) # KernelKey(j))

\* A kernel of the merge is one of the lists, perhaps marked.
LEMMA MergedKernel ==
    ASSUME NEW a \in SUBSET KernelInfo({Fedora}, Versions),
           NEW i \in SUBSET KernelInfo({Fedora}, Versions),
           NEW k \in mergeKernelLists(a, i)
    PROVE  /\ k.version \in Versions /\ k.status \in KernelStatus
           /\ \E j \in a \cup i : ComesFrom(k, j, a, i)
           /\ KernelKey(k) = <<Fedora, k.version>>
<1> DEFINE mark(j) == MarkInstalled(j, InstalledVersions(i))
<1>1. \A j \in a \cup i : /\ mark(j).version \in Versions /\ mark(j).status \in KernelStatus
                         /\ KernelKey(mark(j)) = KernelKey(j)
                         /\ KernelKey(mark(j)) = <<Fedora, mark(j).version>>
  BY DEF MarkInstalled, KernelInfo, KernelStatus, KernelKey
<1> HIDE DEF mark
<1>2. \/ \E j \in a : k = mark(j)
      \/ \E j \in i : k = mark(j) /\ KernelKey(j) \notin Keys({mark(l) : l \in a})
  BY DEF mergeKernelLists, mark
<1>3. \A l \in a : KernelKey(l) \in Keys({mark(m) : m \in a})
  BY <1>1 DEF Keys
<1> QED
  BY <1>1, <1>2, <1>3 DEF mark, ComesFrom

\* The merge of the two, with the pins, is a list of rows with one for a version:
\* its keys do not repeat, and every row has the same source.
LEMMA MergedRows ==
    ASSUME NEW a \in SUBSET KernelInfo({Fedora}, Versions), OnePerKey(a),
           NEW i \in SUBSET KernelInfo({Fedora}, Versions), OnePerKey(i),
           NEW pinned
    PROVE  /\ Rows(a, i, pinned) \subseteq Row
           /\ \A j, k \in Rows(a, i, pinned) : j.version = k.version => j = k
<1>1. Rows(a, i, pinned) \subseteq Row
  <2> SUFFICES ASSUME NEW k \in mergeKernelLists(a, i) PROVE applyState(k, pinned) \in Row
    BY DEF Rows
  <2>1. (k.version \in pinned) \in BOOLEAN
    OBVIOUS
  <2> QED
    BY <2>1, MergedKernel DEF applyState, Row
<1>2. ASSUME NEW x \in mergeKernelLists(a, i), NEW y \in mergeKernelLists(a, i),
             x.version = y.version
      PROVE  x = y
  <2>1. KernelKey(x) = <<Fedora, x.version>> /\ \E j \in a \cup i : ComesFrom(x, j, a, i)
    BY MergedKernel
  <2>2. KernelKey(y) = <<Fedora, y.version>> /\ \E j \in a \cup i : ComesFrom(y, j, a, i)
    BY MergedKernel
  <2>3. PICK j \in a \cup i : ComesFrom(x, j, a, i)
    BY <2>1
  <2>4. PICK l \in a \cup i : ComesFrom(y, l, a, i)
    BY <2>2
  <2>5. KernelKey(j) = KernelKey(l)
    BY <1>2, <2>1, <2>2, <2>3, <2>4 DEF ComesFrom
  <2> QED
    BY <2>3, <2>4, <2>5 DEF OnePerKey, ComesFrom
<1>3. \A x \in mergeKernelLists(a, i) : applyState(x, pinned).version = x.version
  BY DEF applyState
<1> QED
  BY <1>1, <1>2, <1>3 DEF Rows

-----------------------------------------------------------------------------
(***************************************************************************)
(* IInv is inductive.                                                      *)
(***************************************************************************)

LEMMA InitInvariant == Init => IInv
<1> SUFFICES ASSUME Init PROVE IInv
  OBVIOUS
<1>1. TypeOK
  BY DEF Init, TypeOK, Places
<1>2. Progress /\ RemovesOthers
  BY DEF Init, Progress, RemovesOthers
<1>3. KeysDecide /\ VersionHasOneRow
  BY DEF Init, KeysDecide, OnePerKey, VersionHasOneRow
<1>4. OkMeansDone
  BY DEF Init, OkMeansDone
<1> QED
  BY <1>1, <1>2, <1>3, <1>4 DEF IInv

\* The end of an answer keeps the lists of kernels, whether it was the last or not.
LEMMA FinalizeKeepsLists ==
    ASSUME IInv, NEW p \in Processes,
           NEW a \in SUBSET KernelInfo({Fedora}, Versions), OnePerKey(a),
           NEW i \in SUBSET KernelInfo({Fedora}, Versions), OnePerKey(i),
           finalizeRefreshIfReady(p, a, i)
    PROVE  /\ available' \in [Processes -> SUBSET KernelInfo({Fedora}, Versions)]
           /\ installed' \in [Processes -> SUBSET KernelInfo({Fedora}, Versions)]
           /\ kernels' \in [Processes -> SUBSET Row]
           /\ \A q \in Processes \ {p} : kernels'[q] = kernels[q]
           /\ KeysDecide'
           /\ VersionHasOneRow'
           /\ pc' = pc \/ pc' = [pc EXCEPT ![p] = "refreshed"]
<1>1. /\ available \in [Processes -> SUBSET KernelInfo({Fedora}, Versions)]
      /\ installed \in [Processes -> SUBSET KernelInfo({Fedora}, Versions)]
      /\ kernels \in [Processes -> SUBSET Row]
      /\ KeysDecide /\ VersionHasOneRow
  BY DEF IInv, TypeOK
<1>2. CASE asked'[p] # {}
  <2>1. /\ available' = [available EXCEPT ![p] = a]
        /\ installed' = [installed EXCEPT ![p] = i]
        /\ pc' = pc /\ kernels' = kernels
    BY <1>2 DEF finalizeRefreshIfReady
  <2>2. KeysDecide'
    BY <1>1, <2>1 DEF KeysDecide
  <2>3. VersionHasOneRow'
    BY <1>1, <2>1 DEF VersionHasOneRow
  <2> QED
    BY <1>1, <2>1, <2>2, <2>3
<1>3. CASE asked'[p] = {}
  <2>1. PICK pinned \in PinsRead :
           kernels' = [kernels EXCEPT ![p] = {applyState(k, pinned) : k \in mergeKernelLists(a, i)}]
    BY <1>3 DEF finalizeRefreshIfReady
  <2>2. /\ available' = [available EXCEPT ![p] = {}]
        /\ installed' = [installed EXCEPT ![p] = {}]
        /\ pc' = [pc EXCEPT ![p] = "refreshed"]
    BY <1>3 DEF finalizeRefreshIfReady, forgetAnswers, Go
  <2>3. kernels' = [kernels EXCEPT ![p] = Rows(a, i, pinned)]
    BY <2>1 DEF Rows
  <2>4. /\ Rows(a, i, pinned) \subseteq Row
        /\ \A j, k \in Rows(a, i, pinned) : j.version = k.version => j = k
    BY MergedRows
  <2>5. KeysDecide'
    BY <1>1, <2>2 DEF KeysDecide, OnePerKey
  <2>6. VersionHasOneRow'
    BY <1>1, <2>3, <2>4 DEF VersionHasOneRow
  <2> QED
    BY <1>1, <2>2, <2>3, <2>4, <2>5, <2>6
<1> QED
  BY <1>2, <1>3

\* An answer keeps IInv, whatever program gave it and whatever it said.
LEMMA AnswerKeepsInvariant ==
    ASSUME IInv, NEW p \in Processes, NEW program \in {"rpm", "repoquery"},
           Answers(p, program), errors' \in [Processes -> BOOLEAN],
           NEW a \in SUBSET KernelInfo({Fedora}, Versions), OnePerKey(a),
           NEW i \in SUBSET KernelInfo({Fedora}, Versions), OnePerKey(i),
           finalizeRefreshIfReady(p, a, i)
    PROVE  IInv'
<1>1. /\ available' \in [Processes -> SUBSET KernelInfo({Fedora}, Versions)]
      /\ installed' \in [Processes -> SUBSET KernelInfo({Fedora}, Versions)]
      /\ kernels' \in [Processes -> SUBSET Row]
      /\ \A q \in Processes \ {p} : kernels'[q] = kernels[q]
      /\ KeysDecide'
      /\ VersionHasOneRow'
      /\ pc' = pc \/ pc' = [pc EXCEPT ![p] = "refreshed"]
  BY FinalizeKeepsLists
<1>2. /\ pc[p] = "refreshing"
      /\ rpmdb' = rpmdb /\ pins' = pins /\ command' = command /\ dnf' = dnf /\ outcome' = outcome
      /\ asked' = [asked EXCEPT ![p] = @ \ {program}]
  BY DEF Answers
<1>3. TypeOK /\ Progress /\ RemovesOthers /\ OkMeansDone
  BY DEF IInv
<1>4. pc' \in [Processes -> Places]
  BY <1>1, <1>3 DEF TypeOK, Places
<1>5. TypeOK'
  <2>1. asked' \in [Processes -> SUBSET {"rpm", "repoquery"}]
    BY <1>2, <1>3 DEF TypeOK
  <2> QED
    BY <1>1, <1>2, <1>3, <1>4, <2>1 DEF TypeOK
<1>6. Progress'
  BY <1>1, <1>2, <1>3 DEF Progress, TypeOK
<1>7. RemovesOthers'
  BY <1>2, <1>3 DEF RemovesOthers
<1>8. OkMeansDone'
  <2>1. outcome[p] = "none"
    BY <1>2, <1>3 DEF Progress
  <2> QED
    BY <1>1, <1>2, <1>3, <2>1 DEF OkMeansDone, Found
<1> QED
  BY <1>1, <1>5, <1>6, <1>7, <1>8 DEF IInv

\* Every step of a refresh keeps IInv.
LEMMA RefreshKeepsInvariant ==
    ASSUME IInv, NEW p \in Processes, Refresh(p)
    PROVE  IInv'
<1>1. TypeOK /\ Progress /\ RemovesOthers /\ KeysDecide /\ VersionHasOneRow /\ OkMeansDone
  BY DEF IInv
<1>2. /\ available[p] \in SUBSET KernelInfo({Fedora}, Versions) /\ OnePerKey(available[p])
      /\ installed[p] \in SUBSET KernelInfo({Fedora}, Versions) /\ OnePerKey(installed[p])
      /\ rpmdb \in SUBSET Versions
      /\ errors \in [Processes -> BOOLEAN]
  BY <1>1 DEF TypeOK, KeysDecide
<1>3. ASSUME NEW versions \in SUBSET Versions, repoqueryAnswers(p, versions)
      PROVE  IInv'
  <2>1. /\ AvailableFrom(Fedora, versions) \in SUBSET KernelInfo({Fedora}, Versions)
        /\ OnePerKey(AvailableFrom(Fedora, versions))
    BY AvailableAnswer
  <2>2. /\ Answers(p, "repoquery") /\ errors' = errors
        /\ finalizeRefreshIfReady(p, AvailableFrom(Fedora, versions), installed[p])
    BY <1>3 DEF repoqueryAnswers
  <2>3. errors' \in [Processes -> BOOLEAN]
    BY <1>2, <2>2
  <2>4. PICK a : a = AvailableFrom(Fedora, versions)
    OBVIOUS
  <2>5. PICK i : i = installed[p]
    OBVIOUS
  <2> QED
    BY <1>2, <2>1, <2>2, <2>3, <2>4, <2>5, AnswerKeepsInvariant
<1>4. CASE rpmAnswers(p)
  <2>1. PICK i : i = InstalledFrom(Fedora, Running, rpmdb)
    OBVIOUS
  <2>2. PICK a : a = available[p]
    OBVIOUS
  <2>3. i \in SUBSET KernelInfo({Fedora}, Versions) /\ OnePerKey(i)
    <3>1. PICK versions \in SUBSET Versions : versions = rpmdb
      BY <1>2
    <3> QED
      BY <2>1, <3>1, InstalledAnswer
  <2>4. /\ Answers(p, "rpm") /\ errors' = errors
        /\ finalizeRefreshIfReady(p, a, i)
    BY <1>4, <2>1, <2>2 DEF rpmAnswers
  <2>5. errors' \in [Processes -> BOOLEAN]
    BY <1>2, <2>4
  <2> QED
    BY <1>2, <2>2, <2>3, <2>4, <2>5, AnswerKeepsInvariant
<1>5. ASSUME NEW program \in {"rpm", "repoquery"}, programFails(p, program)
      PROVE  IInv'
  <2>1. PICK a : a = available[p]
    OBVIOUS
  <2>2. PICK i : i = installed[p]
    OBVIOUS
  <2>3. /\ Answers(p, program) /\ errors' = [errors EXCEPT ![p] = TRUE]
        /\ finalizeRefreshIfReady(p, a, i)
    BY <1>5, <2>1, <2>2 DEF programFails
  <2>4. errors' \in [Processes -> BOOLEAN]
    BY <1>2, <2>3
  <2> QED
    BY <1>2, <2>1, <2>2, <2>3, <2>4, AnswerKeepsInvariant
<1>6. CASE refreshTimesOut(p)
  <2>1. /\ pc[p] = "refreshing"
        /\ pc' = [pc EXCEPT ![p] = "ended"]
        /\ outcome' = [outcome EXCEPT ![p] = "error"]
        /\ asked' = [asked EXCEPT ![p] = {}]
        /\ available' = [available EXCEPT ![p] = {}]
        /\ installed' = [installed EXCEPT ![p] = {}]
        /\ rpmdb' = rpmdb /\ pins' = pins /\ command' = command /\ errors' = errors
        /\ kernels' = kernels /\ dnf' = dnf
    BY <1>6 DEF refreshTimesOut, Report, Go, forgetAnswers
  <2>2. TypeOK'
    BY <1>1, <2>1 DEF TypeOK, Places
  <2>3. Progress' /\ RemovesOthers'
    BY <1>1, <2>1 DEF Progress, RemovesOthers, TypeOK
  <2>4. KeysDecide'
    BY <1>1, <2>1 DEF KeysDecide, OnePerKey, TypeOK
  <2>5. VersionHasOneRow'
    BY <1>1, <2>1 DEF VersionHasOneRow
  <2>6. OkMeansDone'
    BY <1>1, <2>1 DEF OkMeansDone, Found, TypeOK
  <2> QED
    BY <2>2, <2>3, <2>4, <2>5, <2>6 DEF IInv
<1> QED
  BY <1>3, <1>4, <1>5, <1>6 DEF Refresh

\* A step that leaves the lists of every process alone, and what it has to show
\* to keep IInv.
LEMMA ListsUnchanged ==
    ASSUME IInv, refreshing' = refreshing,
           rpmdb' \subseteq Versions, pins' \subseteq Versions,
           command' \in [Processes -> Commands \cup {NoCommand}],
           pc' \in [Processes -> Places],
           dnf' \in [Processes -> {"none", "running", "committed", "failed"}],
           outcome' \in [Processes -> {"none", "ok", "error"}],
           Progress', RemovesOthers', OkMeansDone'
    PROVE  IInv'
<1>1. TypeOK /\ KeysDecide /\ VersionHasOneRow
  BY DEF IInv
<1>2. TypeOK'
  BY <1>1 DEF TypeOK, refreshing
<1>3. KeysDecide' /\ VersionHasOneRow'
  BY <1>1 DEF KeysDecide, VersionHasOneRow, refreshing
<1> QED
  BY <1>2, <1>3 DEF IInv

\* Every first step of a command keeps IInv.
LEMMA BeginKeepsInvariant ==
    ASSUME IInv, NEW p \in Processes, Begin(p)
    PROVE  IInv'
<1>1. TypeOK /\ Progress /\ RemovesOthers /\ KeysDecide /\ VersionHasOneRow /\ OkMeansDone
  BY DEF IInv
<1>2. PICK c \in Commands : PinCommand(p, c) \/ refreshCannotBegin(p, c) \/ beginRefresh(p, c)
  BY DEF Begin
<1>3. /\ c.version \in Versions
      /\ pc[p] = "start" /\ outcome[p] = "none" /\ dnf[p] = "none"
      /\ command' = [command EXCEPT ![p] = c]
      /\ rpmdb' = rpmdb /\ dnf' = dnf
  BY <1>1, <1>2 DEF Commands, Progress, PinCommand, refreshCannotBegin, beginRefresh
<1>4. command' \in [Processes -> Commands \cup {NoCommand}]
  BY <1>1, <1>3 DEF TypeOK
<1>5. RemovesOthers'
  BY <1>1, <1>3 DEF RemovesOthers, TypeOK
<1>6. CASE PinCommand(p, c)
  <2>1. PICK result \in {"ok", "error"} :
           /\ pc' = [pc EXCEPT ![p] = "ended"]
           /\ outcome' = [outcome EXCEPT ![p] = result]
    BY <1>6 DEF PinCommand, Report, Go
  <2>2. /\ pins' \subseteq Versions /\ refreshing' = refreshing
        /\ c.verb \notin {"install", "remove"}
    BY <1>1, <1>3, <1>6 DEF PinCommand, TypeOK
  <2>3. pc' \in [Processes -> Places] /\ outcome' \in [Processes -> {"none", "ok", "error"}]
    BY <1>1, <2>1 DEF TypeOK, Places
  <2>4. Progress'
    BY <1>1, <1>3, <2>1 DEF Progress, TypeOK
  <2>5. OkMeansDone'
    BY <1>1, <1>3, <2>1, <2>2 DEF OkMeansDone, Found, TypeOK, refreshing
  <2> QED
    BY <1>1, <1>3, <1>4, <1>5, <2>2, <2>3, <2>4, <2>5, ListsUnchanged DEF TypeOK
<1>7. CASE refreshCannotBegin(p, c)
  <2>1. /\ pc' = [pc EXCEPT ![p] = "ended"]
        /\ outcome' = [outcome EXCEPT ![p] = "error"]
        /\ pins' = pins /\ refreshing' = refreshing
    BY <1>7 DEF refreshCannotBegin, Report, Go
  <2>2. pc' \in [Processes -> Places] /\ outcome' \in [Processes -> {"none", "ok", "error"}]
    BY <1>1, <2>1 DEF TypeOK, Places
  <2>3. Progress'
    BY <1>1, <1>3, <2>1 DEF Progress, TypeOK
  <2>4. OkMeansDone'
    BY <1>1, <1>3, <2>1 DEF OkMeansDone, Found, TypeOK, refreshing
  <2> QED
    BY <1>1, <1>3, <1>4, <1>5, <2>1, <2>2, <2>3, <2>4, ListsUnchanged DEF TypeOK
<1>8. CASE beginRefresh(p, c)
  <2>1. PICK programs \in {{"rpm"}, {"rpm", "repoquery"}}, noDnf \in BOOLEAN :
           /\ asked' = [asked EXCEPT ![p] = programs]
           /\ errors' = [errors EXCEPT ![p] = noDnf]
    BY <1>8 DEF beginRefresh
  <2>2. /\ pc' = [pc EXCEPT ![p] = "refreshing"]
        /\ pins' = pins /\ outcome' = outcome
        /\ available' = available /\ installed' = installed /\ kernels' = kernels
    BY <1>8 DEF beginRefresh, Go
  <2>3. TypeOK'
    BY <1>1, <1>3, <1>4, <2>1, <2>2 DEF TypeOK, Places
  <2>4. Progress'
    BY <1>1, <1>3, <2>2 DEF Progress, TypeOK
  <2>5. KeysDecide' /\ VersionHasOneRow'
    BY <1>1, <2>2 DEF KeysDecide, VersionHasOneRow
  <2>6. OkMeansDone'
    BY <1>1, <1>3, <2>2 DEF OkMeansDone, Found, TypeOK
  <2> QED
    BY <1>5, <2>3, <2>4, <2>5, <2>6 DEF IInv
<1> QED
  BY <1>2, <1>6, <1>7, <1>8

\* The step that decides keeps IInv.  A removal that starts is not of the running
\* kernel: removalBlocked was asked.
LEMMA ContinueKeepsInvariant ==
    ASSUME IInv, NEW p \in Processes, continueCommand(p)
    PROVE  IInv'
<1>1. TypeOK /\ Progress /\ RemovesOthers /\ KeysDecide /\ VersionHasOneRow /\ OkMeansDone
  BY DEF IInv
<1>2. /\ pc[p] = "refreshed" /\ outcome[p] = "none" /\ dnf[p] = "none"
      /\ kernels' = [kernels EXCEPT ![p] = Found(p)]
      /\ rpmdb' = rpmdb /\ pins' = pins /\ command' = command /\ asked' = asked
      /\ errors' = errors /\ available' = available /\ installed' = installed
  BY <1>1 DEF continueCommand, Progress
<1>3. Found(p) \subseteq kernels[p] /\ \A k \in Found(p) : k.version = command[p].version
  BY DEF Found
<1>4. Found(p)' = Found(p)
  BY <1>1, <1>2, <1>3 DEF Found, TypeOK
<1>5. kernels' \in [Processes -> SUBSET Row] /\ KeysDecide' /\ VersionHasOneRow'
  <2>1. kernels' \in [Processes -> SUBSET Row]
    BY <1>1, <1>2, <1>3 DEF TypeOK
  <2>2. KeysDecide'
    BY <1>1, <1>2 DEF KeysDecide
  <2>3. VersionHasOneRow'
    BY <1>1, <1>2, <1>3 DEF VersionHasOneRow, TypeOK
  <2> QED
    BY <2>1, <2>2, <2>3
<1>6. \/ /\ pc' = [pc EXCEPT ![p] = "ended"] /\ dnf' = dnf
         /\ \/ outcome' = [outcome EXCEPT ![p] = "error"]
            \/ /\ outcome' = [outcome EXCEPT ![p] = "ok"]
               /\ command[p].verb = "install"
               /\ \E k \in Found(p) : IsInstalledStatus(k.status)
      \/ /\ pc' = [pc EXCEPT ![p] = "refused"] /\ dnf' = dnf /\ outcome' = outcome
      \/ /\ pc' = [pc EXCEPT ![p] = "operating"] /\ outcome' = outcome
         /\ dnf' = [dnf EXCEPT ![p] = "running"]
         /\ command[p].verb = "install" \/ command[p].version # Running
  <2>1. CASE CannotOperate(p)
    BY <2>1 DEF CannotOperate, Report, Go
  <2>2. CASE InstallCommand(p)
    BY <2>2 DEF InstallCommand, Report, Go, startOrRefuse
  <2>3. CASE RemoveCommand(p)
    <3>1. PICK kernel \in Found(p) :
             IF ~IsInstalledStatus(kernel.status)
             THEN Report(p, "error") /\ UNCHANGED dnf
             ELSE \E hasDnf \in BOOLEAN :
                     startOrRefuse(p, hasDnf /\ ~removalBlocked(kernel, command[p].force))
      BY <2>3 DEF RemoveCommand
    <3>2. ~removalBlocked(kernel, command[p].force) => command[p].version # Running
      BY <1>3 DEF removalBlocked
    <3> QED
      BY <3>1, <3>2 DEF startOrRefuse, Report, Go
  <2> QED
    BY <2>1, <2>2, <2>3 DEF continueCommand
<1>7. TypeOK'
  <2>1. /\ pc' \in [Processes -> Places]
        /\ dnf' \in [Processes -> {"none", "running", "committed", "failed"}]
        /\ outcome' \in [Processes -> {"none", "ok", "error"}]
    BY <1>1, <1>6 DEF TypeOK, Places
  <2> QED
    BY <1>1, <1>2, <1>5, <2>1 DEF TypeOK
<1>8. Progress'
  BY <1>1, <1>2, <1>6 DEF Progress, TypeOK
<1>9. RemovesOthers'
  BY <1>1, <1>2, <1>6 DEF RemovesOthers, TypeOK
<1>10. OkMeansDone'
  <2> SUFFICES ASSUME NEW q \in Processes,
                      outcome'[q] = "ok", command[q].verb \in {"install", "remove"}
               PROVE  \/ dnf'[q] = "committed"
                      \/ /\ command[q].verb = "install"
                         /\ dnf'[q] = "none"
                         /\ \E k \in Found(q)' : IsInstalledStatus(k.status)
    BY <1>2 DEF OkMeansDone
  <2>1. CASE q = p
    BY <1>1, <1>2, <1>4, <1>6, <2>1 DEF TypeOK
  <2>2. CASE q # p
    <3>1. dnf'[q] = dnf[q] /\ outcome'[q] = outcome[q] /\ Found(q)' = Found(q)
      BY <1>1, <1>2, <1>6, <2>2 DEF TypeOK, Found
    <3> QED
      BY <1>1, <3>1 DEF OkMeansDone
  <2> QED
    BY <2>1, <2>2
<1> QED
  BY <1>5, <1>7, <1>8, <1>9, <1>10 DEF IInv

\* Every other step of an operation keeps IInv.
LEMMA OperateKeepsInvariant ==
    ASSUME IInv, NEW p \in Processes,
           deliverRefusal(p) \/ finishOperation(p) \/ operationTimesOut(p)
    PROVE  IInv'
<1>1. TypeOK /\ Progress /\ RemovesOthers /\ OkMeansDone
  BY DEF IInv
<1>2. PICK result \in {"ok", "error"} :
         /\ pc' = [pc EXCEPT ![p] = "ended"]
         /\ outcome' = [outcome EXCEPT ![p] = result]
         /\ result = "ok" => dnf[p] = "committed" /\ dnf' = dnf
  BY DEF deliverRefusal, finishOperation, operationTimesOut, Report, Go
<1>3. /\ rpmdb' = rpmdb /\ pins' = pins /\ command' = command /\ refreshing' = refreshing
      /\ pc[p] \in {"refused", "operating"}
      /\ dnf' = dnf \/ dnf' = [dnf EXCEPT ![p] = "failed"]
  BY DEF deliverRefusal, finishOperation, operationTimesOut
<1>4. /\ pc' \in [Processes -> Places]
      /\ dnf' \in [Processes -> {"none", "running", "committed", "failed"}]
      /\ outcome' \in [Processes -> {"none", "ok", "error"}]
  BY <1>1, <1>2, <1>3 DEF TypeOK, Places
<1>5. Progress'
  BY <1>1, <1>2, <1>3 DEF Progress, TypeOK
<1>6. RemovesOthers'
  BY <1>1, <1>3 DEF RemovesOthers, TypeOK
<1>7. OkMeansDone'
  <2>1. outcome[p] = "none"
    BY <1>1, <1>3 DEF Progress
  <2>2. \A q \in Processes : Found(q)' = Found(q)
    BY <1>3 DEF Found, refreshing
  <2> SUFFICES ASSUME NEW q \in Processes,
                      outcome'[q] = "ok", command[q].verb \in {"install", "remove"}
               PROVE  \/ dnf'[q] = "committed"
                      \/ /\ command[q].verb = "install"
                         /\ dnf'[q] = "none"
                         /\ \E k \in Found(q)' : IsInstalledStatus(k.status)
    BY <1>3 DEF OkMeansDone
  <2>3. CASE q = p
    BY <1>1, <1>2, <2>3 DEF TypeOK
  <2>4. CASE q # p
    <3>1. dnf'[q] = dnf[q] /\ outcome'[q] = outcome[q]
      BY <1>1, <1>2, <1>3, <2>4 DEF TypeOK
    <3> QED
      BY <1>1, <2>2, <3>1 DEF OkMeansDone
  <2> QED
    BY <2>3, <2>4
<1> QED
  BY <1>1, <1>3, <1>4, <1>5, <1>6, <1>7, ListsUnchanged DEF TypeOK

\* The end of a dnf keeps IInv: it ends only when it runs, and then its command has
\* not reported success.
LEMMA DnfKeepsInvariant ==
    ASSUME IInv, NEW p \in Processes, Dnf(p)
    PROVE  IInv'
<1>1. TypeOK /\ Progress /\ RemovesOthers /\ OkMeansDone
  BY DEF IInv
<1>2. PICK end \in {"committed", "failed"} : dnf' = [dnf EXCEPT ![p] = end]
  BY DEF Dnf, dnfCommits, dnfFails
<1>3. /\ dnf[p] = "running"
      /\ pins' = pins /\ command' = command /\ pc' = pc /\ outcome' = outcome
      /\ refreshing' = refreshing
  BY DEF Dnf, dnfCommits, dnfFails
<1>4. pc[p] # "start" /\ command[p].version \in Versions
  BY <1>1, <1>3 DEF Progress, Commands
<1>5. rpmdb' \subseteq Versions
  BY <1>1, <1>4 DEF Dnf, dnfCommits, dnfFails, TypeOK
<1>6. dnf' \in [Processes -> {"none", "running", "committed", "failed"}]
  BY <1>1, <1>2 DEF TypeOK
<1>7. Progress' /\ RemovesOthers'
  BY <1>1, <1>2, <1>3 DEF Progress, RemovesOthers, TypeOK
<1>8. OkMeansDone'
  BY <1>1, <1>2, <1>3 DEF OkMeansDone, Found, TypeOK, refreshing
<1> QED
  BY <1>1, <1>3, <1>5, <1>6, <1>7, <1>8, ListsUnchanged DEF TypeOK

LEMMA NextInvariant == IInv /\ [Next]_vars => IInv'
<1> SUFFICES ASSUME IInv, [Next]_vars PROVE IInv'
  OBVIOUS
<1>1. ASSUME NEW p \in Processes, Begin(p) \/ Refresh(p) \/ Operate(p) \/ Dnf(p)
      PROVE  IInv'
  BY <1>1, BeginKeepsInvariant, RefreshKeepsInvariant, ContinueKeepsInvariant,
     OperateKeepsInvariant, DnfKeepsInvariant DEF Operate
<1>2. CASE UNCHANGED vars
  <2>1. refreshing' = refreshing
    BY <1>2 DEF vars
  <2>2. Progress' /\ RemovesOthers' /\ OkMeansDone'
    BY <1>2 DEF IInv, Progress, RemovesOthers, OkMeansDone, Found, vars, refreshing
  <2> QED
    BY <1>2, <2>1, <2>2, ListsUnchanged DEF IInv, TypeOK, vars
<1> QED
  BY <1>1, <1>2 DEF Next

LEMMA Invariance == Spec => []IInv
BY InitInvariant, NextInvariant, PTL DEF Spec

-----------------------------------------------------------------------------
(***************************************************************************)
(* The theorems.                                                           *)
(***************************************************************************)

\* The state of the commands keeps its types.
THEOREM TypeCorrect == Spec => []TypeOK
<1>1. IInv => TypeOK
  BY DEF IInv
<1> QED
  BY <1>1, Invariance, PTL

\* The list a command decides by has one row for each version.
THEOREM RowsAreUnique == Spec => []VersionHasOneRow
<1>1. IInv => VersionHasOneRow
  BY DEF IInv
<1> QED
  BY <1>1, Invariance, PTL

\* A command that reports success has done what it was asked.
THEOREM SuccessIsTrue == Spec => []OkMeansDone
<1>1. IInv => OkMeansDone
  BY DEF IInv
<1> QED
  BY <1>1, Invariance, PTL

\* No number of commands, in any order and with every dnf that outlives them, takes
\* the running kernel off the machine.
THEOREM RunningIsNeverRemoved == Spec => RunningNeverRemoved
<1>1. IInv /\ [Next]_vars => [(Running \in rpmdb) => (Running \in rpmdb')]_vars
  <2> SUFFICES ASSUME IInv, Next, Running \in rpmdb PROVE Running \in rpmdb'
    OBVIOUS
  <2>1. PICK p \in Processes : Begin(p) \/ Refresh(p) \/ Operate(p) \/ Dnf(p)
    BY DEF Next
  <2>2. CASE Begin(p)
    BY <2>2 DEF Begin, PinCommand, refreshCannotBegin, beginRefresh
  <2>3. CASE Refresh(p)
    BY <2>3 DEF Refresh, repoqueryAnswers, rpmAnswers, programFails, Answers, refreshTimesOut
  <2>4. CASE Operate(p)
    BY <2>4 DEF Operate, continueCommand, deliverRefusal, finishOperation, operationTimesOut
  <2>5. CASE dnfCommits(p)
    <3>1. command[p].verb = "install" \/ command[p].version # Running
      BY <2>5 DEF IInv, RemovesOthers, dnfCommits
    <3> QED
      BY <2>5, <3>1 DEF dnfCommits
  <2>6. CASE dnfFails(p)
    BY <2>6 DEF dnfFails
  <2> QED
    BY <2>1, <2>2, <2>3, <2>4, <2>5, <2>6 DEF Dnf
<1> QED
  BY <1>1, Invariance, PTL DEF Spec, RunningNeverRemoved

-----------------------------------------------------------------------------
(***************************************************************************)
(* A pin that stays prevents the removal.                                  *)
(***************************************************************************)

\* A removal that is not forced has not started its dnf, is nowhere it would wait for
\* one, and decides by a list on which its version is pinned.
Withheld(p, v) ==
    /\ command[p] = [verb |-> "remove", version |-> v, force |-> FALSE]
    /\ dnf[p] = "none"
    /\ pc[p] \in {"refreshing", "refreshed", "refused", "ended"}
    /\ pc[p] = "refreshed" => \A k \in kernels[p] : k.version = v => k.isPinned

\* What another process does leaves a command as it is.
LEMMA OthersLeaveWithheld ==
    ASSUME IInv, NEW p \in Processes, NEW v, Withheld(p, v), NEW q \in Processes, q # p,
           Begin(q) \/ Refresh(q) \/ Operate(q) \/ Dnf(q)
    PROVE  Withheld(p, v)'
<1>1. /\ pc \in [Processes -> Places] /\ command \in [Processes -> Commands \cup {NoCommand}]
      /\ dnf \in [Processes -> {"none", "running", "committed", "failed"}]
      /\ kernels \in [Processes -> SUBSET Row]
  BY DEF IInv, TypeOK
<1>2. SUFFICES pc'[p] = pc[p] /\ command'[p] = command[p] /\ dnf'[p] = dnf[p]
               /\ kernels'[p] = kernels[p]
  BY DEF Withheld
<1>3. CASE Begin(q)
  BY <1>1, <1>3 DEF Begin, PinCommand, refreshCannotBegin, beginRefresh, Report, Go, refreshing
<1>4. CASE Refresh(q)
  <2>1. CASE refreshTimesOut(q)
    BY <1>1, <2>1 DEF refreshTimesOut, Report, Go
  <2>2. ASSUME NEW a, NEW i, finalizeRefreshIfReady(q, a, i)
        PROVE  pc'[p] = pc[p] /\ kernels'[p] = kernels[p]
    BY <1>1, <2>2 DEF finalizeRefreshIfReady, Go
  <2>3. ASSUME NEW program, Answers(q, program)
        PROVE  command'[p] = command[p] /\ dnf'[p] = dnf[p]
    BY <2>3 DEF Answers
  <2> QED
    BY <1>4, <2>1, <2>2, <2>3 DEF Refresh, repoqueryAnswers, rpmAnswers, programFails
<1>5. CASE Operate(q)
  BY <1>1, <1>5 DEF Operate, continueCommand, CannotOperate, InstallCommand, RemoveCommand,
                    startOrRefuse, deliverRefusal, finishOperation, operationTimesOut, Report,
                    Go, refreshing
<1>6. CASE Dnf(q)
  BY <1>1, <1>6 DEF Dnf, dnfCommits, dnfFails, refreshing
<1> QED
  BY <1>3, <1>4, <1>5, <1>6

\* The refresh ends with a list that shows the pin.
LEMMA RefreshWithholds ==
    ASSUME ~PinReadFails, IInv, NEW p \in Processes, NEW v, Withheld(p, v), v \in pins,
           Refresh(p)
    PROVE  Withheld(p, v)'
<1>1. /\ pc \in [Processes -> Places] /\ kernels \in [Processes -> SUBSET Row]
  BY DEF IInv, TypeOK
<1>2. command' = command /\ dnf' = dnf /\ pins' = pins /\ pc[p] = "refreshing"
  BY DEF Refresh, repoqueryAnswers, rpmAnswers, programFails, Answers, refreshTimesOut
<1>3. CASE refreshTimesOut(p)
  BY <1>1, <1>2, <1>3 DEF refreshTimesOut, Report, Go, Withheld
<1>4. ASSUME NEW a, NEW i, finalizeRefreshIfReady(p, a, i)
      PROVE  Withheld(p, v)'
  <2>1. CASE asked'[p] # {}
    <3>1. pc' = pc /\ kernels' = kernels
      BY <1>4, <2>1 DEF finalizeRefreshIfReady
    <3> QED
      BY <1>2, <3>1 DEF Withheld
  <2>2. CASE asked'[p] = {}
    <3>1. PICK pinned \in PinsRead :
             kernels' = [kernels EXCEPT ![p] =
                            {applyState(k, pinned) : k \in mergeKernelLists(a, i)}]
      BY <1>4, <2>2 DEF finalizeRefreshIfReady
    <3>2. pinned = pins
      BY DEF PinsRead
    <3>3. pc' = [pc EXCEPT ![p] = "refreshed"]
      BY <1>4, <2>2 DEF finalizeRefreshIfReady, Go
    <3>4. kernels'[p] = {applyState(k, pins) : k \in mergeKernelLists(a, i)}
      BY <1>1, <3>1, <3>2
    <3>5. \A k : applyState(k, pins).version = v => applyState(k, pins).isPinned
      <4>1. \A k : /\ applyState(k, pins).version = k.version
                   /\ applyState(k, pins).isPinned = (k.version \in pins)
        BY DEF applyState
      <4> QED
        BY <4>1
    <3>6. \A k \in kernels'[p] : k.version = v => k.isPinned
      BY <3>4, <3>5
    <3> QED
      BY <1>1, <1>2, <3>3, <3>6 DEF Withheld
  <2> QED
    BY <2>1, <2>2
<1> QED
  BY <1>3, <1>4 DEF Refresh, repoqueryAnswers, rpmAnswers, programFails

\* A row that is pinned is not handed to dnf.
LEMMA OperateWithholds ==
    ASSUME IInv, NEW p \in Processes, NEW v, Withheld(p, v), Operate(p)
    PROVE  Withheld(p, v)'
<1>1. /\ pc \in [Processes -> Places] /\ kernels \in [Processes -> SUBSET Row]
  BY DEF IInv, TypeOK
<1>2. /\ command[p].verb = "remove" /\ command[p].version = v /\ command[p].force = FALSE
      /\ command' = command /\ dnf[p] = "none"
      /\ pc[p] \in {"refreshing", "refreshed", "refused", "ended"}
  BY DEF Withheld, Operate, continueCommand, deliverRefusal, finishOperation, operationTimesOut
<1>3. dnf' = dnf /\ (pc' = [pc EXCEPT ![p] = "ended"] \/ pc' = [pc EXCEPT ![p] = "refused"])
  <2>1. CASE continueCommand(p)
    <3>1. \A k \in Found(p) : k.isPinned
      BY <1>2, <2>1 DEF continueCommand, Withheld, Found
    <3>2. CASE CannotOperate(p)
      BY <3>2 DEF CannotOperate, Report, Go
    <3>3. CASE RemoveCommand(p)
      <4>1. PICK kernel \in Found(p) :
               \/ Report(p, "error") /\ UNCHANGED dnf
               \/ \E hasDnf \in BOOLEAN :
                     startOrRefuse(p, hasDnf /\ ~removalBlocked(kernel, command[p].force))
        BY <3>3 DEF RemoveCommand
      <4>2. removalBlocked(kernel, command[p].force)
        BY <1>2, <3>1 DEF removalBlocked
      <4> QED
        BY <4>1, <4>2 DEF startOrRefuse, Report, Go
    <3> QED
      BY <1>2, <2>1, <3>2, <3>3 DEF continueCommand, InstallCommand
  <2>2. CASE deliverRefusal(p)
    BY <2>2 DEF deliverRefusal, Report, Go
  <2> QED
    BY <1>2, <2>1, <2>2 DEF Operate, finishOperation, operationTimesOut
<1> QED
  BY <1>1, <1>2, <1>3 DEF Withheld

LEMMA StaysWithheld ==
    ASSUME ~PinReadFails, NEW p \in Processes, NEW v, IInv, [Next]_vars, Withheld(p, v),
           v \in pins
    PROVE  Withheld(p, v)'
<1>1. CASE UNCHANGED vars
  BY <1>1 DEF vars, refreshing, Withheld
<1>2. ASSUME NEW q \in Processes, Begin(q) \/ Refresh(q) \/ Operate(q) \/ Dnf(q)
      PROVE  Withheld(p, v)'
  <2>1. CASE q # p
    BY <1>2, <2>1, OthersLeaveWithheld
  <2>2. CASE q = p
    <3>1. ~Begin(p)
      BY DEF Begin, PinCommand, refreshCannotBegin, beginRefresh, Withheld
    <3>2. ~Dnf(p)
      BY DEF Dnf, dnfCommits, dnfFails, Withheld
    <3> QED
      BY <1>2, <2>2, <3>1, <3>2, RefreshWithholds, OperateWithholds
  <2> QED
    BY <2>1, <2>2
<1> QED
  BY <1>1, <1>2 DEF Next

LEMMA PinPreventsOne ==
    ASSUME ~PinReadFails, NEW p \in Processes, NEW v \in Versions
    PROVE  Spec =>
              []((/\ pc[p] = "refreshing"
                  /\ command[p] = [verb |-> "remove", version |-> v, force |-> FALSE]
                  /\ [](v \in pins))
                 => [](dnf[p] = "none"))
<1>1. IInv /\ pc[p] = "refreshing"
           /\ command[p] = [verb |-> "remove", version |-> v, force |-> FALSE]
        => Withheld(p, v)
  BY DEF IInv, Progress, Withheld
<1>2. IInv /\ [Next]_vars /\ Withheld(p, v) /\ v \in pins => Withheld(p, v)'
  BY StaysWithheld
<1>3. Withheld(p, v) => dnf[p] = "none"
  BY DEF Withheld
<1> QED
  BY <1>1, <1>2, <1>3, Invariance, PTL DEF Spec

\* A pin that is there from the beginning of a removal prevents it, if it can be read:
\* whichever commands run beside it, and whatever they do to the list it decides by.
THEOREM PinnedIsNotRemoved == ~PinReadFails => (Spec => PinPreventsRemoval)
BY PinPreventsOne DEF PinPreventsRemoval

=============================================================================
