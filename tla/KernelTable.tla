---------------------------- MODULE KernelTable ----------------------------
(***************************************************************************)
(* The rows of the window's table (gui/models/KernelTableModel) and the    *)
(* filter in front of them.  A row is a kernel of the published list with  *)
(* the pin and the note its version had when the list was made: copies     *)
(* that the window has to keep up with the store.                          *)
(*                                                                         *)
(* The view sorts the filter's rows, so the model's own order is always    *)
(* the one of the source column: by priority.  It decides which row of a   *)
(* version is the first, the only one that is updated.                     *)
(***************************************************************************)
EXTENDS Integers, Sequences, FiniteSets

\* The comparison of the source column.  Sources of one priority are sorted by their
\* names, the reverse of their numbers ("Fedora Rawhide" before "Fedora Stable").
LessBySource(left, right, priority) ==
    IF priority[left.sourceId] # priority[right.sourceId]
    THEN priority[left.sourceId] < priority[right.sourceId]
    ELSE left.sourceId > right.sourceId

\* Whether row i is sorted before row j: what the comparison leaves open stays as it was.
Before(kernels, priority, i, j) ==
    \/ LessBySource(kernels[i], kernels[j], priority)
    \/ ~LessBySource(kernels[j], kernels[i], priority) /\ i < j

PlaceOf(kernels, priority, i) ==
    1 + Cardinality({j \in DOMAIN kernels : Before(kernels, priority, j, i)})

\* sort() for the source column.
sortRows(kernels, priority) ==
    [k \in DOMAIN kernels |->
        kernels[CHOOSE i \in DOMAIN kernels : PlaceOf(kernels, priority, i) = k]]

\* What setKernels() can make of a list that comes out of a hash in any order: by
\* priority, then the later versions first.
setKernels(list, priority) ==
    LET ordered(l, r) == \/ priority[l.sourceId] < priority[r.sourceId]
                         \/ /\ priority[l.sourceId] = priority[r.sourceId]
                            /\ l.version >= r.version
    IN  {rows \in [1..Cardinality(list) -> list] :
            \A i, j \in DOMAIN rows : i < j => rows[i] # rows[j] /\ ordered(rows[i], rows[j])}

RowsOf(kernels, version) == {i \in DOMAIN kernels : kernels[i].version = version}

\* The first row of a version, or 0.
FirstRow(kernels, version) ==
    LET rows == RowsOf(kernels, version)
    IN  IF rows = {} THEN 0 ELSE CHOOSE i \in rows : \A j \in rows : i <= j

setKernelPinned(kernels, version, pinned) ==
    LET row == FirstRow(kernels, version)
    IN  IF row = 0 THEN kernels ELSE [kernels EXCEPT ![row].isPinned = pinned]

\* Mutant: the cell of the note is left to the next refresh.
setKernelNote_NextRefresh(kernels, version, note) == kernels

setKernelNote(kernels, version, note) ==
    LET row == FirstRow(kernels, version)
    IN  IF row = 0 THEN kernels ELSE [kernels EXCEPT ![row].notes = note]

IsInstalled(status) == status \in {"Installed", "InstalledRunning"}

\* KernelFilterProxyModel::filterAcceptsRow; no kernel is ever an update.
Accepts(filter, kernel) ==
    \/ filter = "kAll"
    \/ filter = "kInstalled" /\ IsInstalled(kernel.status)
    \/ filter = "kUpdates" /\ kernel.status = "UpdateAvailable"
    \/ filter = "kPinned" /\ kernel.isPinned

=============================================================================
