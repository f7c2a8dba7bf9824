------------------------------- MODULE Window -------------------------------
(***************************************************************************)
(* The main window (gui/MainWindow) with its table, its detail panel and   *)
(* its dialogs, over the configuration, the pins and notes of the state    *)
(* store, a repository that publishes lists, a package backend (as         *)
(* DnfCliBackend offers it) and the boot manager's list of entries.  Other *)
(* processes write to the store too.                                       *)
(*                                                                         *)
(* The user acts only while no dialog is open; what answers later from the *)
(* event loop (a list, the end of an operation) comes at any time, also    *)
(* inside the event loop of a question whose kernel was copied before.     *)
(*                                                                         *)
(* The store may not be open, which the program does not look at when it   *)
(* starts, and each of its statements may fail: a read then says "no pin"  *)
(* or "no note", and the result of a write is not looked at.               *)
(***************************************************************************)
EXTENDS Configuration, KernelMerge, KernelTable

CONSTANTS
    Versions,       \* the kernel versions, numbered in their order
    Fedora,         \* the source installed kernels are listed under
    Running,        \* the version of the running kernel
    Notes,          \* the texts of notes
    NoNote,         \* the empty one
    NoVersion,      \* of a panel that shows no kernel
    MaxClicks,      \* bound on what the user does in a behaviour
    MaxOperations   \* bound on the package operations in a run of the window

ASSUME WindowAssumption ==
    /\ IsFiniteSet(Versions) /\ Versions \subseteq Nat
    /\ Fedora \in Sources
    /\ NoNote \in Notes
    /\ NoVersion \notin Versions
    /\ MaxClicks \in Nat /\ MaxOperations \in Nat

VARIABLES
    running,       \* whether there is a window
    isOpen,        \* whether the store could be opened
    pins, notes,   \* the store's tables
    kernels_,      \* the rows of the table
    selected,      \* the selected row, or 0
    quick_filter_,
    panel,         \* the version and the text the detail panel shows
    copy,          \* how the window came by the pin and the note it shows of a version
    asking,        \* the question on the screen and the kernel it is about
    refreshing,    \* the repository's refresh_in_progress_
    operations,    \* the package operations of this window, each with its dialog
    history,       \* what recordInstallAction has stored
    unrecorded,    \* the operations whose end it was to store and did not
    list_process_, \* the boot manager's grubby --info=ALL
    requests,      \* "set as default", each with its connections and answers
    deliveries,    \* signals of the boot manager some request has yet to get
    clicks

table    == <<kernels_, selected, quick_filter_>>
packages == <<operations, history, unrecorded>>
boot     == <<list_process_, requests, deliveries>>
rest     == <<running, isOpen, configuration>>
vars     == <<rest, pins, notes, table, panel, copy, asking, refreshing, packages, boot, clicks>>

Nothing == [what |-> "nothing"]
NoPanel == [version |-> NoVersion, text |-> NoNote, copy |-> "unread"]

(***************************************************************************)
(* A copy is what a read said, what stands there for want of one, what the *)
(* window wrote itself, or apart from the store: somebody else wrote that  *)
(* since, or the window wrote in vain.                                     *)
(***************************************************************************)
Copies == {"read", "unread", "written", "apart"}
Unread == [v \in Versions |-> [pin |-> "unread", note |-> "unread"]]

Init ==
    /\ running = FALSE /\ isOpen = FALSE
    /\ file \in InitialFiles
    /\ config_ = DefaultConfig
    /\ loaded = FALSE
    /\ dialog = Closed
    /\ cliLoading = FALSE
    /\ pins = {} /\ notes = [v \in Versions |-> NoNote]
    /\ kernels_ = <<>> /\ selected = 0 /\ quick_filter_ = "kAll"
    /\ panel = NoPanel /\ copy = Unread /\ asking = Nothing /\ refreshing = FALSE
    /\ operations = <<>> /\ history = {} /\ unrecorded = {}
    /\ list_process_ = "nullptr" /\ requests = <<>> /\ deliveries = {}
    /\ clicks = 0

\* What is edited in the dialog of the settings does not count.
Click == clicks < MaxClicks /\ clicks' = clicks + 1

\* Nothing modal is on the screen: no question, no settings, no progress, no warning.
UserFree ==
    /\ running
    /\ asking = Nothing
    /\ dialog = Closed
    /\ deliveries = {}
    /\ \A i \in DOMAIN operations : operations[i].shown \in {"closed", "closedEarly"}

\* An action of the user in the window itself.
UserActs == UserFree /\ Click

-----------------------------------------------------------------------------
(***************************************************************************)
(* The program starts, and ends at any time.                               *)
(***************************************************************************)

\* main(): the configuration, the store, opened or not, the repository and its first
\* refresh.
start ==
    /\ ~running
    /\ running' = TRUE
    /\ isOpen' \in BOOLEAN
    /\ load
    /\ refreshing' = TRUE
    /\ UNCHANGED <<dialog, cliLoading, pins, notes, table, panel, copy, asking, packages,
                   boot, clicks>>

quit ==
    /\ running
    /\ Click
    /\ running' = FALSE /\ isOpen' = FALSE
    /\ kernels_' = <<>> /\ selected' = 0 /\ quick_filter_' = "kAll"
    /\ panel' = NoPanel /\ copy' = Unread /\ asking' = Nothing /\ refreshing' = FALSE
    /\ operations' = <<>> /\ history' = {} /\ unrecorded' = {}
    /\ list_process_' = "nullptr" /\ requests' = <<>> /\ deliveries' = {}
    /\ dialog' = Closed /\ loaded' = FALSE /\ config_' = DefaultConfig
    /\ UNCHANGED <<file, cliLoading, pins, notes>>

(***************************************************************************)
(* The list.                                                               *)
(***************************************************************************)

\* refresh() of the repository, which ignores the call while a refresh is under way.
Refresh == refreshing' = TRUE

\* From the window or from the tray's menu, which no dialog blocks.
refreshKernels ==
    /\ running
    /\ ~refreshing
    /\ Click
    /\ Refresh
    /\ UNCHANGED <<rest, pins, notes, table, panel, copy, asking, packages, boot>>

\* The repository reads the pin and the note of each kernel when it merges, from an
\* open store.  A read that fails says that there is none.
applyState(kernel, failing) ==
    [sourceId |-> kernel.sourceId, version |-> kernel.version, status |-> kernel.status,
     isPinned |-> isOpen /\ "pin" \notin failing /\ kernel.version \in pins,
     notes    |-> IF isOpen /\ "note" \notin failing THEN notes[kernel.version] ELSE NoNote]

\* Whether that has read the item of a version for all of its rows.
ReadAs(list, failing, v, item) ==
    IF isOpen /\ \A k \in list : k.version = v => item \notin failing[k]
    THEN "read" ELSE "unread"

\* What a refresh can find: what each source offers and what rpm reports.
Published ==
    {mergeKernelLists(UNION {AvailableFrom(s, offered[s]) : s \in Sources},
                      InstalledFrom(Fedora, Running, installed))
        : offered \in [Sources -> SUBSET Versions], installed \in SUBSET Versions}

\* Mutant: the row number stays.
SelectedAfterReset_SameRow == selected

\* The view forgets its selection when the model is reset.
SelectedAfterReset == 0

\* kernelListChanged: the rows are sorted, the selection goes with the old ones, and
\* the detail panel keeps what it shows.
onKernelListChanged ==
    /\ running
    /\ refreshing
    /\ refreshing' = FALSE
    /\ \E list \in Published :
          \E failing \in [list -> SUBSET {"pin", "note"}] :
             /\ kernels_' \in setKernels({applyState(k, failing[k]) : k \in list},
                                         config_["priorities"])
             /\ copy' = [v \in Versions |-> [pin  |-> ReadAs(list, failing, v, "pin"),
                                             note |-> ReadAs(list, failing, v, "note")]]
    /\ selected' = SelectedAfterReset
    /\ UNCHANGED <<rest, pins, notes, quick_filter_, panel, asking, packages, boot, clicks>>

(***************************************************************************)
(* Selecting and filtering.                                                *)
(***************************************************************************)

Visible(row) == Accepts(quick_filter_, kernels_[row])

select(row) ==
    /\ UserActs
    /\ row # selected
    /\ Visible(row)
    /\ selected' = row
    /\ UNCHANGED <<rest, pins, notes, kernels_, quick_filter_, panel, copy, asking, refreshing,
                   packages, boot>>

\* A row that the filter takes from the view is no longer selected.
StaysSelected(kernels, filter) ==
    IF selected # 0 /\ Accepts(filter, kernels[selected]) THEN selected ELSE 0

setQuickFilter(filter) ==
    /\ UserActs
    /\ filter # quick_filter_
    /\ quick_filter_' = filter
    /\ selected' = StaysSelected(kernels_, filter)
    /\ UNCHANGED <<rest, pins, notes, kernels_, panel, copy, asking, refreshing, packages, boot>>

(***************************************************************************)
(* Pins and notes.  Nothing is written to a store that is not open, and    *)
(* the results of the writes are ignored: the window shows them anyway.    *)
(***************************************************************************)

toggleSelectedKernelPin ==
    /\ UserActs
    /\ selected # 0
    /\ LET v   == kernels_[selected].version
           pin == ~kernels_[selected].isPinned
       IN  /\ \/ /\ isOpen
                 /\ pins' = IF pin THEN pins \cup {v} ELSE pins \ {v}
                 /\ copy' = [copy EXCEPT ![v].pin = "written"]
              \/ /\ copy' = [copy EXCEPT ![v].pin = "apart"]
                 /\ UNCHANGED pins
           /\ kernels_' = setKernelPinned(kernels_, v, pin)
           /\ selected' = StaysSelected(kernels_', quick_filter_)
    /\ UNCHANGED <<rest, notes, quick_filter_, panel, asking, refreshing, packages, boot>>

\* StateStore::setNote, which may fail, and the row's copy.
WriteNote(v, text) ==
    /\ kernels_' = setKernelNote(kernels_, v, text)
    /\ \/ /\ isOpen
          /\ notes' = [notes EXCEPT ![v] = text]
          /\ copy' = [copy EXCEPT ![v].note = "written"]
       \/ /\ copy' = [copy EXCEPT ![v].note = "apart"]
          /\ UNCHANGED notes

Panel(v, text, how) == [version |-> v, text |-> text, copy |-> how]

\* DetailPanel::setKernel, with the row as it is by then: the note is read from an open
\* store, empty if that fails, and is the row's own if the store is not open.
ShowInPanel(row) ==
    LET v == kernels_'[row].version
    IN  IF row = 0 THEN panel' = NoPanel
        ELSE \/ isOpen /\ panel' = Panel(v, notes'[v], "read")
             \/ isOpen /\ panel' = Panel(v, NoNote, "unread")
             \/ ~isOpen /\ panel' = Panel(v, kernels_'[row].notes, copy'[v].note)

showSelectedKernelDetails ==
    /\ UserActs
    /\ selected # 0
    /\ UNCHANGED <<rest, pins, notes, table, copy, asking, refreshing, packages, boot>>
    /\ ShowInPanel(selected)

\* The focus leaves the panel's text, edited or not.
saveNote(text) ==
    /\ UserActs
    /\ panel.version # NoVersion
    /\ WriteNote(panel.version, text)
    /\ panel' = Panel(panel.version, text, copy'[panel.version].note)
    /\ UNCHANGED <<rest, pins, selected, quick_filter_, asking, refreshing, packages, boot>>

\* The text is asked for in a dialog, and what is selected by then goes to the panel.
editSelectedKernelNote(text) ==
    /\ asking.what = "note"
    /\ WriteNote(asking.kernel.version, text)
    /\ ShowInPanel(selected)
    /\ asking' = Nothing
    /\ UNCHANGED <<rest, pins, selected, quick_filter_, refreshing, packages, boot, clicks>>

(***************************************************************************)
(* Questions.  Each keeps a copy of the kernel selected when it was put.   *)
(***************************************************************************)

Allowed(what, kernel) ==
    CASE what = "install" -> ~IsInstalled(kernel.status)
      [] what = "remove"  -> kernel.status = "Installed"
      [] OTHER            -> TRUE

ask(what) ==
    /\ UserActs
    /\ selected # 0
    /\ Allowed(what, kernels_[selected])
    /\ asking' = [what |-> what, kernel |-> kernels_[selected]]
    /\ UNCHANGED <<rest, pins, notes, table, panel, copy, refreshing, packages, boot>>

decline ==
    /\ asking # Nothing
    /\ asking' = Nothing
    /\ UNCHANGED <<rest, pins, notes, table, panel, copy, refreshing, packages, boot, clicks>>

(***************************************************************************)
(* Package operations: startPackageOperation and the signals it connects.  *)
(***************************************************************************)

\* DnfCliBackend: a removal of a pinned kernel is refused, any operation when there
\* is no dnf; refusals are queued.  A program that cannot be started is never heard of.
Begins(what, kernel) ==
    IF what = "remove" /\ (kernel.version = Running \/ kernel.isPinned)
    THEN {"refused"}
    ELSE {"refused", "running", "lost"}

\* The answer is yes, or nobody had to be asked.
startPackageOperation ==
    /\ asking.what \in {"install", "remove"}
    /\ Len(operations) < MaxOperations
    /\ \E begins \in Begins(asking.what, asking.kernel) :
          operations' = Append(operations,
              [kernel |-> asking.kernel, action |-> asking.what,
               backend |-> begins, shown |-> "progress"])
    /\ asking' = Nothing
    /\ UNCHANGED <<rest, pins, notes, table, panel, copy, refreshing, history, unrecorded, boot,
                   clicks>>

\* Mutant: a dialog takes the end of any operation for its own's.
Listening_ToAll(i) == {k \in DOMAIN operations : operations[k].shown = "progress"}

\* The dialogs whose connection fires when operation i ends: its own, if it is there.
Listening(i) == {k \in {i} : operations[k].shown = "progress"}

Record(i, success) ==
    [operation |-> i, version |-> operations[i].kernel.version,
     action |-> operations[i].action, success |-> success]

\* operationFailed and operationFinished, which the backend emits one after the other.
\* A dialog that is there stores the end in the history, if the store is open and the
\* statement does not fail, and asks for a refresh either way.
operationFinished(i, success) ==
    /\ operations[i].backend \in {"running", "refused"}
    /\ operations[i].backend = "refused" => ~success
    /\ operations' = [k \in DOMAIN operations |->
          [operations[k] EXCEPT
              !.backend = IF k = i THEN IF success THEN "succeeded" ELSE "failed" ELSE @,
              !.shown = IF k \in Listening(i) THEN "finished" ELSE @]]
    /\ \E recorded \in SUBSET Listening(i) :
          /\ recorded # {} => isOpen
          /\ history' = history \cup {Record(k, success) : k \in recorded}
          /\ unrecorded' = unrecorded \cup (Listening(i) \ recorded)
    /\ IF Listening(i) # {} THEN Refresh ELSE UNCHANGED refreshing
    /\ UNCHANGED <<rest, pins, notes, table, panel, copy, asking, boot, clicks>>

\* Close, or Escape while the operation goes on: the dialog deletes itself, and with
\* it the connections.
closeDialog(i) ==
    /\ operations[i].shown \in {"progress", "finished"}
    /\ operations' = [operations EXCEPT
          ![i].shown = IF operations[i].shown = "finished" THEN "closed" ELSE "closedEarly"]
    /\ UNCHANGED <<rest, pins, notes, table, panel, copy, asking, refreshing, history, unrecorded,
                   boot, clicks>>

(***************************************************************************)
(* The list of boot entries and the requests that wait for it.  A slot may *)
(* put up a warning, whose event loop runs before the next slot is called; *)
(* a connection that is gone by then is passed over.                       *)
(***************************************************************************)

\* What a signal of the manager leaves to be delivered, when `asked` wait for it.
Emit(signal, entries, asked) ==
    deliveries \cup {[to |-> r, signal |-> signal, entries |-> entries] :
                         r \in {k \in DOMAIN asked : signal \in asked[k].connections}}

\* listBootEntries() of the manager: refused at once when it runs already or there
\* is no grubby, and the refusal goes to everybody who waits.
listBootEntries(asked) ==
    \/ /\ deliveries' = Emit("failed", {}, asked)
       /\ UNCHANGED list_process_
    \/ /\ list_process_ = "nullptr"
       /\ list_process_' \in {"running", "lost"}
       /\ UNCHANGED deliveries

showBootOrderPanel ==
    /\ UserActs
    /\ listBootEntries(requests)
    /\ UNCHANGED <<rest, pins, notes, table, panel, copy, asking, refreshing, packages, requests>>

\* The question is answered with yes: connect to both signals, then ask for the list.
setSelectedKernelAsDefault ==
    /\ asking.what = "setDefault"
    /\ requests' = Append(requests,
          [version |-> asking.kernel.version, connections |-> {"listed", "failed"}, answers |-> <<>>])
    /\ listBootEntries(requests')
    /\ asking' = Nothing
    /\ UNCHANGED <<rest, pins, notes, table, panel, copy, refreshing, packages, clicks>>

finishList ==
    /\ list_process_ = "running"
    /\ list_process_' = "nullptr"
    /\ \/ deliveries' = Emit("failed", {}, requests)
       \/ \E entries \in SUBSET Versions : deliveries' = Emit("listed", entries, requests)
    /\ UNCHANGED <<rest, pins, notes, table, panel, copy, asking, refreshing, packages, requests, clicks>>

\* Mutant: a slot disconnects only the signal it was called by.
Disconnected_One(request, signal) == request.connections \ {signal}

Disconnected(request, signal) == {}

\* setDefaultEntry() with the entry found, or a warning.
Answer(request, delivery) ==
    IF delivery.signal = "failed" THEN "error"
    ELSE IF request.version \in delivery.entries THEN "setDefaultEntry" ELSE "notFound"

deliver(d) ==
    /\ deliveries' = deliveries \ {d}
    /\ LET request == requests[d.to]
       IN  requests' = IF d.signal \in request.connections
                       THEN [requests EXCEPT ![d.to] =
                                [request EXCEPT !.connections = Disconnected(request, d.signal),
                                                !.answers = Append(@, Answer(request, d))]]
                       ELSE requests
    /\ UNCHANGED <<rest, pins, notes, table, panel, copy, asking, refreshing, packages,
                   list_process_, clicks>>

(***************************************************************************)
(* The settings, and the other processes.                                  *)
(***************************************************************************)

UNCHANGED_Window == UNCHANGED <<running, isOpen, pins, notes, table, panel, copy, asking,
                                refreshing, packages, boot>>

\* applyConfig(): the rows are sorted by the new priorities, which clears the selection.
applyConfig ==
    /\ kernels_' = sortRows(kernels_, config_'["priorities"])
    /\ selected' = SelectedAfterReset

settings ==
    \/ UserActs /\ openSettings /\ UNCHANGED_Window
    \/ editSettings /\ UNCHANGED <<clicks>> /\ UNCHANGED_Window
    \/ rejectSettings /\ UNCHANGED <<clicks>> /\ UNCHANGED_Window
    \/ resetSettings /\ Click /\ UNCHANGED_Window
    \/ /\ acceptSettings
       /\ applyConfig
       /\ UNCHANGED <<running, isOpen, pins, notes, quick_filter_, panel, copy, asking,
                      refreshing, packages, boot, clicks>>

chooseTheme(mode) == UserActs /\ setThemeMode(mode) /\ UNCHANGED_Window

\* bumpcap-cli pin, unpin and note, and other windows.
otherProcessWrites(v) ==
    /\ Click
    /\ \/ /\ pins' \in {pins \cup {v}, pins \ {v}} \ {pins}
          /\ copy' = [copy EXCEPT ![v].pin = "apart"]
          /\ UNCHANGED <<notes, panel>>
       \/ /\ \E text \in Notes \ {notes[v]} : notes' = [notes EXCEPT ![v] = text]
          /\ copy' = [copy EXCEPT ![v].note = "apart"]
          /\ panel' = IF panel.version = v THEN Panel(v, panel.text, "apart") ELSE panel
          /\ UNCHANGED pins
    /\ UNCHANGED <<rest, table, asking, refreshing, packages, boot>>

otherProcessLoads ==
    /\ cliFindsNoFile \/ cliSaves
    /\ UNCHANGED <<clicks>> /\ UNCHANGED_Window

-----------------------------------------------------------------------------

Table ==
    \/ refreshKernels
    \/ onKernelListChanged
    \/ \E row \in DOMAIN kernels_ : select(row)
    \/ \E filter \in {"kAll", "kInstalled", "kUpdates", "kPinned"} : setQuickFilter(filter)
    \/ toggleSelectedKernelPin
    \/ showSelectedKernelDetails
    \/ \E text \in Notes : saveNote(text) \/ editSelectedKernelNote(text)

Packages ==
    \/ startPackageOperation
    \/ \E i \in DOMAIN operations :
          closeDialog(i) \/ \E success \in BOOLEAN : operationFinished(i, success)

Boot ==
    \/ showBootOrderPanel
    \/ setSelectedKernelAsDefault
    \/ finishList
    \/ \E d \in deliveries : deliver(d)

Next ==
    \/ start \/ quit
    \/ Table
    \/ \E what \in {"install", "remove", "note", "setDefault"} : ask(what)
    \/ decline
    \/ Packages
    \/ Boot
    \/ settings
    \/ \E mode \in Themes : chooseTheme(mode)
    \/ \E v \in Versions : otherProcessWrites(v)
    \/ otherProcessLoads

Spec == Init /\ [][Next]_vars

-----------------------------------------------------------------------------
(***************************************************************************)
(* Properties.                                                             *)
(***************************************************************************)

Questions == {"install", "remove", "note", "setDefault"}

Row == [sourceId : Sources, version : Versions, status : KernelStatus,
        isPinned : BOOLEAN, notes : Notes]

Operation == [kernel : Row, action : {"install", "remove"},
              backend : {"refused", "running", "lost", "succeeded", "failed"},
              shown : {"progress", "finished", "closed", "closedEarly"}]

Request == [version : Versions, connections : SUBSET {"listed", "failed"},
            answers : Seq({"setDefaultEntry", "notFound", "error"})]

\* The state has its types.
TypeOK ==
    /\ ConfigurationTypeOK
    /\ isOpen \in BOOLEAN
    /\ pins \subseteq Versions
    /\ notes \in [Versions -> Notes]
    /\ kernels_ \in Seq(Row)
    /\ selected \in 0..Len(kernels_)
    /\ panel \in [version : Versions \cup {NoVersion}, text : Notes, copy : Copies]
    /\ copy \in [Versions -> [pin : Copies, note : Copies]]
    /\ asking = Nothing \/ asking \in [what : Questions, kernel : Row]
    /\ operations \in Seq(Operation)
    /\ unrecorded \subseteq DOMAIN operations
    /\ list_process_ \in {"nullptr", "running", "lost"}
    /\ requests \in Seq(Request)
    /\ \A d \in deliveries : d.to \in DOMAIN requests /\ d.signal \in {"listed", "failed"}

PinsOf(kernels, v)  == {kernels[i].isPinned : i \in RowsOf(kernels, v)}
NotesOf(kernels, v) == {kernels[i].notes : i \in RowsOf(kernels, v)}

\* What a copy says of the stored value: that value, if it was read; that or none, if
\* the read failed; and, where the window wrote, that value in one place at least.
Tells(how, shown, stored, none) ==
    /\ how = "read" => shown \subseteq {stored}
    /\ how = "unread" => shown \subseteq {stored, none}
    /\ how = "written" => shown = {} \/ stored \in shown

\* As long as nobody else writes a version and the window's own writes succeed, the
\* window shows nothing the store does not have.  Every row of a version shows the pin
\* and the note that were read, or none where a read failed or the store is not open.
\* Once the window has written one, a row shows it, although only the first row is
\* updated (setKernelPinned, setKernelNote) and new priorities make another row the
\* first.  And so does the panel, whose text every loss of the focus writes back: also
\* the empty text of a read that failed, over the note.
ShownIsStored ==
    /\ \A v \in Versions :
          /\ Tells(copy[v].pin, PinsOf(kernels_, v), v \in pins, FALSE)
          /\ Tells(copy[v].note, NotesOf(kernels_, v), notes[v], NoNote)
    /\ panel.version # NoVersion =>
          Tells(panel.copy, {panel.text}, notes[panel.version], NoNote)

\* The history tells the truth: an operation is recorded at most once, with the result
\* it had.  And it lacks, of the operations that ended, exactly those whose dialog was
\* closed before the end, which record nothing although they went on, and those that
\* the store did not take, because it is not open or the statement failed; whatever
\* else ran, and whether or not the dialogs are still there.
RecordedAsReported ==
    /\ \A r \in history :
          /\ operations[r.operation].backend = (IF r.success THEN "succeeded" ELSE "failed")
          /\ \A q \in history : q.operation = r.operation => q = r
    /\ \A i \in DOMAIN operations :
          (\E r \in history : r.operation = i) <=>
             operations[i].shown \in {"finished", "closed"} /\ i \notin unrecorded

\* bootEntriesListed and bootEntriesFailed do not say whom they answer.  All the same
\* every confirmed "set as default" is answered once, by a call of setDefaultEntry or
\* by a warning, and waits only while a list is under way or a signal is being
\* delivered.
AnsweredOnce ==
    \A r \in DOMAIN requests :
        /\ Len(requests[r].answers) <= 1
        /\ requests[r].answers = <<>> =>
              \/ list_process_ # "nullptr"
              \/ \E d \in deliveries : d.to = r

KeepsOrder(before, after) ==
    \A r, s \in Sources : before[r] < before[s] => after[r] < after[s]

\* Accepting the settings dialog (SettingsDialog::saveToConfig) changes what the user
\* edited and nothing else: the order of the sources stays, also among equal
\* priorities it does not contradict; an interval and a theme the dialog can show
\* stay; and what it does not show stays in memory and, if the file could be read
\* when the window started, in the file.
AcceptChangesOnlyEdits ==
    [][(dialog # Closed /\ dialog' = Closed /\ running') =>
         /\ "priorities" \notin dialog.edited =>
               KeepsOrder(config_["priorities"], config_'["priorities"])
         /\ "interval" \notin dialog.edited /\ config_["interval"] \in Intervals \ {0} =>
               config_'["interval"] = config_["interval"]
         /\ "theme" \notin dialog.edited => config_'["theme"] = config_["theme"]
         /\ config_'["unshown"] = config_["unshown"]
         /\ loaded /\ "unshown" \in DOMAIN file => file'["unshown"] = file["unshown"]]_<<configuration, running>>

=============================================================================
