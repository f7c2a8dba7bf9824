# A TLA+ model of bumpcap

bumpcap lists the kernels a Fedora machine has and could have, installs and removes
them, keeps pins and notes for them and sets the boot entry. It is one C++/Qt library
(`src/core`), a window (`src/gui`), a command line (`src/cli`) and a privileged helper on
the system bus (`src/helper`). This directory holds TLA+ modules of its core, TLC
configurations that check them, and proofs that TLAPS checks. Every definition is taken
from the source; `PROJECT.json` names the lines it stands for.

Contents: [the system](#the-system), [what is hard in it](#what-is-hard),
[the modules](#the-modules), [the runs](#the-runs), [bounds](#the-bounds),
[fairness](#fairness), [the proofs](#what-is-proved), [the findings](#where-code-and-documents-differ),
[disagreements without a run](#disagreements-no-run-shows),
[what is left out](#what-is-not-modelled), [the plan](#the-plan).

## The system

Every object lives on one thread of its process. Nothing in the code blocks on a lock of
its own; what runs beside it are child processes (`dnf`, `rpm`, `uname`, `xzcat`, `grubby`),
HTTP replies, D-Bus peers (PackageKit, the helper, polkit), timers, and other runs of the
two programs, which meet in the rpm database, in the SQLite file and in the boot configuration.

| component | state | operations | talks to |
|---|---|---|---|
| **Kernel repository** `core/repo` | `sources_`, `package_backend_`, `refresh_in_progress_`, `pending_sources_`, `pending_installed_query_`, the lists answered and the list published | `addSource`, `clearSources`, `setPackageBackend`, `refresh`, four handlers of answers, `mergeKernelLists`, `applyState` | asks the sources and the package backend, which answer by signals; reads pins and notes |
| **Kernel sources** `core/sources` | `stage_`, `active_request_id_`, the process running | `fetchAvailable`, the handlers of each stage | the network client, `dnf repoquery`, a decompressor |
| **Package metadata** `core/sources/KernelPackageUtils` | none | reads the outputs of `repoquery` and `primary.xml`, groups packages into kernels | the sources |
| **CPU features** `core/sources/CpuFeatures` | none | detects the level of the processor | the CachyOS sources |
| **Network client** `core/net` | hash of requests, `next_request_id_` | `get`, `startRequest`, `finishReply`, `timeoutRequest` | `QNetworkReply`, timers |
| **dnf backend** `core/pkg/DnfCliBackend` | one query, one operation | `queryInstalled`, `installKernel`, `removeKernel`, `cancelOperation` | `rpm`, `pkexec dnf` |
| **PackageKit backend** `core/pkg/PackageKitBackend` | hash of transactions | the same interface | the PackageKit daemon over D-Bus |
| **State store** `core/state` | a connection to `state.db` | `open` with its migration, pins, notes, seen versions, history | SQLite, shared by every process |
| **Notifier** `core/notify` | none of its own | `notifyNewKernel` | state store, notification service; no caller yet |
| **Configuration** `core/config` | a JSON object | `load`, `save`, setters | a file every process reads and rewrites whole |
| **Boot manager** `core/boot` | `operation_process_`, `helper_operation_running_`, `list_process_` | `listBootEntries`, `setDefaultEntry`, `regenerateConfig`, `rebootIntoEntryOnce` | the helper, or `pkexec` and a program |
| **Privileged helper** `helper` | none between calls | five D-Bus slots: validate, authorize, run | polkit, `grubby`, `grub2-mkconfig`, `grub2-reboot`, `dnf copr` |
| **Command line** `cli` | the event loop of one command | `list`, `check`, `install`, `remove`, `pin`, notes, `boot-order` | all of the above |
| **Main window** `gui` | the table with its copies of pins and notes, the detail panel, the open dialogs, the connections waiting for a list of boot entries | refresh, pin, note, set default, install, remove, settings | all of the above |

Properties that make each of them correct:

- *repository*: counts exactly the answers to come; publishes once per refresh, in the step
  that takes the last answer, the merge of what was answered; one row for a key, nothing
  installed offered again, the running kernel recognisable; a refresh ends.
- *sources and network client*: one answer for one question, none unasked, none lost;
  attempts bounded and timed; a late reply changes nothing.
- *package operations*: the running kernel is never removed, not even by force, a pinned one only by force,
  success means the change was made, every operation ends.
- *state store*: the database is migrated or empty, never half; a failed `open` keeps
  nobody else out; success of a command means its writes were made.
- *boot*: no operation lost, doubled or overtaken; success means the change was made.
- *package metadata*: a kernel is listed once, with its packages, its earliest date and its
  compatibility, in whatever order the packages come.
- *notifier*: a version is announced at most once.
- *window*: what it shows of a version is what the store has, or nothing where that could not be read;
  the history tells what happened and lacks nothing but what the store refused or a closed dialog missed; a
  question about boot entries is answered once; accepting the settings changes what was edited.

## What is hard

`PROJECT.json` lists the hazards line by line. They fall into six kinds:

1. **Answers in any order.** A refresh waits for two to four parties whose answers, failures
   at once and failures later interleave; the repository keeps only a number and a flag.
2. **Names that are used again.** The network client knows a reply by its address, a source
   knows its request by a number it never resets, the helper serves calls its caller gave up.
3. **Programs that never answer.** `QProcess::finished` is connected nearly everywhere and
   `errorOccurred` nearly nowhere; D-Bus replies are dropped.
4. **Processes that share data and no lock.** Two CLI runs decide by lists read before the
   other one changed the packages or the pins; two first runs migrate one database; a version is
   looked up as unseen by two before either marks it.
5. **Steps that half succeed.** A crash inside a migration, an import that fails midway, a
   killed `pkexec` whose `dnf` goes on; a version marked as seen whose notification is never sent.
6. **Copies and connections in the window.** Rows copy pins and notes and only the first row of a
   version is updated; dialogs own the connections that record an operation; signals of the boot
   manager go to everybody who waits, and a warning box lets others in between two of them.

## The modules

A *promise* is the abstract specification of what a component offers its caller. The
detailed module instantiates it with a refinement mapping and states it as the property
`KeepsPromise`.

| module | models | its promise |
|---|---|---|
| `KernelMerge` | the lists of a refresh and `mergeKernelLists`, as operators; used by the next two | |
| `KernelRefresh` | the repository with the sources and the query it asks | `RefreshPromise`: waits for a *set* of parties |
| `SourceFetch` | one source of each of four kinds, from `fetchAvailable` to its answer | `SourcePromise`: asked, answered once, or lost |
| `KernelPackages` | both readers, the grouping of packages and the processor's level, as operators | |
| `SourceAnswers` | `SourceFetch` with what its programs write and the kernels it answers with | `SourceFetch`: `AnswersAreFetches` |
| `NetworkClient` | requests, attempts, replies and their addresses, timeouts, backoffs | `RequestPromise`: one signal for each request |
| `KernelCommands` | runs of `bumpcap-cli install/remove/pin/unpin` beside each other, each with its refresh, its dnf and its timers | stated by its properties |
| `PackageKitBackend` | operations of two transactions and queries of one | `OperationPromise`: ends once, truthfully |
| `BootOperations` | boot managers and CLI runs over the helper, polkit and the programs | `BootPromise`: one open, truthful, applied once |
| `StateStore` | `open` and its migration over SQLite's locks; `notes-import` | stated by its properties |
| `Notifications` | the notifier of several processes beside `StateStore`, by which it opens, is locked out and dies | `StateStore`: `NotifierLeavesStore` |
| `KernelTable` | the rows of the window's table and their filter, as operators | |
| `Configuration` | `ConfigManager`, the settings dialog and a CLI that finds no file | |
| `Window` | the main window over the configuration, the merge, pins and notes, a package backend and the list of boot entries, with other processes that write | stated by its properties |

How they fit: `KernelRefresh` takes of a source what `SourcePromise` says, and `SourceFetch`
takes of its caller what `KernelRefresh` proves (a source is asked only when it has answered,
`CountersAreExact`); `SourceFetch` takes of the network what `RequestPromise` says. So the
chain from an HTTP reply to the published list is checked link by link, each with the
interleavings of its own level. `KernelCommands` reuses `KernelMerge` and a refresh with one
source, and adds what `KernelRefresh` leaves out: the pins (`applyState`), several processes
and the operation that follows. `Window` reuses `KernelMerge` for the lists it is given: those have
two rows for a version that one source lists and rpm reports under Fedora, which is where its copies
can disagree. `Notifications` and `SourceAnswers` add variables to the module they extend and leave
its steps as they are, so that what is proved below holds above. An `MC...` module extends the module it checks, and its `.cfg`
gives the constants their values.

How state and actions correspond to the code:

- **Variables have the members' names** (`pending_sources_`, `requests_`, `transactions_`,
  `operation_process_`). What the code keeps in a closure, on the bus or in another process
  has a variable of its own, with a comment.
- **An action is a handler**, from the event that enters it to the return to the event loop,
  with every call it makes: the four handlers of the repository all end in
  `finalizeRefreshIfReady`, and so do their actions. What a handler makes another handler do
  before it returns is inside the action: `timeoutRequest` contains the `finishReply` that
  `abort()` leads to.
- **Sources that fail before `fetchAvailable` returns** run their handler, and with it perhaps the end
  of the refresh, from inside the loop of `refresh`. So the call is taken apart: `refresh` sets the
  members, and each turn of its loops is a step (`queryInstalled`, `fetchAvailable`) in which the party is
  started or its failure handled. `toAsk` holds who is still to be asked; the event loop, and with it
  every later answer, waits until that is nobody (`EventLoop`).
- **In `KernelCommands` a process is sequential code** that waits at three points; its `pc`
  says at which. `continueCommand` goes from the end of the refresh to the start of dnf in one
  step, as the code does.
- **In `StateStore`** the steps of `open` are apart wherever another process can come in
  between: BEGIN, the query (SHARED), the script (RESERVED), the version, COMMIT (PENDING).
- **In `Notifications`** a process looks a version up, marks it, sends and notes that it sent in four
  steps, between which others run and it may die; `Steps` is their order.
- **In `KernelPackages`** a loop over lines or records is a recursive function from the number of rounds
  to what the loop has made by then (`LineRecords`, `Grouping`), and the sorted list takes for each place
  the version with so many later ones. `AnswerTellsPackages` in `SourceAnswers` says what the answer
  must be without any loop: by quantifiers over the output.
- **In `Window`** `UserActs` guards what the user does in the window itself. Every dialog is modal,
  so a question, the settings, the progress of an operation or a warning keep the user from the
  rest, while lists and ends of operations come in at any time. The tray's menu is not blocked, and so
  `refreshKernels` is not guarded by it. `deliveries` holds the slots of one emission that are yet
  to be called: each may open a warning box, whose event loop runs before the next. A question keeps
  the kernel copied when it was put.
- **The window's store may fail at any statement.** `isOpen` is chosen when the program starts, since
  `main` does not look at the result of `open` (`gui/main.cpp:37`); while it is FALSE nothing is read,
  written or recorded. On an open store each read of a pin or a note may fail, row by row, and then says
  that there is none (`StateStore.cpp:152`, `StateStore.cpp:205`); each write may fail, and its result
  is ignored; and so may the insert of a record. `copy` says for each version how the window came by the
  pin and the note it shows: `read`, `unread` (failed, or not open), `written` by the window, or `apart`
  from the store because another process wrote it or the window's own write failed. The panel has a mark
  of its own. `unrecorded` holds the operations whose record the store did not take. `copy` and
  `unrecorded` are history variables: no action's guard reads them.
- **In `Configuration`** a configuration is a function from keys to values. The dialog's other
  choices are handled as the theme, and all that it does not show is one value, `unshown`.
- **In `BootOperations` a call is its client and a number.** The helper's blocking calls make
  `serving` a set of at most one call while the others wait in `queue`; that is a consequence
  of `Idle` and not of the type.

## The runs

| run | distinct states | what it shows |
|---|---|---|
| `refresh` | 160,678 | through every order of answers and failures, at once or later, of three sources and the query, and over two refreshes: the counters count (`CountersMatchOutstanding`), one row per kernel answered (`OneRowPerAnsweredKernel`), nothing reported is offered (`ReportedNeverOffered`), refreshes end, `KeepsPromise` |
| `network` | 537,614 | two requests, three addresses, up to two retries: one thing going on for each request, attempts bounded and timed, one signal for each request whatever the network does, also with stale timeouts and reused addresses |
| `source_fetch` | 425,105 | each kind of source, programs that may not start and outputs of up to four lines or packages in any order: one thing under way, one answer for each fetch, and an answer that tells the packages (`AnswerTellsPackages`) |
| `commands` | 363,048 | two commands beside each other: the running kernel is never removed, forced or not, a pin held throughout prevents a removal, ok means done, one row for a version, every command ends |
| `packagekit` | 132,496 | two operations and a query over a daemon that fails, is cancelled or goes away: one thing awaited, nothing after the last signal, queries answered, `KeepsPromise` |
| `boot` | 402,664 | a manager and a CLI run over a helper that blocks, denies, dies or is absent: a call is in one place, none is overtaken, `KeepsPromise` |
| `state_store` | 1,281,079 | three processes, crashes and failures at every step: locks released, schema whole, open means migrated, import ok means all; a kernel announced again only where two looked at once or a statement failed (`AnnouncedOnce`) |
| `window` | 2,570,891 | three acts of the user, two operations and other processes that write, over a version with up to two rows and a store that fails at any statement or is not open: what is shown is stored, or nothing where a read failed (`ShownIsStored`), operations are recorded once and as reported, and the missing ones are those closed early or refused by the store (`RecordedAsReported`), a default entry asked for is answered once (`AnsweredOnce`), and accepting the settings changes only what was edited (`AcceptChangesOnlyEdits`) |
| `refresh_lost_program`, `refresh_running_status`, `network_stale_timeout`, `commands_stale_pin` | | a statement of a document that the code does not keep; see below |

Every property of a passing run has a mutant in `PROJECT.json`: a plausible bug in the code
(an uncounted failure, a reply not stored, a lock not given back) under which TLC finds that
property violated. The mutated form stands before the definition it mutates.

`CHECK_DEADLOCK FALSE` stands where the system does stop: when nobody asks for anything more.
`refresh` and `state_store` are checked for deadlock.

### The bounds

- `refresh`: three sources are what the code has; two versions give a list in which a kernel
  is installed and offered, installed only, or offered only; two refreshes let an answer of
  the first meet the second, if there were one.
- `network`: a retry limit of 0 and one of 2; a request of three attempts and another need three
  addresses for a stale timeout to find its address free, used by its own request, or by the
  other.
- `source_fetch`: four fetches, one more than the stages of the longest pipeline, so that what
  the first leaves in `stage_` and `active_request_id_` is seen by later ones; outputs of up to four
  lines, so that two kernels of two packages each can come mixed, and a package without a date come
  before or after one that has it.
- `commands`: one version that runs and one that does not; two processes suffice for every race
  of a decision with a change. `PinReadFails` is FALSE: see the last section.
- `packagekit`: two operations to see that one's transactions do not touch the other's.
- `boot`: one manager with two operations, so that a later one can meet one that was given up,
  and one CLI run that queues in between.
- `state_store`: three processes, so that a third meets the lock of one and the wait of another;
  one new kernel and two notifications of it, so that a second, the one that would be too many, can be
  sent.
- `window`: two sources and one version are enough for two rows of a version, and reversing the
  priorities for the other one to become the first; three acts of the user are enough to select, ask and
  operate; to write a note for one row, open the settings and reverse the rows; or to show a note that
  cannot be read and let the focus leave it. What is edited inside the settings dialog, an answer to a
  question and whatever comes from the event loop do not count, so that both operations can end and a list
  arrive at any point. Files: none, unreadable, and one edited by hand that lacks a key, has two
  sources of one priority, an interval the dialog does not offer and a value it does not show. Two texts
  of notes, one of them empty.

Bounds that are in the modules are constants: `MaxRefreshes`, `MaxRequests`, `MaxFetches`,
`MaxListed`, `MaxCalls`, `MaxAnnounced`, `MaxClicks`, `MaxOperations`. The proofs hold for every value of them.

### Fairness

Weak fairness is asserted of what the platform runs without anybody's consent, and of nothing else:

- the event loop delivers a signal or a timer that is due (`startRequest`, `timeoutRequest`,
  `deleteReply`, `deliverRefusal`, `continueCommand`, `finishOperation`);
- `refresh` goes on with its loops (`Ask`);
- a program that *started* ends (`SourceStep`, `QueryStep`, `finishRepoquery`, `finishDecompress`,
  `programEnds`), as the code expects of them. `KernelCommands` does not even assume
  this, since the CLI has timers: `EveryCommandEnds` rests on `refreshTimesOut` and
  `operationTimesOut` alone;
- in `NetworkClient` nothing is assumed of the network: every answer rests on the timeouts;
- the bus delivers a reply or gives up on it (`finishHelperOperation \/ callTimesOut`). That
  the user answers polkit, or that the helper gets to a call, is not assumed;
- a PackageKit daemon that works on a transaction ends it or goes away.

A program that did not start, a daemon that went away and a client that ended are states of their
own (`lost`, `unstarted`, `gone`) and are excepted by the promises. Nobody is obliged to ask.

## What is proved

TLAPS checks the following for every value of the constants, from the assumptions named in the
modules (finite sets of sources, disjoint identifiers, bounds in `Nat`; for the window also finitely
many versions, since a list of kernels is finite, and initial files that are missing, unreadable or
give some of the keys a value of the right kind; for outputs, texts and numbers in their columns).
Every invariant of a passing run is among them.

- **`KernelRefresh_proofs`**: first the merge, which has the keys of both lists, one row for a key if
  each list has, and leaves no installed version `Available`; then `TypeOK`, `CountersMatchOutstanding`, `OneRowPerAnsweredKernel`,
  `ReportedNeverOffered`, and `ImplementsPromise`. The inductive invariant adds that the lists
  hold only what the parties can answer, that *between refreshes the published list is the
  merge of the lists*, and that whoever the loops of `refresh` have yet to ask is not at work
  (`AskedWhenIdle`). The merge needs the counting: an answer that came between two refreshes would
  change the lists under a published merge. The counting needs `AskedWhenIdle`: a failure from inside
  the loop counts one party as answered, which must not be one that is still running.
- **`NetworkClient_proofs`**: `TypeOK`, `OneThingGoingOn`, `WithinRetryLimit`,
  `RunningAttemptIsTimed`, `ImplementsPromise`. `OneThingGoingOn` is the heart: it makes the
  comparison of addresses in `finishReply` exact although the one in `timeoutRequest` is not. The
  invariant adds that a number not given out is not in the hash and a request in the hash has no signal.
- **`SourceFetch_proofs`**: `OneThingUnderWay` with the types, and `ImplementsPromise`. The
  invariant adds that answers follow fetches by at most one, and that no request is awaited that
  was not made. `AnswersAreFetches` shows that a source with its kernels is a source, so that all
  of it holds of `SourceAnswers` too.
  `AnswerTellsPackagesAlways` is about data: for every output of any length, the answer tells its
  packages. The inductive invariant only says that an answer is what the reader of this kind of source makes
  of the output (`FetchedIsParsed`), which needs that a source has a repoquery or a decompressor and never
  both (`KindDecides`). The rest are lemmas about the operators. A loop is reasoned about by what holds after
  each round: a set of numbers that has 0 and with each its successor has them all, because there is no
  least one it lacks (`Rounds`, from `LeastNumber`); by this the recursive functions exist, and after each
  round the hash groups the records so far (`Groups`), each kernel telling of its packages
  (`TellsOneMore`). Sorting is a counting argument: different versions have different numbers of later
  ones, so that every place has one (`SortedIsDescending`).
- **`KernelCommands_proofs`**: `TypeOK`, `VersionHasOneRow`, `OkMeansDone` and the action property
  `RunningNeverRemoved`, for any number of processes. The invariant adds that a process reports
  once and starts its dnf only where it waits for it, that no dnf that runs removes the running
  kernel, and that each list of answers has one kernel for a key, without which the merge could
  make two rows of a version. `PinnedIsNotRemoved` proves `PinPreventsRemoval`, which nests one temporal formula in another,
  about a pin held throughout, from the safety it rests on: from the moment a removal waits for its list, and
  as long as the pin is there, every list it gets has the version pinned and it starts no dnf
  (`Withheld`). It is proved for pins that can be read (`~PinReadFails`): otherwise it is false, which
  is the hazard at `StateStore.cpp:152`.
- **`StateStore_proofs`**: all five invariants. The strengthening: the lock of a process follows
  from its place, nobody writes beside another, who found version 1 saw the tables, and who is
  importing has written what is no longer left. `AnnouncedAtMostOnce` adds the notifier, for any
  number of processes and kernels: of a version for which no two looked at once and no statement
  failed, at most one call is between its look-up and its notification, and whoever sends has marked
  (`SentAfterMarking`). `NotifierLeavesStore`
  gives the notifier the five invariants of the store.
- **`PackageKitBackend_proofs`**: `TypeOK`, `OneThingAwaited`, `LastSignalIsLast`, `ImplementsPromise`,
  for any operations and queries. The invariant is these three with one more: a path is awaited as a reply to
  `CreateTransaction` or is a transaction, not both (`Apart`). Each step takes the one thing a
  request waits for and leaves another in its place, or emits the last signal and leaves nothing;
  so the second property tells every action that the request it ends is not over, which is what the
  third needs of it. The refinement strengthens it by `Faithful`: the daemon works only on transactions
  in the hash, an error is noted only of a transaction that failed, a change was
  attempted only by the transaction under way or by an operation that is over, and a failure is told of an operation that is over or whose transaction
  failed.
- **`BootOperations_proofs`**: `TypeOK`, `CallIsInOnePlace`, `NotOvertaken` and `ImplementsPromise`, for
  any managers, CLI runs and numbers of calls. A call is its client and a number, and the argument is one about
  order: while a call is queued, served or run by its client, no later one of that client is served,
  has a program, or was applied, and the queue has them in the order of their numbers (`InOrder`). The
  rest says that a call is in at most one place (`Apart`), that one awaited is in some place (`Kept`),
  that nothing is known of a call not yet asked for (`Untouched`, `AskedInOrder`), and that a
  program that runs is that of a call served, of a client, or outlived its helper (`RunsSomewhere`). The
  refinement adds that a client has one operation under way (`OneUnderWay`), that a success that is
  passed on follows its change (`Truthful`), and that only the program of a fallback can be missing
  (`OnlyFallbackMissing`).
- **`Window_proofs`**: `TypeOK`, `ShownIsStored`, `RecordedAsReported`, `AnsweredOnce` and the action
  property `AcceptChangesOnlyEdits`, for any sources, versions, notes, bounds and initial files. The
  inductive invariant has a part for each concern, since each step of the window disturbs one or two:
  - `ConfigInv`: the configuration is complete; what the dialog shows and the user did not edit is
    what is in memory (`DialogShows`), without which accepting could write something old; what it does not show
    is in memory as in the file, if that was read (`UnshownKept`); and a file that was missing holds the
    defaults, also when a CLI writes it late (`MissingMeansDefaults`). `RanksKeepOrder` is the lemma
    about rows and ranks: the numbers of the rows of the dialog's list contradict no priority.
  - `TableInv`: the types and `ShownIsStored`, which is inductive with them and with one more part: what
    is not open was neither read nor written (`NothingKnown`), since the panel of a window without
    an open store shows the row's note. It rests on lemmas about the rows: each row of a new list has what
    was read for it (`ListTold`), sorting loses no row (`SortedRows`: the places of the rows are a
    permutation, by the pigeonhole principle), and the first row of a version is one of its rows
    (`FirstRowIsOne`), so that a write is on some row.
  - `PackagesInv`: a record is of an operation that was begun and a record that failed of one whose dialog
    saw the end, so that no second end is recorded and none is both recorded and missing.
  - `BootInv`: a request is connected to both signals and unanswered, or to none and answered; which is
    what `Len(answers) <= 1` rests on while a warning box lets other steps in between two slots.

Only model-checked: liveness (`EveryCommandEnds`, `QueryIsAnswered` and the fair part of every
`KeepsPromise`), which the prover has no means for. The four runs that expect a violation are
TLC's, too.

## Where code and documents differ

| run | what is said | what the code does |
|---|---|---|
| `refresh_lost_program` | `SPEC.md:229`: a source emits `fetchFinished` or `fetchFailed` when done | a `dnf` that cannot be started is never reported; `pending_sources_` stays, and no later refresh starts |
| `refresh_running_status` | `SPEC.md:745`: `InstalledRunning` is "installed and is `uname -r`" | a running kernel that the repository still offers is merged as `Installed`; removal is refused all the same, since `removalBlocked` asks `uname` itself (`RunningNeverRemoved` holds) |
| `network_stale_timeout` | `.context/review-shadow.md:223`: `timeoutRequest` correctly checks the reply | a timeout outlives its attempt and may abort a retry whose reply was allocated at the same address; in between it reads a deleted reply |
| `commands_stale_pin` | `.context/review-jeff.md:120`, `SPEC.md:467`: a pinned kernel is not removed without force | the pin is the copy in the list; a pin set by another process after the refresh is not seen. A pin held throughout is (`PinPreventsRemoval` holds) |

## Disagreements no run shows

Met while modelling, each seen at the lines given. They are in the model as the code has them, and no
property of a run contradicts them; a run of its own would say little more than the line does.

*Window.*
- A version with two rows: only the first is updated by a pin or a note, and the second, which still
  shows the version unpinned, offers to pin it again, never to unpin it. A removal through a row whose
  copy is out of date is not refused (`SPEC.md:467`). This is why `ShownIsStored` says *some* row of a
  version the window wrote since the list came, and *every* row of one that it only read: that the other
  row is old is not told by it.
- The refresh asked for when an operation ends is dropped if one is under way, and the list that
  comes may be from before the operation (`KernelRepository.cpp:77`; `SPEC.md:449-455`).
- A dialog closed before its operation ended takes the record and the refresh with it
  (`MainWindow.cpp:825`), and an end is not recorded without an open store (`MainWindow.cpp:836`) or when
  the insert fails (`StateStore.cpp:279`); nobody is told. `RecordedAsReported` says that exactly these
  are missing (`closedEarly`, `unrecorded`).
- The result of `open` is not looked at (`gui/main.cpp:37`): a window whose store is not open shows no pins
  and no notes, and takes new ones without storing them. A pin or a note whose read fails is shown as none
  (`StateStore.cpp:152`, `StateStore.cpp:205`).
- Focus that leaves the panel writes its text, edited or not, over a newer note of another process, and
  after a failed read the empty text over the stored note (`DetailPanel.cpp:56-66`). `ShownIsStored` holds
  of both, since then the store has what is shown.
- The results of the store's writes are ignored: the row shows a pin the store refused.
- `cancelOperation` kills `pkexec` and no more.

*Configuration.*
- A file that could not be read is overwritten by the next save, with the defaults
  (`ConfigManager.cpp:67`); `AcceptChangesOnlyEdits` is for a file that was read (`loaded`).
- Manual checking is 0, stored as 1 (`ConfigManager.cpp:167`; `SPEC.md:670`), which the dialog shows as
  its second choice. Other values the boxes do not offer are replaced by what is shown.
- Resetting saves before the dialog is accepted. A theme chosen from the menu is never saved. The
  notification boxes of single sources and "stable only" are not saved, and all four sources are added
  whatever `enabled` says.
- Two processes overwrite the file whole: the later save wins all keys.

*Elsewhere.*
- The running kernel is to be refused "unless `--force` (CLI) / explicit 'this is unsafe' confirmation
  checkbox (GUI)" (`SPEC.md:464-466`). The code refuses always: `removalBlocked` looks at `force` for pins
  only (`DnfCliBackend.cpp:163-173`, and `PackageKitBackend.cpp` likewise), and the window has no such
  checkbox. `RunningNeverRemoved` states what the code keeps, for forced removals too, and is stricter
  than that sentence.
- Two processes can announce a version twice when both look before either marks it, and a crash between
  mark and send means it never is (`SPEC.md:1156-1159` says once). `AnnouncedOnce` bounds the first.
- Compatibility is set on rows and neither refuses nor warns at an installation (`SPEC.md:1147-1150`).
- Installed CachyOS kernels are not reported: `DnfCliBackend.cpp:50-55` asks for Fedora's names.
- `SortKernels` (`cli/main.cpp:344`) is not transitive where some dates are missing, and `check`
  compares versions as text (`cli/main.cpp:320`).

## What is not modelled

- **Presentation**: the columns and badges of the table, its sorting by other columns than the source
  (the view's proxy sorts those), the text filter (which removes rows as the quick filter does), CSV
  export, about box, themes, animations, tray icon; wording of messages; logging. No property is
  about them.
- **The parts of `CpuFeatures`** that read `/proc/cpuinfo`: they are reached only where the compiler has
  no builtins for the processor, which no build for these kernels is.
- **Texts.** A version is a model value, or a number in its order; a note, a date and a checksum are a
  member of a small set. An error inside `primary.xml` yields the records before it, as a shorter
  output does; the checksum of a kernel, which is its first package's, is not told apart.
- **Settings beyond the order of the sources, the interval and the theme**, which are handled alike.
- **`UpdateAvailable`** is never assigned in the code, so no row has it.
- **Time.** A timer may fire at any moment after it was armed, and in any order.
- **What rpm reports is read when it answers**, not when it is started: a change that falls between
  them is a change before the query.
- **In the CLI pins are read once for a list** (a version has one row there, so a command reads its
  pin once), and **a pin that cannot be read** (`StateStore::isPinned` returns false) is in `KernelCommands`
  as `PinReadFails` and switched off: with it a pin guards nothing, and no document says what
  it should mean. In `Window` every read may fail, and each row has a read of its own.
- **`clearSources` and `setPackageBackend` during a refresh** would lose answers. Both programs wire
  the repository once, before its first refresh; the model assumes it (`CallerWiresWhenIdle`).
- **Components no program uses today**: `PackageKitBackend` and `Grub2BlsManager` are instantiated
  by neither `main`, and `gui/main.cpp` gives the window no package backend and no boot manager, so its
  operations cannot be reached in the program as built. They are modelled as the library offers them.
  `CachyOsCoprSource::ensureRepoEnabled` has the protocol of the boot manager and no caller, and is
  not modelled apart. `Notifier` has no caller; `Notifications` models it as any process would call it.
- **PackageKit**: exit code 0 ("unknown") is never sent; progress signals change no state.
- **The helper's validation** of arguments is a choice of valid or not.
- **SQLite and Qt** are modelled from how the code uses them (external in the map): locks of the
  rollback journal, a busy timeout of five seconds, `abort()` that emits `finished` before it returns,
  `deleteLater()` that runs from the event loop.

## The plan

Done, in this order: the merge and the refresh; the network client; one source; the commands; the
PackageKit backend; boot operations; the state store; their proofs; the notifier; the window with its
table and configuration; packages and what a source answers; proofs of the PackageKit backend and of
the boot operations, with the safety parts of their promises; proofs of the window with its
configuration, of a pin that prevents a removal, and of what a source answers.

What would come next:

1. `ensureRepoEnabled`, once something calls it.
2. `Window` over `KernelCommands`' processes in place of `otherProcessWrites`, once the programs give it
   a package backend.
