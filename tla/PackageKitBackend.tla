------------------------- MODULE PackageKitBackend -------------------------
(***************************************************************************)
(* PackageKitBackend (core/pkg): installs, removals and the query of the   *)
(* installed kernels over D-Bus.  An install or a removal takes two        *)
(* transactions of the PackageKit daemon, one that resolves the packages   *)
(* and one that changes them; a query takes the first alone.  Every step   *)
(* waits for a message of the daemon, and any number of operations is      *)
(* under way at a time.                                                    *)
(*                                                                         *)
(* A transaction is known by the object path the daemon gave it.  Paths    *)
(* are never given out twice and every role of an operation is played once,*)
(* so a path is a pair of them.  D-Bus delivers the messages of a path in  *)
(* the order they were sent.                                               *)
(***************************************************************************)
EXTENDS Integers, Sequences

CONSTANTS
    Operations,     \* the installs and removals, as their handles know them
    Queries,        \* the queries, which have no handle
    MayVanish       \* whether the daemon can go away, or refuse a call, unheard

ASSUME DaemonAssumption ==
    /\ Operations \cap Queries = {}
    /\ MayVanish \in BOOLEAN

Requests == Operations \cup Queries

Roles == {"QueryInstalled", "ResolveForInstall", "ResolveForRemove", "Install", "Remove"}

Paths == Requests \X Roles

VARIABLES
    refused,         \* the operations whose refusal is queued in the event loop
    creating,        \* the calls of CreateTransaction that wait for their reply
    transactions_,   \* the hash: the paths in it
    resolved,        \* those whose packageIds is not empty
    failing,         \* those whose error is not empty
    cancels,         \* the transactions the daemon was told to cancel
    packagekit,      \* what the daemon made of each path
    signals          \* what was emitted for each operation

messages == <<refused, creating>>
hash     == <<transactions_, resolved, failing>>
vars     == <<messages, hash, cancels, packagekit, signals>>

Asked(id) ==
    \/ id \in refused
    \/ \E role \in Roles : <<id, role>> \in creating \cup transactions_
    \/ signals[id] # <<>>

-----------------------------------------------------------------------------

Init ==
    /\ refused = {}
    /\ creating = {}
    /\ transactions_ = {}
    /\ resolved = {}
    /\ failing = {}
    /\ cancels = {}
    /\ packagekit = [path \in Paths |-> "none"]
    /\ signals = [id \in Requests |-> <<>>]

Emit(id, emitted) == signals' = [signals EXCEPT ![id] = @ \o emitted]

\* failOperation
failOperation(id) == Emit(id, <<"operationFailed", "operationFinished(false)">>)

\* How a request that has no transaction fails: installedQueryFailed, or the
\* signals of an operation.
failRequest(id, role) ==
    IF role = "QueryInstalled" THEN Emit(id, <<"installedQueryFailed">>) ELSE failOperation(id)

(***************************************************************************)
(* createTransaction.                                                      *)
(***************************************************************************)

\* The daemon is not there and cannot be started: the request fails before the
\* call returns.  Otherwise CreateTransaction is on its way.
createTransaction(id, role, waiting) ==
    \/ failRequest(id, role) /\ creating' = waiting
    \/ creating' = waiting \cup {<<id, role>>} /\ UNCHANGED signals

\* The calls of an operation that reached the daemon: it works, or it is never
\* heard of again.  Nobody looks at the replies of Resolve, InstallPackages and
\* RemovePackages.
Working == {"working"} \cup (IF MayVanish THEN {"lost"} ELSE {})

createFails(id, role) ==
    /\ <<id, role>> \in creating
    /\ creating' = creating \ {<<id, role>>}
    /\ failRequest(id, role)
    /\ UNCHANGED <<refused, hash, cancels, packagekit>>

created(id, role) ==
    /\ <<id, role>> \in creating
    /\ creating' = creating \ {<<id, role>>}
    /\ transactions_' = transactions_ \cup {<<id, role>>}
    /\ \E work \in Working : packagekit' = [packagekit EXCEPT ![<<id, role>>] = work]
    /\ UNCHANGED <<refused, resolved, failing, cancels, signals>>

(***************************************************************************)
(* What the caller asks for.                                               *)
(***************************************************************************)

queryInstalled(id) ==
    /\ ~Asked(id)
    /\ createTransaction(id, "QueryInstalled", creating)
    /\ UNCHANGED <<refused, hash, cancels, packagekit>>

installKernel(id) ==
    /\ ~Asked(id)
    /\ createTransaction(id, "ResolveForInstall", creating)
    /\ UNCHANGED <<refused, hash, cancels, packagekit>>

\* removalBlocked, on what it looks at: the status of the row, uname and the pin.
removalBlocked(marked, running, pinned, force) == marked \/ running \/ (pinned /\ ~force)

removeKernel(id) ==
    /\ ~Asked(id)
    /\ \E marked, running, pinned, force \in BOOLEAN :
          IF removalBlocked(marked, running, pinned, force)
          THEN refused' = refused \cup {id} /\ UNCHANGED <<creating, signals>>
          ELSE createTransaction(id, "ResolveForRemove", creating) /\ UNCHANGED refused
    /\ UNCHANGED <<hash, cancels, packagekit>>

deliverRefusal(id) ==
    /\ id \in refused
    /\ refused' = refused \ {id}
    /\ failOperation(id)
    /\ UNCHANGED <<creating, hash, cancels, packagekit>>

\* The transaction of the handle that is in the hash is told.  A handle that waits
\* for CreateTransaction has none, and its cancellation does nothing.
cancelOperation(id) ==
    /\ \E role \in Roles \ {"QueryInstalled"} :
          /\ <<id, role>> \in transactions_
          /\ cancels' = IF packagekit[<<id, role>>] = "working"
                        THEN cancels \cup {<<id, role>>} ELSE cancels
    /\ UNCHANGED <<messages, hash, packagekit, signals>>

(***************************************************************************)
(* The daemon.                                                             *)
(***************************************************************************)

\* It ends a transaction, and its Finished is on its way; or it goes away.
daemonEnds(path, end) ==
    /\ packagekit[path] = "working"
    /\ end = "cancelled" => path \in cancels
    /\ packagekit' = [packagekit EXCEPT ![path] = end]
    /\ cancels' = cancels \ {path}
    /\ UNCHANGED <<messages, hash, signals>>

(***************************************************************************)
(* Its signals.                                                            *)
(***************************************************************************)

onTransactionPackage(path) ==
    /\ path \in transactions_
    /\ packagekit[path] # "lost"
    /\ resolved' = resolved \cup {path}
    /\ UNCHANGED <<messages, transactions_, failing, cancels, packagekit, signals>>

\* Mutant: the error ends the operation, and so does its Finished.
onTransactionError_Ends(path) ==
    /\ path \in transactions_ \ failing
    /\ packagekit[path] \in {"failed", "cancelled"}
    /\ failing' = failing \cup {path}
    /\ IF path[2] = "QueryInstalled" THEN UNCHANGED signals ELSE failOperation(path[1])
    /\ UNCHANGED <<messages, transactions_, resolved, cancels, packagekit>>

\* ErrorCode comes before the Finished of a transaction that failed.
onTransactionError(path) ==
    /\ path \in transactions_ \ failing
    /\ packagekit[path] \in {"failed", "cancelled"}
    /\ failing' = failing \cup {path}
    /\ IF path[2] = "QueryInstalled" THEN UNCHANGED signals ELSE Emit(path[1], <<"operationFailed">>)
    /\ UNCHANGED <<messages, transactions_, resolved, cancels, packagekit>>

\* Mutant: a query that failed is not answered.
finishQuery_FailureSilent(id, error) ==
    /\ IF error THEN UNCHANGED signals ELSE Emit(id, <<"installedQueryFinished">>)
    /\ UNCHANGED creating

\* A query fails only by its ErrorCode; its exit code is not looked at.
finishQuery(id, error) ==
    /\ Emit(id, IF error THEN <<"installedQueryFailed">> ELSE <<"installedQueryFinished">>)
    /\ UNCHANGED creating

\* callInstall, callRemove: the second transaction, unless nothing was resolved.
callChange(id, role, found) ==
    IF found THEN createTransaction(id, role, creating)
             ELSE failOperation(id) /\ UNCHANGED creating

\* Mutant: the exit code of a transaction is not looked at.
Succeeded_ErrorOnly(path) == path \notin failing

\* No error, and an exit code of success.
Succeeded(path) == path \notin failing /\ packagekit[path] = "success"

\* Mutant: what was noted of the transaction outlives it.
forget_EntryLeft(path) ==
    /\ transactions_' = transactions_ \ {path}
    /\ UNCHANGED <<resolved, failing>>

\* Mutant: the transaction stays in the hash.
forget_Kept(path) == UNCHANGED <<transactions_, resolved, failing>>

\* transactions_.erase
forget(path) ==
    /\ transactions_' = transactions_ \ {path}
    /\ resolved' = resolved \ {path}
    /\ failing' = failing \ {path}

onTransactionFinished(path) ==
    LET id == path[1]  role == path[2] IN
    /\ path \in transactions_
    /\ packagekit[path] \in {"success", "failed", "cancelled"}
    /\ forget(path)
    /\ \/ role = "QueryInstalled" /\ finishQuery(id, path \in failing)
       \/ /\ role # "QueryInstalled" /\ ~Succeeded(path)
          /\ failOperation(id) /\ UNCHANGED creating
       \/ /\ role = "ResolveForInstall" /\ Succeeded(path)
          /\ callChange(id, "Install", path \in resolved)
       \/ /\ role = "ResolveForRemove" /\ Succeeded(path)
          /\ callChange(id, "Remove", path \in resolved)
       \/ /\ role \in {"Install", "Remove"} /\ Succeeded(path)
          /\ Emit(id, <<"operationFinished(true)">>) /\ UNCHANGED creating
    /\ UNCHANGED <<refused, cancels, packagekit>>

-----------------------------------------------------------------------------

Request ==
    \/ \E id \in Queries : queryInstalled(id)
    \/ \E id \in Operations : installKernel(id) \/ removeKernel(id) \/ cancelOperation(id)

Reply(id) ==
    \/ deliverRefusal(id)
    \/ \E role \in Roles : createFails(id, role) \/ created(id, role)

Signal(path) == onTransactionPackage(path) \/ onTransactionError(path) \/ onTransactionFinished(path)

Ends == {"success", "failed", "cancelled"} \cup (IF MayVanish THEN {"lost"} ELSE {})

DaemonEnds(path) == \E end \in Ends : daemonEnds(path, end)

Next ==
    \/ Request
    \/ \E id \in Requests : Reply(id)
    \/ \E path \in Paths : DaemonEnds(path) \/ Signal(path)

Spec == Init /\ [][Next]_vars

\* The bus delivers, and a daemon that works on a transaction ends it.
Fairness ==
    /\ \A id \in Requests : WF_vars(Reply(id))
    /\ \A path \in Paths : WF_vars(DaemonEnds(path)) /\ WF_vars(onTransactionFinished(path))

FairSpec == Spec /\ Fairness

-----------------------------------------------------------------------------
(***************************************************************************)
(* Properties.                                                             *)
(***************************************************************************)

Emitted ==
    {"operationFailed", "operationFinished(true)", "operationFinished(false)",
     "installedQueryFinished", "installedQueryFailed"}

TypeOK ==
    /\ refused \subseteq Operations
    /\ creating \subseteq Paths
    /\ transactions_ \subseteq Paths
    /\ resolved \subseteq transactions_
    /\ failing \subseteq transactions_
    /\ cancels \subseteq Paths
    /\ packagekit \in [Paths -> {"none", "working", "success", "failed", "cancelled", "lost"}]
    /\ signals \in [Requests -> Seq(Emitted)]

Final == Emitted \ {"operationFailed"}

Over(id) == \E i \in DOMAIN signals[id] : signals[id][i] \in Final

\* What an operation or a query waits for: a queued refusal, a reply, or a
\* transaction.
WaitsFor(id) ==
    {path \in creating \cup transactions_ : path[1] = id} \cup
    {<<r, "refused">> : r \in refused \cap {id}}

\* Every request that was made and is not over waits for one thing, and one that is
\* over for nothing: it can neither be forgotten between its two transactions nor
\* be ended twice.
OneThingAwaited ==
    \A id \in Requests :
        /\ Over(id) => WaitsFor(id) = {}
        /\ ~Over(id) /\ Asked(id) => \E thing \in WaitsFor(id) : WaitsFor(id) = {thing}

\* Nothing is emitted for a request after its last signal, whatever the daemon still
\* sends, and an operation that ends in failure has said why.
LastSignalIsLast ==
    \A id \in Requests : \A i \in DOMAIN signals[id] :
        /\ signals[id][i] \in Final => i = Len(signals[id])
        /\ signals[id][i] = "operationFinished(false)" =>
               \E j \in 1..(i - 1) : signals[id][j] = "operationFailed"

\* Every query is answered, unless the daemon that works on it goes away.
QueryIsAnswered ==
    \A id \in Queries :
        Asked(id) ~> (Over(id) \/ packagekit[<<id, "QueryInstalled">>] = "lost")

\* Whether the daemon that works for an operation went away.
Lost(id) == \E path \in transactions_ : path[1] = id /\ packagekit[path] = "lost"

StateOf(id) ==
    IF ~Asked(id) THEN "none"
    ELSE IF Lost(id) THEN "lost"
    ELSE IF ~Over(id) THEN "open"
    ELSE IF signals[id][Len(signals[id])] = "operationFinished(true)" THEN "ok" ELSE "failed"

ToldOf(id) == \E i \in DOMAIN signals[id] : signals[id][i] = "operationFailed"

ChangedOf(id) == \E role \in {"Install", "Remove"} : packagekit[<<id, role>>] = "success"

Promise == INSTANCE OperationPromise WITH
    state   <- [id \in Operations |-> StateOf(id)],
    told    <- [id \in Operations |-> ToldOf(id)],
    changed <- [id \in Operations |-> ChangedOf(id)]

\* Every operation ends in one operationFinished, in success exactly when the daemon
\* changed the packages, through both transactions, every error and every
\* cancellation.
KeepsPromise == Promise!FairSpec

=============================================================================
