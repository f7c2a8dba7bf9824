--------------------------- MODULE RefreshPromise ---------------------------
(***************************************************************************)
(* What a refresh promises, whoever counts the answers and however: it     *)
(* asks a set of parties (the kernel sources and the installed query),     *)
(* each of them answers once or fails, and the step that takes the last    *)
(* answer, and no other step, publishes the merge of all of them.          *)
(***************************************************************************)
EXTENDS KernelMerge

CONSTANTS
    Sources,      \* the kernel sources that can be asked
    Query,        \* the installed query, a party like the sources
    Versions,     \* the kernel versions
    Fedora,       \* the source installed kernels are listed under
    Running       \* the version the machine runs

VARIABLES
    open,         \* a refresh is under way
    waiting,      \* the parties that have yet to answer it
    available,    \* what the sources have answered so far
    installed,    \* what the installed query has answered
    list          \* the list published last

vars == <<open, waiting, available, installed, list>>

Parties == Sources \cup {Query}

Init ==
    /\ open = FALSE
    /\ waiting = {}
    /\ available = {}
    /\ installed = {}
    /\ list = {}

\* Nobody is left to wait for: the refresh is over and its list replaces the
\* one before.
PublishIfAllAnswered ==
    IF waiting' = {}
    THEN /\ open' = FALSE
         /\ list' = mergeKernelLists(available', installed')
    ELSE /\ open' = TRUE
         /\ UNCHANGED list

\* A refresh begins with the parties it is going to ask.  It starts from nothing.
Begin ==
    /\ ~open
    /\ waiting' \in SUBSET Parties
    /\ available' = {}
    /\ installed' = {}
    /\ PublishIfAllAnswered

\* One party answers.
Answer(p) ==
    /\ p \in waiting
    /\ waiting' = waiting \ {p}
    /\ \/ UNCHANGED <<available, installed>>
       \/ /\ p \in Sources
          /\ \E versions \in SUBSET Versions :
                available' = available \cup AvailableFrom(p, versions)
          /\ UNCHANGED installed
       \/ /\ p = Query
          /\ \E versions \in SUBSET Versions :
                installed' = InstalledFrom(Fedora, Running, versions)
          /\ UNCHANGED available
    /\ PublishIfAllAnswered

Next == Begin \/ \E p \in Parties : Answer(p)

Spec == Init /\ [][Next]_vars

\* Every party that was asked answers.
FairSpec == Spec /\ WF_vars(\E p \in Parties : Answer(p))

=============================================================================
