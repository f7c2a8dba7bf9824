----------------------- MODULE KernelRefresh_proofs -----------------------
(***************************************************************************)
(* What holds of KernelRefresh for any number of sources, versions and     *)
(* refreshes, and whichever programs may fail to start.                    *)
(*                                                                         *)
(* The invariant is TypeOK, with the two pending members counting the      *)
(* answers to come (CountersMatchOutstanding), with nothing running that   *)
(* refresh() has yet to ask (AskedWhenIdle), with what a source or rpm can *)
(* have answered (AnswersWellFormed) and with the published list being the *)
(* merge of those answers whenever no refresh is under way                 *)
(* (ListIsTheMerge).  The last conjunct needs the counting: an answer that *)
(* came between two refreshes would change the lists under a published     *)
(* merge, and it is the counting that excludes one.  The counting needs    *)
(* AskedWhenIdle: a failure from inside the loop of refresh() counts one   *)
(* party as answered, which must not be one that is still running.         *)
(***************************************************************************)
EXTENDS KernelRefresh, FiniteSetTheorems, TLAPS

\* The lists hold only what AvailableFrom and InstalledFrom make: in each of
\* them the key of a kernel decides its status.
AnswersWellFormed ==
    /\ \A k \in available_kernels_ : k.status = "Available"
    /\ \A k \in installed_kernels_ :
          k.status = IF k.version = Running THEN "InstalledRunning" ELSE "Installed"

ListIsTheMerge ==
    ~refresh_in_progress_ => kernels_ = mergeKernelLists(available_kernels_, installed_kernels_)

\* Who has yet to be asked in the loops of refresh() is not at work.
AskedWhenIdle ==
    /\ \A s \in Sources : s \in toAsk => fetch[s] = "idle"
    /\ Query \in toAsk => query = "idle"

IInv ==
    /\ TypeOK
    /\ CountersMatchOutstanding
    /\ AskedWhenIdle
    /\ AnswersWellFormed
    /\ ListIsTheMerge

-----------------------------------------------------------------------------
(***************************************************************************)
(* What the merge of a refresh does with any two lists: it keeps their     *)
(* keys, it keeps one row of each key, and it leaves no installed version  *)
(* Available.                                                              *)
(***************************************************************************)

\* Marking changes nothing but the status, and only from Available to Installed.
LEMMA MarkedKernel ==
    ASSUME NEW S, NEW V, NEW k \in KernelInfo(S, V), NEW versions
    PROVE  /\ MarkInstalled(k, versions) \in KernelInfo(S, V)
           /\ KernelKey(MarkInstalled(k, versions)) = KernelKey(k)
           /\ k.version \in versions => MarkInstalled(k, versions).status # "Available"
BY DEF MarkInstalled, KernelInfo, KernelStatus, KernelKey

\* Two lists of kernels merge to a list of kernels.
LEMMA MergeType ==
    ASSUME NEW S, NEW V, NEW a \in SUBSET KernelInfo(S, V), NEW i \in SUBSET KernelInfo(S, V)
    PROVE  mergeKernelLists(a, i) \subseteq KernelInfo(S, V)
<1>1. \A k \in a \cup i : MarkInstalled(k, InstalledVersions(i)) \in KernelInfo(S, V)
  BY MarkedKernel
<1> QED
  BY <1>1 DEF mergeKernelLists

\* The keys of the merge are the keys of the two lists.
LEMMA MergeKeys ==
    ASSUME NEW S, NEW V, NEW a \in SUBSET KernelInfo(S, V), NEW i \in SUBSET KernelInfo(S, V)
    PROVE  Keys(mergeKernelLists(a, i)) = Keys(a \cup i)
<1> DEFINE versions == InstalledVersions(i)
           listed   == {MarkInstalled(k, versions) : k \in a}
           added    == {MarkInstalled(k, versions) :
                           k \in {j \in i : KernelKey(j) \notin Keys(listed)}}
<1>1. mergeKernelLists(a, i) = listed \cup added
  BY DEF mergeKernelLists
<1>2. \A k \in a \cup i : KernelKey(MarkInstalled(k, versions)) = KernelKey(k)
  BY MarkedKernel
<1> HIDE DEF versions
<1>3. Keys(listed) = Keys(a)
  BY <1>2 DEF Keys
<1>4. Keys(added) = Keys({j \in i : KernelKey(j) \notin Keys(listed)})
  BY <1>2 DEF Keys
<1> HIDE DEF listed, added
<1>5. Keys(listed \cup added) = Keys(listed) \cup Keys(added)
  BY DEF Keys
<1>6. Keys(a \cup i) = Keys(a) \cup Keys({j \in i : KernelKey(j) \notin Keys(a)})
  BY DEF Keys
<1> QED
  BY <1>1, <1>3, <1>4, <1>5, <1>6

\* Where the key decides the kernel in either list, it does in the merge.
LEMMA MergeOneRowPerKey ==
    ASSUME NEW S, NEW V, NEW a \in SUBSET KernelInfo(S, V), NEW i \in SUBSET KernelInfo(S, V),
           \A j, k \in a : KernelKey(j) = KernelKey(k) => j = k,
           \A j, k \in i : KernelKey(j) = KernelKey(k) => j = k,
           NEW p \in mergeKernelLists(a, i), NEW q \in mergeKernelLists(a, i),
           KernelKey(p) = KernelKey(q)
    PROVE  p = q
<1> DEFINE versions == InstalledVersions(i)
           listed   == {MarkInstalled(k, versions) : k \in a}
           added    == {MarkInstalled(k, versions) :
                           k \in {j \in i : KernelKey(j) \notin Keys(listed)}}
<1>1. mergeKernelLists(a, i) = listed \cup added
  BY DEF mergeKernelLists
<1>2. \A k \in a \cup i : KernelKey(MarkInstalled(k, versions)) = KernelKey(k)
  BY MarkedKernel
<1> HIDE DEF versions
<1>3. CASE p \in listed /\ q \in listed
  BY <1>2, <1>3
<1>4. CASE p \in added /\ q \in added
  <2>1. PICK j \in i : p = MarkInstalled(j, versions)
    BY <1>4
  <2>2. PICK k \in i : q = MarkInstalled(k, versions)
    BY <1>4
  <2> QED
    BY <1>2, <2>1, <2>2
<1>5. \A l \in listed, d \in added : KernelKey(l) # KernelKey(d)
  <2> SUFFICES ASSUME NEW l \in listed, NEW d \in added PROVE KernelKey(l) # KernelKey(d)
    OBVIOUS
  <2>1. KernelKey(l) \in Keys(listed)
    BY DEF Keys
  <2>2. KernelKey(d) \notin Keys(listed)
    BY <1>2
  <2> QED
    BY <2>1, <2>2
<1> HIDE DEF listed, added
<1> QED
  BY <1>1, <1>3, <1>4, <1>5

\* No version of the installed list is Available in the merge.
LEMMA MergeMarksInstalled ==
    ASSUME NEW S, NEW V, NEW a \in SUBSET KernelInfo(S, V), NEW i \in SUBSET KernelInfo(S, V),
           NEW k \in mergeKernelLists(a, i), k.version \in InstalledVersions(i)
    PROVE  k.status # "Available"
<1> DEFINE versions == InstalledVersions(i)
<1>1. PICK j \in a \cup i : k = MarkInstalled(j, versions)
  BY DEF mergeKernelLists
<1>2. j \in KernelInfo(S, V) /\ j.version = k.version
  BY <1>1 DEF MarkInstalled, KernelInfo
<1> QED
  BY <1>1, <1>2, MarkedKernel

-----------------------------------------------------------------------------
(***************************************************************************)
(* The counting.                                                           *)
(***************************************************************************)

\* A source that answers or fails leaves one source less to wait for; it was counted.
LEMMA AnswerLeavesOneLess ==
    ASSUME TypeOK, CountersMatchOutstanding,
           NEW s \in Outstanding, Outstanding' = Outstanding \ {s}
    PROVE  /\ Cardinality(Outstanding') \in Nat
           /\ OneSourceLess = Cardinality(Outstanding')
           /\ OneSourceLess \in 0..Cardinality(Sources)
           /\ refresh_in_progress_ = TRUE
<1>2. IsFiniteSet(Outstanding) /\ Cardinality(Outstanding) <= Cardinality(Sources)
  BY SourcesAssumption, FS_Subset DEF Outstanding
<1>3. Cardinality(Outstanding') = Cardinality(Outstanding) - 1
  BY <1>2, FS_RemoveElement
<1>4. Cardinality(Outstanding') \in Nat /\ Cardinality(Outstanding) \in Nat
      /\ Cardinality(Sources) \in Nat
  BY <1>2, FS_Subset, FS_CardinalityType, SourcesAssumption
<1>5. pending_sources_ = Cardinality(Outstanding)
  BY DEF CountersMatchOutstanding
<1>6. /\ OneSourceLess = Cardinality(Outstanding')
      /\ OneSourceLess \in 0..Cardinality(Sources)
  BY <1>2, <1>3, <1>4, <1>5 DEF OneSourceLess
<1>7. refresh_in_progress_ = TRUE
  BY Zenon DEF CountersMatchOutstanding
<1> QED
  BY <1>4, <1>6, <1>7

\* Of an answer from the event loop.
LEMMA SourceAnswerTakesOne ==
    ASSUME TypeOK, NEW s \in Sources, SourceAnswers(s)
    PROVE  Outstanding' = Outstanding \ {s} /\ s \in Outstanding
BY DEF SourceAnswers, EventLoop, Outstanding, TypeOK, Activity

\* Of a failure from inside refresh().
LEMMA FailureAtOnceTakesOne ==
    ASSUME TypeOK, AskedWhenIdle, NEW s \in Sources,
           s \in toAsk, toAsk' = toAsk \ {s}, UNCHANGED fetch
    PROVE  Outstanding' = Outstanding \ {s} /\ s \in Outstanding
BY DEF AskedWhenIdle, Outstanding, TypeOK

\* A source that is started is waited for as it was before it was asked.
LEMMA StartTakesNone ==
    ASSUME TypeOK, NEW s \in Sources, NEW activity \in Started(s),
           s \in toAsk, toAsk' = toAsk \ {s}, fetch' = [fetch EXCEPT ![s] = activity]
    PROVE  Outstanding' = Outstanding
BY DEF Started, Outstanding, TypeOK

\* What fetchAvailable may do: fail at once, or leave the counting as it is.
LEMMA AskedSource ==
    ASSUME IInv, NEW s \in Sources, fetchAvailable(s)
    PROVE  \/ /\ onSourceFailed
              /\ UNCHANGED fetch
              /\ Outstanding' = Outstanding \ {s} /\ s \in Outstanding
           \/ /\ UNCHANGED repository
              /\ \E activity \in Started(s) : fetch' = [fetch EXCEPT ![s] = activity]
              /\ Outstanding' = Outstanding
<1>1. s \in toAsk /\ toAsk' = toAsk \ {s} /\ TypeOK /\ AskedWhenIdle
  BY DEF fetchAvailable, IInv
<1>2. CASE onSourceFailed /\ UNCHANGED fetch
  BY <1>1, <1>2, FailureAtOnceTakesOne
<1>3. CASE /\ UNCHANGED repository
           /\ \E activity \in Started(s) : fetch' = [fetch EXCEPT ![s] = activity]
  BY <1>1, <1>3, StartTakesNone
<1> QED
  BY <1>2, <1>3 DEF fetchAvailable

\* The same of queryInstalled.
LEMMA AskedQuery ==
    ASSUME IInv, queryInstalled
    PROVE  /\ QueryOutstanding
           /\ Outstanding' = Outstanding
           /\ refresh_in_progress_ = TRUE
           /\ \/ onInstalledQueryFailed /\ ~QueryOutstanding' /\ UNCHANGED query
              \/ UNCHANGED repository /\ QueryOutstanding' /\ query' \in Started(Query)
<1>1. QueryOutstanding /\ refresh_in_progress_ = TRUE
  BY Zenon DEF queryInstalled, QueryOutstanding, IInv, CountersMatchOutstanding
<1>2. Outstanding' = Outstanding
  BY SourcesAssumption DEF queryInstalled, Outstanding
<1>3. query = "idle" /\ Query \notin toAsk'
  BY DEF queryInstalled, IInv, AskedWhenIdle
<1>4. CASE onInstalledQueryFailed /\ UNCHANGED query
  BY <1>1, <1>2, <1>3, <1>4 DEF QueryOutstanding
<1>5. CASE UNCHANGED repository /\ query' \in Started(Query)
  <2>1. query' # "idle"
    BY <1>5 DEF Started
  <2> QED
    BY <1>1, <1>2, <1>5, <2>1 DEF QueryOutstanding
<1> QED
  BY <1>4, <1>5 DEF queryInstalled

\* The end of a handler of a refresh under way: the refresh is over exactly when
\* nobody is waited for, and then the list is the merge of the answers.
LEMMA FinalizeType ==
    ASSUME TypeOK, NEW inProgress \in BOOLEAN, finalizeRefreshIfReady(inProgress),
           available_kernels_' \subseteq KernelInfo(Sources, Versions),
           installed_kernels_' \subseteq KernelInfo({Fedora}, Versions)
    PROVE  /\ refresh_in_progress_' \in BOOLEAN
           /\ kernels_' \subseteq KernelInfo(Sources, Versions)
<1>1. available_kernels_' \in SUBSET KernelInfo(Sources, Versions)
  OBVIOUS
<1>2. installed_kernels_' \in SUBSET KernelInfo(Sources, Versions)
  BY SourcesAssumption DEF KernelInfo
<1>3. mergeKernelLists(available_kernels_', installed_kernels_') \subseteq
         KernelInfo(Sources, Versions)
  BY <1>1, <1>2, MergeType
<1> QED
  BY <1>3 DEF finalizeRefreshIfReady, TypeOK

\* What the parties answer with are kernels.
LEMMA AnswersType ==
    /\ \A s \in Sources, versions \in SUBSET Versions :
          AvailableFrom(s, versions) \subseteq KernelInfo(Sources, Versions)
    /\ \A versions \in SUBSET Versions :
          InstalledFrom(Fedora, Running, versions) \subseteq KernelInfo({Fedora}, Versions)
BY DEF AvailableFrom, InstalledFrom, KernelInfo, KernelStatus

-----------------------------------------------------------------------------
(***************************************************************************)
(* The inductive invariant, one conjunct after the other.                  *)
(***************************************************************************)

LEMMA InitIInv == Init => IInv
<1> SUFFICES ASSUME Init PROVE IInv
  OBVIOUS
<1>1. Outstanding = {}
  BY DEF Init, Outstanding
<1>2. Cardinality(Outstanding) = 0 /\ Cardinality(Sources) \in Nat
  BY <1>1, SourcesAssumption, FS_EmptySet, FS_CardinalityType
<1>3. TypeOK
  <2>1. 0 \in 0..Cardinality(Sources) /\ 0 \in 0..MaxRefreshes
    BY <1>2, SourcesAssumption
  <2>2. [s \in Sources |-> "idle"] \in [Sources -> Activity]
    BY DEF Activity
  <2> QED
    BY <2>1, <2>2 DEF Init, TypeOK, Activity
<1>4. CountersMatchOutstanding
  BY <1>1, <1>2 DEF Init, CountersMatchOutstanding, QueryOutstanding
<1>7. AskedWhenIdle
  BY DEF Init, AskedWhenIdle
<1>5. AnswersWellFormed
  BY DEF Init, AnswersWellFormed
<1>6. ListIsTheMerge
  BY DEF Init, ListIsTheMerge, mergeKernelLists
<1> QED
  BY <1>3, <1>4, <1>5, <1>6, <1>7 DEF IInv

\* The parties a refresh is about to ask are those it waits for.
LEMMA RefreshAsks ==
    ASSUME IInv, refresh
    PROVE  /\ Cardinality(Outstanding') \in 0..Cardinality(Sources)
           /\ pending_sources_' = Cardinality(Outstanding')
           /\ pending_installed_query_' = QueryOutstanding'
           /\ pending_installed_query_' \in BOOLEAN
           /\ toAsk' \subseteq Sources \cup {Query}
           /\ AskedWhenIdle'
<1>1. Outstanding = {} /\ query = "idle"
  BY Zenon DEF IInv, CountersMatchOutstanding, QueryOutstanding, refresh
<1>2. \A s \in Sources : fetch'[s] = "idle"
  BY <1>1 DEF Outstanding, refresh
<1>3. sources_ \subseteq Sources /\ Query \notin Sources /\ package_backend_ \in BOOLEAN
  BY SourcesAssumption DEF IInv, TypeOK
<1>4. Outstanding' = sources_
  BY <1>2, <1>3 DEF refresh, Outstanding
<1>5. /\ Cardinality(Outstanding') \in Nat
      /\ Cardinality(Outstanding') <= Cardinality(Sources)
      /\ Cardinality(Sources) \in Nat
  BY <1>3, <1>4, SourcesAssumption, FS_Subset, FS_CardinalityType
<1>6. pending_installed_query_' = QueryOutstanding'
  <2>1. Query \in toAsk' <=> package_backend_
    BY <1>3 DEF refresh
  <2>2. query' = "idle" /\ pending_installed_query_' = package_backend_
    BY <1>1 DEF refresh
  <2>3. QueryOutstanding' \in BOOLEAN
    BY DEF QueryOutstanding
  <2> QED
    BY <1>3, <2>1, <2>2, <2>3, Zenon DEF QueryOutstanding
<1>7. toAsk' \subseteq Sources \cup {Query} /\ AskedWhenIdle'
  BY <1>1, <1>2, <1>3 DEF refresh, AskedWhenIdle
<1>8. pending_sources_' = Cardinality(Outstanding') /\ pending_installed_query_' \in BOOLEAN
  BY <1>3, <1>4 DEF refresh
<1> QED
  BY <1>5, <1>6, <1>7, <1>8

LEMMA NextTypeOK == IInv /\ [Next]_vars => TypeOK'
<1> SUFFICES ASSUME IInv, [Next]_vars PROVE TypeOK'
  OBVIOUS
<1> USE DEF TypeOK, wiring, repository
<1>0. TypeOK /\ CountersMatchOutstanding
  BY DEF IInv
<1>1. CASE UNCHANGED vars
  BY <1>0, <1>1 DEF vars, parties
<1>2. ASSUME NEW s \in Sources, addSource(s) PROVE TypeOK'
  BY <1>0, <1>2 DEF addSource, parties
<1>3. CASE clearSources
  BY <1>0, <1>3 DEF clearSources, parties
<1>4. CASE setPackageBackend
  BY <1>0, <1>4 DEF setPackageBackend, parties
<1>5. CASE refresh
  <2>1. /\ available_kernels_' = {} /\ installed_kernels_' = {}
        /\ refreshes' \in 0..MaxRefreshes
        /\ UNCHANGED <<wiring, fetch, query>>
    BY <1>0, <1>5, SourcesAssumption DEF refresh
  <2>2. refresh_in_progress_' \in BOOLEAN /\ kernels_' \subseteq KernelInfo(Sources, Versions)
    BY <1>0, <1>5, <2>1, FinalizeType DEF refresh
  <2> QED
    BY <1>0, <1>5, <2>1, <2>2, RefreshAsks
<1>6. ASSUME NEW s \in Outstanding, Outstanding' = Outstanding \ {s},
             UNCHANGED <<wiring, query, refreshes>>, toAsk' \subseteq toAsk,
             fetch' \in [Sources -> Activity],
             onSourceFailed \/ \E versions \in SUBSET Versions : onSourceFinished(s, versions)
      PROVE  TypeOK'
  <2>1. /\ available_kernels_' \subseteq KernelInfo(Sources, Versions)
        /\ installed_kernels_' \subseteq KernelInfo({Fedora}, Versions)
    BY <1>0, <1>6, AnswersType DEF onSourceFinished, onSourceFailed, Outstanding
  <2>2. refresh_in_progress_' \in BOOLEAN /\ kernels_' \subseteq KernelInfo(Sources, Versions)
    BY <1>0, <1>6, <2>1, FinalizeType DEF onSourceFinished, onSourceFailed
  <2>3. pending_sources_' \in 0..Cardinality(Sources) /\ UNCHANGED pending_installed_query_
    BY <1>0, <1>6, AnswerLeavesOneLess DEF onSourceFinished, onSourceFailed
  <2> QED
    BY <1>0, <1>6, <2>1, <2>2, <2>3
<1>7. ASSUME NEW s \in Sources, SourceStep(s) PROVE TypeOK'
  <2>1. SourceAnswers(s) /\ fetch' \in [Sources -> Activity] /\ toAsk' \subseteq toAsk
    BY <1>0, <1>7 DEF SourceStep, SourceAnswers, Activity
  <2>2. UNCHANGED <<wiring, query, refreshes>>
    BY <2>1 DEF SourceAnswers
  <2> QED
    BY <1>0, <1>6, <1>7, <2>1, <2>2, SourceAnswerTakesOne DEF SourceStep
<1>8. ASSUME NEW s \in Sources, fetchAvailable(s) PROVE TypeOK'
  <2>1. toAsk' \subseteq toAsk /\ UNCHANGED <<wiring, query, refreshes>>
    BY <1>8 DEF fetchAvailable
  <2>2. CASE onSourceFailed /\ UNCHANGED fetch
             /\ Outstanding' = Outstanding \ {s} /\ s \in Outstanding
    BY <1>0, <1>6, <2>1, <2>2
  <2>3. CASE /\ UNCHANGED repository
             /\ \E activity \in Started(s) : fetch' = [fetch EXCEPT ![s] = activity]
    BY <1>0, <2>1, <2>3 DEF Started, Activity
  <2> QED
    BY <1>8, <2>2, <2>3, AskedSource
<1>9. ASSUME UNCHANGED <<wiring, fetch, refreshes>>, toAsk' \subseteq toAsk,
             query' \in Activity,
             \/ onInstalledQueryFailed
             \/ \E versions \in SUBSET Versions : onInstalledQueryFinished(versions)
      PROVE  TypeOK'
  <2>1. installed_kernels_' \subseteq KernelInfo({Fedora}, Versions)
    BY <1>0, <1>9, AnswersType DEF onInstalledQueryFinished, onInstalledQueryFailed
  <2>2. refresh_in_progress_' \in BOOLEAN /\ kernels_' \subseteq KernelInfo(Sources, Versions)
    BY <1>0, <1>9, <2>1, FinalizeType DEF onInstalledQueryFinished, onInstalledQueryFailed
  <2> QED
    BY <1>0, <1>9, <2>1, <2>2 DEF onInstalledQueryFinished, onInstalledQueryFailed
<1>10. CASE QueryStep
  <2>1. UNCHANGED <<wiring, fetch, refreshes>> /\ toAsk' \subseteq toAsk /\ query' \in Activity
    BY <1>10 DEF QueryStep, QueryAnswers, Activity
  <2> QED
    BY <1>9, <1>10, <2>1 DEF QueryStep
<1>11. CASE queryInstalled
  <2>1. UNCHANGED <<wiring, fetch, refreshes>> /\ toAsk' \subseteq toAsk
    BY <1>11 DEF queryInstalled
  <2>2. CASE onInstalledQueryFailed /\ UNCHANGED query
    BY <1>0, <1>9, <2>1, <2>2
  <2>3. CASE UNCHANGED repository /\ query' \in Started(Query)
    BY <1>0, <2>1, <2>3 DEF Started, Activity
  <2> QED
    BY <1>11, <2>2, <2>3 DEF queryInstalled
<1> QED
  BY <1>1, <1>2, <1>3, <1>4, <1>5, <1>7, <1>8, <1>10, <1>11 DEF Next, Ask

\* A handler that ends with finalizeRefreshIfReady keeps refresh_in_progress_ to
\* "somebody is still waited for".
LEMMA FinalizeCounts ==
    ASSUME finalizeRefreshIfReady(TRUE),
           IsFiniteSet(Outstanding'),
           pending_sources_' = Cardinality(Outstanding'),
           pending_installed_query_' = QueryOutstanding'
    PROVE  CountersMatchOutstanding'
<1>1. Outstanding' = {} <=> Cardinality(Outstanding') = 0
  BY FS_EmptySet
<1>2. Cardinality(Outstanding') \in Nat
  BY FS_CardinalityType
<1>3. pending_sources_' > 0 <=> Outstanding' # {}
  BY <1>1, <1>2
<1>4. refresh_in_progress_' = (Outstanding' # {} \/ QueryOutstanding')
  BY <1>3, Zenon DEF finalizeRefreshIfReady
<1> QED
  BY <1>4 DEF CountersMatchOutstanding

LEMMA NextCounting == IInv /\ [Next]_vars => CountersMatchOutstanding' /\ AskedWhenIdle'
<1> SUFFICES ASSUME IInv, [Next]_vars PROVE CountersMatchOutstanding' /\ AskedWhenIdle'
  OBVIOUS
<1>0. /\ TypeOK /\ CountersMatchOutstanding /\ AskedWhenIdle
      /\ IsFiniteSet(Outstanding')
  BY SourcesAssumption, FS_Subset DEF IInv, Outstanding
<1>1. ASSUME UNCHANGED <<repository, parties>>
      PROVE  CountersMatchOutstanding' /\ AskedWhenIdle'
  BY <1>0, <1>1
     DEF CountersMatchOutstanding, AskedWhenIdle, Outstanding, QueryOutstanding, repository,
         parties
<1>2. CASE UNCHANGED vars
  BY <1>1, <1>2 DEF vars
<1>3. ASSUME NEW s \in Sources, addSource(s)
      PROVE  CountersMatchOutstanding' /\ AskedWhenIdle'
  BY <1>1, <1>3 DEF addSource
<1>4. CASE clearSources \/ setPackageBackend
  BY <1>1, <1>4 DEF clearSources, setPackageBackend
<1>5. CASE refresh
  BY <1>0, <1>5, RefreshAsks, FinalizeCounts DEF refresh
<1>6. ASSUME NEW s \in Outstanding, Outstanding' = Outstanding \ {s},
             QueryOutstanding' = QueryOutstanding,
             onSourceFailed \/ \E versions \in SUBSET Versions : onSourceFinished(s, versions)
      PROVE  CountersMatchOutstanding'
  <2>1. pending_sources_' = Cardinality(Outstanding') /\ refresh_in_progress_ = TRUE
    BY <1>0, <1>6, AnswerLeavesOneLess DEF onSourceFailed, onSourceFinished
  <2>2. pending_installed_query_' = QueryOutstanding'
    BY <1>0, <1>6 DEF onSourceFailed, onSourceFinished, CountersMatchOutstanding
  <2>3. finalizeRefreshIfReady(TRUE)
    BY <1>6, <2>1 DEF onSourceFailed, onSourceFinished
  <2> QED
    BY <1>0, <2>1, <2>2, <2>3, FinalizeCounts
<1>7. ASSUME NEW s \in Sources, SourceStep(s)
      PROVE  CountersMatchOutstanding' /\ AskedWhenIdle'
  <2>1. SourceAnswers(s)
    BY <1>7 DEF SourceStep
  <2>2. QueryOutstanding' = QueryOutstanding
    BY <2>1 DEF SourceAnswers, QueryOutstanding
  <2>3. AskedWhenIdle'
    BY <2>1 DEF SourceAnswers, EventLoop, AskedWhenIdle
  <2> QED
    BY <1>0, <1>6, <1>7, <2>1, <2>2, <2>3, SourceAnswerTakesOne DEF SourceStep
<1>8. ASSUME NEW s \in Sources, fetchAvailable(s)
      PROVE  CountersMatchOutstanding' /\ AskedWhenIdle'
  <2>1. s \in toAsk /\ toAsk' = toAsk \ {s} /\ UNCHANGED query /\ Query \notin toAsk
    BY <1>8 DEF fetchAvailable
  <2>2. QueryOutstanding' = QueryOutstanding
    BY <2>1 DEF QueryOutstanding
  <2>3. CASE onSourceFailed /\ UNCHANGED fetch
             /\ Outstanding' = Outstanding \ {s} /\ s \in Outstanding
    <3>1. AskedWhenIdle'
      BY <1>0, <2>1, <2>3 DEF AskedWhenIdle
    <3> QED
      BY <1>6, <2>2, <2>3, <3>1
  <2>4. CASE /\ UNCHANGED repository
             /\ \E activity \in Started(s) : fetch' = [fetch EXCEPT ![s] = activity]
             /\ Outstanding' = Outstanding
    <3>1. AskedWhenIdle'
      BY <1>0, <2>1, <2>4 DEF AskedWhenIdle, TypeOK
    <3> QED
      BY <1>0, <2>2, <2>4, <3>1 DEF CountersMatchOutstanding, repository
  <2> QED
    BY <1>8, <2>3, <2>4, AskedSource
<1>9. ASSUME pending_installed_query_' = FALSE, UNCHANGED pending_sources_,
             refresh_in_progress_ = TRUE, ~QueryOutstanding', Outstanding' = Outstanding,
             finalizeRefreshIfReady(refresh_in_progress_)
      PROVE  CountersMatchOutstanding'
  <2>1. pending_sources_' = Cardinality(Outstanding')
    BY <1>0, <1>9 DEF CountersMatchOutstanding
  <2>2. pending_installed_query_' = QueryOutstanding'
    BY <1>9, Zenon DEF QueryOutstanding
  <2> QED
    BY <1>0, <1>9, <2>1, <2>2, FinalizeCounts
<1>10. CASE QueryStep
  <2>1. QueryAnswers /\ toAsk' = {} /\ UNCHANGED fetch
    BY <1>10 DEF QueryStep, QueryAnswers, EventLoop
  <2>2. refresh_in_progress_ = TRUE
    BY <1>0, <2>1, Zenon DEF QueryAnswers, QueryOutstanding, CountersMatchOutstanding, TypeOK
  <2>3. ~QueryOutstanding' /\ Outstanding' = Outstanding /\ AskedWhenIdle'
    BY <2>1 DEF QueryAnswers, QueryOutstanding, Outstanding, AskedWhenIdle
  <2> QED
    BY <1>9, <1>10, <2>2, <2>3
       DEF QueryStep, onInstalledQueryFinished, onInstalledQueryFailed
<1>11. CASE queryInstalled
  <2>1. Query \in toAsk /\ toAsk' = toAsk \ {Query} /\ UNCHANGED fetch
    BY <1>11 DEF queryInstalled
  <2>2. AskedWhenIdle'
    BY <1>0, <2>1 DEF AskedWhenIdle
  <2>3. CASE onInstalledQueryFailed /\ ~QueryOutstanding'
    BY <1>9, <1>11, <2>2, <2>3, AskedQuery DEF onInstalledQueryFailed
  <2>4. CASE UNCHANGED repository /\ QueryOutstanding'
    <3>1. QueryOutstanding' = QueryOutstanding
      BY <1>11, <2>4, AskedQuery, Zenon DEF QueryOutstanding
    <3> QED
      BY <1>0, <1>11, <2>2, <2>4, <3>1, AskedQuery DEF CountersMatchOutstanding, repository
  <2> QED
    BY <1>11, <2>3, <2>4, AskedQuery
<1> QED
  BY <1>2, <1>3, <1>4, <1>5, <1>7, <1>8, <1>10, <1>11 DEF Next, Ask

LEMMA NextAnswers == IInv /\ [Next]_vars => AnswersWellFormed'
<1> SUFFICES ASSUME IInv, [Next]_vars PROVE AnswersWellFormed'
  OBVIOUS
<1> USE DEF AnswersWellFormed, repository
<1>0. AnswersWellFormed
  BY DEF IInv
<1>1. CASE UNCHANGED vars
  BY <1>0, <1>1 DEF vars
<1>2. ASSUME NEW s \in Sources, addSource(s) PROVE AnswersWellFormed'
  BY <1>0, <1>2 DEF addSource
<1>3. CASE clearSources \/ setPackageBackend
  BY <1>0, <1>3 DEF clearSources, setPackageBackend
<1>4. CASE refresh
  BY <1>4 DEF refresh
<1>5. ASSUME NEW s \in Sources, SourceStep(s) PROVE AnswersWellFormed'
  BY <1>0, <1>5 DEF SourceStep, onSourceFinished, onSourceFailed, AvailableFrom
<1>6. CASE QueryStep
  BY <1>0, <1>6 DEF QueryStep, onInstalledQueryFinished, onInstalledQueryFailed, InstalledFrom
<1>7. CASE Ask
  BY <1>0, <1>7 DEF Ask, queryInstalled, fetchAvailable, onInstalledQueryFailed, onSourceFailed
<1> QED
  BY <1>1, <1>2, <1>3, <1>4, <1>5, <1>6, <1>7 DEF Next

\* Between refreshes nothing is running, so no answer changes the lists.
LEMMA NextMerge == IInv /\ [Next]_vars => ListIsTheMerge'
<1> SUFFICES ASSUME IInv, [Next]_vars PROVE ListIsTheMerge'
  OBVIOUS
<1> USE DEF ListIsTheMerge, repository
<1>0. TypeOK /\ CountersMatchOutstanding /\ ListIsTheMerge
  BY DEF IInv
<1>1. CASE UNCHANGED vars
  BY <1>0, <1>1 DEF vars
<1>2. ASSUME NEW s \in Sources, addSource(s) PROVE ListIsTheMerge'
  BY <1>0, <1>2 DEF addSource
<1>3. CASE clearSources \/ setPackageBackend
  BY <1>0, <1>3 DEF clearSources, setPackageBackend
<1>4. CASE finalizeRefreshIfReady(TRUE)
  BY <1>4 DEF finalizeRefreshIfReady
<1>5. CASE refresh
  BY <1>4, <1>5 DEF refresh
<1>6. ASSUME NEW s \in Sources, SourceStep(s) PROVE ListIsTheMerge'
  <2>1. SourceAnswers(s) /\ finalizeRefreshIfReady(refresh_in_progress_)
    BY <1>6 DEF SourceStep, onSourceFinished, onSourceFailed
  <2>2. refresh_in_progress_ = TRUE
    BY <1>0, <2>1, SourceAnswerTakesOne, AnswerLeavesOneLess
  <2> QED
    BY <1>4, <2>1, <2>2
<1>7. CASE QueryStep
  <2>1. QueryAnswers /\ finalizeRefreshIfReady(refresh_in_progress_)
    BY <1>7 DEF QueryStep, onInstalledQueryFinished, onInstalledQueryFailed
  <2>2. refresh_in_progress_ = TRUE
    BY <1>0, <2>1, Zenon DEF QueryAnswers, QueryOutstanding, CountersMatchOutstanding, TypeOK
  <2> QED
    BY <1>4, <2>1, <2>2
<1>8. ASSUME NEW s \in Sources, fetchAvailable(s) PROVE ListIsTheMerge'
  <2>1. CASE UNCHANGED repository
    BY <1>0, <2>1
  <2>2. CASE onSourceFailed /\ Outstanding' = Outstanding \ {s} /\ s \in Outstanding
    <3>1. refresh_in_progress_ = TRUE
      BY <1>0, <2>2, AnswerLeavesOneLess
    <3> QED
      BY <1>4, <2>2, <3>1 DEF onSourceFailed
  <2> QED
    BY <1>8, <2>1, <2>2, AskedSource
<1>9. CASE queryInstalled
  <2>1. CASE UNCHANGED repository
    BY <1>0, <2>1
  <2>2. CASE onInstalledQueryFailed
    BY <1>4, <1>9, <2>2, AskedQuery DEF onInstalledQueryFailed
  <2> QED
    BY <1>9, <2>1, <2>2, AskedQuery
<1> QED
  BY <1>1, <1>2, <1>3, <1>5, <1>6, <1>7, <1>8, <1>9 DEF Next, Ask

-----------------------------------------------------------------------------
(***************************************************************************)
(* The theorems.                                                           *)
(***************************************************************************)

\* The strengthened invariant of the repository.
THEOREM InductiveInvariant == Spec => []IInv
<1>1. Init => IInv
  BY InitIInv
<1>2. IInv /\ [Next]_vars => IInv'
  BY NextTypeOK, NextCounting, NextAnswers, NextMerge DEF IInv
<1> QED
  BY <1>1, <1>2, PTL DEF Spec

\* Every member of the repository keeps its type; in particular pending_sources_
\* never exceeds the number of sources, so qMax never hides a double answer.
THEOREM TypeCorrect == Spec => []TypeOK
<1>1. IInv => TypeOK
  BY DEF IInv
<1> QED
  BY <1>1, InductiveInvariant, PTL

\* The pending members count exactly the answers to come, whatever the order
\* in which sources and the installed query answer or fail, for any number of
\* sources and whichever programs are lost.
THEOREM CountersAreExact == Spec => []CountersMatchOutstanding
<1>1. IInv => CountersMatchOutstanding
  BY DEF IInv
<1> QED
  BY <1>1, InductiveInvariant, PTL

\* A finished refresh lists every answered kernel in one row and nothing else.
THEOREM ListsEachKernelOnce == Spec => []OneRowPerAnsweredKernel
<1>1. IInv => OneRowPerAnsweredKernel
  <2> SUFFICES ASSUME IInv, ~refresh_in_progress_
               PROVE  /\ Keys(kernels_) = Keys(available_kernels_ \cup installed_kernels_)
                      /\ \A j, k \in kernels_ : KernelKey(j) = KernelKey(k) => j = k
    BY DEF OneRowPerAnsweredKernel
  <2>1. /\ available_kernels_ \in SUBSET KernelInfo(Sources, Versions)
        /\ installed_kernels_ \in SUBSET KernelInfo(Sources, Versions)
    BY SourcesAssumption DEF IInv, TypeOK, KernelInfo
  <2>2. kernels_ = mergeKernelLists(available_kernels_, installed_kernels_)
    BY DEF IInv, ListIsTheMerge
  <2>3. \A j, k \in available_kernels_ : KernelKey(j) = KernelKey(k) => j = k
    BY <2>1 DEF IInv, AnswersWellFormed, KernelInfo, KernelKey
  <2>4. \A j, k \in installed_kernels_ : KernelKey(j) = KernelKey(k) => j = k
    BY <2>1 DEF IInv, AnswersWellFormed, KernelInfo, KernelKey
  <2>5. Keys(mergeKernelLists(available_kernels_, installed_kernels_)) =
           Keys(available_kernels_ \cup installed_kernels_)
    BY <2>1, MergeKeys
  <2>6. \A j, k \in mergeKernelLists(available_kernels_, installed_kernels_) :
           KernelKey(j) = KernelKey(k) => j = k
    BY <2>1, <2>3, <2>4, MergeOneRowPerKey
  <2> QED
    BY <2>2, <2>5, <2>6
<1> QED
  BY <1>1, InductiveInvariant, PTL

\* No version rpm reported is offered for installation by any row.
THEOREM NeverOffersReported == Spec => []ReportedNeverOffered
<1>1. IInv => ReportedNeverOffered
  <2> SUFFICES ASSUME IInv, ~refresh_in_progress_
               PROVE  \A k \in kernels_ :
                         k.version \in InstalledVersions(installed_kernels_)
                            => k.status # "Available"
    BY DEF ReportedNeverOffered
  <2>1. /\ available_kernels_ \in SUBSET KernelInfo(Sources, Versions)
        /\ installed_kernels_ \in SUBSET KernelInfo(Sources, Versions)
    BY SourcesAssumption DEF IInv, TypeOK, KernelInfo
  <2>2. kernels_ = mergeKernelLists(available_kernels_, installed_kernels_)
    BY DEF IInv, ListIsTheMerge
  <2> QED
    BY <2>1, <2>2, MergeMarksInstalled
<1> QED
  BY <1>1, InductiveInvariant, PTL

-----------------------------------------------------------------------------
(***************************************************************************)
(* The refinement: what the repository waits for is a set of parties.      *)
(***************************************************************************)

LEMMA InitPromise == Init => Promise!Init
BY DEF Init, Promise!Init, Waiting, Outstanding, QueryOutstanding

\* The promise merges with the repository's own operator.
LEMMA SameMerge ==
    ASSUME NEW a, NEW i
    PROVE  Promise!mergeKernelLists(a, i) = mergeKernelLists(a, i)
<1>1. \A k : Promise!KernelKey(k) = KernelKey(k)
  BY DEF KernelKey, Promise!KernelKey
<1>2. \A list : Promise!Keys(list) = Keys(list)
  BY <1>1 DEF Keys, Promise!Keys
<1>3. \A k, versions : Promise!MarkInstalled(k, versions) = MarkInstalled(k, versions)
  BY DEF MarkInstalled, Promise!MarkInstalled
<1>4. Promise!InstalledVersions(i) = InstalledVersions(i)
  BY DEF InstalledVersions, Promise!InstalledVersions
<1> QED
  BY <1>1, <1>2, <1>3, <1>4 DEF mergeKernelLists, Promise!mergeKernelLists

\* The end of a handler publishes when, and only when, nobody is waited for.
LEMMA FinalizePublishes ==
    ASSUME finalizeRefreshIfReady(TRUE), CountersMatchOutstanding'
    PROVE  Promise!PublishIfAllAnswered
<1>1. refresh_in_progress_' = (Waiting' # {})
  BY Zenon DEF CountersMatchOutstanding, Waiting
<1>2. CASE refresh_in_progress_' = TRUE
  <2>1. UNCHANGED kernels_
    BY <1>2 DEF finalizeRefreshIfReady
  <2> QED
    BY <1>1, <1>2, <2>1 DEF Promise!PublishIfAllAnswered
<1>3. CASE refresh_in_progress_' = FALSE
  <2>1. kernels_' = mergeKernelLists(available_kernels_', installed_kernels_')
    BY <1>3 DEF finalizeRefreshIfReady
  <2> QED
    BY <1>1, <1>3, <2>1, SameMerge DEF Promise!PublishIfAllAnswered
<1> QED
  BY <1>2, <1>3 DEF finalizeRefreshIfReady

LEMMA NextPromise == IInv /\ IInv' /\ [Next]_vars => [Promise!Next]_(Promise!vars)
<1> SUFFICES ASSUME IInv, IInv', [Next]_vars PROVE [Promise!Next]_(Promise!vars)
  OBVIOUS
<1>0. TypeOK /\ CountersMatchOutstanding /\ CountersMatchOutstanding'
  BY DEF IInv
<1>1. ASSUME UNCHANGED <<repository, parties>> PROVE UNCHANGED Promise!vars
  BY <1>1 DEF Promise!vars, repository, parties, Waiting, Outstanding, QueryOutstanding
<1>2. CASE UNCHANGED vars
  BY <1>1, <1>2 DEF vars
<1>3. ASSUME NEW s \in Sources, addSource(s) PROVE UNCHANGED Promise!vars
  BY <1>1, <1>3 DEF addSource
<1>4. CASE clearSources \/ setPackageBackend
  BY <1>1, <1>4 DEF clearSources, setPackageBackend
<1>5. CASE refresh
  <2>1. Promise!PublishIfAllAnswered
    BY <1>0, <1>5, FinalizePublishes DEF refresh
  <2>2. /\ ~refresh_in_progress_ /\ available_kernels_' = {} /\ installed_kernels_' = {}
        /\ Waiting' \in SUBSET Promise!Parties
    BY <1>5 DEF refresh, Waiting, Outstanding, Promise!Parties
  <2> QED
    BY <2>1, <2>2 DEF Promise!Begin, Promise!Next
<1>6. ASSUME NEW s \in Outstanding, Outstanding' = Outstanding \ {s},
             QueryOutstanding' = QueryOutstanding,
             onSourceFailed \/ \E versions \in SUBSET Versions : onSourceFinished(s, versions)
      PROVE  Promise!Next
  <2>1. finalizeRefreshIfReady(refresh_in_progress_)
    BY <1>6 DEF onSourceFinished, onSourceFailed
  <2>2. refresh_in_progress_ = TRUE
    BY <1>0, <1>6, AnswerLeavesOneLess
  <2>3. Promise!PublishIfAllAnswered
    BY <1>0, <2>1, <2>2, FinalizePublishes
  <2>4. Waiting' = Waiting \ {s} /\ s \in Waiting /\ s \in Promise!Parties
    BY <1>6, SourcesAssumption DEF Waiting, Outstanding, Promise!Parties
  <2>5. \/ UNCHANGED <<available_kernels_, installed_kernels_>>
        \/ /\ s \in Sources
           /\ \E versions \in SUBSET Versions :
                 available_kernels_' =
                    available_kernels_ \cup Promise!AvailableFrom(s, versions)
           /\ UNCHANGED installed_kernels_
    BY <1>6 DEF onSourceFinished, onSourceFailed, AvailableFrom, Promise!AvailableFrom,
                Outstanding
  <2> QED
    BY <2>3, <2>4, <2>5 DEF Promise!Answer, Promise!Next
<1>7. ASSUME NEW s \in Sources, SourceStep(s) PROVE Promise!Next
  <2>1. SourceAnswers(s)
    BY <1>7 DEF SourceStep
  <2>2. QueryOutstanding' = QueryOutstanding
    BY <2>1 DEF SourceAnswers, QueryOutstanding
  <2> QED
    BY <1>0, <1>6, <1>7, <2>1, <2>2, SourceAnswerTakesOne DEF SourceStep
<1>8. ASSUME NEW s \in Sources, fetchAvailable(s) PROVE [Promise!Next]_(Promise!vars)
  <2>1. QueryOutstanding' = QueryOutstanding
    BY <1>8 DEF fetchAvailable, QueryOutstanding
  <2>2. CASE onSourceFailed /\ Outstanding' = Outstanding \ {s} /\ s \in Outstanding
    BY <1>6, <2>1, <2>2
  <2>3. CASE UNCHANGED repository /\ Outstanding' = Outstanding
    BY <2>1, <2>3 DEF Promise!vars, repository, Waiting
  <2> QED
    BY <1>8, <2>2, <2>3, AskedSource
<1>9. ASSUME QueryOutstanding, ~QueryOutstanding', Outstanding' = Outstanding,
             refresh_in_progress_ = TRUE,
             \/ onInstalledQueryFailed
             \/ \E versions \in SUBSET Versions : onInstalledQueryFinished(versions)
      PROVE  Promise!Next
  <2>1. finalizeRefreshIfReady(TRUE) /\ UNCHANGED available_kernels_
    BY <1>9 DEF onInstalledQueryFinished, onInstalledQueryFailed
  <2>2. Promise!PublishIfAllAnswered
    BY <1>0, <2>1, FinalizePublishes
  <2>3. Waiting' = Waiting \ {Query} /\ Query \in Waiting /\ Query \in Promise!Parties
    BY <1>9, SourcesAssumption DEF Waiting, Outstanding, Promise!Parties
  <2>4. \/ UNCHANGED installed_kernels_
        \/ \E versions \in SUBSET Versions :
              installed_kernels_' = Promise!InstalledFrom(Fedora, Running, versions)
    BY <1>9 DEF onInstalledQueryFinished, onInstalledQueryFailed, InstalledFrom,
                Promise!InstalledFrom
  <2> QED
    BY <2>1, <2>2, <2>3, <2>4 DEF Promise!Answer, Promise!Next
<1>10. CASE QueryStep
  <2>1. QueryAnswers
    BY <1>10 DEF QueryStep
  <2>2. refresh_in_progress_ = TRUE /\ QueryOutstanding
    BY <1>0, <2>1, Zenon DEF QueryAnswers, QueryOutstanding, CountersMatchOutstanding, TypeOK
  <2>3. ~QueryOutstanding' /\ Outstanding' = Outstanding
    BY <2>1 DEF QueryAnswers, EventLoop, QueryOutstanding, Outstanding
  <2> QED
    BY <1>9, <1>10, <2>2, <2>3 DEF QueryStep
<1>11. CASE queryInstalled
  <2>1. CASE onInstalledQueryFailed /\ ~QueryOutstanding'
    BY <1>9, <1>11, <2>1, AskedQuery
  <2>2. CASE UNCHANGED repository /\ QueryOutstanding'
    BY <1>11, <2>2, AskedQuery DEF Promise!vars, repository, Waiting
  <2> QED
    BY <1>11, <2>1, <2>2, AskedQuery
<1> QED
  BY <1>2, <1>3, <1>4, <1>5, <1>7, <1>8, <1>10, <1>11 DEF Next, Ask

\* The repository implements the promise: whatever the interleaving, a refresh
\* publishes in the step that takes the last answer, exactly the merge of the
\* answers given to it.  (Safety only: KeepsPromise adds the fairness.)
THEOREM ImplementsPromise == Spec => Promise!Spec
<1>1. Init => Promise!Init
  BY InitPromise
<1>2. IInv /\ IInv' /\ [Next]_vars => [Promise!Next]_(Promise!vars)
  BY NextPromise
<1> QED
  BY <1>1, <1>2, InductiveInvariant, PTL DEF Spec, Promise!Spec

=============================================================================
