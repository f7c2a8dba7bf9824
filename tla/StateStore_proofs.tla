-------------------------- MODULE StateStore_proofs --------------------------
(***************************************************************************)
(* Proofs about StateStore, for any number of processes and any file of    *)
(* notes: locks are released, the schema is whole, an open store is        *)
(* migrated, and an import that reports success has written every note.    *)
(* With the notifier over it, for any number of new kernels: nothing is    *)
(* announced twice but for the reasons given.                              *)
(***************************************************************************)
EXTENDS Notifications, TLAPS

(***************************************************************************)
(* The strengthening.                                                      *)
(***************************************************************************)

\* The lock a process holds follows from where it is.
LockFollowsPlace ==
    \A p \in Processes :
        /\ pc[p] \in {"closed", "begun", "open", "failed"} => lock[p] = "none"
        /\ pc[p] = "read" => lock[p] = "shared"
        /\ pc[p] = "created" => lock[p] = "reserved"
        /\ pc[p] = "versioned" => lock[p] \in {"reserved", "pending"}

OneWriter ==
    \A p, q \in Processes :
        {lock[p], lock[q]} \subseteq {"reserved", "pending"} => p = q

\* A process that goes on without migrating saw the tables.
WhoReadsSaw ==
    \A p \in Processes : pc[p] = "open" \/ found[p] = 1 => schema.tables

\* A note that is no longer left to write was written, and notes are never deleted.
WrittenStays ==
    \A p \in Processes :
        /\ import[p] = "ok" => left[p] = {}
        /\ import[p] \in {"importing", "ok"} =>
               \A v \in Versions \ left[p] : notes[v] # NoNote
        /\ import[p] = "none" => left[p] = Versions

IInv ==
    /\ TypeOK
    /\ LockFollowsPlace
    /\ OneWriter
    /\ SchemaIsWhole
    /\ WhoReadsSaw
    /\ WrittenStays

\* The invariant holds of a database that does not exist yet.
LEMMA InitInv == Init => IInv
BY DEF Init, IInv, TypeOK, LockFollowsPlace, OneWriter, SchemaIsWhole, WhoReadsSaw,
       WrittenStays, Places

-----------------------------------------------------------------------------
(***************************************************************************)
(* Every step keeps it, part by part.                                      *)
(***************************************************************************)

\* Each action keeps the types.
LEMMA StepType == IInv /\ [Next]_vars => TypeOK'
<1> SUFFICES ASSUME IInv, [Next]_vars PROVE TypeOK'
  OBVIOUS
<1> USE DEF IInv, TypeOK, Places
<1>1. ASSUME NEW p \in Processes, Open(p) PROVE TypeOK'
  <2>1. CASE begin(p)
    BY <2>1 DEF begin, Go
  <2>2. CASE schemaVersion(p)
    BY <2>2 DEF schemaVersion, giveUp, Go, Hold
  <2>3. CASE executeSqlScript(p)
    BY <2>3 DEF executeSqlScript, createTables, giveUp, Go, Hold
  <2>4. CASE setSchemaVersion(p)
    BY <2>4 DEF setSchemaVersion, giveUp, Go, Hold
  <2>5. CASE commitNothing(p)
    BY <2>5 DEF commitNothing, Go, Hold
  <2>6. CASE askToCommit(p)
    BY <2>6 DEF askToCommit, Hold
  <2>7. CASE commit(p)
    BY <2>7 DEF commit, Migrated, Go, Hold
  <2>8. CASE commitFails(p)
    BY <2>8 DEF commitFails, giveUp, Go, Hold
  <2> QED
    BY <1>1, <2>1, <2>2, <2>3, <2>4, <2>5, <2>6, <2>7, <2>8 DEF Open
<1>2. ASSUME NEW p \in Processes, beginImport(p) \/ finishImport(p) \/ ends(p) PROVE TypeOK'
  BY <1>2 DEF beginImport, finishImport, ends, Go, Hold, opening
<1>3. ASSUME NEW p \in Processes, NEW v \in Versions, setNote(p, v) PROVE TypeOK'
  BY <1>3 DEF setNote, importFails, opening
<1>4. CASE UNCHANGED vars
  BY <1>4 DEF vars, opening
<1> QED
  BY <1>1, <1>2, <1>3, <1>4 DEF Next

\* The locks: one step moves one process, and it takes a lock only as SQLite lets it.
LEMMA StepLocks == IInv /\ [Next]_vars => LockFollowsPlace' /\ OneWriter'
<1> SUFFICES ASSUME IInv, [Next]_vars PROVE LockFollowsPlace' /\ OneWriter'
  OBVIOUS
<1> USE DEF IInv, TypeOK, Places, LockFollowsPlace, OneWriter
<1>1. ASSUME NEW p \in Processes, Open(p) PROVE LockFollowsPlace' /\ OneWriter'
  <2>1. CASE begin(p)
    BY <2>1 DEF begin, Go
  <2>2. CASE schemaVersion(p)
    BY <2>2 DEF schemaVersion, giveUp, Go, Hold
  <2>3. CASE executeSqlScript(p)
    BY <2>3 DEF executeSqlScript, createTables, MayWrite, Others, giveUp, Go, Hold
  <2>4. CASE setSchemaVersion(p)
    BY <2>4 DEF setSchemaVersion, giveUp, Go, Hold
  <2>5. CASE commitNothing(p)
    BY <2>5 DEF commitNothing, Go, Hold
  <2>6. CASE askToCommit(p)
    BY <2>6 DEF askToCommit, Hold
  <2>7. CASE commit(p)
    BY <2>7 DEF commit, Go, Hold
  <2>8. CASE commitFails(p)
    BY <2>8 DEF commitFails, giveUp, Go, Hold
  <2> QED
    BY <1>1, <2>1, <2>2, <2>3, <2>4, <2>5, <2>6, <2>7, <2>8 DEF Open
<1>2. ASSUME NEW p \in Processes, beginImport(p) \/ finishImport(p) \/ ends(p)
      PROVE LockFollowsPlace' /\ OneWriter'
  BY <1>2 DEF beginImport, finishImport, ends, Go, Hold, opening
<1>3. ASSUME NEW p \in Processes, NEW v \in Versions, setNote(p, v)
      PROVE LockFollowsPlace' /\ OneWriter'
  BY <1>3 DEF setNote, opening
<1>4. CASE UNCHANGED vars
  BY <1>4 DEF vars, opening
<1> QED
  BY <1>1, <1>2, <1>3, <1>4 DEF Next

\* The schema: only commit writes it, and writes the whole of it.
LEMMA StepSchema == IInv /\ [Next]_vars => SchemaIsWhole' /\ WhoReadsSaw'
<1> SUFFICES ASSUME IInv, [Next]_vars PROVE SchemaIsWhole' /\ WhoReadsSaw'
  OBVIOUS
<1> USE DEF IInv, TypeOK, Places, SchemaIsWhole, WhoReadsSaw
<1>1. ASSUME NEW p \in Processes, Open(p) PROVE SchemaIsWhole' /\ WhoReadsSaw'
  <2>1. CASE commit(p)
    BY <2>1 DEF commit, Migrated, Go, Hold
  <2>2. CASE commitNothing(p)
    BY <2>2 DEF commitNothing, Go
  <2>3. CASE schemaVersion(p)
    BY <2>3 DEF schemaVersion, giveUp, Go
  <2>4. CASE begin(p) \/ executeSqlScript(p) \/ setSchemaVersion(p) \/ askToCommit(p) \/ commitFails(p)
    BY <2>4 DEF begin, executeSqlScript, createTables, setSchemaVersion, askToCommit,
                commitFails, giveUp, Go
  <2> QED
    BY <1>1, <2>1, <2>2, <2>3, <2>4 DEF Open
<1>2. ASSUME NEW p \in Processes, beginImport(p) \/ finishImport(p) \/ ends(p)
      PROVE SchemaIsWhole' /\ WhoReadsSaw'
  BY <1>2 DEF beginImport, finishImport, ends, Go, opening
<1>3. ASSUME NEW p \in Processes, NEW v \in Versions, setNote(p, v)
      PROVE SchemaIsWhole' /\ WhoReadsSaw'
  BY <1>3 DEF setNote, opening
<1>4. CASE UNCHANGED vars
  BY <1>4 DEF vars, opening
<1> QED
  BY <1>1, <1>2, <1>3, <1>4 DEF Next

\* The notes: a version leaves the list of an import only when its note is written.
LEMMA StepNotes == IInv /\ [Next]_vars => WrittenStays'
<1> SUFFICES ASSUME IInv, [Next]_vars PROVE WrittenStays'
  OBVIOUS
<1> USE DEF IInv, TypeOK, WrittenStays
<1>1. ASSUME NEW p \in Processes, Open(p) PROVE WrittenStays'
  BY <1>1 DEF Open, begin, schemaVersion, executeSqlScript, setSchemaVersion, commitNothing,
              askToCommit, commit, commitFails
<1>2. ASSUME NEW p \in Processes, beginImport(p) PROVE WrittenStays'
  BY <1>2 DEF beginImport
<1>3. ASSUME NEW p \in Processes, finishImport(p) PROVE WrittenStays'
  BY <1>3 DEF finishImport
<1>4. ASSUME NEW p \in Processes, ends(p) PROVE WrittenStays'
  BY <1>4 DEF ends
<1>5. ASSUME NEW p \in Processes, NEW v \in Versions, setNote(p, v) PROVE WrittenStays'
  BY <1>5, StoreAssumption DEF setNote, importFails
<1>6. CASE UNCHANGED vars
  BY <1>6 DEF vars
<1> QED
  BY <1>1, <1>2, <1>3, <1>4, <1>5, <1>6 DEF Next

\* The invariant is inductive.
THEOREM Invariance == Spec => []IInv
<1>1. IInv /\ [Next]_vars => IInv'
  <2> SUFFICES ASSUME IInv, [Next]_vars PROVE IInv'
    OBVIOUS
  <2> QED
    BY StepType, StepLocks, StepSchema, StepNotes DEF IInv
<1> QED
  BY InitInv, <1>1, PTL DEF Spec

-----------------------------------------------------------------------------
(***************************************************************************)
(* The properties.                                                         *)
(***************************************************************************)

\* The state of open() and of an import keeps its types.
THEOREM TypeCorrect == Spec => []TypeOK
<1>1. IInv => TypeOK
  BY DEF IInv
<1> QED
  BY Invariance, <1>1, PTL

\* No process holds a lock outside open(), and none writes beside another.
THEOREM LocksAreAlwaysReleased == Spec => []LocksAreReleased
<1>1. IInv => LocksAreReleased
  BY DEF IInv, LockFollowsPlace, OneWriter, LocksAreReleased
<1> QED
  BY Invariance, <1>1, PTL

\* No crash or error of open() leaves half a schema.
THEOREM SchemaStaysWhole == Spec => []SchemaIsWhole
<1>1. IInv => SchemaIsWhole
  BY DEF IInv
<1> QED
  BY Invariance, <1>1, PTL

\* An open store has its tables.
THEOREM OpenStoreIsMigrated == Spec => []OpenIsMigrated
<1>1. IInv => OpenIsMigrated
  BY DEF IInv, WhoReadsSaw, OpenIsMigrated
<1> QED
  BY Invariance, <1>1, PTL

\* An import that reports success has written every note.
THEOREM ImportIsComplete == Spec => []ImportOkMeansAll
<1>1. IInv => ImportOkMeansAll
  BY DEF IInv, WrittenStays, ImportOkMeansAll
<1> QED
  BY Invariance, <1>1, PTL

-----------------------------------------------------------------------------
(***************************************************************************)
(* The notifier.                                                           *)
(***************************************************************************)

NotificationsType ==
    /\ seen \in [NewKernels -> {"unseen", "seen", "notified"}]
    /\ announced \in [NewKernels -> Nat]
    /\ mayRepeat \subseteq NewKernels
    /\ DOMAIN call = Processes
    /\ \A p \in Processes : call[p] = [version |-> call[p].version, steps |-> call[p].steps]

Whole      == <<"markSeen", "sendNotification", "setNotified">>
AfterMark  == <<"sendNotification", "setNotified">>
AfterSend  == <<"setNotified">>
WithoutRow == <<"sendNotification">>

\* Where a call can be.
CallsAreSuffixes ==
    \A p \in Processes :
        \/ call[p].steps = <<>>
        \/ /\ call[p].steps \in {Whole, AfterMark, AfterSend, WithoutRow}
           /\ call[p].version \in NewKernels

\* A version nothing went wrong with has been sent only after its row was written, and
\* as long as a call has yet to send it nobody has.
SentAfterMarking ==
    \A v \in NewKernels \ mayRepeat :
        /\ announced[v] <= 1
        /\ announced[v] > 0 => seen[v] # "unseen"
        /\ \A p \in Processes : call[p].version = v =>
              /\ call[p].steps # WithoutRow
              /\ call[p].steps = Whole => announced[v] = 0 /\ seen[v] = "unseen"
              /\ call[p].steps = AfterMark => announced[v] = 0 /\ seen[v] # "unseen"
        /\ \A p, q \in Processes :
              /\ call[p].version = v /\ call[p].steps \in {Whole, AfterMark}
              /\ call[q].version = v /\ call[q].steps \in {Whole, AfterMark}
              => p = q

\* A row says "notified" after the version was sent.
NotedAfterSending ==
    /\ \A p \in Processes : call[p].steps = AfterSend => announced[call[p].version] > 0
    /\ \A v \in NewKernels : seen[v] = "notified" => announced[v] > 0

NInv ==
    /\ NotificationsType
    /\ CallsAreSuffixes
    /\ SentAfterMarking
    /\ NotedAfterSending

\* The five places of a call are different, and each step leads to the next.
LEMMA Suffixes ==
    /\ Head(Whole) = "markSeen" /\ Len(Whole) = 3 /\ Tail(Whole) = AfterMark
    /\ Head(AfterMark) = "sendNotification" /\ Len(AfterMark) = 2 /\ Tail(AfterMark) = AfterSend
    /\ Head(AfterSend) = "setNotified" /\ Len(AfterSend) = 1
    /\ Head(WithoutRow) = "sendNotification" /\ Len(WithoutRow) = 1
    /\ Whole # <<>> /\ AfterMark # <<>> /\ AfterSend # <<>> /\ WithoutRow # <<>>
    /\ Whole # AfterMark /\ Whole # AfterSend /\ Whole # WithoutRow
    /\ AfterMark # AfterSend /\ AfterMark # WithoutRow /\ AfterSend # WithoutRow
BY DEF Whole, AfterMark, AfterSend, WithoutRow

\* What a step of a call leaves of it.
LEMMA DoneLeaves ==
    ASSUME NotificationsType, CallsAreSuffixes, NEW p \in Processes, Done(p),
           call[p].steps # <<>>
    PROVE  /\ DOMAIN call' = Processes
           /\ \A q \in Processes \ {p} : call'[q] = call[q]
           /\ call'[p] = [version |-> call'[p].version, steps |-> call'[p].steps]
           /\ call[p].steps = Whole => call'[p] = [version |-> call[p].version, steps |-> AfterMark]
           /\ call[p].steps = AfterMark => call'[p] = [version |-> call[p].version, steps |-> AfterSend]
           /\ call[p].steps \in {AfterSend, WithoutRow} => call'[p] = Idle
<1>1. call'[p] = IF Len(call[p].steps) = 1 THEN Idle
                 ELSE [version |-> call[p].version, steps |-> Tail(call[p].steps)]
  BY DEF Done, NotificationsType
<1>3. DOMAIN call' = Processes /\ \A q \in Processes \ {p} : call'[q] = call[q]
  BY DEF Done, NotificationsType
<1>4. Len(AfterMark) # 1 /\ Len(Whole) # 1
  BY Suffixes
<1>5. CASE call[p].steps = Whole
  BY <1>1, <1>3, <1>4, <1>5, Suffixes
<1>6. CASE call[p].steps = AfterMark
  BY <1>1, <1>3, <1>4, <1>6, Suffixes
<1>7. CASE call[p].steps \in {AfterSend, WithoutRow}
  BY <1>1, <1>3, <1>7, Suffixes DEF Idle
<1> QED
  BY <1>5, <1>6, <1>7 DEF CallsAreSuffixes

\* A look-up that finds no row, or fails, begins a call.
LEMMA LookUpKeeps ==
    ASSUME NInv, NEW p \in Processes, NEW v \in NewKernels, lookUp(p, v)
    PROVE  NInv'
<1>1. /\ call' = [call EXCEPT ![p] = [version |-> v, steps |-> Steps(p)]]
      /\ seen' = seen /\ announced' = announced
      /\ mayRepeat \subseteq mayRepeat' /\ mayRepeat' \subseteq mayRepeat \cup {v}
  BY DEF lookUp
<1>2. /\ call'[p] = [version |-> v, steps |-> Steps(p)]
      /\ DOMAIN call' = Processes
      /\ \A q \in Processes \ {p} : call'[q] = call[q]
  BY <1>1 DEF NInv, NotificationsType
<1>3. Steps(p) \in {Whole, WithoutRow}
  BY DEF Steps, Whole, WithoutRow
<1>4. v \notin mayRepeat' => Steps(p) = Whole /\ seen[v] = "unseen" /\ ~Looking(v)
  BY DEF lookUp, Steps, Whole
<1>5. NotificationsType' /\ CallsAreSuffixes'
  BY <1>1, <1>2, <1>3 DEF NInv, NotificationsType, CallsAreSuffixes
<1>6. NotedAfterSending'
  BY <1>1, <1>2, <1>3, Suffixes DEF NInv, NotedAfterSending
<1>7. ASSUME v \notin mayRepeat'
      PROVE  \A q \in Processes : call[q].version = v => call[q].steps \notin {Whole, AfterMark}
  <2>1. SUFFICES ASSUME NEW q \in Processes, call[q].version = v,
                        call[q].steps \in {Whole, AfterMark}
                 PROVE  FALSE
    OBVIOUS
  <2>2. CASE call[q].steps = Whole
    BY <1>4, <1>7, <2>1, <2>2, Suffixes DEF Looking, Doing
  <2>3. CASE call[q].steps = AfterMark
    BY <1>1, <1>4, <1>7, <2>1, <2>3 DEF NInv, SentAfterMarking
  <2> QED
    BY <2>1, <2>2, <2>3
<1>8. SentAfterMarking'
  <2>1. SUFFICES ASSUME NEW w \in NewKernels \ mayRepeat'
                 PROVE  /\ announced[w] <= 1
                        /\ announced[w] > 0 => seen[w] # "unseen"
                        /\ \A q \in Processes : call'[q].version = w =>
                              /\ call'[q].steps # WithoutRow
                              /\ call'[q].steps = Whole => announced[w] = 0 /\ seen[w] = "unseen"
                              /\ call'[q].steps = AfterMark => announced[w] = 0 /\ seen[w] # "unseen"
                        /\ \A q, r \in Processes :
                              /\ call'[q].version = w /\ call'[q].steps \in {Whole, AfterMark}
                              /\ call'[r].version = w /\ call'[r].steps \in {Whole, AfterMark}
                              => q = r
    BY <1>1 DEF SentAfterMarking
  <2>2. w \notin mayRepeat
    BY <1>1
  <2>3. CASE w # v
    BY <1>2, <2>2, <2>3 DEF NInv, SentAfterMarking
  <2>4. CASE w = v
    <3>1. announced[v] \in Nat /\ announced[v] <= 1 /\ (announced[v] > 0 => seen[v] # "unseen")
      BY <2>2, <2>4 DEF NInv, NotificationsType, SentAfterMarking
    <3>2. Steps(p) = Whole /\ seen[v] = "unseen" /\ announced[v] = 0
      BY <1>4, <2>4, <3>1
    <3>3. \A q \in Processes : call'[q].version = v =>
             /\ call'[q].steps # WithoutRow
             /\ call'[q].steps = Whole => announced[v] = 0 /\ seen[v] = "unseen"
             /\ call'[q].steps = AfterMark => announced[v] = 0 /\ seen[v] # "unseen"
      BY <1>2, <2>2, <2>4, <3>2, Suffixes DEF NInv, SentAfterMarking
    <3>4. \A q \in Processes : call'[q].version = v /\ call'[q].steps \in {Whole, AfterMark} => q = p
      BY <1>2, <1>7, <2>4
    <3> QED
      BY <2>4, <3>1, <3>3, <3>4
  <2> QED
    BY <2>3, <2>4
<1> QED
  BY <1>5, <1>6, <1>8 DEF NInv

\* A version is marked by the one call that looks it up, or its mark fails.
LEMMA MarkKeeps ==
    ASSUME NInv, NEW p \in Processes, markSeen(p)
    PROVE  NInv'
<1> DEFINE v == call[p].version
<1>1. call[p].steps = Whole /\ v \in NewKernels
  BY Suffixes DEF markSeen, Doing, NInv, CallsAreSuffixes
<1>2. /\ DOMAIN call' = Processes
      /\ \A q \in Processes \ {p} : call'[q] = call[q]
      /\ call'[p] = [version |-> v, steps |-> AfterMark]
  BY <1>1, DoneLeaves, Suffixes DEF markSeen, NInv
<1>3. /\ announced' = announced
      /\ mayRepeat \subseteq mayRepeat' /\ mayRepeat' \subseteq mayRepeat \cup {v}
      /\ \A w \in NewKernels \ {v} : seen'[w] = seen[w]
      /\ DOMAIN seen' = NewKernels
      /\ v \notin mayRepeat' => seen'[v] # "unseen"
      /\ seen'[v] \in {seen[v], "seen"}
  BY <1>1 DEF markSeen, NInv, NotificationsType
<1>4. NotificationsType' /\ CallsAreSuffixes'
  <2>1. seen' \in [NewKernels -> {"unseen", "seen", "notified"}]
    <3>1. CASE seen' = seen
      BY <3>1 DEF NInv, NotificationsType
    <3>2. CASE seen' = [seen EXCEPT ![v] = IF @ = "unseen" THEN "seen" ELSE @]
      BY <1>1, <3>2 DEF NInv, NotificationsType
    <3> QED
      BY <3>1, <3>2 DEF markSeen
  <2>2. call'[p] = [version |-> call'[p].version, steps |-> call'[p].steps]
    BY <1>2
  <2>3. NotificationsType'
    BY <1>1, <1>2, <1>3, <2>1, <2>2 DEF NInv, NotificationsType
  <2>4. CallsAreSuffixes'
    BY <1>1, <1>2 DEF NInv, CallsAreSuffixes
  <2> QED
    BY <2>3, <2>4
<1>5. NotedAfterSending'
  BY <1>1, <1>2, <1>3, Suffixes DEF NInv, NotedAfterSending
<1>6. SentAfterMarking'
  <2>1. SUFFICES ASSUME NEW w \in NewKernels \ mayRepeat'
                 PROVE  /\ announced[w] <= 1
                        /\ announced[w] > 0 => seen'[w] # "unseen"
                        /\ \A q \in Processes : call'[q].version = w =>
                              /\ call'[q].steps # WithoutRow
                              /\ call'[q].steps = Whole => announced[w] = 0 /\ seen'[w] = "unseen"
                              /\ call'[q].steps = AfterMark => announced[w] = 0 /\ seen'[w] # "unseen"
                        /\ \A q, r \in Processes :
                              /\ call'[q].version = w /\ call'[q].steps \in {Whole, AfterMark}
                              /\ call'[r].version = w /\ call'[r].steps \in {Whole, AfterMark}
                              => q = r
    BY <1>3 DEF SentAfterMarking
  <2>2. w \notin mayRepeat
    BY <1>3
  <2>3. CASE w # v
    BY <1>2, <1>3, <2>2, <2>3 DEF NInv, SentAfterMarking
  <2>4. CASE w = v
    <3>1. announced[v] = 0 /\ seen'[v] # "unseen"
      BY <1>1, <1>3, <2>2, <2>4 DEF NInv, SentAfterMarking
    <3>2. \A q \in Processes \ {p} : call[q].version = v => call[q].steps \notin {Whole, AfterMark, WithoutRow}
      BY <1>1, <2>2, <2>4 DEF NInv, SentAfterMarking
    <3> QED
      BY <1>2, <2>4, <3>1, <3>2, Suffixes
  <2> QED
    BY <2>3, <2>4
<1> QED
  BY <1>4, <1>5, <1>6 DEF NInv

\* A version is sent by the one call that marked it.
LEMMA SendKeeps ==
    ASSUME NInv, NEW p \in Processes, sendNotification(p)
    PROVE  NInv'
<1> DEFINE v == call[p].version
<1>1. call[p].steps \in {AfterMark, WithoutRow} /\ v \in NewKernels
  BY Suffixes DEF sendNotification, Doing, NInv, CallsAreSuffixes
<1>2. /\ DOMAIN call' = Processes
      /\ \A q \in Processes \ {p} : call'[q] = call[q]
      /\ call[p].steps = AfterMark => call'[p] = [version |-> v, steps |-> AfterSend]
      /\ call[p].steps = WithoutRow => call'[p] = Idle
  BY <1>1, DoneLeaves, Suffixes DEF sendNotification, NInv
<1>3. /\ seen' = seen /\ mayRepeat' = mayRepeat
      /\ announced' \in [NewKernels -> Nat]
      /\ announced'[v] = announced[v] + 1
      /\ \A w \in NewKernels \ {v} : announced'[w] = announced[w]
      /\ \A w \in NewKernels : announced[w] \in Nat
  BY <1>1 DEF sendNotification, NInv, NotificationsType
<1>4. call'[p].steps \in {AfterSend, <<>>}
      /\ (call'[p].steps = AfterSend => call'[p].version = v)
      /\ call'[p] = [version |-> call'[p].version, steps |-> call'[p].steps]
  BY <1>1, <1>2, Suffixes DEF Idle
<1>5. NotificationsType' /\ CallsAreSuffixes'
  <2>1. NotificationsType'
    BY <1>2, <1>3, <1>4 DEF NInv, NotificationsType
  <2>2. CallsAreSuffixes'
    BY <1>1, <1>2, <1>4 DEF NInv, CallsAreSuffixes
  <2> QED
    BY <2>1, <2>2
<1>6. NotedAfterSending'
  <2>1. \A w \in NewKernels : announced[w] > 0 => announced'[w] > 0
    BY <1>3
  <2>2. announced'[v] > 0
    BY <1>1, <1>3
  <2>3. \A q \in Processes : call[q].steps = AfterSend => call[q].version \in NewKernels
    BY Suffixes DEF NInv, CallsAreSuffixes
  <2> QED
    BY <1>2, <1>3, <1>4, <2>1, <2>2, <2>3, Suffixes DEF NInv, NotedAfterSending
<1>7. SentAfterMarking'
  <2>1. SUFFICES ASSUME NEW w \in NewKernels \ mayRepeat
                 PROVE  /\ announced'[w] <= 1
                        /\ announced'[w] > 0 => seen[w] # "unseen"
                        /\ \A q \in Processes : call'[q].version = w =>
                              /\ call'[q].steps # WithoutRow
                              /\ call'[q].steps = Whole => announced'[w] = 0 /\ seen[w] = "unseen"
                              /\ call'[q].steps = AfterMark => announced'[w] = 0 /\ seen[w] # "unseen"
                        /\ \A q, r \in Processes :
                              /\ call'[q].version = w /\ call'[q].steps \in {Whole, AfterMark}
                              /\ call'[r].version = w /\ call'[r].steps \in {Whole, AfterMark}
                              => q = r
    BY <1>3 DEF SentAfterMarking
  <2>2. CASE w # v
    BY <1>2, <1>3, <1>4, <2>2, Suffixes DEF NInv, SentAfterMarking
  <2>3. CASE w = v
    <3>1. call[p].steps = AfterMark /\ announced[v] = 0 /\ seen[v] # "unseen"
      BY <1>1, <2>1, <2>3 DEF NInv, SentAfterMarking
    <3>2. \A q \in Processes \ {p} : call[q].version = v => call[q].steps \notin {Whole, AfterMark, WithoutRow}
      BY <2>1, <2>3, <3>1 DEF NInv, SentAfterMarking
    <3>3. announced'[v] = 1
      BY <1>1, <1>3, <3>1
    <3>4. \A q \in Processes : call'[q].version = v => call'[q].steps \notin {Whole, AfterMark, WithoutRow}
      BY <1>2, <1>4, <3>2, Suffixes
    <3> QED
      BY <2>3, <3>1, <3>3, <3>4
  <2> QED
    BY <2>2, <2>3
<1> QED
  BY <1>5, <1>6, <1>7 DEF NInv

\* The last statement of a call.
LEMMA NotedKeeps ==
    ASSUME NInv, NEW p \in Processes, setNotified(p)
    PROVE  NInv'
<1> DEFINE v == call[p].version
<1>1. call[p].steps = AfterSend /\ v \in NewKernels
  BY Suffixes DEF setNotified, Doing, NInv, CallsAreSuffixes
<1>2. /\ DOMAIN call' = Processes
      /\ \A q \in Processes \ {p} : call'[q] = call[q]
      /\ call'[p] = Idle
  BY <1>1, DoneLeaves, Suffixes DEF setNotified, NInv
<1>3. /\ announced' = announced /\ mayRepeat' = mayRepeat
      /\ seen' \in [NewKernels -> {"unseen", "seen", "notified"}]
      /\ \A w \in NewKernels \ {v} : seen'[w] = seen[w]
      /\ seen'[v] = "unseen" <=> seen[v] = "unseen"
  BY <1>1 DEF setNotified, NInv, NotificationsType
<1>4. announced[v] > 0
  BY <1>1 DEF NInv, NotedAfterSending
<1>5. NotificationsType' /\ CallsAreSuffixes'
  <2>1. call'[p] = [version |-> call'[p].version, steps |-> call'[p].steps] /\ call'[p].steps = <<>>
    BY <1>2 DEF Idle
  <2>2. NotificationsType'
    BY <1>2, <1>3, <2>1 DEF NInv, NotificationsType
  <2>3. CallsAreSuffixes'
    BY <1>2, <2>1 DEF NInv, CallsAreSuffixes
  <2> QED
    BY <2>2, <2>3
<1>6. NotedAfterSending'
  BY <1>2, <1>3, <1>4, Suffixes DEF NInv, NotedAfterSending, Idle
<1>7. SentAfterMarking'
  BY <1>2, <1>3, Suffixes DEF NInv, SentAfterMarking, Idle
<1> QED
  BY <1>5, <1>6, <1>7 DEF NInv

\* What the rest of the store does leaves the calls alone, or forgets one.
LEMMA StoreKeeps ==
    ASSUME NInv, NEW p \in Processes, storeStep(p)
    PROVE  NInv'
<1>1. CASE UNCHANGED notifying
  BY <1>1 DEF notifying, NInv, NotificationsType, CallsAreSuffixes, SentAfterMarking,
              NotedAfterSending
<1>2. CASE call' = [call EXCEPT ![p] = Idle] /\ UNCHANGED <<seen, announced, mayRepeat>>
  <2>1. /\ DOMAIN call' = Processes
        /\ \A q \in Processes \ {p} : call'[q] = call[q]
        /\ call'[p] = Idle
    BY <1>2 DEF NInv, NotificationsType
  <2> QED
    BY <1>2, <2>1, Suffixes DEF NInv, NotificationsType, CallsAreSuffixes, SentAfterMarking,
                                NotedAfterSending, Idle
<1> QED
  BY <1>1, <1>2 DEF storeStep

\* For any number of processes and new kernels, whichever of them die and whichever
\* statements fail: a version is announced again only if two callers looked for it at
\* once or a statement about it failed.
THEOREM AnnouncedAtMostOnce == NotificationsSpec => []AnnouncedOnce
<1>1. NotificationsInit => NInv
  BY Suffixes DEF NotificationsInit, NInv, NotificationsType, CallsAreSuffixes,
                  SentAfterMarking, NotedAfterSending, Idle
<1>2. NInv /\ [NotificationsNext]_<<vars, notifying>> => NInv'
  <2>1. ASSUME NInv, NotificationsNext PROVE NInv'
    BY <2>1, LookUpKeeps, MarkKeeps, SendKeeps, NotedKeeps, StoreKeeps
       DEF NotificationsNext, notifyNewKernel
  <2>2. ASSUME NInv, UNCHANGED notifying PROVE NInv'
    BY <2>2 DEF notifying, NInv, NotificationsType, CallsAreSuffixes, SentAfterMarking,
                NotedAfterSending
  <2> QED
    BY <2>1, <2>2
<1>3. NInv => AnnouncedOnce
  <2> SUFFICES ASSUME NInv, NEW v \in NewKernels, announced[v] > 1, v \notin mayRepeat PROVE FALSE
    BY DEF AnnouncedOnce, NInv, NotedAfterSending
  <2> QED
    BY DEF NInv, NotificationsType, SentAfterMarking
<1> QED
  BY <1>1, <1>2, <1>3, PTL DEF NotificationsSpec

\* The notifier changes nothing of what is proved of the store: with it or without,
\* every process does what StateStore allows.
THEOREM NotifierLeavesStore == NotificationsSpec => Spec
<1>1. NotificationsInit => Init
  BY DEF NotificationsInit
<1>2. [NotificationsNext]_<<vars, notifying>> => [Next]_vars
  BY DEF NotificationsNext, notifyNewKernel, lookUp, markSeen, sendNotification, setNotified,
         storeStep, Next
<1> QED
  BY <1>1, <1>2, PTL DEF NotificationsSpec, Spec

=============================================================================
