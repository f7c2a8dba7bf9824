------------------------- MODULE SourceFetch_proofs -------------------------
(***************************************************************************)
(* What holds of a kernel source of any kind, for any number of fetches    *)
(* and whether or not programs can fail to start.  OneThingUnderWay is     *)
(* inductive together with the types and with answers never being ahead of *)
(* the fetches by more than the fetch that is open.                        *)
(*                                                                         *)
(* What an answer tells is proved for every output: by what holds after    *)
(* each round of the loops that read and group it.                         *)
(***************************************************************************)
EXTENDS SourceAnswers, FiniteSetTheorems, SequenceTheorems, TLAPS

AnswersFollowFetches == answers = fetches \/ answers + 1 = fetches

IInv == TypeOK /\ OneThingUnderWay /\ AnswersFollowFetches

LEMMA InitIInv == Init => IInv
BY FetchAssumption DEF Init, IInv, TypeOK, OneThingUnderWay, AnswersFollowFetches, Stages, Process,
                       NoProgram

\* While its answer to a request is awaited, a source has nothing else under way.
LEMMA PendingIsActive ==
    ASSUME IInv, NEW id \in pending
    PROVE  /\ id = active_request_id_ /\ pending \ {id} = {}
           /\ NoProgram /\ answers + 1 = fetches
BY DEF IInv, TypeOK, OneThingUnderWay, AnswersFollowFetches

LEMMA NextIInv == IInv /\ [Next]_vars => IInv'
<1> SUFFICES ASSUME IInv, [Next]_vars PROVE IInv'
  OBVIOUS
<1> USE DEF IInv, TypeOK, OneThingUnderWay, AnswersFollowFetches, NoProgram, Process, Stages
<1>1. CASE UNCHANGED vars
  BY <1>1 DEF vars
<1>2. CASE fetchFailsAtOnce
  <2>1. /\ fetches' = fetches + 1 /\ answers' = answers + 1 /\ fetches = answers
        /\ fetches' \in 0..MaxFetches /\ answers' \in Nat
    BY <1>2, FetchAssumption DEF fetchFailsAtOnce, CallerAsks, EmitAnswer
  <2>2. UNCHANGED <<kind, stage_, active_request_id_, repoquery_process_, decompress_process_,
                    made, pending>>
    BY <1>2 DEF fetchFailsAtOnce, CallerAsks
  <2>3. fetches' = answers'
    BY <2>1
  <2>4. OneThingUnderWay' /\ AnswersFollowFetches'
    BY <2>1, <2>2, <2>3
  <2>5. TypeOK'
    BY <2>1, <2>2
  <2> QED
    BY <2>4, <2>5
<1>3. CASE fetchWithRepoquery
  BY <1>3, FetchAssumption DEF fetchWithRepoquery, CallerAsks, Started
<1>4. CASE fetchFromNetwork
  <2>1. /\ fetches' = fetches + 1 /\ answers' = answers /\ fetches = answers
        /\ fetches' \in 0..MaxFetches /\ UNCHANGED kind
        /\ pending = {} /\ NoProgram /\ NoProgram'
    BY <1>4, FetchAssumption DEF fetchFromNetwork, CallerAsks
  <2>2. /\ stage_' \in Stages /\ made' = made + 1 /\ active_request_id_' = made'
        /\ pending' = {made'}
    BY <1>4, <2>1 DEF fetchFromNetwork, Request
  <2>3. fetches' # answers'
    BY <2>1
  <2>4. OneThingUnderWay' /\ AnswersFollowFetches'
    BY <2>1, <2>2, <2>3
  <2>5. TypeOK'
    BY <2>1, <2>2
  <2> QED
    BY <2>4, <2>5
<1>5. CASE finishRepoquery
  BY <1>5 DEF finishRepoquery, EmitAnswer
<1>6. ASSUME NEW id \in pending, NetworkAnswers(id) PROVE IInv'
  <2>1. /\ id = active_request_id_ /\ pending \ {id} = {} /\ NoProgram /\ answers + 1 = fetches
        /\ UNCHANGED <<kind, repoquery_process_, fetches>>
    BY <1>6, PendingIsActive DEF NetworkAnswers, onNetworkFinished, onNetworkFailed
  <2>2. CASE Fail(id)
    BY <2>1, <2>2 DEF Fail, EmitAnswer
  <2>3. CASE decompressPrimaryXml(id)
    BY <2>1, <2>2, <2>3 DEF decompressPrimaryXml, Started
  <2>4. CASE NextRequest(id)
    BY <2>1, <2>2, <2>4 DEF NextRequest, Request
  <2> QED
    BY <1>6, <2>1, <2>2, <2>3, <2>4
       DEF NetworkAnswers, onNetworkFinished, onNetworkFailed, Ignore
<1>7. CASE finishDecompress
  BY <1>7 DEF finishDecompress, EmitAnswer
<1> QED
  BY <1>1, <1>2, <1>3, <1>4, <1>5, <1>6, <1>7 DEF Next

\* The strengthened invariant of a source.
THEOREM InductiveInvariant == Spec => []IInv
<1>1. Init => IInv
  BY InitIInv
<1>2. IInv /\ [Next]_vars => IInv'
  BY NextIInv
<1> QED
  BY <1>1, <1>2, PTL DEF Spec

\* The state has its types: no request is awaited that was not made.
THEOREM TypeCorrect == Spec => []TypeOK
<1>1. IInv => TypeOK
  BY DEF IInv
<1> QED
  BY <1>1, InductiveInvariant, PTL

\* A source that has yet to answer has exactly one thing under way, and one that
\* answered has none, however many fetches went before.
THEOREM OneThingUnderWayAlways == Spec => []OneThingUnderWay
<1>1. IInv => OneThingUnderWay
  BY DEF IInv
<1> QED
  BY <1>1, InductiveInvariant, PTL

-----------------------------------------------------------------------------
(***************************************************************************)
(* The refinement.                                                         *)
(***************************************************************************)

LEMMA InitPromise == Init => Promise!Init
BY DEF Init, Promise!Init

LEMMA NextPromise == IInv /\ IInv' /\ [Next]_vars => [Promise!Next]_(Promise!vars)
<1> SUFFICES ASSUME IInv, IInv', [Next]_vars PROVE [Promise!Next]_(Promise!vars)
  OBVIOUS
<1> USE DEF Promise!Next, Promise!vars, Lost
<1>0. /\ fetches \in Int /\ answers \in Int
      /\ fetches = answers => NoProgram
      /\ repoquery_process_ \in Process /\ decompress_process_ \in Process
  BY DEF IInv, TypeOK, OneThingUnderWay
<1>1. CASE UNCHANGED vars
  BY <1>1 DEF vars
<1>2. CASE fetchFailsAtOnce
  BY <1>0, <1>2 DEF fetchFailsAtOnce, CallerAsks, EmitAnswer, Promise!Ask
<1>3. CASE fetchWithRepoquery
  BY <1>0, <1>3 DEF fetchWithRepoquery, CallerAsks, Started, Promise!Ask, NoProgram
<1>4. CASE fetchFromNetwork
  BY <1>0, <1>4 DEF fetchFromNetwork, CallerAsks, Promise!Ask, NoProgram
<1>5. ASSUME answers + 1 = fetches, answers' = answers + 1, fetches' = fetches, ~Lost
      PROVE  Promise!Answer
  BY <1>0, <1>5 DEF Promise!Answer
<1>6. CASE finishRepoquery
  <2>1. answers + 1 = fetches /\ ~Lost
    BY <1>0, <1>6 DEF IInv, OneThingUnderWay, AnswersFollowFetches, finishRepoquery, NoProgram
  <2> QED
    BY <1>5, <1>6, <2>1 DEF finishRepoquery, EmitAnswer
<1>7. CASE finishDecompress
  <2>1. answers + 1 = fetches /\ ~Lost
    BY <1>0, <1>7 DEF IInv, OneThingUnderWay, AnswersFollowFetches, finishDecompress, NoProgram
  <2> QED
    BY <1>5, <1>7, <2>1 DEF finishDecompress, EmitAnswer
<1>8. ASSUME NEW id \in pending, NetworkAnswers(id) PROVE [Promise!Next]_(Promise!vars)
  <2>1. /\ id = active_request_id_ /\ NoProgram /\ answers + 1 = fetches
        /\ UNCHANGED <<repoquery_process_, fetches>> /\ ~Lost
    BY <1>8, PendingIsActive DEF NetworkAnswers, onNetworkFinished, onNetworkFailed, NoProgram
  <2>2. CASE Fail(id)
    BY <1>5, <2>1, <2>2 DEF Fail, EmitAnswer
  <2>3. CASE UNCHANGED <<answers, decompress_process_>>
    BY <2>1, <2>3
  <2>4. CASE decompress_process_' \in Started /\ UNCHANGED answers
    <3>1. fetches # answers /\ fetches' # answers'
      BY <1>0, <2>1, <2>4
    <3>2. CASE decompress_process_' = "running"
      BY <2>1, <2>4, <3>1, <3>2 DEF NoProgram
    <3>3. CASE decompress_process_' = "lost"
      BY <2>1, <2>4, <3>1, <3>3 DEF Promise!Lose
    <3> QED
      BY <2>4, <3>2, <3>3 DEF Started
  <2> QED
    BY <1>8, <2>1, <2>2, <2>3, <2>4
       DEF NetworkAnswers, onNetworkFinished, onNetworkFailed, Ignore, NextRequest,
           decompressPrimaryXml
<1> QED
  BY <1>1, <1>2, <1>3, <1>4, <1>6, <1>7, <1>8 DEF Next

\* A source implements what KernelRepository relies on: its signals are answers
\* to fetchAvailable(), one each.  (That the answer comes is liveness.)
THEOREM ImplementsPromise == Spec => Promise!Spec
<1>1. Init => Promise!Init
  BY InitPromise
<1>2. IInv /\ IInv' /\ [Next]_vars => [Promise!Next]_(Promise!vars)
  BY NextPromise
<1> QED
  BY <1>1, <1>2, InductiveInvariant, PTL DEF Spec, Promise!Spec

-----------------------------------------------------------------------------
(***************************************************************************)
(* Loops: the recursive functions of KernelPackages exist, and what holds  *)
(* before a loop and after each of its rounds holds after all of them.     *)
(***************************************************************************)

\* A nonempty set of numbers has a least one: of the intervals that end in them, one
\* contains no other.
LEMMA LeastNumber ==
    ASSUME NEW S \in SUBSET Nat, S # {}
    PROVE  \E i \in S : \A j \in S : i <= j
<1> DEFINE T == {1..i : i \in S}
           R == StrictSubsetOrdering(Nat)
<1>1. T \subseteq FiniteSubsetsOf(Nat)
  <2>1. \A i \in S : 1..i \in SUBSET Nat /\ IsFiniteSet(1..i)
    BY FS_Interval
  <2> QED BY <2>1 DEF FiniteSubsetsOf
<1>2. T # {}
  OBVIOUS
<1>3. PICK x \in T : \A y \in T : ~(<<y, x>> \in R)
  <2> HIDE DEF T
  <2> QED BY <1>1, <1>2, WFMin, FS_StrictSubsetOrderingWellFounded
<1>4. PICK i \in S : x = 1..i
  BY <1>3
<1>5. ASSUME NEW j \in S, j < i PROVE FALSE
  <2>1. 1..j \subseteq 1..i /\ 1..j # 1..i /\ 1..j \in SUBSET Nat /\ 1..i \in SUBSET Nat
    BY <1>5
  <2>2. <<1..j, 1..i>> \in R
    BY <2>1 DEF StrictSubsetOrdering
  <2> QED BY <1>3, <1>4, <2>2
<1> QED BY <1>5

\* A set of numbers that has 0 and with each its successor has them all: there is no
\* least one it has not.
LEMMA Rounds ==
    ASSUME NEW n \in Nat, NEW Good, 0 \in Good,
           \A m \in 0..n : m \in Good /\ m # n => m + 1 \in Good
    PROVE  \A m \in 0..n : m \in Good
<1> DEFINE bad == (0..n) \ Good
<1>1. SUFFICES ASSUME bad # {} PROVE FALSE
  OBVIOUS
<1>2. bad \in SUBSET Nat
  OBVIOUS
<1>3. PICK m \in bad : \A k \in bad : m <= k
  BY <1>1, <1>2, LeastNumber
<1>4. m # 0 /\ m - 1 \in 0..n /\ m - 1 # n /\ m - 1 + 1 = m
  BY <1>3
<1>5. m - 1 \in Good
  BY <1>3, <1>4
<1> QED BY <1>3, <1>4, <1>5

\* The hash after each record is the one before it with the record added.
LEMMA GroupingRounds ==
    ASSUME NEW records, Len(records) \in Nat, NEW sourceId
    PROVE  LET grouped == Grouping(records, sourceId)
           IN  /\ grouped[0] = <<>>
               /\ \A m \in 0..Len(records) : m # Len(records) =>
                     grouped[m + 1] = AddRecord(grouped[m], records[m + 1], sourceId)
<1> DEFINE n == Len(records)
           next(f, m) == IF m = 0 THEN <<>> ELSE AddRecord(f[m - 1], records[m], sourceId)
           Good == {m \in 0..n : \E f : f = [k \in 0..m |-> next(f, k)]}
<1>1. n \in Nat
  OBVIOUS
<1> HIDE DEF n
<1>2. 0 \in Good
  <2> DEFINE f == [k \in 0..0 |-> <<>>]
  <2>1. f = [k \in 0..0 |-> next(f, k)]
    OBVIOUS
  <2> HIDE DEF f, next
  <2> QED BY <1>1, <2>1
<1>3. ASSUME NEW m \in 0..n, m \in Good, m # n PROVE m + 1 \in Good
  <2>1. PICK f : f = [k \in 0..m |-> next(f, k)]
    BY <1>3
  <2> DEFINE g == [k \in 0..(m + 1) |-> IF k = m + 1 THEN next(f, k) ELSE f[k]]
  <2>2. \A k \in 0..(m + 1) : next(g, k) = next(f, k)
    <3> SUFFICES ASSUME NEW k \in 0..(m + 1) PROVE next(g, k) = next(f, k)
      OBVIOUS
    <3>1. k # 0 => k - 1 \in 0..(m + 1) /\ k - 1 # m + 1
      BY <1>1
    <3>2. k # 0 => g[k - 1] = f[k - 1]
      BY <3>1
    <3> QED BY <3>2
  <2>3. \A k \in 0..(m + 1) : k # m + 1 => k \in 0..m
    BY <1>1
  <2>4. \A k \in 0..(m + 1) : g[k] = next(f, k)
    <3> HIDE DEF next
    <3> QED BY <2>1, <2>3
  <2>5. g = [k \in 0..(m + 1) |-> next(g, k)]
    <3> HIDE DEF next
    <3> QED BY <2>2, <2>4
  <2>6. m + 1 \in 0..n
    BY <1>1, <1>3
  <2> HIDE DEF g, next
  <2> QED BY <2>5, <2>6
<1>4. PICK f : f = [k \in 0..n |-> next(f, k)]
  <2>1. n \in Good
    <3> HIDE DEF Good
    <3>1. \A m \in 0..n : m \in Good
      BY <1>1, <1>2, <1>3, Rounds
    <3> QED BY <1>1, <3>1
  <2> HIDE DEF next
  <2> QED BY <2>1
<1> DEFINE grouped == Grouping(records, sourceId)
<1>5. grouped = [k \in 0..n |-> next(grouped, k)]
  BY <1>4 DEF Grouping, n
<1>6. grouped[0] = <<>>
  <2>1. 0 \in 0..n
    BY <1>1
  <2>2. grouped[0] = next(grouped, 0)
    <3> HIDE DEF grouped, next
    <3> QED BY <1>5, <2>1
  <2> QED BY <2>2
<1>7. ASSUME NEW m \in 0..n, m # n
      PROVE  grouped[m + 1] = AddRecord(grouped[m], records[m + 1], sourceId)
  <2>1. m + 1 \in 0..n /\ m + 1 # 0 /\ (m + 1) - 1 = m
    BY <1>1, <1>7
  <2>2. grouped[m + 1] = next(grouped, m + 1)
    <3> HIDE DEF grouped, next
    <3> QED BY <1>5, <2>1
  <2> HIDE DEF grouped
  <2> QED BY <2>1, <2>2
<1> QED BY <1>6, <1>7 DEF n

\* The records after each line are those before it, with the line's unless it is skipped.
LEMMA LineRounds ==
    ASSUME NEW lines, Len(lines) \in Nat
    PROVE  LET records == LineRecords(lines)
           IN  /\ records[0] = <<>>
               /\ \A m \in 0..Len(lines) : m # Len(lines) =>
                     records[m + 1] = IF lines[m + 1].columns < 2
                                      THEN records[m]
                                      ELSE Append(records[m], LineRecord(lines[m + 1]))
<1> DEFINE n == Len(lines)
           next(f, m) == IF m = 0 THEN <<>>
                         ELSE IF lines[m].columns < 2 THEN f[m - 1]
                         ELSE Append(f[m - 1], LineRecord(lines[m]))
           Good == {m \in 0..n : \E f : f = [k \in 0..m |-> next(f, k)]}
<1>1. n \in Nat
  OBVIOUS
<1> HIDE DEF n
<1>2. 0 \in Good
  <2> DEFINE f == [k \in 0..0 |-> <<>>]
  <2>1. f = [k \in 0..0 |-> next(f, k)]
    OBVIOUS
  <2> HIDE DEF f, next
  <2> QED BY <1>1, <2>1
<1>3. ASSUME NEW m \in 0..n, m \in Good, m # n PROVE m + 1 \in Good
  <2>1. PICK f : f = [k \in 0..m |-> next(f, k)]
    BY <1>3
  <2> DEFINE g == [k \in 0..(m + 1) |-> IF k = m + 1 THEN next(f, k) ELSE f[k]]
  <2>2. \A k \in 0..(m + 1) : next(g, k) = next(f, k)
    <3> SUFFICES ASSUME NEW k \in 0..(m + 1) PROVE next(g, k) = next(f, k)
      OBVIOUS
    <3>1. k # 0 => k - 1 \in 0..(m + 1) /\ k - 1 # m + 1
      BY <1>1
    <3>2. k # 0 => g[k - 1] = f[k - 1]
      BY <3>1
    <3> QED BY <3>2
  <2>3. \A k \in 0..(m + 1) : k # m + 1 => k \in 0..m
    BY <1>1
  <2>4. \A k \in 0..(m + 1) : g[k] = next(f, k)
    <3> HIDE DEF next
    <3> QED BY <2>1, <2>3
  <2>5. g = [k \in 0..(m + 1) |-> next(g, k)]
    <3> HIDE DEF next
    <3> QED BY <2>2, <2>4
  <2>6. m + 1 \in 0..n
    BY <1>1, <1>3
  <2> HIDE DEF g, next
  <2> QED BY <2>5, <2>6
<1>4. PICK f : f = [k \in 0..n |-> next(f, k)]
  <2>1. n \in Good
    <3> HIDE DEF Good
    <3>1. \A m \in 0..n : m \in Good
      BY <1>1, <1>2, <1>3, Rounds
    <3> QED BY <1>1, <3>1
  <2> HIDE DEF next
  <2> QED BY <2>1
<1> DEFINE records == LineRecords(lines)
<1>5. records = [k \in 0..n |-> next(records, k)]
  BY <1>4 DEF LineRecords, n
<1>6. records[0] = <<>>
  <2>1. 0 \in 0..n
    BY <1>1
  <2>2. records[0] = next(records, 0)
    <3> HIDE DEF records, next
    <3> QED BY <1>5, <2>1
  <2> QED BY <2>2
<1>7. ASSUME NEW m \in 0..n, m # n
      PROVE  records[m + 1] = IF lines[m + 1].columns < 2
                              THEN records[m]
                              ELSE Append(records[m], LineRecord(lines[m + 1]))
  <2>1. m + 1 \in 0..n /\ m + 1 # 0 /\ (m + 1) - 1 = m
    BY <1>1, <1>7
  <2>2. records[m + 1] = next(records, m + 1)
    <3> HIDE DEF records, next
    <3> QED BY <1>5, <2>1
  <2> HIDE DEF records
  <2> QED BY <2>1, <2>2
<1> QED BY <1>6, <1>7 DEF n

-----------------------------------------------------------------------------
(***************************************************************************)
(* The grouping: what the hash tells of the records read so far.           *)
(***************************************************************************)

Checksum == STRING \cup {NoChecksum}

PackageRecord == [name : STRING, version : Nat, buildTime : Nat, checksum : Checksum]

KernelRecord ==
    [sourceId : SourceIds, version : Nat, subPackages : Seq(STRING), releaseDate : Nat,
     sha256 : Checksum, compatibility : SUBSET BOOLEAN]

\* The kernel has the names of these packages, once each, the earliest of their dates
\* and one of their checksums.
Tells(kernel, packages) ==
    LET dates     == {p.buildTime : p \in packages} \ {NullDate}
        checksums == {p.checksum : p \in packages} \ {NoChecksum}
    IN  /\ Range(kernel.subPackages) = {p.name : p \in packages}
        /\ IsInjective(kernel.subPackages)
        /\ dates = {} => kernel.releaseDate = NullDate
        /\ dates # {} => /\ kernel.releaseDate \in dates
                         /\ \A d \in dates : kernel.releaseDate <= d
        /\ checksums = {} => kernel.sha256 = NoChecksum
        /\ checksums # {} => kernel.sha256 \in checksums

\* The hash has one kernel for each version among these packages, which tells of its own.
Groups(grouped, packages) ==
    /\ DOMAIN grouped = {p.version : p \in packages}
    /\ \A v \in DOMAIN grouped :
          /\ grouped[v] \in KernelRecord
          /\ grouped[v].version = v
          /\ Tells(grouped[v], {p \in packages : p.version = v})

\* The list of names with one more, unless it has it.
WithName(names, name) == IF name \in Range(names) THEN names ELSE Append(names, name)

LEMMA NamesGrow ==
    ASSUME NEW S, NEW names \in Seq(S), IsInjective(names), NEW name \in S
    PROVE  /\ WithName(names, name) \in Seq(S)
           /\ IsInjective(WithName(names, name))
           /\ Range(WithName(names, name)) = Range(names) \cup {name}
<1> USE DEF WithName
<1>1. CASE name \in Range(names)
  BY <1>1
<1>2. CASE name \notin Range(names)
  <2> DEFINE longer == Append(names, name)
             n == Len(names)
  <2>1. /\ n \in Nat /\ DOMAIN names = 1..n /\ DOMAIN longer = 1..(n + 1)
        /\ longer \in Seq(S)
        /\ longer[n + 1] = name /\ \A i \in 1..n : longer[i] = names[i]
    <3>1. n \in Nat /\ DOMAIN names = 1..n
      OBVIOUS
    <3>2. longer \in Seq(S) /\ Len(longer) = n + 1
      OBVIOUS
    <3>3. DOMAIN longer = 1..(n + 1)
      <4> HIDE DEF longer
      <4> QED BY <3>2
    <3>4. longer[n + 1] = name
      OBVIOUS
    <3>5. \A i \in 1..n : longer[i] = names[i]
      OBVIOUS
    <3> QED BY <3>1, <3>2, <3>3, <3>4, <3>5
  <2> HIDE DEF longer, n
  <2>2. \A i \in 1..(n + 1) : i # n + 1 => i \in 1..n
    BY <2>1
  <2>3. \A i \in 1..n : i \in 1..(n + 1) /\ i # n + 1
    BY <2>1
  <2>4. n + 1 \in 1..(n + 1)
    BY <2>1
  <2>5. \A i \in 1..n : names[i] # name
    BY <1>2, <2>1 DEF Range
  <2>6. IsInjective(longer)
    BY <2>1, <2>2, <2>5 DEF IsInjective
  <2>7. Range(longer) = Range(names) \cup {name}
    BY <2>1, <2>2, <2>3, <2>4 DEF Range
  <2> QED BY <1>2, <2>1, <2>6, <2>7 DEF longer
<1> QED BY <1>1, <1>2

\* A kernel that tells of some packages tells, with one more, of them and that one.
LEMMA TellsOneMore ==
    ASSUME NEW kernel \in KernelRecord, NEW packages \in SUBSET PackageRecord,
           NEW package \in PackageRecord, Tells(kernel, packages)
    PROVE  /\ WithPackage(kernel, package) \in KernelRecord
           /\ WithPackage(kernel, package).version = kernel.version
           /\ Tells(WithPackage(kernel, package), packages \cup {package})
<1> DEFINE more == WithPackage(kernel, package)
           all == packages \cup {package}
<1>1. /\ package.name \in STRING /\ package.buildTime \in Nat /\ package.checksum \in Checksum
      /\ kernel.subPackages \in Seq(STRING) /\ kernel.releaseDate \in Nat
      /\ kernel.sha256 \in Checksum
  BY DEF PackageRecord, KernelRecord
<1>2. /\ more.version = kernel.version /\ more.sourceId = kernel.sourceId
      /\ more.subPackages = IF package.name \in Range(kernel.subPackages)
                            THEN kernel.subPackages
                            ELSE Append(kernel.subPackages, package.name)
      /\ more.releaseDate = Earliest(kernel.releaseDate, package.buildTime)
      /\ more.sha256 = IF kernel.sha256 = NoChecksum THEN package.checksum ELSE kernel.sha256
      /\ more.compatibility = kernel.compatibility
  BY DEF WithPackage, KernelRecord
<1>3. /\ more.subPackages \in Seq(STRING) /\ IsInjective(more.subPackages)
      /\ Range(more.subPackages) = Range(kernel.subPackages) \cup {package.name}
  <2>1. IsInjective(kernel.subPackages)
    BY DEF Tells
  <2>2. more.subPackages = WithName(kernel.subPackages, package.name)
    BY <1>2 DEF WithName
  <2>3. /\ WithName(kernel.subPackages, package.name) \in Seq(STRING)
        /\ IsInjective(WithName(kernel.subPackages, package.name))
        /\ Range(WithName(kernel.subPackages, package.name))
              = Range(kernel.subPackages) \cup {package.name}
    <3>1. kernel.subPackages \in Seq(STRING) /\ package.name \in STRING
      BY <1>1
    <3>2. PICK S, names, name : S = STRING /\ names = kernel.subPackages /\ name = package.name
      OBVIOUS
    <3>3. names \in Seq(S) /\ name \in S /\ IsInjective(names)
      BY <2>1, <3>1, <3>2
    <3>4. /\ WithName(names, name) \in Seq(S)
          /\ IsInjective(WithName(names, name))
          /\ Range(WithName(names, name)) = Range(names) \cup {name}
      BY <3>3, NamesGrow
    <3> QED BY <3>2, <3>4
  <2> HIDE DEF more
  <2> QED BY <2>2, <2>3
<1>4. more.releaseDate \in Nat /\ more.sha256 \in Checksum
  BY <1>1, <1>2 DEF Earliest
<1>5. more \in KernelRecord
  <2>1. more = [kernel EXCEPT !.subPackages = more.subPackages,
                              !.releaseDate = more.releaseDate, !.sha256 = more.sha256]
    BY <1>2 DEF WithPackage, KernelRecord
  <2> HIDE DEF more
  <2> QED BY <1>3, <1>4, <2>1 DEF KernelRecord
<1> HIDE DEF more
<1>6. Range(more.subPackages) = {p.name : p \in all}
  BY <1>3 DEF Tells
<1> DEFINE dates(ps) == {p.buildTime : p \in ps} \ {NullDate}
           checksums(ps) == {p.checksum : p \in ps} \ {NoChecksum}
<1>7. /\ dates(all) = dates(packages) \cup ({package.buildTime} \ {NullDate})
      /\ checksums(all) = checksums(packages) \cup ({package.checksum} \ {NoChecksum})
      /\ dates(packages) \in SUBSET Nat
  BY DEF PackageRecord
<1>8. /\ dates(packages) = {} => kernel.releaseDate = NullDate
      /\ dates(packages) # {} => /\ kernel.releaseDate \in dates(packages)
                                 /\ \A d \in dates(packages) : kernel.releaseDate <= d
      /\ checksums(packages) = {} => kernel.sha256 = NoChecksum
      /\ checksums(packages) # {} => kernel.sha256 \in checksums(packages)
  BY DEF Tells
<1>9. NullDate \notin dates(packages) /\ NoChecksum \notin checksums(packages)
  OBVIOUS
<1>10. /\ dates(all) = {} => more.releaseDate = NullDate
       /\ dates(all) # {} => /\ more.releaseDate \in dates(all)
                             /\ \A d \in dates(all) : more.releaseDate <= d
  <2> DEFINE old == dates(packages)
             time == package.buildTime
  <2>1. /\ old \in SUBSET Nat /\ time \in Nat /\ kernel.releaseDate \in Nat
        /\ dates(all) = old \cup ({time} \ {NullDate}) /\ NullDate \notin old
        /\ old = {} => kernel.releaseDate = NullDate
        /\ old # {} => kernel.releaseDate \in old /\ \A d \in old : kernel.releaseDate <= d
        /\ more.releaseDate = Earliest(kernel.releaseDate, time)
    BY <1>1, <1>2, <1>7, <1>8, <1>9
  <2> HIDE DEF dates, old, time
  <2>2. CASE time = NullDate
    BY <2>1, <2>2 DEF Earliest
  <2>3. CASE time # NullDate /\ old = {}
    BY <2>1, <2>3 DEF Earliest
  <2>4. CASE time # NullDate /\ old # {}
    <3>1. kernel.releaseDate # NullDate
      BY <2>1, <2>4
    <3>2. dates(all) = old \cup {time} /\ dates(all) # {}
      BY <2>1, <2>4
    <3>3. more.releaseDate = IF time < kernel.releaseDate THEN time ELSE kernel.releaseDate
      BY <2>1, <2>4, <3>1 DEF Earliest
    <3>4. more.releaseDate \in dates(all)
      BY <2>1, <2>4, <3>2, <3>3
    <3>5. ASSUME NEW d \in dates(all) PROVE more.releaseDate <= d
      <4>1. CASE d = time
        BY <2>1, <3>3, <4>1
      <4>2. CASE d \in old
        <5>1. kernel.releaseDate <= d /\ d \in Nat
          BY <2>1, <2>4, <4>2
        <5> QED BY <2>1, <3>3, <5>1
      <4> QED BY <3>2, <3>5, <4>1, <4>2
    <3> QED BY <3>2, <3>4, <3>5
  <2> QED BY <2>2, <2>3, <2>4 DEF old
<1>11. /\ checksums(all) = {} => more.sha256 = NoChecksum
       /\ checksums(all) # {} => more.sha256 \in checksums(all)
  <2> HIDE DEF checksums
  <2> QED BY <1>2, <1>7, <1>8, <1>9
<1>12. Tells(more, all)
  BY <1>3, <1>6, <1>10, <1>11 DEF Tells
<1> QED BY <1>2, <1>5, <1>12 DEF more

\* A kernel that is new tells of no packages.
LEMMA NewTellsNone ==
    ASSUME NEW sourceId \in SourceIds, NEW version \in Nat
    PROVE  /\ NewKernel(sourceId, version) \in KernelRecord
           /\ NewKernel(sourceId, version).version = version
           /\ Tells(NewKernel(sourceId, version), {})
<1> DEFINE kernel == NewKernel(sourceId, version)
<1>1. kernel \in KernelRecord /\ kernel.version = version
  <2>1. <<>> \in Seq(STRING) /\ NullDate \in Nat /\ NoChecksum \in Checksum
    <3>1. \A S : <<>> \in Seq(S)
      OBVIOUS
    <3>2. <<>> \in Seq(STRING)
      BY <3>1, Zenon
    <3>3. NullDate \in Nat
      BY DEF NullDate
    <3>4. NoChecksum \in Checksum
      BY DEF Checksum
    <3> QED BY <3>2, <3>3, <3>4
  <2> QED BY <2>1 DEF NewKernel, KernelRecord
<1>2. /\ kernel.subPackages = <<>> /\ kernel.releaseDate = NullDate
      /\ kernel.sha256 = NoChecksum
  BY DEF NewKernel
<1>3. Range(<<>>) = {} /\ IsInjective(<<>>)
  BY DEF Range, IsInjective
<1> HIDE DEF kernel
<1>4. Tells(kernel, {})
  BY <1>2, <1>3 DEF Tells
<1> QED BY <1>1, <1>4 DEF kernel

\* A hash of packages groups, after one more that is wanted, them and that one.
LEMMA GroupsOneMore ==
    ASSUME NEW grouped, NEW packages \in SUBSET PackageRecord, Groups(grouped, packages),
           NEW package \in PackageRecord, NEW sourceId \in SourceIds,
           IsKernelPackage(package, sourceId)
    PROVE  Groups(AddRecord(grouped, package, sourceId), packages \cup {package})
<1> DEFINE version == package.version
           kernel == IF version \in DOMAIN grouped
                     THEN grouped[version]
                     ELSE NewKernel(sourceId, version)
           added == AddRecord(grouped, package, sourceId)
           all == packages \cup {package}
           of(ps, v) == {p \in ps : p.version = v}
<1>1. version \in Nat
  BY DEF PackageRecord
<1>2. added = [v \in DOMAIN grouped \cup {version} |->
                  IF v = version THEN WithPackage(kernel, package) ELSE grouped[v]]
  BY DEF AddRecord
<1>3. /\ kernel \in KernelRecord /\ kernel.version = version
      /\ Tells(kernel, of(packages, version))
  <2>1. CASE version \in DOMAIN grouped
    BY <2>1 DEF Groups
  <2>2. CASE version \notin DOMAIN grouped
    <3>1. of(packages, version) = {}
      BY <2>2 DEF Groups
    <3>2. kernel = NewKernel(sourceId, version)
      BY <2>2
    <3> HIDE DEF kernel, version, of
    <3> QED BY <1>1, <3>1, <3>2, NewTellsNone
  <2> QED BY <2>1, <2>2
<1>4. /\ WithPackage(kernel, package) \in KernelRecord
      /\ WithPackage(kernel, package).version = version
      /\ Tells(WithPackage(kernel, package), of(packages, version) \cup {package})
  <2>1. of(packages, version) \in SUBSET PackageRecord
    OBVIOUS
  <2> HIDE DEF kernel, of, version
  <2> QED BY <1>3, <2>1, TellsOneMore
<1>5. of(all, version) = of(packages, version) \cup {package}
  OBVIOUS
<1>6. \A v : v # version => of(all, v) = of(packages, v)
  OBVIOUS
<1>7. DOMAIN added = {p.version : p \in all}
  BY <1>2 DEF Groups
<1>8. ASSUME NEW v \in DOMAIN added
      PROVE  added[v] \in KernelRecord /\ added[v].version = v /\ Tells(added[v], of(all, v))
  <2>1. CASE v = version
    <3>1. added[v] = WithPackage(kernel, package)
      BY <1>2, <2>1
    <3> HIDE DEF added, kernel, of, version
    <3> QED BY <1>4, <1>5, <2>1, <3>1
  <2>2. CASE v # version
    <3>1. v \in DOMAIN grouped /\ added[v] = grouped[v]
      BY <1>2, <1>8, <2>2
    <3>2. /\ grouped[v] \in KernelRecord /\ grouped[v].version = v
          /\ Tells(grouped[v], of(packages, v))
      BY <3>1 DEF Groups
    <3> HIDE DEF added, of, version
    <3> QED BY <1>6, <2>2, <3>1, <3>2
  <2> QED BY <2>1, <2>2
<1> HIDE DEF added
<1>9. Groups(added, all)
  BY <1>7, <1>8 DEF Groups
<1> QED BY <1>9 DEF added

\* The packages a source looks for among the first records.
WantedOf(records, n, sourceId) ==
    {p \in {records[i] : i \in 1..n} : IsKernelPackage(p, sourceId)}

\* The loop over the records ends with a hash that groups the wanted ones.
LEMMA GroupingGroups ==
    ASSUME NEW records \in Seq(PackageRecord), NEW sourceId \in SourceIds
    PROVE  Groups(Grouping(records, sourceId)[Len(records)],
                  WantedOf(records, Len(records), sourceId))
<1> DEFINE n == Len(records)
           grouped == Grouping(records, sourceId)
           wanted(m) == WantedOf(records, m, sourceId)
           Good == {m \in 0..n : Groups(grouped[m], wanted(m))}
<1>1. n \in Nat /\ \A i \in 1..n : records[i] \in PackageRecord
  OBVIOUS
<1>2. /\ grouped[0] = <<>>
      /\ \A m \in 0..n : m # n =>
            grouped[m + 1] = AddRecord(grouped[m], records[m + 1], sourceId)
  BY <1>1, GroupingRounds
<1> HIDE DEF n, grouped
<1>3. 0 \in Good
  <2>1. wanted(0) = {}
    BY DEF WantedOf
  <2>2. Groups(<<>>, {})
    BY DEF Groups
  <2>3. 0 \in 0..n
    BY <1>1
  <2> HIDE DEF wanted
  <2> QED BY <1>2, <2>1, <2>2, <2>3
<1>4. ASSUME NEW m \in 0..n, m \in Good, m # n PROVE m + 1 \in Good
  <2> DEFINE package == records[m + 1]
             all == {records[i] : i \in 1..m}
  <2>1. m + 1 \in 0..n /\ m + 1 \in 1..n /\ package \in PackageRecord
    BY <1>1, <1>4
  <2>2. 1..(m + 1) = (1..m) \cup {m + 1}
    BY <1>1
  <2>3. {records[i] : i \in 1..(m + 1)} = all \cup {package}
    BY <2>2
  <2>4. wanted(m) \in SUBSET PackageRecord /\ Groups(grouped[m], wanted(m))
    <3>1. \A i \in 1..m : i \in 1..n
      BY <1>1
    <3> QED BY <1>1, <1>4, <3>1 DEF WantedOf
  <2>5. grouped[m + 1] = AddRecord(grouped[m], package, sourceId)
    BY <1>2, <1>4
  <2>6. CASE IsKernelPackage(package, sourceId)
    <3>1. wanted(m + 1) = wanted(m) \cup {package}
      <4> HIDE DEF package
      <4> QED BY <2>3, <2>6 DEF WantedOf
    <3>2. Groups(AddRecord(grouped[m], package, sourceId), wanted(m) \cup {package})
      <4> HIDE DEF package, wanted
      <4> QED BY <2>1, <2>4, <2>6, GroupsOneMore
    <3> HIDE DEF package, wanted
    <3> QED BY <2>1, <2>5, <3>1, <3>2
  <2>7. CASE ~IsKernelPackage(package, sourceId)
    <3>1. wanted(m + 1) = wanted(m)
      <4> HIDE DEF package
      <4> QED BY <2>3, <2>7 DEF WantedOf
    <3>2. AddRecord(grouped[m], package, sourceId) = grouped[m]
      BY <2>7 DEF AddRecord
    <3> HIDE DEF package, wanted
    <3> QED BY <2>1, <2>4, <2>5, <3>1, <3>2
  <2> QED BY <2>6, <2>7
<1>5. n \in Good
  <2> HIDE DEF Good
  <2>1. \A m \in 0..n : m \in Good
    BY <1>1, <1>3, <1>4, Rounds
  <2> QED BY <1>1, <2>1
<1> QED BY <1>5 DEF n, grouped

-----------------------------------------------------------------------------
(***************************************************************************)
(* The values of the hash in order: the number of later versions is        *)
(* another for each version, so that each place has one.                   *)
(***************************************************************************)

\* The list has the kernel of each version, the later ones first.
LEMMA SortedIsDescending ==
    ASSUME NEW grouped, DOMAIN grouped \in SUBSET Nat, IsFiniteSet(DOMAIN grouped)
    PROVE  LET n == Cardinality(DOMAIN grouped)
           IN  \E at \in [1..n -> DOMAIN grouped] :
                  /\ SortedByVersion(grouped) = [k \in 1..n |-> grouped[at[k]]]
                  /\ \A i, j \in 1..n : i < j => at[i] > at[j]
                  /\ \A v \in DOMAIN grouped : \E k \in 1..n : at[k] = v
<1> DEFINE V == DOMAIN grouped
           n == Cardinality(V)
           later(v) == {w \in V : w > v}
           rank == [v \in V |-> 1 + Cardinality(later(v))]
           at == [k \in 1..n |-> CHOOSE v \in V : Cardinality(later(v)) = k - 1]
<1>1. SortedByVersion(grouped) = [k \in 1..n |-> grouped[at[k]]]
  BY DEF SortedByVersion
<1>2. V \in SUBSET Nat /\ IsFiniteSet(V) /\ n = Cardinality(V)
  OBVIOUS
<1>3. SUFFICES /\ at \in [1..n -> V]
               /\ \A i, j \in 1..n : i < j => at[i] > at[j]
               /\ \A v \in V : \E k \in 1..n : at[k] = v
  <2> HIDE DEF at
  <2> QED BY <1>1
<1>4. n \in Nat
  <2> HIDE DEF V, n
  <2> QED BY <1>2, FS_CardinalityType
<1> HIDE DEF V, n
<1>5. \A v \in V : /\ later(v) \in SUBSET (V \ {v})
                   /\ IsFiniteSet(later(v))
                   /\ Cardinality(later(v)) \in 0..(n - 1)
  <2> SUFFICES ASSUME NEW v \in V
               PROVE  /\ later(v) \in SUBSET (V \ {v})
                      /\ IsFiniteSet(later(v))
                      /\ Cardinality(later(v)) \in 0..(n - 1)
    OBVIOUS
  <2>1. later(v) \in SUBSET (V \ {v})
    BY <1>2
  <2>2. IsFiniteSet(V \ {v}) /\ Cardinality(V \ {v}) = n - 1
    BY <1>2, FS_RemoveElement
  <2> HIDE DEF later
  <2>3. IsFiniteSet(later(v)) /\ Cardinality(later(v)) <= n - 1
    BY <2>1, <2>2, FS_Subset
  <2> QED BY <1>4, <2>1, <2>3, FS_CardinalityType
<1>6. rank \in [V -> 1..n] /\ \A v \in V : rank[v] = 1 + Cardinality(later(v))
  <2> HIDE DEF later
  <2> QED BY <1>4, <1>5
<1>7. ASSUME NEW v \in V, NEW w \in V, v < w PROVE rank[w] < rank[v]
  <2>1. later(w) \in SUBSET later(v) /\ w \in later(v) /\ w \notin later(w)
    <3>1. V \in SUBSET Int /\ v \in Int /\ w \in Int
      BY <1>2
    <3>2. \A x \in V : x > w => x > v
      BY <1>7, <3>1
    <3>3. later(w) \in SUBSET later(v)
      BY <3>2
    <3>4. w \in later(v)
      BY <1>7, <3>1
    <3>5. w \notin later(w)
      BY <3>1
    <3> QED BY <3>3, <3>4, <3>5
  <2> HIDE DEF later, rank
  <2>2. Cardinality(later(w)) <= Cardinality(later(v))
    BY <1>5, <2>1, FS_Subset
  <2>3. Cardinality(later(w)) # Cardinality(later(v))
    BY <1>5, <2>1, FS_Subset
  <2>4. Cardinality(later(w)) \in Int /\ Cardinality(later(v)) \in Int
    BY <1>4, <1>5
  <2> QED BY <1>6, <2>2, <2>3, <2>4
<1>8. \A v, w \in V : rank[v] = rank[w] => v = w
  <2> HIDE DEF rank
  <2>1. \A v \in V : rank[v] \in Nat
    BY <1>6
  <2> QED BY <1>2, <1>7, <2>1
<1>9. \A k \in 1..n : \E v \in V : rank[v] = k
  <2> HIDE DEF rank
  <2>1. rank \in Injection(V, 1..n)
    BY <1>6, <1>8 DEF Injection, IsInjective
  <2>2. IsFiniteSet(1..n) /\ Cardinality(1..n) = n
    BY <1>4, FS_Interval
  <2>3. rank \in Surjection(V, 1..n)
    BY <1>2, <2>1, <2>2, FS_Injection
  <2> QED BY <2>3 DEF Surjection
<1>10. \A k \in 1..n : at[k] \in V /\ rank[at[k]] = k
  <2> SUFFICES ASSUME NEW k \in 1..n PROVE at[k] \in V /\ rank[at[k]] = k
    OBVIOUS
  <2>1. PICK v \in V : rank[v] = k
    BY <1>9
  <2>2. Cardinality(later(v)) = k - 1
    <3>1. Cardinality(later(v)) \in Int /\ rank[v] = 1 + Cardinality(later(v))
      <4> HIDE DEF later, rank
      <4> QED BY <1>4, <1>5, <1>6
    <3> HIDE DEF later, rank
    <3> QED BY <2>1, <3>1
  <2> HIDE DEF later
  <2>3. at[k] \in V /\ Cardinality(later(at[k])) = k - 1
    BY <2>2
  <2> HIDE DEF at, rank
  <2> QED BY <1>4, <1>6, <2>3
<1>11. at \in [1..n -> V]
  <2>1. at = [k \in 1..n |-> at[k]]
    OBVIOUS
  <2> HIDE DEF at
  <2> QED BY <1>10, <2>1
<1> HIDE DEF at, rank, later
<1>12. ASSUME NEW i \in 1..n, NEW j \in 1..n, i < j PROVE at[i] > at[j]
  <2>1. at[i] \in V /\ at[j] \in V /\ rank[at[i]] = i /\ rank[at[j]] = j
    BY <1>10
  <2>2. at[i] \in Nat /\ at[j] \in Nat
    BY <1>2, <2>1
  <2>3. at[i] # at[j]
    BY <1>12, <2>1
  <2>4. ~(at[i] < at[j])
    BY <1>7, <1>12, <2>1
  <2> QED BY <2>2, <2>3, <2>4
<1>13. ASSUME NEW v \in V PROVE \E k \in 1..n : at[k] = v
  <2>1. rank[v] \in 1..n
    BY <1>6
  <2> QED BY <1>8, <1>10, <2>1
<1> QED BY <1>11, <1>12, <1>13

\* What GroupPackageRecords answers: for each version among the packages it wants one
\* kernel, which tells of them, and the later versions first.
LEMMA AnswerGroups ==
    ASSUME NEW records \in Seq(PackageRecord), NEW sourceId \in SourceIds
    PROVE  LET kernels == GroupPackageRecords(records, sourceId)
               packages == WantedOf(records, Len(records), sourceId)
           IN  /\ {kernels[i].version : i \in DOMAIN kernels} = {p.version : p \in packages}
               /\ \A i, j \in DOMAIN kernels : i < j => kernels[i].version > kernels[j].version
               /\ \A i \in DOMAIN kernels :
                     /\ kernels[i] \in KernelRecord
                     /\ Tells(kernels[i], {p \in packages : p.version = kernels[i].version})
<1> DEFINE n == Len(records)
           grouped == Grouping(records, sourceId)[n]
           packages == WantedOf(records, n, sourceId)
           kernels == GroupPackageRecords(records, sourceId)
<1>1. n \in Nat /\ \A i \in 1..n : records[i] \in PackageRecord
  OBVIOUS
<1>2. Groups(grouped, packages)
  BY GroupingGroups
<1>3. kernels = SortedByVersion(grouped)
  BY DEF GroupPackageRecords
<1> HIDE DEF n, grouped, kernels
<1>4. DOMAIN grouped \in SUBSET Nat /\ IsFiniteSet(DOMAIN grouped)
  <2> DEFINE versions == [i \in 1..n |-> records[i].version]
  <2>1. DOMAIN grouped \in SUBSET Range(versions)
    BY <1>2 DEF Groups, WantedOf, Range
  <2>2. Range(versions) \in SUBSET Nat
    BY <1>1 DEF Range, PackageRecord
  <2>3. IsFiniteSet(Range(versions))
    <3>1. versions \in Surjection(1..n, Range(versions))
      BY DEF Surjection, Range
    <3>2. IsFiniteSet(1..n)
      BY <1>1, FS_Interval
    <3> HIDE DEF versions
    <3> QED BY <3>1, <3>2, FS_Surjection
  <2> HIDE DEF versions
  <2> QED BY <2>1, <2>2, <2>3, FS_Subset
<1> DEFINE m == Cardinality(DOMAIN grouped)
<1>5. PICK at \in [1..m -> DOMAIN grouped] :
         /\ SortedByVersion(grouped) = [k \in 1..m |-> grouped[at[k]]]
         /\ \A i, j \in 1..m : i < j => at[i] > at[j]
         /\ \A v \in DOMAIN grouped : \E k \in 1..m : at[k] = v
  BY <1>4, SortedIsDescending
<1> HIDE DEF m
<1>6. DOMAIN kernels = 1..m /\ \A k \in 1..m : kernels[k] = grouped[at[k]]
  BY <1>3, <1>5
<1>7. \A v \in DOMAIN grouped : /\ grouped[v] \in KernelRecord
                                /\ grouped[v].version = v
                                /\ Tells(grouped[v], {p \in packages : p.version = v})
  <2> HIDE DEF packages
  <2> QED BY <1>2 DEF Groups
<1>8. \A k \in 1..m : at[k] \in DOMAIN grouped /\ kernels[k].version = at[k]
  BY <1>5, <1>6, <1>7
<1>9. {kernels[i].version : i \in DOMAIN kernels} = DOMAIN grouped
  <2>1. {kernels[i].version : i \in DOMAIN kernels} = {at[k] : k \in 1..m}
    BY <1>6, <1>8
  <2>2. {at[k] : k \in 1..m} = DOMAIN grouped
    BY <1>5
  <2> QED BY <2>1, <2>2
<1>10. DOMAIN grouped = {p.version : p \in packages}
  <2> HIDE DEF packages
  <2> QED BY <1>2 DEF Groups
<1>11. ASSUME NEW i \in DOMAIN kernels, NEW j \in DOMAIN kernels, i < j
       PROVE  kernels[i].version > kernels[j].version
  <2>1. i \in 1..m /\ j \in 1..m
    BY <1>6
  <2>2. at[i] > at[j]
    BY <1>5, <1>11, <2>1
  <2>3. kernels[i].version = at[i] /\ kernels[j].version = at[j]
    BY <1>8, <2>1
  <2> QED BY <2>2, <2>3
<1>12. ASSUME NEW i \in DOMAIN kernels
       PROVE  /\ kernels[i] \in KernelRecord
              /\ Tells(kernels[i], {p \in packages : p.version = kernels[i].version})
  <2> HIDE DEF packages
  <2>1. at[i] \in DOMAIN grouped /\ kernels[i] = grouped[at[i]] /\ kernels[i].version = at[i]
    BY <1>6, <1>8
  <2> QED BY <1>7, <2>1
<1> HIDE DEF packages
<1>13. /\ {kernels[i].version : i \in DOMAIN kernels} = {p.version : p \in packages}
       /\ \A i, j \in DOMAIN kernels : i < j => kernels[i].version > kernels[j].version
       /\ \A i \in DOMAIN kernels :
             /\ kernels[i] \in KernelRecord
             /\ Tells(kernels[i], {p \in packages : p.version = kernels[i].version})
  BY <1>9, <1>10, <1>11, <1>12
<1> QED BY <1>13 DEF kernels, packages, n

-----------------------------------------------------------------------------
(***************************************************************************)
(* What is read of an output.                                              *)
(***************************************************************************)

\* The record of a line or an element has its name and version, its time if it is one,
\* and its checksum if it has one.
LEMMA ReadItems ==
    /\ \A line \in Lines :
          /\ LineRecord(line) \in PackageRecord
          /\ LineRecord(line).name = line.name
          /\ LineRecord(line).version = line.version
          /\ LineRecord(line).checksum = NoChecksum
          /\ LineRecord(line).buildTime = IF line.seconds > 0 /\ line.columns = 3
                                          THEN line.seconds ELSE NullDate
    /\ \A element \in Elements :
          /\ ElementRecord(element) \in PackageRecord
          /\ ElementRecord(element).name = element.name
          /\ ElementRecord(element).version = element.version
          /\ ElementRecord(element).checksum = element.checksum
          /\ ElementRecord(element).buildTime = IF element.seconds > 0
                                                THEN element.seconds ELSE NullDate
<1>1. \A seconds \in Int : /\ BuildTimeFromEpoch(seconds) \in Nat
                           /\ BuildTimeFromEpoch(seconds) = IF seconds > 0
                                                            THEN seconds ELSE NullDate
  BY DEF BuildTimeFromEpoch, NullDate
<1>2. ASSUME NEW line \in Lines
      PROVE  /\ LineRecord(line) \in PackageRecord
             /\ LineRecord(line).name = line.name
             /\ LineRecord(line).version = line.version
             /\ LineRecord(line).checksum = NoChecksum
             /\ LineRecord(line).buildTime = IF line.seconds > 0 /\ line.columns = 3
                                             THEN line.seconds ELSE NullDate
  <2>1. /\ line.name \in STRING /\ line.version \in Nat /\ line.seconds \in Int
        /\ line.columns \in 1..3
    BY ListedAssumption
  <2> DEFINE time == IF line.columns < 3 THEN NullDate ELSE BuildTimeFromEpoch(line.seconds)
  <2>2. /\ time \in Nat
        /\ time = IF line.seconds > 0 /\ line.columns = 3 THEN line.seconds ELSE NullDate
    BY <1>1, <2>1 DEF NullDate
  <2>3. LineRecord(line) = [name |-> line.name, version |-> line.version,
                            buildTime |-> time, checksum |-> NoChecksum]
    BY DEF LineRecord
  <2> HIDE DEF time
  <2>4. NoChecksum \in Checksum
    BY DEF Checksum
  <2> QED BY <2>1, <2>2, <2>3, <2>4 DEF PackageRecord
<1>3. ASSUME NEW element \in Elements
      PROVE  /\ ElementRecord(element) \in PackageRecord
             /\ ElementRecord(element).name = element.name
             /\ ElementRecord(element).version = element.version
             /\ ElementRecord(element).checksum = element.checksum
             /\ ElementRecord(element).buildTime = IF element.seconds > 0
                                                   THEN element.seconds ELSE NullDate
  <2>1. /\ element.name \in STRING /\ element.version \in Nat /\ element.seconds \in Int
        /\ element.checksum \in Checksum
    BY ListedAssumption DEF Checksum
  <2> QED BY <1>1, <2>1 DEF ElementRecord, PackageRecord
<1> QED BY <1>2, <1>3

\* The range of a list that one value is appended to.
LEMMA RangeGrows ==
    ASSUME NEW S, NEW seq \in Seq(S), NEW x \in S
    PROVE  Append(seq, x) \in Seq(S) /\ Range(Append(seq, x)) = Range(seq) \cup {x}
<1> DEFINE longer == Append(seq, x)
           n == Len(seq)
<1>1. n \in Nat /\ DOMAIN seq = 1..n
  OBVIOUS
<1>2. longer \in Seq(S) /\ Len(longer) = n + 1
  OBVIOUS
<1>3. DOMAIN longer = 1..(n + 1)
  <2> HIDE DEF longer
  <2> QED BY <1>2
<1>4. longer[n + 1] = x /\ \A i \in 1..n : longer[i] = seq[i]
  OBVIOUS
<1> HIDE DEF longer, n
<1>5. 1..(n + 1) = (1..n) \cup {n + 1}
  BY <1>1
<1> QED BY <1>1, <1>2, <1>3, <1>4, <1>5 DEF Range, longer

\* The lines that are not skipped, among the first m.
Readable(lines, m) == {lines[i] : i \in {k \in 1..m : lines[k].columns >= 2}}

\* The loop over the lines ends with the records of those it does not skip.
LEMMA LinesRead ==
    ASSUME NEW n \in Nat, NEW lines \in [1..n -> Lines]
    PROVE  LET records == LineRecords(lines)[Len(lines)]
           IN  /\ records \in Seq(PackageRecord)
               /\ Range(records) = {LineRecord(line) : line \in Readable(lines, n)}
<1> DEFINE records == LineRecords(lines)
           read(m) == {LineRecord(line) : line \in Readable(lines, m)}
           Good == {m \in 0..n : /\ records[m] \in Seq(PackageRecord)
                                 /\ Range(records[m]) = read(m)}
<1>1. Len(lines) = n /\ \A i \in 1..n : lines[i] \in Lines
  <2>1. lines \in Seq(Lines) /\ DOMAIN lines = 1..n
    OBVIOUS
  <2> QED BY <2>1
<1>2. /\ records[0] = <<>>
      /\ \A m \in 0..n : m # n =>
            records[m + 1] = IF lines[m + 1].columns < 2
                             THEN records[m]
                             ELSE Append(records[m], LineRecord(lines[m + 1]))
  BY <1>1, LineRounds
<1> HIDE DEF records
<1>3. 0 \in Good
  <2>1. read(0) = {}
    BY DEF Readable
  <2>2. <<>> \in Seq(PackageRecord) /\ Range(<<>>) = {}
    BY DEF Range
  <2>3. 0 \in 0..n
    OBVIOUS
  <2> HIDE DEF read
  <2> QED BY <1>2, <2>1, <2>2, <2>3
<1>4. ASSUME NEW m \in 0..n, m \in Good, m # n PROVE m + 1 \in Good
  <2> DEFINE line == lines[m + 1]
  <2>1. m + 1 \in 0..n /\ m + 1 \in 1..n /\ line \in Lines /\ 1..(m + 1) = (1..m) \cup {m + 1}
    BY <1>1, <1>4
  <2>2. LineRecord(line) \in PackageRecord /\ line.columns \in 1..3
    BY <2>1, ReadItems, ListedAssumption
  <2>3. records[m] \in Seq(PackageRecord) /\ Range(records[m]) = read(m)
    BY <1>4
  <2>4. CASE line.columns < 2
    <3>1. records[m + 1] = records[m]
      BY <1>2, <1>4, <2>4
    <3>2. Readable(lines, m + 1) = Readable(lines, m)
      BY <2>1, <2>2, <2>4 DEF Readable
    <3> QED BY <2>1, <2>3, <3>1, <3>2
  <2>5. CASE ~(line.columns < 2)
    <3>1. records[m + 1] = Append(records[m], LineRecord(line))
      BY <1>2, <1>4, <2>5
    <3>2. Readable(lines, m + 1) = Readable(lines, m) \cup {line}
      BY <2>1, <2>2, <2>5 DEF Readable
    <3>3. read(m + 1) = read(m) \cup {LineRecord(line)}
      <4> HIDE DEF line
      <4> QED BY <3>2
    <3>4. /\ records[m + 1] \in Seq(PackageRecord)
          /\ Range(records[m + 1]) = Range(records[m]) \cup {LineRecord(line)}
      <4> HIDE DEF line
      <4> QED BY <2>2, <2>3, <3>1, RangeGrows
    <3> HIDE DEF line, read
    <3> QED BY <2>1, <2>3, <3>3, <3>4
  <2> QED BY <2>4, <2>5
<1>5. n \in Good
  <2> HIDE DEF Good
  <2>1. \A m \in 0..n : m \in Good
    BY <1>3, <1>4, Rounds
  <2> QED BY <2>1
<1> QED BY <1>1, <1>5 DEF records

-----------------------------------------------------------------------------
(***************************************************************************)
(* The kernels an answer carries.                                          *)
(***************************************************************************)

\* A source with the kernels it answers is a source: what is proved of its fetches
\* holds whatever its programs write.
THEOREM AnswersAreFetches == AnswersSpec => Spec
<1>1. AnswersInit => Init
  BY DEF AnswersInit
<1>2. [AnswersNext]_answerVars => [Next]_vars
  <2>1. AnswersNext => Next
    BY DEF AnswersNext, fetchAvailable, repoqueryFinished, decompressFinished,
           networkAnswers, Next
  <2> QED BY <2>1 DEF answerVars
<1> QED
  BY <1>1, <1>2, PTL DEF AnswersSpec, Spec

\* How an answer comes about: the kernels are those read from the output, by the reader
\* of this kind of source.
FetchedIsParsed ==
    \A kernels \in fetched :
        /\ fetched = {kernels}
        /\ output \in Outputs(IF IsRepoquery THEN Lines ELSE Elements)
        /\ kernels = IF IsRepoquery
                     THEN ParseRepoqueryOutput(output, Id)
                     ELSE WithCompatibility(ParsePrimaryXml(output, Id))

\* A source has a repoquery, or requests and a decompressor, and never both.
KindDecides ==
    /\ repoquery_process_ # "nullptr" => IsRepoquery
    /\ decompress_process_ # "nullptr" => ~IsRepoquery
    /\ pending # {} => ~IsRepoquery

HostIsOne ==
    /\ variant_ \in {"CachyOsStable", "CachyOsLts", "none"}
    /\ kind = "CachyOs" => variant_ # "none"
    /\ \E level \in 1..4 : supports = 2..level

AnswersInv == KindDecides /\ HostIsOne /\ FetchedIsParsed

LEMMA InitAnswersInv == AnswersInit => AnswersInv
<1> SUFFICES ASSUME AnswersInit PROVE AnswersInv
  OBVIOUS
<1>1. KindDecides
  BY DEF AnswersInit, Init, KindDecides
<1>2. HostIsOne
  <2>1. variant_ \in IF kind = "CachyOs" THEN {"CachyOsStable", "CachyOsLts"} ELSE {"none"}
    BY DEF AnswersInit
  <2>2. \E level \in 1..4 : supports = 2..level
    <3>1. supports \in {2..level : level \in IF kind = "CachyOs" THEN 1..4 ELSE {1}}
      BY DEF AnswersInit
    <3> QED BY <3>1
  <2> QED BY <2>1, <2>2 DEF HostIsOne
<1>3. FetchedIsParsed
  BY DEF AnswersInit, FetchedIsParsed
<1> QED BY <1>1, <1>2, <1>3 DEF AnswersInv

LEMMA NextAnswersInv == AnswersInv /\ [AnswersNext]_answerVars => AnswersInv'
<1> SUFFICES ASSUME AnswersInv, [AnswersNext]_answerVars PROVE AnswersInv'
  OBVIOUS
<1>1. UNCHANGED <<kind, variant_, supports>>
  BY DEF AnswersNext, answerVars, vars, fetchAvailable, fetchFailsAtOnce, fetchWithRepoquery,
         fetchFromNetwork, CallerAsks, repoqueryFinished, finishRepoquery, decompressFinished,
         finishDecompress, networkAnswers, NetworkAnswers, onNetworkFinished, onNetworkFailed
<1>2. HostIsOne'
  BY <1>1 DEF AnswersInv, HostIsOne
<1>3. (IsRepoquery' <=> IsRepoquery) /\ Id' = Id
  BY <1>1 DEF IsRepoquery, Id
<1>4. \A kernels : WithCompatibility(kernels)' = WithCompatibility(kernels)
  BY <1>1, <1>3 DEF WithCompatibility
<1>5. ASSUME UNCHANGED <<output, fetched>> PROVE FetchedIsParsed'
  BY <1>1, <1>3, <1>5 DEF AnswersInv, FetchedIsParsed, WithCompatibility
<1>6. ASSUME fetched' = {} PROVE FetchedIsParsed'
  BY <1>6 DEF FetchedIsParsed
<1>7. CASE UNCHANGED answerVars
  BY <1>2, <1>3, <1>5, <1>7 DEF answerVars, vars, AnswersInv, KindDecides
<1>8. CASE fetchAvailable
  <2>1. KindDecides'
    <3>1. CASE fetchFailsAtOnce
      BY <1>3, <3>1 DEF fetchFailsAtOnce, AnswersInv, KindDecides
    <3>2. CASE fetchWithRepoquery
      <4>1. IsRepoquery
        BY <3>2 DEF fetchWithRepoquery, IsRepoquery
      <4> QED BY <1>3, <3>2, <4>1 DEF fetchWithRepoquery, AnswersInv, KindDecides
    <3>3. CASE fetchFromNetwork
      <4>1. ~IsRepoquery
        BY <3>3 DEF fetchFromNetwork, IsRepoquery
      <4> QED BY <1>3, <3>3, <4>1 DEF fetchFromNetwork, AnswersInv, KindDecides
    <3> QED BY <1>8, <3>1, <3>2, <3>3 DEF fetchAvailable
  <2> QED BY <1>2, <1>6, <1>8, <2>1 DEF fetchAvailable, AnswersInv
<1>9. CASE repoqueryFinished
  <2>1. IsRepoquery
    BY <1>9 DEF repoqueryFinished, finishRepoquery, AnswersInv, KindDecides
  <2>2. KindDecides'
    BY <1>3, <1>9, <2>1 DEF repoqueryFinished, finishRepoquery, AnswersInv, KindDecides
  <2>3. ASSUME NEW lines \in Outputs(Lines), FetchFinished(lines, ParseRepoqueryOutput(lines, Id))
        PROVE  FetchedIsParsed'
    <3>1. output' = lines /\ fetched' = {ParseRepoqueryOutput(lines, Id)}
      BY <2>3 DEF FetchFinished
    <3> QED BY <1>3, <2>1, <2>3, <3>1 DEF FetchedIsParsed
  <2>4. FetchedIsParsed'
    BY <1>5, <1>9, <2>3 DEF repoqueryFinished, NothingFetched
  <2> QED BY <1>2, <2>2, <2>4 DEF AnswersInv
<1>10. CASE decompressFinished
  <2>1. ~IsRepoquery
    BY <1>10 DEF decompressFinished, finishDecompress, AnswersInv, KindDecides
  <2>2. KindDecides'
    BY <1>3, <1>10, <2>1 DEF decompressFinished, finishDecompress, AnswersInv, KindDecides
  <2>3. ASSUME NEW elements \in Outputs(Elements),
               FetchFinished(elements, WithCompatibility(ParsePrimaryXml(elements, Id)))
        PROVE  FetchedIsParsed'
    <3>1. output' = elements /\ fetched' = {WithCompatibility(ParsePrimaryXml(elements, Id))}
      BY <2>3 DEF FetchFinished
    <3>2. WithCompatibility(ParsePrimaryXml(output, Id))'
             = WithCompatibility(ParsePrimaryXml(elements, Id))
      BY <1>1, <1>3, <3>1 DEF WithCompatibility
    <3> QED BY <1>3, <2>1, <2>3, <3>1, <3>2 DEF FetchedIsParsed
  <2>4. FetchedIsParsed'
    BY <1>5, <1>10, <2>3 DEF decompressFinished, NothingFetched
  <2> QED BY <1>2, <2>2, <2>4 DEF AnswersInv
<1>11. CASE networkAnswers
  <2>1. PICK id \in pending : NetworkAnswers(id)
    BY <1>11 DEF networkAnswers
  <2>2. ~IsRepoquery /\ repoquery_process_' = repoquery_process_
    BY <2>1 DEF AnswersInv, KindDecides, NetworkAnswers, onNetworkFinished, onNetworkFailed
  <2>3. KindDecides'
    BY <1>3, <2>2 DEF AnswersInv, KindDecides
  <2> QED BY <1>2, <1>5, <1>11, <2>3 DEF networkAnswers, NothingFetched, AnswersInv
<1> QED
  BY <1>7, <1>8, <1>9, <1>10, <1>11 DEF AnswersNext

-----------------------------------------------------------------------------
(***************************************************************************)
(* From the records back to the lines and elements of the output.          *)
(***************************************************************************)

OfVersion(items, v) == {item \in items : item.version = v}

RecordsOf(rec) == {rec[item] : item \in Wanted}

\* Each item looked for has been read as its record.
ReadAs(rec) ==
    \A item \in Wanted :
        /\ item.seconds \in Int
        /\ rec[item].name = item.name
        /\ rec[item].version = item.version
        /\ rec[item].checksum = IF IsRepoquery THEN NoChecksum ELSE item.checksum
        /\ rec[item].buildTime = IF item.seconds > 0 /\ (IsRepoquery => item.columns = 3)
                                 THEN item.seconds ELSE NullDate

\* A kernel that tells of the records of some items is made of these items.
LEMMA TellsOfItems ==
    ASSUME NEW rec, ReadAs(rec), NEW kernel, NEW v, Tells(kernel, OfVersion(RecordsOf(rec), v))
    PROVE  IsMadeOf(kernel, OfVersion(Wanted, v))
<1> DEFINE items == OfVersion(Wanted, v)
           packages == OfVersion(RecordsOf(rec), v)
           dates == {item.seconds : item \in Dated(items)}
           checksums == IF IsRepoquery THEN {} ELSE {item.checksum : item \in items} \ {NoChecksum}
<1>1. packages = {rec[item] : item \in items}
  BY DEF OfVersion, RecordsOf, ReadAs
<1>2. Tells(kernel, packages)
  OBVIOUS
<1>3. \A item \in items : item \in Wanted
  BY DEF OfVersion
<1> HIDE DEF items, packages
<1>4. {p.name : p \in packages} = {item.name : item \in items}
  BY <1>1, <1>3 DEF ReadAs
<1>5. {p.buildTime : p \in packages} \ {NullDate} = dates
  BY <1>1, <1>3 DEF Dated, NullDate, ReadAs
<1>6. {p.checksum : p \in packages} \ {NoChecksum} = checksums
  <2>1. CASE IsRepoquery
    <3>1. \A p \in packages : p.checksum = NoChecksum
      BY <1>1, <1>3, <2>1 DEF ReadAs
    <3> QED BY <2>1, <3>1
  <2>2. CASE ~IsRepoquery
    <3>1. {p.checksum : p \in packages} = {item.checksum : item \in items}
      BY <1>1, <1>3, <2>2 DEF ReadAs
    <3> QED BY <2>2, <3>1
  <2> QED BY <2>1, <2>2
<1> HIDE DEF dates, checksums
<1>7. /\ Range(kernel.subPackages) = {item.name : item \in items}
      /\ IsInjective(kernel.subPackages)
      /\ dates = {} => kernel.releaseDate = NullDate
      /\ dates # {} => kernel.releaseDate \in dates /\ \A d \in dates : kernel.releaseDate <= d
      /\ checksums = {} => kernel.sha256 = NoChecksum
      /\ checksums # {} => kernel.sha256 \in checksums
  BY <1>2, <1>4, <1>5, <1>6 DEF Tells
<1>8. IsMadeOf(kernel, items)
  BY <1>7 DEF IsMadeOf, dates, checksums
<1> QED BY <1>8 DEF items

\* The source's name, by which the readers choose what they look for.
LEMMA IdIsSource == HostIsOne => Id \in SourceIds
BY DEF HostIsOne, Id, SourceIds

\* What is looked for does not depend on more of a package than its name and version.
LEMMA WantedByName ==
    \A p, item, sourceId : p.name = item.name /\ p.version = item.version =>
        (IsKernelPackage(p, sourceId) <=> IsKernelPackage(item, sourceId))
BY DEF IsKernelPackage

\* The kernels read from the output of a repoquery.
LEMMA RepoqueryTells ==
    ASSUME HostIsOne, IsRepoquery, output \in Outputs(Lines)
    PROVE  LET kernels == ParseRepoqueryOutput(output, Id)
           IN  /\ {kernels[i].version : i \in DOMAIN kernels} = {item.version : item \in Wanted}
               /\ \A i, j \in DOMAIN kernels : i < j => kernels[i].version > kernels[j].version
               /\ \A i \in DOMAIN kernels :
                     IsMadeOf(kernels[i], {item \in Wanted : item.version = kernels[i].version})
<1>1. PICK n \in Nat : output \in [1..n -> Lines]
  BY ListedAssumption DEF Outputs
<1> DEFINE records == LineRecords(output)[Len(output)]
           packages == WantedOf(records, Len(records), Id)
           kernels == ParseRepoqueryOutput(output, Id)
           rec == [item \in Wanted |-> LineRecord(item)]
<1>2. /\ records \in Seq(PackageRecord)
      /\ Range(records) = {LineRecord(line) : line \in Readable(output, n)}
  BY <1>1, LinesRead
<1>3. kernels = GroupPackageRecords(records, Id)
  BY DEF ParseRepoqueryOutput
<1> HIDE DEF records, kernels
<1>4. /\ {kernels[i].version : i \in DOMAIN kernels} = {p.version : p \in packages}
      /\ \A i, j \in DOMAIN kernels : i < j => kernels[i].version > kernels[j].version
      /\ \A i \in DOMAIN kernels :
            Tells(kernels[i], {p \in packages : p.version = kernels[i].version})
  <2>1. Id \in SourceIds
    BY IdIsSource
  <2> DEFINE answered == GroupPackageRecords(records, Id)
  <2>2. /\ {answered[i].version : i \in DOMAIN answered} = {p.version : p \in packages}
        /\ \A i, j \in DOMAIN answered : i < j => answered[i].version > answered[j].version
        /\ \A i \in DOMAIN answered :
              /\ answered[i] \in KernelRecord
              /\ Tells(answered[i], {p \in packages : p.version = answered[i].version})
    BY <1>2, <2>1, AnswerGroups
  <2> HIDE DEF packages
  <2> QED BY <1>3, <2>2
<1>5. Wanted \in SUBSET Lines /\ Wanted = {l \in Readable(output, n) : IsKernelPackage(l, Id)}
  BY <1>1 DEF Wanted, Readable, Range
<1>6. packages = {LineRecord(item) : item \in Wanted}
  <2>1. packages = {p \in Range(records) : IsKernelPackage(p, Id)}
    <3>1. DOMAIN records = 1..Len(records)
      BY <1>2
    <3> QED BY <3>1 DEF WantedOf, Range
  <2>2. \A line \in Readable(output, n) :
           IsKernelPackage(LineRecord(line), Id) <=> IsKernelPackage(line, Id)
    <3>1. Readable(output, n) \in SUBSET Lines
      BY <1>1 DEF Readable
    <3> QED BY <3>1, ReadItems, WantedByName
  <2> HIDE DEF packages
  <2> QED BY <1>2, <1>5, <2>1, <2>2
<1>7. packages = {rec[item] : item \in Wanted}
  <2> HIDE DEF packages
  <2> QED BY <1>6
<1>8. ReadAs(rec)
  <2> SUFFICES ASSUME NEW item \in Wanted
               PROVE  /\ item.seconds \in Int
                      /\ LineRecord(item).name = item.name
                      /\ LineRecord(item).version = item.version
                      /\ LineRecord(item).checksum = NoChecksum
                      /\ LineRecord(item).buildTime = IF item.seconds > 0 /\ item.columns = 3
                                                      THEN item.seconds ELSE NullDate
    BY DEF ReadAs
  <2>1. item \in Lines
    BY <1>5
  <2> QED BY <2>1, ReadItems, ListedAssumption
<1>9. {p.version : p \in packages} = {item.version : item \in Wanted}
  <2> HIDE DEF packages, rec
  <2> QED BY <1>7, <1>8 DEF ReadAs
<1>10. ASSUME NEW i \in DOMAIN kernels
       PROVE  IsMadeOf(kernels[i], {item \in Wanted : item.version = kernels[i].version})
  <2> HIDE DEF packages, rec
  <2>1. Tells(kernels[i], OfVersion(RecordsOf(rec), kernels[i].version))
    BY <1>4, <1>7 DEF OfVersion, RecordsOf
  <2>2. IsMadeOf(kernels[i], OfVersion(Wanted, kernels[i].version))
    BY <1>8, <2>1, TellsOfItems
  <2> QED BY <2>2 DEF OfVersion
<1> HIDE DEF packages
<1> QED BY <1>4, <1>9, <1>10 DEF kernels

\* The kernels read from primary.xml.
LEMMA PrimaryXmlTells ==
    ASSUME HostIsOne, ~IsRepoquery, output \in Outputs(Elements)
    PROVE  LET kernels == ParsePrimaryXml(output, Id)
           IN  /\ {kernels[i].version : i \in DOMAIN kernels} = {item.version : item \in Wanted}
               /\ \A i, j \in DOMAIN kernels : i < j => kernels[i].version > kernels[j].version
               /\ \A i \in DOMAIN kernels :
                     /\ kernels[i] \in KernelRecord
                     /\ IsMadeOf(kernels[i], {item \in Wanted : item.version = kernels[i].version})
<1>1. PICK n \in Nat : output \in [1..n -> Elements]
  BY ListedAssumption DEF Outputs
<1> DEFINE records == [i \in DOMAIN output |-> ElementRecord(output[i])]
           packages == WantedOf(records, Len(records), Id)
           kernels == ParsePrimaryXml(output, Id)
           rec == [item \in Wanted |-> ElementRecord(item)]
<1>2. /\ records \in Seq(PackageRecord) /\ Len(records) = n
      /\ {records[i] : i \in 1..n} = {ElementRecord(element) : element \in Range(output)}
  <2>1. DOMAIN output = 1..n /\ \A i \in 1..n : output[i] \in Elements
    BY <1>1
  <2>2. \A i \in 1..n : ElementRecord(output[i]) \in PackageRecord
    BY <2>1, ReadItems
  <2>3. records \in [1..n -> PackageRecord]
    BY <2>1, <2>2
  <2>4. \A i \in 1..n : records[i] = ElementRecord(output[i])
    BY <2>1
  <2> HIDE DEF records
  <2>5. records \in Seq(PackageRecord) /\ Len(records) = n
    BY <2>3
  <2> QED BY <2>1, <2>4, <2>5 DEF Range
<1>3. kernels = GroupPackageRecords(records, Id)
  BY DEF ParsePrimaryXml
<1> HIDE DEF records, kernels
<1>4. /\ {kernels[i].version : i \in DOMAIN kernels} = {p.version : p \in packages}
      /\ \A i, j \in DOMAIN kernels : i < j => kernels[i].version > kernels[j].version
      /\ \A i \in DOMAIN kernels :
            /\ kernels[i] \in KernelRecord
            /\ Tells(kernels[i], {p \in packages : p.version = kernels[i].version})
  <2>1. Id \in SourceIds
    BY IdIsSource
  <2> DEFINE answered == GroupPackageRecords(records, Id)
  <2>2. /\ {answered[i].version : i \in DOMAIN answered} = {p.version : p \in packages}
        /\ \A i, j \in DOMAIN answered : i < j => answered[i].version > answered[j].version
        /\ \A i \in DOMAIN answered :
              /\ answered[i] \in KernelRecord
              /\ Tells(answered[i], {p \in packages : p.version = answered[i].version})
    BY <1>2, <2>1, AnswerGroups
  <2> HIDE DEF packages
  <2> QED BY <1>3, <2>2
<1>5. Wanted \in SUBSET Elements /\ Wanted = {e \in Range(output) : IsKernelPackage(e, Id)}
  BY <1>1 DEF Wanted, Range
<1>6. packages = {ElementRecord(item) : item \in Wanted}
  <2>1. packages = {p \in {records[i] : i \in 1..n} : IsKernelPackage(p, Id)}
    BY <1>2 DEF WantedOf
  <2>2. \A element \in Range(output) :
           IsKernelPackage(ElementRecord(element), Id) <=> IsKernelPackage(element, Id)
    <3>1. Range(output) \in SUBSET Elements
      BY <1>1 DEF Range
    <3> QED BY <3>1, ReadItems, WantedByName
  <2> HIDE DEF packages
  <2> QED BY <1>2, <1>5, <2>1, <2>2
<1>7. packages = {rec[item] : item \in Wanted}
  <2> HIDE DEF packages
  <2> QED BY <1>6
<1>8. ReadAs(rec)
  <2> SUFFICES ASSUME NEW item \in Wanted
               PROVE  /\ item.seconds \in Int
                      /\ ElementRecord(item).name = item.name
                      /\ ElementRecord(item).version = item.version
                      /\ ElementRecord(item).checksum = item.checksum
                      /\ ElementRecord(item).buildTime = IF item.seconds > 0
                                                      THEN item.seconds ELSE NullDate
    BY DEF ReadAs
  <2>1. item \in Elements
    BY <1>5
  <2> QED BY <2>1, ReadItems, ListedAssumption
<1>9. {p.version : p \in packages} = {item.version : item \in Wanted}
  <2> HIDE DEF packages, rec
  <2> QED BY <1>7, <1>8 DEF ReadAs
<1>10. ASSUME NEW i \in DOMAIN kernels
       PROVE  IsMadeOf(kernels[i], {item \in Wanted : item.version = kernels[i].version})
  <2> HIDE DEF packages, rec
  <2>1. Tells(kernels[i], OfVersion(RecordsOf(rec), kernels[i].version))
    BY <1>4, <1>7 DEF OfVersion, RecordsOf
  <2>2. IsMadeOf(kernels[i], OfVersion(Wanted, kernels[i].version))
    BY <1>8, <2>1, TellsOfItems
  <2> QED BY <2>2 DEF OfVersion
<1> HIDE DEF packages
<1> QED BY <1>4, <1>9, <1>10 DEF kernels

\* The compatibility of a CachyOS kernel.
LEMMA CompatibilityIsLevel ==
    HostIsOne /\ kind = "CachyOs" =>
        checkCompatibility(Id, supports)
            = {IF variant_ = "CachyOsLts" THEN 2 \in supports ELSE 3 \in supports}
<1> SUFFICES ASSUME HostIsOne, kind = "CachyOs"
             PROVE  checkCompatibility(Id, supports)
                       = {IF variant_ = "CachyOsLts" THEN 2 \in supports ELSE 3 \in supports}
  OBVIOUS
<1>1. PICK level \in 1..4 : supports = 2..level
  BY DEF HostIsOne
<1>2. DetectWithBuiltins(supports) = level
  BY <1>1 DEF DetectWithBuiltins
<1>3. Id = variant_ /\ variant_ \in {"CachyOsStable", "CachyOsLts"}
  BY DEF HostIsOne, Id
<1>4. CASE variant_ = "CachyOsLts"
  BY <1>1, <1>2, <1>3, <1>4 DEF checkCompatibility, SupportsLevel, requiredLevel
<1>5. CASE variant_ = "CachyOsStable"
  BY <1>1, <1>2, <1>3, <1>5 DEF checkCompatibility, SupportsLevel, requiredLevel
<1> QED BY <1>3, <1>4, <1>5

LEMMA ParsedTells == AnswersInv => AnswerTellsPackages
<1> SUFFICES ASSUME AnswersInv, NEW kernels \in fetched
    PROVE  /\ {kernels[i].version : i \in DOMAIN kernels} = {item.version : item \in Wanted}
           /\ \A i, j \in DOMAIN kernels : i < j => kernels[i].version > kernels[j].version
           /\ \A i \in DOMAIN kernels :
                 /\ IsMadeOf(kernels[i], {item \in Wanted : item.version = kernels[i].version})
                 /\ kind = "CachyOs" =>
                       kernels[i].compatibility
                           = {IF variant_ = "CachyOsLts" THEN 2 \in supports ELSE 3 \in supports}
  BY DEF AnswerTellsPackages
<1>1. HostIsOne
  BY DEF AnswersInv
<1>2. /\ output \in Outputs(IF IsRepoquery THEN Lines ELSE Elements)
      /\ kernels = IF IsRepoquery
                   THEN ParseRepoqueryOutput(output, Id)
                   ELSE WithCompatibility(ParsePrimaryXml(output, Id))
  BY DEF AnswersInv, FetchedIsParsed
<1>3. CASE IsRepoquery
  <2>1. kind # "CachyOs"
    BY <1>3 DEF IsRepoquery
  <2> QED BY <1>1, <1>2, <1>3, <2>1, RepoqueryTells
<1>4. CASE ~IsRepoquery
  <2> DEFINE bare == ParsePrimaryXml(output, Id)
             compatible == checkCompatibility(Id, supports)
  <2>1. /\ {bare[i].version : i \in DOMAIN bare} = {item.version : item \in Wanted}
        /\ \A i, j \in DOMAIN bare : i < j => bare[i].version > bare[j].version
        /\ \A i \in DOMAIN bare :
              /\ bare[i] \in KernelRecord
              /\ IsMadeOf(bare[i], {item \in Wanted : item.version = bare[i].version})
    BY <1>1, <1>2, <1>4, PrimaryXmlTells
  <2>2. kernels = [i \in DOMAIN bare |-> [bare[i] EXCEPT !.compatibility = compatible]]
    BY <1>2, <1>4 DEF WithCompatibility
  <2> HIDE DEF bare, compatible
  <2>3. ASSUME NEW i \in DOMAIN bare
        PROVE  /\ kernels[i].version = bare[i].version
               /\ kernels[i].subPackages = bare[i].subPackages
               /\ kernels[i].releaseDate = bare[i].releaseDate
               /\ kernels[i].sha256 = bare[i].sha256
               /\ kernels[i].compatibility = compatible
    BY <2>1, <2>2 DEF KernelRecord
  <2>4. DOMAIN kernels = DOMAIN bare
    BY <2>2
  <2>5. {kernels[i].version : i \in DOMAIN kernels} = {bare[i].version : i \in DOMAIN bare}
    BY <2>3, <2>4
  <2>6. ASSUME NEW i \in DOMAIN kernels
        PROVE  IsMadeOf(kernels[i], {item \in Wanted : item.version = kernels[i].version})
    <3>1. IsMadeOf(bare[i], {item \in Wanted : item.version = kernels[i].version})
      BY <2>1, <2>3, <2>4
    <3> QED BY <2>3, <2>4, <3>1 DEF IsMadeOf
  <2>7. kind = "CachyOs" =>
           compatible = {IF variant_ = "CachyOsLts" THEN 2 \in supports ELSE 3 \in supports}
    BY <1>1, CompatibilityIsLevel DEF compatible
  <2>8. \A i, j \in DOMAIN kernels : i < j => kernels[i].version > kernels[j].version
    BY <2>1, <2>3, <2>4
  <2> QED BY <2>1, <2>3, <2>4, <2>5, <2>6, <2>7, <2>8
<1> QED BY <1>3, <1>4

\* The answer of a source, whatever its program writes: every kernel a package of
\* which is listed, once, the later ones first; each with its packages, without
\* repeats, the earliest of their dates and one of their checksums, in whatever order
\* they come; and whether the processor has the level a CachyOS kernel is built for.
THEOREM AnswerTellsPackagesAlways == AnswersSpec => []AnswerTellsPackages
<1>1. AnswersInit => AnswersInv
  BY InitAnswersInv
<1>2. AnswersInv /\ [AnswersNext]_answerVars => AnswersInv'
  BY NextAnswersInv
<1>3. AnswersInv => AnswerTellsPackages
  BY ParsedTells
<1> QED BY <1>1, <1>2, <1>3, PTL DEF AnswersSpec

=============================================================================
