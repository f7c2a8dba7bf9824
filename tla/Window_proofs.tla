---------------------------- MODULE Window_proofs ----------------------------
(***************************************************************************)
(* Safety of the window for any sources, versions, notes and numbers of    *)
(* clicks and operations, and for any file it can find.                    *)
(***************************************************************************)
EXTENDS Window, FiniteSetTheorems, TLAPS

-----------------------------------------------------------------------------
(***************************************************************************)
(* Counting: a least number, and injections that are onto.                 *)
(***************************************************************************)

\* A nonempty set of numbers has a least one: of the intervals that end in them, one
\* contains no other.
LEMMA LeastNumber ==
    ASSUME NEW S \in SUBSET Nat, S # {}
    PROVE  \E i \in S : \A j \in S : i <= j
<1> DEFINE T == {1..i : i \in S}
           R == StrictSubsetOrdering(Nat)
<1>1. T \subseteq FiniteSubsetsOf(Nat)
  <2>1. \A i \in S : 1..i \in SUBSET Nat /\ IsFiniteSet(1..i)
    BY FS_Interval
  <2> QED BY <2>1 DEF FiniteSubsetsOf
<1>2. T # {}
  OBVIOUS
<1>3. PICK x \in T : \A y \in T : ~(<<y, x>> \in R)
  <2> HIDE DEF T
  <2> QED BY <1>1, <1>2, WFMin, FS_StrictSubsetOrderingWellFounded
<1>4. PICK i \in S : x = 1..i
  BY <1>3
<1>5. ASSUME NEW j \in S, j < i PROVE FALSE
  <2>1. 1..j \subseteq 1..i /\ 1..j # 1..i /\ 1..j \in SUBSET Nat /\ 1..i \in SUBSET Nat
    BY <1>5
  <2>2. <<1..j, 1..i>> \in R
    BY <2>1 DEF StrictSubsetOrdering
  <2> QED BY <1>3, <1>4, <2>2
<1> QED BY <1>5

\* An injection between finite sets of one size reaches every element.
LEMMA Onto ==
    ASSUME NEW S, IsFiniteSet(S), NEW n \in Nat, n = Cardinality(S), NEW f \in [1..n -> S],
           \A i, j \in 1..n : f[i] = f[j] => i = j
    PROVE  \A x \in S : \E i \in 1..n : f[i] = x
<1>1. f \in Injection(1..n, S)
  BY DEF Injection, IsInjective
<1>2. IsFiniteSet(1..n) /\ Cardinality(1..n) = n
  BY FS_Interval
<1>3. f \in Surjection(1..n, S)
  BY <1>1, <1>2, FS_Injection
<1> QED BY <1>3 DEF Surjection

-----------------------------------------------------------------------------
(***************************************************************************)
(* The rows of the table.                                                  *)
(***************************************************************************)

\* The first row of a version is one of its rows, if it has any.
LEMMA FirstRowIsOne ==
    ASSUME NEW kernels \in Seq(Row), NEW v
    PROVE  /\ RowsOf(kernels, v) = {} => FirstRow(kernels, v) = 0
           /\ RowsOf(kernels, v) # {} => FirstRow(kernels, v) \in RowsOf(kernels, v)
<1>1. RowsOf(kernels, v) \in SUBSET Nat
  BY DEF RowsOf
<1>2. ASSUME RowsOf(kernels, v) # {} PROVE FirstRow(kernels, v) \in RowsOf(kernels, v)
  <2>1. \E i \in RowsOf(kernels, v) : \A j \in RowsOf(kernels, v) : i <= j
    BY <1>1, <1>2, LeastNumber
  <2> QED BY <1>2, <2>1 DEF FirstRow
<1> QED BY <1>2 DEF FirstRow

\* A row with another pin or another note is a row.
LEMMA ChangedRow ==
    /\ \A kernels \in Seq(Row) : \A i \in DOMAIN kernels : kernels[i] \in Row
    /\ \A r \in Row, p \in BOOLEAN :
          /\ [r EXCEPT !.isPinned = p] \in Row
          /\ [r EXCEPT !.isPinned = p].version = r.version
          /\ [r EXCEPT !.isPinned = p].notes = r.notes
          /\ [r EXCEPT !.isPinned = p].isPinned = p
    /\ \A r \in Row, n \in Notes :
          /\ [r EXCEPT !.notes = n] \in Row
          /\ [r EXCEPT !.notes = n].version = r.version
          /\ [r EXCEPT !.notes = n].isPinned = r.isPinned
          /\ [r EXCEPT !.notes = n].notes = n
<1>1. \A kernels \in Seq(Row) : \A i \in DOMAIN kernels : kernels[i] \in Row
  OBVIOUS
<1>2. \A r \in Row, p \in BOOLEAN :
          /\ [r EXCEPT !.isPinned = p] \in Row
          /\ [r EXCEPT !.isPinned = p].version = r.version
          /\ [r EXCEPT !.isPinned = p].notes = r.notes
          /\ [r EXCEPT !.isPinned = p].isPinned = p
  BY DEF Row
<1>3. \A r \in Row, n \in Notes :
          /\ [r EXCEPT !.notes = n] \in Row
          /\ [r EXCEPT !.notes = n].version = r.version
          /\ [r EXCEPT !.notes = n].isPinned = r.isPinned
          /\ [r EXCEPT !.notes = n].notes = n
  BY DEF Row
<1> QED BY <1>1, <1>2, <1>3

\* setKernelPinned makes a row of the version show the pin, and changes no row of
\* another and no note.
LEMMA PinnedRows ==
    ASSUME NEW kernels \in Seq(Row), NEW v, NEW pinned \in BOOLEAN
    PROVE  /\ setKernelPinned(kernels, v, pinned) \in Seq(Row)
           /\ Len(setKernelPinned(kernels, v, pinned)) = Len(kernels)
           /\ \/ PinsOf(setKernelPinned(kernels, v, pinned), v) = {}
              \/ pinned \in PinsOf(setKernelPinned(kernels, v, pinned), v)
           /\ \A w : w # v =>
                 PinsOf(setKernelPinned(kernels, v, pinned), w) = PinsOf(kernels, w)
           /\ \A w : NotesOf(setKernelPinned(kernels, v, pinned), w) = NotesOf(kernels, w)
<1> DEFINE row == FirstRow(kernels, v)
           new == setKernelPinned(kernels, v, pinned)
<1>1. CASE RowsOf(kernels, v) = {}
  <2>1. new = kernels
    BY <1>1, FirstRowIsOne DEF setKernelPinned
  <2> QED BY <1>1, <2>1 DEF PinsOf
<1>2. CASE RowsOf(kernels, v) # {}
  <2>1. row \in DOMAIN kernels /\ kernels[row].version = v /\ row # 0
    BY <1>2, FirstRowIsOne DEF RowsOf
  <2> HIDE DEF row
  <2>2. new = [kernels EXCEPT ![row].isPinned = pinned]
    BY <2>1 DEF setKernelPinned, row
  <2>3. /\ new \in Seq(Row) /\ Len(new) = Len(kernels) /\ DOMAIN new = DOMAIN kernels
        /\ new[row].isPinned = pinned
        /\ \A i \in DOMAIN kernels :
              /\ new[i].version = kernels[i].version /\ new[i].notes = kernels[i].notes
              /\ i # row => new[i] = kernels[i]
    <3>1. /\ kernels[row] \in Row
          /\ [kernels[row] EXCEPT !.isPinned = pinned] \in Row
          /\ [kernels[row] EXCEPT !.isPinned = pinned].version = kernels[row].version
          /\ [kernels[row] EXCEPT !.isPinned = pinned].notes = kernels[row].notes
          /\ [kernels[row] EXCEPT !.isPinned = pinned].isPinned = pinned
      BY <2>1, ChangedRow
    <3> DEFINE changed == [kernels[row] EXCEPT !.isPinned = pinned]
    <3>2. new = [kernels EXCEPT ![row] = changed]
      BY <2>2
    <3> HIDE DEF changed, new
    <3>3. /\ new \in Seq(Row) /\ Len(new) = Len(kernels) /\ DOMAIN new = DOMAIN kernels
          /\ new[row] = changed
          /\ \A i \in DOMAIN kernels : i # row => new[i] = kernels[i]
      BY <2>1, <3>1, <3>2 DEF changed
    <3> QED BY <3>1, <3>3 DEF changed
  <2> HIDE DEF new
  <2>4. \A w : RowsOf(new, w) = RowsOf(kernels, w)
    BY <2>3 DEF RowsOf
  <2>5. \A w : w # v => row \notin RowsOf(kernels, w)
    BY <2>1 DEF RowsOf
  <2>6. \A w : \A i \in RowsOf(kernels, w) : i \in DOMAIN kernels
    BY DEF RowsOf
  <2>7. row \in RowsOf(new, v)
    BY <2>1, <2>4 DEF RowsOf
  <2>8. pinned \in PinsOf(new, v)
    BY <2>3, <2>7 DEF PinsOf
  <2>9. \A w : w # v => PinsOf(new, w) = PinsOf(kernels, w)
    BY <2>3, <2>4, <2>5, <2>6 DEF PinsOf
  <2>10. \A w : NotesOf(new, w) = NotesOf(kernels, w)
    BY <2>3, <2>4, <2>6 DEF NotesOf
  <2> QED BY <2>3, <2>8, <2>9, <2>10 DEF new
<1> QED BY <1>1, <1>2

\* setKernelNote, in the same way.
LEMMA NotedRows ==
    ASSUME NEW kernels \in Seq(Row), NEW v, NEW note \in Notes
    PROVE  /\ setKernelNote(kernels, v, note) \in Seq(Row)
           /\ Len(setKernelNote(kernels, v, note)) = Len(kernels)
           /\ \/ NotesOf(setKernelNote(kernels, v, note), v) = {}
              \/ note \in NotesOf(setKernelNote(kernels, v, note), v)
           /\ \A w : w # v =>
                 NotesOf(setKernelNote(kernels, v, note), w) = NotesOf(kernels, w)
           /\ \A w : PinsOf(setKernelNote(kernels, v, note), w) = PinsOf(kernels, w)
<1> DEFINE row == FirstRow(kernels, v)
           new == setKernelNote(kernels, v, note)
<1>1. CASE RowsOf(kernels, v) = {}
  <2>1. new = kernels
    BY <1>1, FirstRowIsOne DEF setKernelNote
  <2> QED BY <1>1, <2>1 DEF NotesOf
<1>2. CASE RowsOf(kernels, v) # {}
  <2>1. row \in DOMAIN kernels /\ kernels[row].version = v /\ row # 0
    BY <1>2, FirstRowIsOne DEF RowsOf
  <2> HIDE DEF row
  <2>2. new = [kernels EXCEPT ![row].notes = note]
    BY <2>1 DEF setKernelNote, row
  <2>3. /\ new \in Seq(Row) /\ Len(new) = Len(kernels) /\ DOMAIN new = DOMAIN kernels
        /\ new[row].notes = note
        /\ \A i \in DOMAIN kernels :
              /\ new[i].version = kernels[i].version /\ new[i].isPinned = kernels[i].isPinned
              /\ i # row => new[i] = kernels[i]
    <3>1. /\ kernels[row] \in Row
          /\ [kernels[row] EXCEPT !.notes = note] \in Row
          /\ [kernels[row] EXCEPT !.notes = note].version = kernels[row].version
          /\ [kernels[row] EXCEPT !.notes = note].isPinned = kernels[row].isPinned
          /\ [kernels[row] EXCEPT !.notes = note].notes = note
      BY <2>1, ChangedRow
    <3> DEFINE changed == [kernels[row] EXCEPT !.notes = note]
    <3>2. new = [kernels EXCEPT ![row] = changed]
      BY <2>2
    <3> HIDE DEF changed, new
    <3>3. /\ new \in Seq(Row) /\ Len(new) = Len(kernels) /\ DOMAIN new = DOMAIN kernels
          /\ new[row] = changed
          /\ \A i \in DOMAIN kernels : i # row => new[i] = kernels[i]
      BY <2>1, <3>1, <3>2 DEF changed
    <3> QED BY <3>1, <3>3 DEF changed
  <2> HIDE DEF new
  <2>4. \A w : RowsOf(new, w) = RowsOf(kernels, w)
    BY <2>3 DEF RowsOf
  <2>5. \A w : w # v => row \notin RowsOf(kernels, w)
    BY <2>1 DEF RowsOf
  <2>6. \A w : \A i \in RowsOf(kernels, w) : i \in DOMAIN kernels
    BY DEF RowsOf
  <2>7. row \in RowsOf(new, v)
    BY <2>1, <2>4 DEF RowsOf
  <2>8. note \in NotesOf(new, v)
    BY <2>3, <2>7 DEF NotesOf
  <2>9. \A w : w # v => NotesOf(new, w) = NotesOf(kernels, w)
    BY <2>3, <2>4, <2>5, <2>6 DEF NotesOf
  <2>10. \A w : PinsOf(new, w) = PinsOf(kernels, w)
    BY <2>3, <2>4, <2>6 DEF PinsOf
  <2> QED BY <2>3, <2>8, <2>9, <2>10 DEF new
<1> QED BY <1>1, <1>2

\* The order of the source column is a strict one, and what it leaves open is of one
\* source.
LEMMA SourceOrder ==
    ASSUME NEW priority \in [Sources -> Int], NEW a \in Row, NEW b \in Row, NEW c \in Row
    PROVE  /\ ~LessBySource(a, a, priority)
           /\ LessBySource(a, b, priority) => ~LessBySource(b, a, priority)
           /\ LessBySource(a, b, priority) /\ ~LessBySource(c, b, priority) =>
                 LessBySource(a, c, priority)
           /\ ~LessBySource(b, a, priority) /\ LessBySource(b, c, priority) =>
                 LessBySource(a, c, priority)
           /\ ~LessBySource(b, a, priority) /\ ~LessBySource(c, b, priority) =>
                 ~LessBySource(c, a, priority)
<1>1. /\ a.sourceId \in Sources /\ b.sourceId \in Sources /\ c.sourceId \in Sources
      /\ a.sourceId \in Int /\ b.sourceId \in Int /\ c.sourceId \in Int
  <2>1. Sources \subseteq Int
    BY ConfigurationAssumption
  <2> QED BY <2>1 DEF Row
<1>2. /\ priority[a.sourceId] \in Int /\ priority[b.sourceId] \in Int
      /\ priority[c.sourceId] \in Int
  BY <1>1
<1> QED BY <1>1, <1>2 DEF LessBySource

\* So is the order of the rows, which leaves nothing open.
LEMMA RowOrder ==
    ASSUME NEW priority \in [Sources -> Int], NEW kernels \in Seq(Row),
           NEW i \in DOMAIN kernels, NEW j \in DOMAIN kernels, NEW k \in DOMAIN kernels
    PROVE  /\ ~Before(kernels, priority, i, i)
           /\ i # j => Before(kernels, priority, i, j) \/ Before(kernels, priority, j, i)
           /\ Before(kernels, priority, i, j) /\ Before(kernels, priority, j, k) =>
                 Before(kernels, priority, i, k)
<1>1. kernels[i] \in Row /\ kernels[j] \in Row /\ kernels[k] \in Row
  BY ChangedRow
<1>2. i \in Nat /\ j \in Nat /\ k \in Nat
  OBVIOUS
<1> DEFINE L(x, y) == LessBySource(kernels[x], kernels[y], priority)
<1>3. /\ ~L(i, i)
      /\ L(i, j) /\ ~L(k, j) => L(i, k)
      /\ ~L(j, i) /\ L(j, k) => L(i, k)
      /\ ~L(j, i) /\ ~L(k, j) => ~L(k, i)
      /\ L(j, k) => ~L(k, j)
  BY <1>1, SourceOrder
<1> HIDE DEF L
<1> QED BY <1>2, <1>3 DEF Before, L

\* Sorting moves the rows and neither loses nor makes one.
LEMMA SortedRows ==
    ASSUME NEW priority \in [Sources -> Int], NEW kernels \in Seq(Row)
    PROVE  /\ sortRows(kernels, priority) \in Seq(Row)
           /\ Len(sortRows(kernels, priority)) = Len(kernels)
           /\ \A k \in DOMAIN kernels : \E i \in DOMAIN kernels :
                 sortRows(kernels, priority)[k] = kernels[i]
           /\ \A i \in DOMAIN kernels : \E k \in DOMAIN kernels :
                 sortRows(kernels, priority)[k] = kernels[i]
<1> DEFINE n == Len(kernels)
           before(j, i) == Before(kernels, priority, j, i)
           earlier(i) == {j \in DOMAIN kernels : before(j, i)}
           place == [i \in 1..n |-> PlaceOf(kernels, priority, i)]
           sorted == sortRows(kernels, priority)
<1>1. n \in Nat /\ DOMAIN kernels = 1..n /\ IsFiniteSet(1..n) /\ Cardinality(1..n) = n
  <2>1. n \in Nat /\ DOMAIN kernels = 1..n
    OBVIOUS
  <2> HIDE DEF n
  <2> QED BY <2>1, FS_Interval
<1> HIDE DEF n
<1>2. \A i \in 1..n : /\ earlier(i) \in SUBSET ((1..n) \ {i})
                      /\ IsFiniteSet(earlier(i))
                      /\ Cardinality(earlier(i)) \in 0..(n - 1)
  <2> SUFFICES ASSUME NEW i \in 1..n
               PROVE  /\ earlier(i) \in SUBSET ((1..n) \ {i})
                      /\ IsFiniteSet(earlier(i))
                      /\ Cardinality(earlier(i)) \in 0..(n - 1)
    OBVIOUS
  <2>1. earlier(i) \in SUBSET ((1..n) \ {i})
    BY <1>1, RowOrder
  <2>2. IsFiniteSet((1..n) \ {i}) /\ Cardinality((1..n) \ {i}) = n - 1
    BY <1>1, FS_RemoveElement
  <2> HIDE DEF earlier
  <2>3. IsFiniteSet(earlier(i)) /\ Cardinality(earlier(i)) <= n - 1
    BY <2>1, <2>2, FS_Subset
  <2> QED BY <1>1, <2>1, <2>3, FS_CardinalityType
<1>3. place \in [1..n -> 1..n] /\ \A i \in 1..n : place[i] = 1 + Cardinality(earlier(i))
  <2> HIDE DEF earlier
  <2>1. \A i \in 1..n : PlaceOf(kernels, priority, i) = 1 + Cardinality(earlier(i))
    BY DEF PlaceOf, earlier
  <2> QED BY <1>1, <1>2, <2>1
<1>4. ASSUME NEW i \in 1..n, NEW j \in 1..n, before(i, j) PROVE place[i] # place[j]
  <2>1. earlier(i) \in SUBSET earlier(j)
    BY <1>1, <1>4, RowOrder
  <2>2. i \in earlier(j) /\ i \notin earlier(i)
    BY <1>1, <1>4, RowOrder
  <2> HIDE DEF earlier, place
  <2>3. Cardinality(earlier(i)) # Cardinality(earlier(j))
    BY <1>2, <2>1, <2>2, FS_Subset
  <2>4. Cardinality(earlier(i)) \in Int /\ Cardinality(earlier(j)) \in Int
    BY <1>1, <1>2
  <2> QED BY <1>3, <2>3, <2>4
<1>5. \A i, j \in 1..n : place[i] = place[j] => i = j
  <2> HIDE DEF place
  <2> QED BY <1>1, <1>4, RowOrder
<1>6. \A k \in 1..n : \E i \in 1..n : place[i] = k
  <2> HIDE DEF place
  <2>1. place \in Injection(1..n, 1..n)
    BY <1>3, <1>5 DEF Injection, IsInjective
  <2>2. place \in Surjection(1..n, 1..n)
    BY <1>1, <2>1, FS_Injection
  <2> QED BY <2>2 DEF Surjection
<1> DEFINE at(k) == CHOOSE i \in 1..n : PlaceOf(kernels, priority, i) = k
<1>7. \A k \in 1..n : at(k) \in 1..n /\ place[at(k)] = k
  BY <1>6
<1>8. sorted = [k \in 1..n |-> kernels[at(k)]]
  BY <1>1 DEF sortRows
<1> HIDE DEF at, place, sorted
<1>9. \A i \in 1..n : at(place[i]) = i
  BY <1>3, <1>5, <1>7
<1>10. \A k \in 1..n : sorted[k] = kernels[at(k)] /\ kernels[at(k)] \in Row
  BY <1>1, <1>7, <1>8, ChangedRow
<1>11. sorted \in Seq(Row) /\ Len(sorted) = n
  BY <1>1, <1>8, <1>10
<1>12. \A i \in 1..n : \E k \in 1..n : sorted[k] = kernels[i]
  BY <1>3, <1>9, <1>10
<1> QED BY <1>1, <1>7, <1>10, <1>11, <1>12 DEF sorted, n

\* So what the rows of a version show, they show after sorting.
LEMMA SortedShow ==
    ASSUME NEW priority \in [Sources -> Int], NEW kernels \in Seq(Row), NEW v
    PROVE  /\ PinsOf(sortRows(kernels, priority), v) = PinsOf(kernels, v)
           /\ NotesOf(sortRows(kernels, priority), v) = NotesOf(kernels, v)
<1> DEFINE sorted == sortRows(kernels, priority)
<1>1. /\ DOMAIN sorted = DOMAIN kernels
      /\ \A k \in DOMAIN kernels : \E i \in DOMAIN kernels : sorted[k] = kernels[i]
      /\ \A i \in DOMAIN kernels : \E k \in DOMAIN kernels : sorted[k] = kernels[i]
  <2>1. sorted \in Seq(Row) /\ Len(sorted) = Len(kernels)
    BY SortedRows
  <2>2. DOMAIN sorted = DOMAIN kernels
    <3> HIDE DEF sorted
    <3> QED BY <2>1
  <2>3. /\ \A k \in DOMAIN kernels : \E i \in DOMAIN kernels : sorted[k] = kernels[i]
        /\ \A i \in DOMAIN kernels : \E k \in DOMAIN kernels : sorted[k] = kernels[i]
    BY SortedRows, Zenon
  <2> QED BY <2>2, <2>3
<1> HIDE DEF sorted
<1>2. \A k \in RowsOf(sorted, v) : \E i \in RowsOf(kernels, v) : sorted[k] = kernels[i]
  BY <1>1 DEF RowsOf
<1>3. \A i \in RowsOf(kernels, v) : \E k \in RowsOf(sorted, v) : sorted[k] = kernels[i]
  BY <1>1 DEF RowsOf
<1>4. PinsOf(sorted, v) = PinsOf(kernels, v)
  BY <1>2, <1>3 DEF PinsOf
<1>5. NotesOf(sorted, v) = NotesOf(kernels, v)
  BY <1>2, <1>3 DEF NotesOf
<1> QED BY <1>4, <1>5 DEF sorted

\* There are finitely many kernels a refresh can find.
LEMMA FiniteKernels == IsFiniteSet(KernelInfo(Sources, Versions))
<1> DEFINE triples == (Sources \X Versions) \X KernelStatus
           kernel == [t \in triples |-> [sourceId |-> t[1][1], version |-> t[1][2], status |-> t[2]]]
<1>1. IsFiniteSet(Sources) /\ IsFiniteSet(Versions)
  BY ConfigurationAssumption, WindowAssumption
<1>2. IsFiniteSet(KernelStatus)
  <2>1. IsFiniteSet({"Available"} \cup {"Installed"} \cup {"InstalledRunning"} \cup {"UpdateAvailable"})
    BY FS_Singleton, FS_Union
  <2>2. KernelStatus =
            {"Available"} \cup {"Installed"} \cup {"InstalledRunning"} \cup {"UpdateAvailable"}
    BY DEF KernelStatus
  <2> QED BY <2>1, <2>2
<1>3. IsFiniteSet(triples)
  BY <1>1, <1>2, FS_Product
<1>4. kernel \in Surjection(triples, KernelInfo(Sources, Versions))
  <2>1. kernel \in [triples -> KernelInfo(Sources, Versions)]
    BY DEF KernelInfo
  <2>2. ASSUME NEW k \in KernelInfo(Sources, Versions) PROVE \E t \in triples : kernel[t] = k
    <3> DEFINE t == <<<<k.sourceId, k.version>>, k.status>>
    <3>1. t \in triples
      BY DEF KernelInfo
    <3>2. kernel[t] = k
      BY <3>1 DEF KernelInfo
    <3> QED BY <3>1, <3>2
  <2> QED BY <2>1, <2>2 DEF Surjection
<1> QED BY <1>3, <1>4, FS_Surjection

\* What is published is a list of kernels.
LEMMA PublishedLists ==
    ASSUME NEW list \in Published
    PROVE  list \in SUBSET KernelInfo(Sources, Versions)
<1>1. PICK offered \in [Sources -> SUBSET Versions], installed \in SUBSET Versions :
          list = mergeKernelLists(UNION {AvailableFrom(s, offered[s]) : s \in Sources},
                                  InstalledFrom(Fedora, Running, installed))
  BY DEF Published
<1> DEFINE a == UNION {AvailableFrom(s, offered[s]) : s \in Sources}
           i == InstalledFrom(Fedora, Running, installed)
<1>2. \A s \in Sources : AvailableFrom(s, offered[s]) \subseteq KernelInfo(Sources, Versions)
  BY DEF AvailableFrom, KernelInfo, KernelStatus
<1>3. a \subseteq KernelInfo(Sources, Versions)
  BY <1>2
<1>4. i \subseteq KernelInfo(Sources, Versions)
  BY WindowAssumption DEF InstalledFrom, KernelInfo, KernelStatus
<1> HIDE DEF a, i
<1>5. \A versions : \A k \in KernelInfo(Sources, Versions) :
          MarkInstalled(k, versions) \in KernelInfo(Sources, Versions)
  BY DEF MarkInstalled, KernelInfo, KernelStatus
<1>6. mergeKernelLists(a, i) \subseteq KernelInfo(Sources, Versions)
  BY <1>3, <1>4, <1>5 DEF mergeKernelLists
<1> QED BY <1>1, <1>6 DEF a, i

\* The reads that can fail for a list, and the rows that are then made of it.
Failing(list) == [list -> SUBSET {"pin", "note"}]
RowsMade(list, failing, priority) ==
    setKernels({applyState(k, failing[k]) : k \in list}, priority)

\* The rows made of a published list are rows, each of what was read for one of its
\* kernels: what the store says, or nothing.
LEMMA PublishedRows ==
    ASSUME notes \in [Versions -> Notes], NEW priority, NEW list \in Published,
           NEW failing \in Failing(list), NEW rows \in RowsMade(list, failing, priority)
    PROVE  /\ rows \in Seq(Row)
           /\ \A i \in DOMAIN rows : \E k \in list :
                 /\ rows[i].version = k.version
                 /\ rows[i].isPinned => k.version \in pins
                 /\ rows[i].notes \in {notes[k.version], NoNote}
                 /\ isOpen /\ "pin" \notin failing[k] => (rows[i].isPinned <=> k.version \in pins)
                 /\ isOpen /\ "note" \notin failing[k] => rows[i].notes = notes[k.version]
<1> DEFINE row(k) == applyState(k, failing[k])
           made == {row(k) : k \in list}
           f == [k \in list |-> row(k)]
<1>1. list \in SUBSET KernelInfo(Sources, Versions) /\ IsFiniteSet(list)
  BY PublishedLists, FiniteKernels, FS_Subset
<1>2. \A k \in list :
          /\ row(k) \in Row
          /\ row(k).version = k.version
          /\ row(k).isPinned => k.version \in pins
          /\ row(k).notes \in {notes[k.version], NoNote}
          /\ isOpen /\ "pin" \notin failing[k] => (row(k).isPinned <=> k.version \in pins)
          /\ isOpen /\ "note" \notin failing[k] => row(k).notes = notes[k.version]
  <2> SUFFICES ASSUME NEW k \in list
               PROVE  /\ row(k) \in Row
                      /\ row(k).version = k.version
                      /\ row(k).isPinned => k.version \in pins
                      /\ row(k).notes \in {notes[k.version], NoNote}
                      /\ isOpen /\ "pin" \notin failing[k] =>
                            (row(k).isPinned <=> k.version \in pins)
                      /\ isOpen /\ "note" \notin failing[k] => row(k).notes = notes[k.version]
    OBVIOUS
  <2> DEFINE pin  == isOpen /\ "pin" \notin failing[k] /\ k.version \in pins
             note == IF isOpen /\ "note" \notin failing[k] THEN notes[k.version] ELSE NoNote
  <2>1. k.sourceId \in Sources /\ k.version \in Versions /\ k.status \in KernelStatus
    BY <1>1 DEF KernelInfo
  <2>2. pin \in BOOLEAN /\ note \in Notes /\ note \in {notes[k.version], NoNote}
    BY <2>1, WindowAssumption
  <2>3. pin => k.version \in pins
    OBVIOUS
  <2>4. /\ isOpen /\ "pin" \notin failing[k] => (pin <=> k.version \in pins)
        /\ isOpen /\ "note" \notin failing[k] => note = notes[k.version]
    OBVIOUS
  <2>5. row(k) = [sourceId |-> k.sourceId, version |-> k.version, status |-> k.status,
                  isPinned |-> pin, notes |-> note]
    BY DEF applyState
  <2> HIDE DEF pin, note, row
  <2>6. row(k) \in Row
    BY <2>1, <2>2, <2>5 DEF Row
  <2>7. row(k).version = k.version /\ row(k).isPinned = pin /\ row(k).notes = note
    BY <2>5
  <2> QED BY <2>2, <2>3, <2>4, <2>6, <2>7
<1> HIDE DEF row
<1>3. f \in Surjection(list, made)
  BY DEF Surjection
<1>4. IsFiniteSet(made) /\ Cardinality(made) \in Nat
  BY <1>1, <1>3, FS_Surjection, FS_CardinalityType
<1>5. rows \in [1..Cardinality(made) -> made]
  BY DEF setKernels, RowsMade, row
<1>6. \A r \in made : \E k \in list : r = row(k)
  OBVIOUS
<1> HIDE DEF made
<1>7. \A i \in DOMAIN rows : rows[i] \in made
  BY <1>5
<1>8. \A r \in made : r \in Row
  BY <1>2, <1>6
<1>9. rows \in Seq(Row)
  BY <1>4, <1>5, <1>8
<1>10. \A i \in DOMAIN rows : \E k \in list : rows[i] = row(k)
  BY <1>6, <1>7
<1> QED BY <1>2, <1>9, <1>10

-----------------------------------------------------------------------------
(***************************************************************************)
(* The configuration and its dialog.                                       *)
(***************************************************************************)

\* What the dialog shows and the user did not change is what is in memory.
DialogShows ==
    dialog # Closed =>
        /\ "priorities" \notin dialog.edited => dialog.order \in OrdersOf(config_)
        /\ "interval" \notin dialog.edited => dialog.interval = IntervalShown(config_)
        /\ "theme" \notin dialog.edited => dialog.theme = config_["theme"]

\* What the dialog does not show is in memory as the file says it, if it was read.
UnshownKept == loaded /\ "unshown" \in DOMAIN file => config_["unshown"] = file["unshown"]

\* A file that was missing holds, if anything, the defaults of what is not shown.
MissingMeansDefaults ==
    cliLoading \/ file = Missing =>
        /\ file # Unreadable
        /\ config_["unshown"] = DefaultRest
        /\ "unshown" \in DOMAIN file => file["unshown"] = DefaultRest

ConfigInv ==
    /\ ConfigurationTypeOK
    /\ ~running => dialog = Closed
    /\ DialogShows
    /\ UnshownKept
    /\ MissingMeansDefaults

LEMMA ConfigurationsAreReadable ==
    /\ \A c : IsConfiguration(c) => c \notin {Missing, Unreadable}
    /\ "unshown" \notin DOMAIN Missing /\ "unshown" \notin DOMAIN Unreadable
    /\ Missing # Unreadable
<1>1. DOMAIN Missing = {"missing"} /\ DOMAIN Unreadable = {"unreadable"}
  BY DEF Missing, Unreadable
<1> QED BY <1>1 DEF IsConfiguration, ConfigKeys

\* What is in memory is a configuration with all keys.
Complete(c) == IsConfiguration(c) /\ DOMAIN c = ConfigKeys

LEMMA DefaultsComplete == Complete(DefaultConfig) /\ DefaultConfig["unshown"] = DefaultRest
<1> DEFINE c == DefaultConfig
<1>1. /\ DOMAIN c = ConfigKeys
      /\ c["priorities"] = [s \in Sources |-> Cardinality({r \in Sources : r < s})]
      /\ c["interval"] = SecondInterval
      /\ c["theme"] = DefaultTheme
      /\ c["unshown"] = DefaultRest
  BY DEF DefaultConfig, ConfigKeys
<1>2. c = [key \in DOMAIN c |-> c[key]]
  BY DEF DefaultConfig
<1>3. \A s \in Sources : Cardinality({r \in Sources : r < s}) \in Int
  BY ConfigurationAssumption, FS_Subset, FS_CardinalityType
<1>4. c["priorities"] \in [Sources -> Int]
  BY <1>1, <1>3
<1> HIDE DEF c
<1>5. SecondInterval \in Int /\ DefaultTheme \in Themes /\ DefaultRest \in Unshown
  BY ConfigurationAssumption
<1> QED BY <1>1, <1>2, <1>4, <1>5 DEF Complete, IsConfiguration, c

\* A setter leaves the other keys alone.
LEMMA SetterKeeps ==
    ASSUME NEW c, Complete(c), NEW key \in ConfigKeys, NEW value,
           key = "priorities" => value \in [Sources -> Int],
           key = "interval" => value \in Int,
           key = "theme" => value \in Themes,
           key = "unshown" => value \in Unshown
    PROVE  /\ Complete(setValue(c, key, value))
           /\ setValue(c, key, value)[key] = value
           /\ \A other \in ConfigKeys : other # key => setValue(c, key, value)[other] = c[other]
<1> DEFINE new == setValue(c, key, value)
<1>1. c = [k \in ConfigKeys |-> c[k]]
  BY DEF Complete, IsConfiguration
<1>2. new = [k \in ConfigKeys |-> IF k = key THEN value ELSE c[k]]
  BY <1>1 DEF setValue
<1> HIDE DEF new
<1>3. /\ DOMAIN new = ConfigKeys /\ new[key] = value
      /\ \A other \in ConfigKeys : other # key => new[other] = c[other]
      /\ new = [k \in DOMAIN new |-> new[k]]
  BY <1>2
<1> QED BY <1>3 DEF Complete, IsConfiguration, ConfigKeys, new

\* So does the merge with a file: the defaults are for what it does not say.
LEMMA MergeKeeps ==
    ASSUME NEW c, IsConfiguration(c)
    PROVE  /\ Complete(MergeJsonObjects(DefaultConfig, c))
           /\ MergeJsonObjects(DefaultConfig, c)["unshown"] =
                 IF "unshown" \in DOMAIN c THEN c["unshown"] ELSE DefaultRest
<1> DEFINE new == MergeJsonObjects(DefaultConfig, c)
<1>1. new = [k \in ConfigKeys |-> IF k \in DOMAIN c THEN c[k] ELSE DefaultConfig[k]]
  BY DefaultsComplete DEF MergeJsonObjects, Complete, IsConfiguration
<1> HIDE DEF new
<1>2. /\ DOMAIN new = ConfigKeys
      /\ \A k \in ConfigKeys : new[k] = IF k \in DOMAIN c THEN c[k] ELSE DefaultConfig[k]
      /\ new = [k \in DOMAIN new |-> new[k]]
  BY <1>1
<1> QED BY <1>2, DefaultsComplete DEF Complete, IsConfiguration, ConfigKeys, new

\* An order of the sources has a place for each of them.
LEMMA RowsRank ==
    ASSUME NEW order \in Orders
    PROVE  /\ Rows(order) \in [Sources -> Int]
           /\ \A s \in Sources : \E i \in DOMAIN order : order[i] = s /\ Rows(order)[s] = i - 1
<1> DEFINE n == Cardinality(Sources)
<1>1. /\ order \in [1..n -> Sources]
      /\ \A i, j \in 1..n : order[i] = order[j] => i = j
  BY DEF Orders
<1>2. IsFiniteSet(Sources) /\ n \in Nat
  BY ConfigurationAssumption, FS_CardinalityType
<1>3. \A s \in Sources : \E i \in 1..n : order[i] = s
  BY <1>1, <1>2, Onto
<1> DEFINE at(s) == CHOOSE i \in 1..n : order[i] = s
<1>4. \A s \in Sources : at(s) \in 1..n /\ order[at(s)] = s
  BY <1>3
<1>5. Rows(order) = [s \in Sources |-> at(s) - 1]
  BY <1>1 DEF Rows
<1> HIDE DEF at, n
<1>6. \A s \in Sources : at(s) \in Int /\ at(s) - 1 \in Int
  BY <1>2, <1>4
<1> QED BY <1>1, <1>4, <1>5, <1>6

\* Ranks taken from an order by priority do not contradict the priorities.
LEMMA RanksKeepOrder ==
    ASSUME NEW c, Complete(c), NEW order \in OrdersOf(c)
    PROVE  KeepsOrder(c["priorities"], Rows(order))
<1>1. c["priorities"] \in [Sources -> Int]
  BY DEF Complete, IsConfiguration, ConfigKeys
<1>2. /\ order \in Orders
      /\ \A i, j \in DOMAIN order : i < j => c["priorities"][order[i]] <= c["priorities"][order[j]]
  BY DEF OrdersOf
<1>3. DOMAIN order \subseteq Int
  BY <1>2 DEF Orders
<1>4. SUFFICES ASSUME NEW r \in Sources, NEW s \in Sources,
                      c["priorities"][r] < c["priorities"][s]
               PROVE  Rows(order)[r] < Rows(order)[s]
  BY DEF KeepsOrder
<1>5. PICK i \in DOMAIN order : order[i] = r /\ Rows(order)[r] = i - 1
  BY <1>2, RowsRank
<1>6. PICK j \in DOMAIN order : order[j] = s /\ Rows(order)[s] = j - 1
  BY <1>2, RowsRank
<1>7. ~(j < i) /\ i # j
  BY <1>1, <1>2, <1>4, <1>5, <1>6
<1> QED BY <1>3, <1>5, <1>6, <1>7

\* What the dialog shows of a configuration.
LEMMA DialogLoads ==
    ASSUME NEW c, Complete(c), loadFromConfig(c)
    PROVE  /\ dialog' \in Widgets /\ dialog'.edited = {}
           /\ dialog'.order \in OrdersOf(c)
           /\ dialog'.interval = IntervalShown(c)
           /\ dialog'.theme = c["theme"]
<1>1. PICK order \in OrdersOf(c) :
          dialog' = [order |-> order, interval |-> IntervalShown(c), theme |-> c["theme"],
                     edited |-> {}]
  BY DEF loadFromConfig
<1>2. order \in Orders
  BY DEF OrdersOf
<1>3. IntervalShown(c) \in Intervals
  BY ConfigurationAssumption DEF IntervalShown
<1>4. c["theme"] \in Themes
  BY DEF Complete, IsConfiguration, ConfigKeys
<1> QED BY <1>1, <1>2, <1>3, <1>4 DEF Widgets

LEMMA WidgetsAreOpen == \A d \in Widgets : d # Closed
<1>1. \A d \in Widgets : "order" \in DOMAIN d
  BY DEF Widgets
<1>2. DOMAIN Closed = {"closed"}
  BY DEF Closed
<1> QED BY <1>1, <1>2

\* saveToConfig stores what the dialog shows and keeps the rest.
LEMMA DialogSaves ==
    ASSUME Complete(config_), dialog \in Widgets, saveToConfig
    PROVE  /\ Complete(config_')
           /\ config_'["priorities"] = Rows(dialog.order)
           /\ config_'["interval"] = IF dialog.interval < 1 THEN 1 ELSE dialog.interval
           /\ config_'["theme"] = dialog.theme
           /\ config_'["unshown"] = config_["unshown"]
           /\ file' = config_' \/ file' = file
<1> DEFINE minutes == IF dialog.interval < 1 THEN 1 ELSE dialog.interval
           ranked == setValue(config_, "priorities", Rows(dialog.order))
           timed == setValue(ranked, "interval", minutes)
           final == setValue(timed, "theme", dialog.theme)
<1>1. config_' = final /\ (file' = config_' \/ file' = file)
  BY DEF saveToConfig, setCheckIntervalMinutes, Save
<1>2. dialog.order \in Orders /\ dialog.theme \in Themes /\ dialog.interval \in Intervals
  BY DEF Widgets
<1>3. Rows(dialog.order) \in [Sources -> Int]
  BY <1>2, RowsRank
<1>4. minutes \in Int
  <2>1. Intervals \subseteq Int
    BY ConfigurationAssumption
  <2>2. dialog.interval \in Int
    BY <1>2, <2>1
  <2> QED BY <2>2
<1>5. /\ "priorities" \in ConfigKeys /\ "interval" \in ConfigKeys /\ "theme" \in ConfigKeys
      /\ "unshown" \in ConfigKeys
  BY DEF ConfigKeys
<1> HIDE DEF ranked, timed, final, minutes
<1>6. /\ Complete(ranked) /\ ranked["priorities"] = Rows(dialog.order)
      /\ ranked["unshown"] = config_["unshown"]
  BY <1>3, <1>5, SetterKeeps DEF ranked
<1>7. /\ Complete(timed) /\ timed["interval"] = minutes
      /\ timed["priorities"] = ranked["priorities"] /\ timed["unshown"] = ranked["unshown"]
  BY <1>4, <1>5, <1>6, SetterKeeps DEF timed
<1>8. /\ Complete(final) /\ final["theme"] = dialog.theme
      /\ final["interval"] = timed["interval"]
      /\ final["priorities"] = timed["priorities"] /\ final["unshown"] = timed["unshown"]
  BY <1>2, <1>5, <1>7, SetterKeeps DEF final
<1> QED BY <1>1, <1>6, <1>7, <1>8 DEF minutes
-----------------------------------------------------------------------------
(***************************************************************************)
(* The inductive invariant.                                                *)
(***************************************************************************)

\* What the rows of a version tell of its pin, and of its note.
PinTold(rows, v, how, pinned) == Tells(how, PinsOf(rows, v), pinned, FALSE)
NoteTold(rows, v, how, note)  == Tells(how, NotesOf(rows, v), note, NoNote)

RowsShown ==
    \A v \in Versions : /\ PinTold(kernels_, v, copy[v].pin, v \in pins)
                        /\ NoteTold(kernels_, v, copy[v].note, notes[v])

PanelShown ==
    panel.version # NoVersion => Tells(panel.copy, {panel.text}, notes[panel.version], NoNote)

\* No window, no open store; and one that is not open was neither read nor written.
NothingKnown ==
    /\ ~running => ~isOpen
    /\ ~isOpen => \A v \in Versions : copy[v].note \in {"unread", "apart"}

\* The table and the panel with their types, and what they show.
TableInv ==
    /\ isOpen \in BOOLEAN
    /\ pins \subseteq Versions
    /\ notes \in [Versions -> Notes]
    /\ kernels_ \in Seq(Row)
    /\ selected \in 0..Len(kernels_)
    /\ panel \in [version : Versions \cup {NoVersion}, text : Notes, copy : Copies]
    /\ copy \in [Versions -> [pin : Copies, note : Copies]]
    /\ asking = Nothing \/ asking \in [what : Questions, kernel : Row]
    /\ RowsShown
    /\ PanelShown
    /\ NothingKnown

\* A record is of an operation that was begun, and so is every one that failed.
PackagesInv ==
    /\ operations \in Seq(Operation)
    /\ unrecorded \subseteq DOMAIN operations
    /\ \A r \in history : r.operation \in DOMAIN operations
    /\ \A i \in unrecorded : operations[i].shown \in {"finished", "closed"}
    /\ RecordedAsReported

\* A request is connected to both signals until it is answered, and to none then.
Waiting(request) == request.answers = <<>> /\ request.connections = {"listed", "failed"}

Answered(request) == Len(request.answers) = 1 /\ request.connections = {}

BootInv ==
    /\ list_process_ \in {"nullptr", "running", "lost"}
    /\ requests \in Seq(Request)
    /\ \A d \in deliveries : d.to \in DOMAIN requests /\ d.signal \in {"listed", "failed"}
    /\ \A r \in DOMAIN requests : Waiting(requests[r]) \/ Answered(requests[r])
    /\ \A r \in DOMAIN requests : Waiting(requests[r]) =>
          list_process_ # "nullptr" \/ \E d \in deliveries : d.to = r

IInv == ConfigInv /\ TableInv /\ PackagesInv /\ BootInv

-----------------------------------------------------------------------------
(***************************************************************************)
(* The steps of the configuration.                                         *)
(***************************************************************************)

\* What ConfigInv says, with its type invariant taken apart.
LEMMA ConfigParts ==
    ConfigInv <=> /\ Complete(config_)
                  /\ Readable => IsConfiguration(file)
                  /\ loaded \in BOOLEAN /\ cliLoading \in BOOLEAN
                  /\ dialog # Closed => dialog \in Widgets
                  /\ ~running => dialog = Closed
                  /\ DialogShows /\ UnshownKept /\ MissingMeansDefaults
BY DEF ConfigInv, ConfigurationTypeOK, Complete

\* Writing what is in memory keeps the file readable.
LEMMA SavedFile ==
    ASSUME Readable => IsConfiguration(file), NEW c, Complete(c), Save(c)
    PROVE  /\ Readable' => IsConfiguration(file')
           /\ file' = c \/ file' = file
           /\ file' = c => file' \notin {Missing, Unreadable} /\ file'["unshown"] = c["unshown"]
<1>1. c \notin {Missing, Unreadable} /\ IsConfiguration(c)
  BY ConfigurationsAreReadable DEF Complete
<1> QED BY <1>1 DEF Save, Readable

LEMMA ConfigInit == Init => ConfigInv
<1> SUFFICES ASSUME Init PROVE ConfigInv
  OBVIOUS
<1>1. \A c \in InitialFiles : c \in {Missing, Unreadable} \/ IsConfiguration(c)
  BY ConfigurationAssumption
<1>2. /\ file \in InitialFiles /\ config_ = DefaultConfig /\ loaded = FALSE /\ dialog = Closed
      /\ cliLoading = FALSE /\ running = FALSE
  BY DEF Init
<1>3. Readable => IsConfiguration(file)
  BY <1>1, <1>2 DEF Readable
<1>4. MissingMeansDefaults
  BY <1>2, DefaultsComplete, ConfigurationsAreReadable DEF MissingMeansDefaults
<1> QED BY <1>2, <1>3, <1>4, DefaultsComplete, ConfigParts DEF DialogShows, UnshownKept

LEMMA ConfigQuiet ==
    ASSUME ConfigInv, UNCHANGED rest
    PROVE  ConfigInv'
<1>1. /\ file' = file /\ config_' = config_ /\ loaded' = loaded /\ dialog' = dialog
      /\ cliLoading' = cliLoading /\ running' = running
  BY DEF rest, configuration
<1> QED BY <1>1 DEF ConfigInv, ConfigurationTypeOK, Readable, DialogShows, UnshownKept,
                    MissingMeansDefaults

LEMMA ConfigStart ==
    ASSUME ConfigInv, ~running, running', load, UNCHANGED <<dialog, cliLoading>>
    PROVE  ConfigInv'
<1>1. /\ Readable => IsConfiguration(file)
      /\ cliLoading \in BOOLEAN /\ dialog = Closed /\ MissingMeansDefaults
  BY ConfigParts
<1>2. /\ Complete(config_') /\ loaded' \in BOOLEAN
      /\ Readable' => IsConfiguration(file')
      /\ UnshownKept' /\ MissingMeansDefaults'
  <2>1. CASE file = Missing /\ config_' = DefaultConfig /\ Save(DefaultConfig) /\ loaded' = TRUE
    <3>1. /\ Readable' => IsConfiguration(file')
          /\ file' = DefaultConfig \/ file' = file
          /\ file' = DefaultConfig => file' # Unreadable
      BY <1>1, <2>1, DefaultsComplete, SavedFile
    <3> QED BY <2>1, <3>1, DefaultsComplete, ConfigurationsAreReadable
            DEF UnshownKept, MissingMeansDefaults
  <2>2. CASE file = Unreadable /\ config_' = DefaultConfig /\ loaded' = FALSE /\ UNCHANGED file
    BY <1>1, <2>2, DefaultsComplete, ConfigurationsAreReadable
    DEF Readable, UnshownKept, MissingMeansDefaults
  <2>3. CASE /\ Readable /\ config_' = MergeJsonObjects(DefaultConfig, file) /\ loaded' = TRUE
             /\ UNCHANGED file
    BY <1>1, <2>3, MergeKeeps DEF Readable, UnshownKept, MissingMeansDefaults
  <2> QED BY <2>1, <2>2, <2>3 DEF load
<1> QED BY <1>1, <1>2, ConfigParts DEF ConfigInv, ConfigurationTypeOK, Complete, DialogShows

LEMMA ConfigQuit ==
    ASSUME ConfigInv, quit
    PROVE  ConfigInv'
<1>1. /\ Readable => IsConfiguration(file)
      /\ cliLoading \in BOOLEAN /\ MissingMeansDefaults
  BY ConfigParts
<1>2. /\ config_' = DefaultConfig /\ loaded' = FALSE /\ dialog' = Closed /\ file' = file
      /\ cliLoading' = cliLoading
  BY DEF quit
<1> QED BY <1>1, <1>2, DefaultsComplete
        DEF ConfigInv, ConfigurationTypeOK, Complete, Readable, DialogShows, UnshownKept,
            MissingMeansDefaults

LEMMA ConfigOpen ==
    ASSUME ConfigInv, running, running' = running, openSettings
    PROVE  ConfigInv'
<1>1. /\ Complete(config_)
      /\ file' = file /\ config_' = config_ /\ loaded' = loaded /\ cliLoading' = cliLoading
      /\ loadFromConfig(config_)
  BY ConfigParts DEF openSettings
<1>2. /\ dialog' \in Widgets /\ dialog'.edited = {}
      /\ dialog'.order \in OrdersOf(config_)
      /\ dialog'.interval = IntervalShown(config_)
      /\ dialog'.theme = config_["theme"]
  BY <1>1, DialogLoads
<1>3. DialogShows'
  BY <1>1, <1>2 DEF DialogShows
<1> QED BY <1>1, <1>2, <1>3
        DEF ConfigInv, ConfigurationTypeOK, Readable, UnshownKept, MissingMeansDefaults

\* An edit is marked as one.
LEMMA EditedWidgets ==
    ASSUME dialog \in Widgets, DialogShows, editSettings
    PROVE  dialog' \in Widgets /\ DialogShows'
<1>1. config_' = config_ /\ dialog # Closed
  BY DEF editSettings
<1>2. /\ dialog.order \in Orders /\ dialog.interval \in Intervals /\ dialog.theme \in Themes
      /\ dialog.edited \in SUBSET {"priorities", "interval", "theme"}
      /\ dialog = [order |-> dialog.order, interval |-> dialog.interval, theme |-> dialog.theme,
                   edited |-> dialog.edited]
  BY DEF Widgets
<1>3. CASE \E order \in Orders \ {dialog.order} :
             dialog' = [dialog EXCEPT !.order = order, !.edited = @ \cup {"priorities"}]
  <2>1. PICK order \in Orders :
            dialog' = [order |-> order, interval |-> dialog.interval, theme |-> dialog.theme,
                       edited |-> dialog.edited \cup {"priorities"}]
    BY <1>2, <1>3
  <2>2. dialog' \in Widgets
    BY <1>2, <2>1 DEF Widgets
  <2> QED BY <1>1, <2>1, <2>2 DEF DialogShows
<1>4. CASE \E minutes \in Intervals \ {dialog.interval} :
             dialog' = [dialog EXCEPT !.interval = minutes, !.edited = @ \cup {"interval"}]
  <2>1. PICK minutes \in Intervals :
            dialog' = [order |-> dialog.order, interval |-> minutes, theme |-> dialog.theme,
                       edited |-> dialog.edited \cup {"interval"}]
    BY <1>2, <1>4
  <2>2. dialog' \in Widgets
    BY <1>2, <2>1 DEF Widgets
  <2> QED BY <1>1, <2>1, <2>2 DEF DialogShows
<1>5. CASE \E mode \in Themes \ {dialog.theme} :
             dialog' = [dialog EXCEPT !.theme = mode, !.edited = @ \cup {"theme"}]
  <2>1. PICK mode \in Themes :
            dialog' = [order |-> dialog.order, interval |-> dialog.interval, theme |-> mode,
                       edited |-> dialog.edited \cup {"theme"}]
    BY <1>2, <1>5
  <2>2. dialog' \in Widgets
    BY <1>2, <2>1 DEF Widgets
  <2> QED BY <1>1, <2>1, <2>2 DEF DialogShows
<1> QED BY <1>3, <1>4, <1>5 DEF editSettings

LEMMA ConfigEdit ==
    ASSUME ConfigInv, running' = running, editSettings
    PROVE  ConfigInv'
<1>1. /\ file' = file /\ config_' = config_ /\ loaded' = loaded /\ cliLoading' = cliLoading
      /\ dialog \in Widgets /\ DialogShows /\ running
  BY ConfigParts DEF editSettings
<1>2. dialog' \in Widgets /\ DialogShows'
  BY <1>1, EditedWidgets
<1> QED BY <1>1, <1>2
        DEF ConfigInv, ConfigurationTypeOK, Readable, UnshownKept, MissingMeansDefaults

LEMMA ConfigReject ==
    ASSUME ConfigInv, running' = running, rejectSettings
    PROVE  ConfigInv'
BY DEF rejectSettings, ConfigInv, ConfigurationTypeOK, Readable, DialogShows, UnshownKept,
       MissingMeansDefaults

\* The dialog shows the defaults, and unless the write failed so says the file.
LEMMA ConfigReset ==
    ASSUME ConfigInv, running' = running, resetSettings
    PROVE  ConfigInv'
<1>1. /\ config_' = DefaultConfig /\ cliLoading' = cliLoading
      /\ Save(DefaultConfig) /\ loadFromConfig(DefaultConfig)
      /\ loaded' = (file' = DefaultConfig)
      /\ Readable => IsConfiguration(file)
      /\ cliLoading \in BOOLEAN /\ MissingMeansDefaults /\ running
  BY ConfigParts DEF resetSettings
<1>2. /\ dialog' \in Widgets /\ dialog'.edited = {}
      /\ dialog'.order \in OrdersOf(DefaultConfig)
      /\ dialog'.interval = IntervalShown(DefaultConfig)
      /\ dialog'.theme = DefaultConfig["theme"]
  BY <1>1, DefaultsComplete, DialogLoads
<1>3. /\ Readable' => IsConfiguration(file')
      /\ file' = DefaultConfig \/ file' = file
      /\ file' = DefaultConfig => /\ file' \notin {Missing, Unreadable}
                                  /\ file'["unshown"] = DefaultConfig["unshown"]
  BY <1>1, DefaultsComplete, SavedFile
<1>4. DialogShows'
  BY <1>1, <1>2 DEF DialogShows
<1>5. UnshownKept' /\ MissingMeansDefaults'
  BY <1>1, <1>3, DefaultsComplete DEF UnshownKept, MissingMeansDefaults
<1>6. loaded' \in BOOLEAN
  BY <1>1
<1> QED BY <1>1, <1>2, <1>3, <1>4, <1>5, <1>6, DefaultsComplete
        DEF ConfigInv, ConfigurationTypeOK, Complete

LEMMA ConfigAccept ==
    ASSUME ConfigInv, running' = running, acceptSettings
    PROVE  ConfigInv'
<1>1. /\ saveToConfig /\ dialog' = Closed /\ loaded' = loaded /\ cliLoading' = cliLoading
      /\ dialog \in Widgets /\ Complete(config_)
      /\ Readable => IsConfiguration(file)
      /\ loaded \in BOOLEAN /\ cliLoading \in BOOLEAN
      /\ UnshownKept /\ MissingMeansDefaults
  BY ConfigParts DEF acceptSettings
<1>2. /\ Complete(config_')
      /\ config_'["unshown"] = config_["unshown"]
      /\ Save(config_')
  BY <1>1, DialogSaves DEF saveToConfig
<1>3. /\ Readable' => IsConfiguration(file')
      /\ file' = config_' \/ file' = file
      /\ file' = config_' => file' \notin {Missing, Unreadable} /\ file'["unshown"] = config_'["unshown"]
  BY <1>1, <1>2, SavedFile
<1>4. UnshownKept' /\ MissingMeansDefaults'
  BY <1>1, <1>2, <1>3 DEF UnshownKept, MissingMeansDefaults
<1> QED BY <1>1, <1>2, <1>3, <1>4 DEF ConfigInv, ConfigurationTypeOK, Complete, DialogShows

LEMMA ConfigTheme ==
    ASSUME ConfigInv, running' = running, NEW mode \in Themes, setThemeMode(mode)
    PROVE  ConfigInv'
<1>1. /\ config_' = setValue(config_, "theme", mode) /\ dialog = Closed /\ Complete(config_)
      /\ file' = file /\ loaded' = loaded /\ dialog' = dialog /\ cliLoading' = cliLoading
      /\ "theme" \in ConfigKeys /\ "unshown" \in ConfigKeys
  BY ConfigParts DEF setThemeMode, ConfigKeys
<1>2. Complete(config_') /\ config_'["unshown"] = config_["unshown"]
  BY <1>1, SetterKeeps
<1> QED BY <1>1, <1>2 DEF ConfigInv, ConfigurationTypeOK, Complete, Readable, DialogShows,
                          UnshownKept, MissingMeansDefaults

\* Another process finds no file, and writes the defaults over whatever there is then.
LEMMA ConfigOther ==
    ASSUME ConfigInv, running' = running, cliFindsNoFile \/ cliSaves
    PROVE  ConfigInv'
<1>1. CASE cliFindsNoFile
  BY <1>1 DEF cliFindsNoFile, ConfigInv, ConfigurationTypeOK, Readable, DialogShows, UnshownKept,
              MissingMeansDefaults
<1>2. CASE cliSaves
  <2>1. /\ config_' = config_ /\ loaded' = loaded /\ dialog' = dialog /\ cliLoading /\ ~cliLoading'
        /\ cliLoading' \in BOOLEAN
        /\ Save(DefaultConfig)
        /\ Readable => IsConfiguration(file)
        /\ UnshownKept /\ MissingMeansDefaults
    BY <1>2, ConfigParts DEF cliSaves
  <2>2. /\ Readable' => IsConfiguration(file')
        /\ file' = DefaultConfig \/ file' = file
        /\ file' = DefaultConfig => /\ file' \notin {Missing, Unreadable}
                                    /\ file'["unshown"] = DefaultConfig["unshown"]
    BY <2>1, DefaultsComplete, SavedFile
  <2>3. UnshownKept' /\ MissingMeansDefaults'
    BY <2>1, <2>2, DefaultsComplete DEF UnshownKept, MissingMeansDefaults
  <2> QED BY <2>1, <2>2, <2>3 DEF ConfigInv, ConfigurationTypeOK, DialogShows
<1> QED BY <1>1, <1>2

\* The table, the packages and the boot entries leave the configuration alone.
LEMMA RestStays ==
    ASSUME Table \/ Packages \/ Boot \/ decline \/ UNCHANGED vars
    PROVE  UNCHANGED rest
<1>1. CASE Table
  BY <1>1 DEF Table, refreshKernels, onKernelListChanged, select, setQuickFilter,
              toggleSelectedKernelPin, showSelectedKernelDetails, saveNote,
              editSelectedKernelNote
<1>2. CASE Packages
  BY <1>2 DEF Packages, startPackageOperation, closeDialog, operationFinished
<1>3. CASE Boot
  BY <1>3 DEF Boot, showBootOrderPanel, setSelectedKernelAsDefault, finishList, deliver
<1> QED BY <1>1, <1>2, <1>3 DEF decline, vars

LEMMA ConfigStep ==
    ASSUME ConfigInv, [Next]_vars
    PROVE  ConfigInv'
<1>1. CASE start
  BY <1>1, ConfigStart DEF start
<1>2. CASE quit
  BY <1>2, ConfigQuit
<1>3. CASE UNCHANGED rest
  BY <1>3, ConfigQuiet
<1>4. CASE settings
  <2>1. running' = running
    BY <1>4 DEF settings, UNCHANGED_Window
  <2>2. \/ running /\ openSettings
        \/ editSettings
        \/ rejectSettings
        \/ resetSettings
        \/ acceptSettings
    BY <1>4 DEF settings, UserActs, UserFree
  <2> QED BY <2>1, <2>2, ConfigOpen, ConfigEdit, ConfigReject, ConfigReset, ConfigAccept
<1>5. ASSUME NEW mode \in Themes, chooseTheme(mode) PROVE ConfigInv'
  BY <1>5, ConfigTheme DEF chooseTheme, UNCHANGED_Window
<1>6. CASE otherProcessLoads
  BY <1>6, ConfigOther DEF otherProcessLoads, UNCHANGED_Window
<1>7. CASE Table \/ Packages \/ Boot \/ decline \/ UNCHANGED vars
  BY <1>7, RestStays, ConfigQuiet
<1>8. ASSUME NEW what, ask(what) PROVE UNCHANGED rest
  BY <1>8 DEF ask
<1>9. ASSUME NEW v, otherProcessWrites(v) PROVE UNCHANGED rest
  BY <1>9 DEF otherProcessWrites
<1> QED BY <1>1, <1>2, <1>3, <1>4, <1>5, <1>6, <1>7, <1>8, <1>9 DEF Next

\* What AcceptChangesOnlyEdits says of one step.
EditsOnly ==
    /\ "priorities" \notin dialog.edited =>
          KeepsOrder(config_["priorities"], config_'["priorities"])
    /\ "interval" \notin dialog.edited /\ config_["interval"] \in Intervals \ {0} =>
          config_'["interval"] = config_["interval"]
    /\ "theme" \notin dialog.edited => config_'["theme"] = config_["theme"]
    /\ config_'["unshown"] = config_["unshown"]
    /\ loaded /\ "unshown" \in DOMAIN file => file'["unshown"] = file["unshown"]

LEMMA AcceptStep ==
    ASSUME ConfigInv, acceptSettings
    PROVE  EditsOnly
<1>1. /\ Complete(config_) /\ dialog \in Widgets /\ saveToConfig /\ DialogShows /\ UnshownKept
      /\ dialog # Closed
  BY ConfigParts DEF acceptSettings
<1>2. /\ config_'["priorities"] = Rows(dialog.order)
      /\ config_'["interval"] = IF dialog.interval < 1 THEN 1 ELSE dialog.interval
      /\ config_'["theme"] = dialog.theme
      /\ config_'["unshown"] = config_["unshown"]
      /\ file' = config_' \/ file' = file
  BY <1>1, DialogSaves
<1>3. "priorities" \notin dialog.edited =>
          KeepsOrder(config_["priorities"], config_'["priorities"])
  BY <1>1, <1>2, RanksKeepOrder DEF DialogShows
<1>4. ASSUME "interval" \notin dialog.edited, config_["interval"] \in Intervals \ {0}
      PROVE  config_'["interval"] = config_["interval"]
  <2>1. dialog.interval = config_["interval"]
    BY <1>1, <1>4 DEF DialogShows, IntervalShown
  <2>2. Intervals \subseteq Nat
    BY ConfigurationAssumption
  <2>3. dialog.interval \in Nat \ {0}
    BY <1>4, <2>1, <2>2
  <2> QED BY <1>2, <2>1, <2>3
<1>5. "theme" \notin dialog.edited => config_'["theme"] = config_["theme"]
  BY <1>1, <1>2 DEF DialogShows
<1>6. loaded /\ "unshown" \in DOMAIN file => file'["unshown"] = file["unshown"]
  BY <1>1, <1>2 DEF UnshownKept
<1> QED BY <1>2, <1>3, <1>4, <1>5, <1>6 DEF EditsOnly

\* Giving the dialog up changes nothing, and nothing else closes it in a window that
\* stays.
LEMMA ClosingStep ==
    ASSUME ConfigInv, [Next]_vars, dialog # Closed, dialog' = Closed, running'
    PROVE  EditsOnly
<1>1. running
  BY ConfigParts
<1>2. ASSUME UNCHANGED <<file, config_>>
      PROVE  EditsOnly
  <2>1. KeepsOrder(config_["priorities"], config_["priorities"])
    BY DEF KeepsOrder
  <2> QED BY <1>2, <2>1 DEF EditsOnly
<1>3. CASE settings
  <2>1. CASE acceptSettings
    BY <2>1, AcceptStep
  <2>2. CASE rejectSettings
    BY <1>2, <2>2 DEF rejectSettings
  <2>3. CASE editSettings \/ resetSettings
    <3>1. dialog' # Closed
      <4>1. CASE editSettings
        <5>1. dialog' \in Widgets
          BY <4>1, EditedWidgets, ConfigParts
        <5> QED BY <5>1, WidgetsAreOpen
      <4>2. CASE resetSettings
        BY <4>2, DefaultsComplete, DialogLoads, WidgetsAreOpen DEF resetSettings
      <4> QED BY <2>3, <4>1, <4>2
    <3> QED BY <3>1
  <2>4. ~openSettings
    BY DEF openSettings
  <2> QED BY <1>3, <2>1, <2>2, <2>3, <2>4 DEF settings
<1>4. CASE start \/ quit
  BY <1>1, <1>4 DEF start, quit
<1>5. ASSUME UNCHANGED dialog PROVE FALSE
  BY <1>5
<1>6. CASE Table \/ Packages \/ Boot \/ decline \/ UNCHANGED vars
  BY <1>5, <1>6, RestStays DEF rest, configuration
<1>7. ASSUME NEW what, ask(what) PROVE FALSE
  BY <1>5, <1>7 DEF ask, rest, configuration
<1>8. ASSUME NEW v, otherProcessWrites(v) PROVE FALSE
  BY <1>5, <1>8 DEF otherProcessWrites, rest, configuration
<1>9. ASSUME NEW mode, chooseTheme(mode) PROVE FALSE
  BY <1>5, <1>9 DEF chooseTheme, setThemeMode
<1>10. ~otherProcessLoads
  BY <1>5 DEF otherProcessLoads, cliFindsNoFile, cliSaves
<1> QED BY <1>3, <1>4, <1>6, <1>7, <1>8, <1>9, <1>10 DEF Next

-----------------------------------------------------------------------------
(***************************************************************************)
(* The steps of the table and the panel.                                   *)
(***************************************************************************)

\* A window that has no rows and whose panel is empty shows nothing wrong.
LEMMA EmptyTable ==
    /\ <<>> \in Seq(Row)
    /\ Len(<<>>) = 0
    /\ NoPanel \in [version : Versions \cup {NoVersion}, text : Notes, copy : Copies]
    /\ NoPanel.version = NoVersion
    /\ Unread \in [Versions -> [pin : Copies, note : Copies]]
    /\ \A v \in Versions : Unread[v].note = "unread"
<1>1. <<>> \in Seq(Row) /\ Len(<<>>) = 0 /\ DOMAIN <<>> = {}
  OBVIOUS
<1>2. NoNote \in Notes
  BY WindowAssumption
<1> QED BY <1>1, <1>2 DEF NoPanel, Unread, Copies

LEMMA NothingTold ==
    /\ \A v, how, p : PinTold(<<>>, v, how, p)
    /\ \A v, how, n : NoteTold(<<>>, v, how, n)
<1>1. DOMAIN <<>> = {}
  OBVIOUS
<1>2. \A v : RowsOf(<<>>, v) = {}
  BY <1>1 DEF RowsOf
<1>3. \A v : PinsOf(<<>>, v) = {} /\ NotesOf(<<>>, v) = {}
  BY <1>2 DEF PinsOf, NotesOf
<1>4. \A v, how, p : PinTold(<<>>, v, how, p)
  BY <1>3, Zenon DEF PinTold, Tells
<1>5. \A v, how, n : NoteTold(<<>>, v, how, n)
  BY <1>3, Zenon DEF NoteTold, Tells
<1> QED BY <1>4, <1>5

LEMMA TableInit == Init => TableInv
<1> SUFFICES ASSUME Init PROVE TableInv
  OBVIOUS
<1>1. /\ pins = {} /\ notes = [v \in Versions |-> NoNote] /\ kernels_ = <<>> /\ selected = 0
      /\ panel = NoPanel /\ copy = Unread /\ asking = Nothing /\ isOpen = FALSE
  BY DEF Init
<1>2. NoNote \in Notes
  BY WindowAssumption
<1>3. RowsShown
  BY <1>1, EmptyTable, NothingTold DEF RowsShown
<1>4. PanelShown /\ NothingKnown
  <2>1. NoPanel.version = NoVersion /\ \A v \in Versions : Unread[v].note = "unread"
    BY EmptyTable
  <2> QED BY <1>1, <2>1 DEF PanelShown, NothingKnown
<1>5. kernels_ \in Seq(Row) /\ selected \in 0..Len(kernels_)
  BY <1>1, EmptyTable
<1>6. /\ panel \in [version : Versions \cup {NoVersion}, text : Notes, copy : Copies]
      /\ copy \in [Versions -> [pin : Copies, note : Copies]]
  BY <1>1, EmptyTable
<1>7. /\ isOpen \in BOOLEAN /\ pins \subseteq Versions /\ notes \in [Versions -> Notes]
      /\ asking = Nothing
  BY <1>1, <1>2
<1> QED BY <1>3, <1>4, <1>5, <1>6, <1>7 DEF TableInv

\* What neither writes nor changes a row or the panel.
LEMMA TableCalm ==
    ASSUME TableInv, UNCHANGED <<running, isOpen, pins, notes, kernels_, panel, copy>>,
           selected' \in 0..Len(kernels_),
           asking' = Nothing \/ asking' \in [what : Questions, kernel : Row]
    PROVE  TableInv'
<1>1. RowsShown' /\ PanelShown' /\ NothingKnown'
  BY DEF TableInv, RowsShown, PanelShown, NothingKnown
<1> QED BY <1>1 DEF TableInv

LEMMA TableQuiet ==
    ASSUME TableInv, UNCHANGED <<running, isOpen, pins, notes, table, panel, copy>>,
           asking' \in {asking, Nothing}
    PROVE  TableInv'
BY TableCalm DEF table, TableInv

\* A window that starts knows nothing of the store yet.
LEMMA TableStart ==
    ASSUME TableInv, start
    PROVE  TableInv'
<1>1. /\ isOpen' \in BOOLEAN /\ copy' = copy /\ ~running /\ running'
      /\ UNCHANGED <<pins, notes, kernels_, selected, panel, asking>>
  BY DEF start, table
<1>2. RowsShown' /\ PanelShown'
  BY <1>1 DEF TableInv, RowsShown, PanelShown
<1>3. NothingKnown'
  BY <1>1 DEF TableInv, NothingKnown
<1> QED BY <1>1, <1>2, <1>3 DEF TableInv

LEMMA TableQuit ==
    ASSUME TableInv, quit
    PROVE  TableInv'
<1>1. /\ pins' = pins /\ notes' = notes /\ kernels_' = <<>> /\ selected' = 0
      /\ panel' = NoPanel /\ copy' = Unread /\ asking' = Nothing /\ isOpen' = FALSE
  BY DEF quit
<1>2. RowsShown'
  <2> SUFFICES ASSUME NEW v \in Versions
               PROVE  /\ PinTold(kernels_', v, copy'[v].pin, v \in pins')
                      /\ NoteTold(kernels_', v, copy'[v].note, notes'[v])
    BY DEF RowsShown
  <2> QED BY <1>1, NothingTold
<1>3. PanelShown' /\ NothingKnown'
  <2>1. NoPanel.version = NoVersion /\ \A v \in Versions : Unread[v].note = "unread"
    BY EmptyTable
  <2> QED BY <1>1, <2>1 DEF PanelShown, NothingKnown
<1>4. kernels_' \in Seq(Row) /\ selected' \in 0..Len(kernels_')
  BY <1>1, EmptyTable
<1>5. /\ panel' \in [version : Versions \cup {NoVersion}, text : Notes, copy : Copies]
      /\ copy' \in [Versions -> [pin : Copies, note : Copies]]
  BY <1>1, EmptyTable
<1> QED BY <1>1, <1>2, <1>3, <1>4, <1>5 DEF TableInv

\* A selected row is one.
LEMMA SelectedRow ==
    ASSUME TableInv, selected # 0
    PROVE  /\ selected \in DOMAIN kernels_
           /\ kernels_[selected] \in Row
           /\ kernels_[selected].version \in Versions
           /\ kernels_[selected].isPinned \in BOOLEAN
<1>1. kernels_ \in Seq(Row) /\ selected \in 1..Len(kernels_)
  BY DEF TableInv
<1>2. kernels_[selected] \in Row
  BY <1>1
<1> QED BY <1>1, <1>2 DEF Row

\* The rows of a new list tell what was read for them.
LEMMA ListTold ==
    ASSUME notes \in [Versions -> Notes], NEW priority, NEW list \in Published,
           NEW failing \in Failing(list), NEW rows \in RowsMade(list, failing, priority),
           NEW v \in Versions
    PROVE  /\ PinTold(rows, v, ReadAs(list, failing, v, "pin"), v \in pins)
           /\ NoteTold(rows, v, ReadAs(list, failing, v, "note"), notes[v])
<1>1. \A i \in RowsOf(rows, v) : \E k \in list :
          /\ k.version = v
          /\ (rows[i].isPinned => v \in pins)
          /\ rows[i].notes \in {notes[v], NoNote}
          /\ isOpen /\ "pin" \notin failing[k] => (rows[i].isPinned <=> v \in pins)
          /\ isOpen /\ "note" \notin failing[k] => rows[i].notes = notes[v]
  <2> SUFFICES ASSUME NEW i \in RowsOf(rows, v)
               PROVE  \E k \in list :
                         /\ k.version = v
                         /\ (rows[i].isPinned => v \in pins)
                         /\ rows[i].notes \in {notes[v], NoNote}
                         /\ isOpen /\ "pin" \notin failing[k] =>
                               (rows[i].isPinned <=> v \in pins)
                         /\ isOpen /\ "note" \notin failing[k] => rows[i].notes = notes[v]
    OBVIOUS
  <2>1. i \in DOMAIN rows /\ rows[i].version = v
    BY DEF RowsOf
  <2>2. PICK k \in list :
          /\ rows[i].version = k.version
          /\ rows[i].isPinned => k.version \in pins
          /\ rows[i].notes \in {notes[k.version], NoNote}
          /\ isOpen /\ "pin" \notin failing[k] => (rows[i].isPinned <=> k.version \in pins)
          /\ isOpen /\ "note" \notin failing[k] => rows[i].notes = notes[k.version]
    BY <2>1, PublishedRows
  <2>3. k.version = v
    BY <2>1, <2>2
  <2> QED BY <2>2, <2>3
<1>2. \A i \in RowsOf(rows, v) : rows[i].isPinned \in BOOLEAN
  <2> SUFFICES ASSUME NEW i \in RowsOf(rows, v) PROVE rows[i].isPinned \in BOOLEAN
    OBVIOUS
  <2>1. rows \in Seq(Row) /\ i \in DOMAIN rows
    BY PublishedRows DEF RowsOf
  <2>2. rows[i] \in Row
    BY <2>1
  <2> QED BY <2>2 DEF Row
<1>3. /\ PinsOf(rows, v) \subseteq {(v \in pins), FALSE}
      /\ NotesOf(rows, v) \subseteq {notes[v], NoNote}
  <2>1. \A i \in RowsOf(rows, v) : rows[i].isPinned = (v \in pins) \/ rows[i].isPinned = FALSE
    BY <1>1, <1>2
  <2>2. PinsOf(rows, v) \subseteq {(v \in pins), FALSE}
    BY <2>1, Zenon DEF PinsOf
  <2> QED BY <1>1, <2>2 DEF NotesOf
<1>4. ASSUME ReadAs(list, failing, v, "pin") = "read"
      PROVE  PinsOf(rows, v) \subseteq {(v \in pins)}
  <2>1. isOpen /\ \A k \in list : k.version = v => "pin" \notin failing[k]
    BY <1>4 DEF ReadAs
  <2>2. \A i \in RowsOf(rows, v) : rows[i].isPinned = (v \in pins)
    BY <1>1, <1>2, <2>1
  <2> QED BY <2>2, Zenon DEF PinsOf
<1>5. ASSUME ReadAs(list, failing, v, "note") = "read"
      PROVE  NotesOf(rows, v) \subseteq {notes[v]}
  <2>1. isOpen /\ \A k \in list : k.version = v => "note" \notin failing[k]
    BY <1>5 DEF ReadAs
  <2> QED BY <1>1, <2>1 DEF NotesOf
<1>6. /\ ReadAs(list, failing, v, "pin") # "written"
      /\ ReadAs(list, failing, v, "note") # "written"
  BY DEF ReadAs
<1> QED BY <1>3, <1>4, <1>5, <1>6 DEF PinTold, NoteTold, Tells

LEMMA TableListed ==
    ASSUME TableInv, onKernelListChanged
    PROVE  TableInv'
<1>1. /\ pins' = pins /\ notes' = notes /\ selected' = 0 /\ panel' = panel
      /\ asking' = asking /\ running' = running /\ isOpen' = isOpen
  BY DEF onKernelListChanged, SelectedAfterReset, rest
<1> DEFINE Reads(list, failing) ==
               /\ kernels_' \in RowsMade(list, failing, config_["priorities"])
               /\ copy' = [v \in Versions |-> [pin  |-> ReadAs(list, failing, v, "pin"),
                                               note |-> ReadAs(list, failing, v, "note")]]
<1>2. PICK list \in Published :
          \E failing \in Failing(list) : Reads(list, failing)
  BY DEF onKernelListChanged, Failing, RowsMade
<1>3. PICK failing \in Failing(list) : Reads(list, failing)
  BY <1>2
<1>4. notes \in [Versions -> Notes]
  BY DEF TableInv
<1>5. kernels_' \in Seq(Row)
  BY <1>3, <1>4, PublishedRows
<1>6. \A v \in Versions : /\ copy'[v].pin = ReadAs(list, failing, v, "pin")
                          /\ copy'[v].note = ReadAs(list, failing, v, "note")
  BY <1>3
<1>7. RowsShown'
  <2> SUFFICES ASSUME NEW v \in Versions
               PROVE  /\ PinTold(kernels_', v, copy'[v].pin, v \in pins')
                      /\ NoteTold(kernels_', v, copy'[v].note, notes'[v])
    BY DEF RowsShown
  <2>1. /\ PinTold(kernels_', v, ReadAs(list, failing, v, "pin"), v \in pins)
        /\ NoteTold(kernels_', v, ReadAs(list, failing, v, "note"), notes[v])
    BY <1>3, <1>4, ListTold
  <2> QED BY <1>1, <1>6, <2>1
<1>8. PanelShown'
  BY <1>1 DEF PanelShown, TableInv
<1>9. NothingKnown'
  <2>1. ~isOpen => \A v \in Versions : ReadAs(list, failing, v, "note") = "unread"
    BY DEF ReadAs
  <2> QED BY <1>1, <1>6, <2>1 DEF NothingKnown, TableInv
<1>10. copy' \in [Versions -> [pin : Copies, note : Copies]]
  <2>1. \A v, item : ReadAs(list, failing, v, item) \in Copies
    BY DEF ReadAs, Copies
  <2> QED BY <1>3, <2>1
<1> QED BY <1>1, <1>5, <1>7, <1>8, <1>9, <1>10 DEF TableInv

\* How one item of one version became known.
PinCopied(c, v, how)  == [c EXCEPT ![v].pin = how]
NoteCopied(c, v, how) == [c EXCEPT ![v].note = how]

LEMMA CopyChanged ==
    ASSUME NEW c \in [Versions -> [pin : Copies, note : Copies]], NEW v \in Versions,
           NEW how \in Copies
    PROVE  /\ PinCopied(c, v, how) \in [Versions -> [pin : Copies, note : Copies]]
           /\ PinCopied(c, v, how)[v].pin = how
           /\ \A w \in Versions : /\ PinCopied(c, v, how)[w].note = c[w].note
                                  /\ w # v => PinCopied(c, v, how)[w] = c[w]
           /\ NoteCopied(c, v, how) \in [Versions -> [pin : Copies, note : Copies]]
           /\ NoteCopied(c, v, how)[v].note = how
           /\ \A w \in Versions : /\ NoteCopied(c, v, how)[w].pin = c[w].pin
                                  /\ w # v => NoteCopied(c, v, how)[w] = c[w]
BY DEF PinCopied, NoteCopied

\* Nothing is told of what is apart, and the value of a row by one that was written.
LEMMA Told ==
    /\ \A rows, v, p : PinTold(rows, v, "apart", p)
    /\ \A rows, v, n : NoteTold(rows, v, "apart", n)
    /\ \A rows, v, p : PinsOf(rows, v) = {} \/ p \in PinsOf(rows, v) =>
                          PinTold(rows, v, "written", p)
    /\ \A rows, v, n : NotesOf(rows, v) = {} \/ n \in NotesOf(rows, v) =>
                          NoteTold(rows, v, "written", n)
    /\ \A r, s, v, how, p : PinsOf(s, v) = PinsOf(r, v) /\ PinTold(r, v, how, p) =>
                               PinTold(s, v, how, p)
    /\ \A r, s, v, how, n : NotesOf(s, v) = NotesOf(r, v) /\ NoteTold(r, v, how, n) =>
                               NoteTold(s, v, how, n)
<1>1. \A rows, v, p : PinTold(rows, v, "apart", p)
  BY Zenon DEF PinTold, Tells
<1>2. \A rows, v, n : NoteTold(rows, v, "apart", n)
  BY Zenon DEF NoteTold, Tells
<1>3. \A rows, v, p : PinsOf(rows, v) = {} \/ p \in PinsOf(rows, v) =>
                      PinTold(rows, v, "written", p)
  BY Zenon DEF PinTold, Tells
<1>4. \A rows, v, n : NotesOf(rows, v) = {} \/ n \in NotesOf(rows, v) =>
                      NoteTold(rows, v, "written", n)
  BY Zenon DEF NoteTold, Tells
<1>5. \A r, s, v, how, p : PinsOf(s, v) = PinsOf(r, v) /\ PinTold(r, v, how, p) =>
                           PinTold(s, v, how, p)
  BY DEF PinTold
<1>6. \A r, s, v, how, n : NotesOf(s, v) = NotesOf(r, v) /\ NoteTold(r, v, how, n) =>
                           NoteTold(s, v, how, n)
  BY DEF NoteTold
<1> QED BY <1>1, <1>2, <1>3, <1>4, <1>5, <1>6

\* Pinning a selected kernel, whether or not the store takes it.
LEMMA TablePinned ==
    ASSUME TableInv, toggleSelectedKernelPin
    PROVE  TableInv'
<1> DEFINE v == kernels_[selected].version
           pin == ~kernels_[selected].isPinned
<1>1. /\ \/ /\ pins' = IF pin THEN pins \cup {v} ELSE pins \ {v}
            /\ copy' = [copy EXCEPT ![v].pin = "written"]
         \/ /\ pins' = pins
            /\ copy' = [copy EXCEPT ![v].pin = "apart"]
      /\ kernels_' = setKernelPinned(kernels_, v, pin)
      /\ selected' = StaysSelected(kernels_', quick_filter_)
      /\ notes' = notes /\ panel' = panel /\ asking' = asking
      /\ running' = running /\ isOpen' = isOpen
      /\ selected # 0
  BY DEF toggleSelectedKernelPin, rest
<1>2. v \in Versions /\ pin \in BOOLEAN
  BY <1>1, SelectedRow
<1> HIDE DEF v, pin
<1>3. /\ kernels_ \in Seq(Row) /\ selected \in 0..Len(kernels_) /\ RowsShown
      /\ pins \subseteq Versions
      /\ copy \in [Versions -> [pin : Copies, note : Copies]]
  BY DEF TableInv
<1>4. /\ kernels_' \in Seq(Row) /\ Len(kernels_') = Len(kernels_)
      /\ PinsOf(kernels_', v) = {} \/ pin \in PinsOf(kernels_', v)
      /\ \A w : w # v => PinsOf(kernels_', w) = PinsOf(kernels_, w)
      /\ \A w : NotesOf(kernels_', w) = NotesOf(kernels_, w)
  BY <1>1, <1>2, <1>3, PinnedRows
<1>5. PICK how \in {"written", "apart"} :
          /\ copy' = [copy EXCEPT ![v].pin = how]
          /\ how = "written" => pins' = IF pin THEN pins \cup {v} ELSE pins \ {v}
  BY <1>1
<1>6. /\ copy' \in [Versions -> [pin : Copies, note : Copies]]
      /\ copy'[v].pin = how
      /\ \A w \in Versions : copy'[w].note = copy[w].note /\ (w # v => copy'[w] = copy[w])
  <2>1. how \in Copies
    BY DEF Copies
  <2>2. copy' = PinCopied(copy, v, how)
    BY <1>5 DEF PinCopied
  <2> QED BY <1>2, <1>3, <2>1, <2>2, CopyChanged
<1>7. PinTold(kernels_', v, how, v \in pins')
  <2>1. CASE how = "written"
    <3>1. (v \in pins') = pin
      <4>1. pins' = IF pin THEN pins \cup {v} ELSE pins \ {v}
        BY <1>5, <2>1
      <4>2. (v \in pins') <=> pin
        BY <4>1
      <4> QED BY <1>2, <4>2
    <3> QED BY <1>4, <2>1, <3>1, Told
  <2>2. CASE how = "apart"
    BY <2>2, Told
  <2> QED BY <2>1, <2>2
<1>8. RowsShown'
  <2> SUFFICES ASSUME NEW w \in Versions
               PROVE  /\ PinTold(kernels_', w, copy'[w].pin, w \in pins')
                      /\ NoteTold(kernels_', w, copy'[w].note, notes'[w])
    BY DEF RowsShown
  <2>1. PinTold(kernels_, w, copy[w].pin, w \in pins) /\ NoteTold(kernels_, w, copy[w].note, notes[w])
    BY <1>3 DEF RowsShown
  <2>2. NoteTold(kernels_', w, copy'[w].note, notes'[w])
    BY <1>1, <1>4, <1>6, <2>1, Told
  <2>3. CASE w = v
    BY <1>6, <1>7, <2>2, <2>3
  <2>4. CASE w # v
    <3>1. (w \in pins') = (w \in pins)
      <4>1. (w \in pins') <=> (w \in pins)
        BY <1>1, <2>4
      <4> QED BY <4>1
    <3>2. PinTold(kernels_', w, copy[w].pin, w \in pins)
      BY <1>4, <2>1, <2>4, Told
    <3> QED BY <1>6, <2>2, <2>4, <3>1, <3>2
  <2> QED BY <2>3, <2>4
<1>9. PanelShown' /\ NothingKnown'
  BY <1>1, <1>6 DEF PanelShown, NothingKnown, TableInv
<1>10. selected' \in 0..Len(kernels_')
  BY <1>1, <1>3, <1>4 DEF StaysSelected
<1>11. pins' \subseteq Versions
  BY <1>1, <1>2, <1>3
<1> QED BY <1>1, <1>4, <1>6, <1>8, <1>9, <1>10, <1>11 DEF TableInv

\* Writing a note, whether or not the store takes it.
LEMMA NoteWritten ==
    ASSUME TableInv, NEW v \in Versions, NEW text \in Notes, WriteNote(v, text),
           UNCHANGED <<running, isOpen, pins>>
    PROVE  /\ kernels_' \in Seq(Row) /\ Len(kernels_') = Len(kernels_)
           /\ notes' \in [Versions -> Notes]
           /\ copy' \in [Versions -> [pin : Copies, note : Copies]]
           /\ \/ copy'[v].note = "apart"
              \/ copy'[v].note = "written" /\ notes'[v] = text
           /\ RowsShown'
           /\ NothingKnown'
<1>1. /\ kernels_' = setKernelNote(kernels_, v, text)
      /\ \/ /\ isOpen /\ notes' = [notes EXCEPT ![v] = text]
            /\ copy' = [copy EXCEPT ![v].note = "written"]
         \/ /\ notes' = notes
            /\ copy' = [copy EXCEPT ![v].note = "apart"]
  BY DEF WriteNote
<1>2. /\ kernels_ \in Seq(Row) /\ RowsShown /\ NothingKnown /\ notes \in [Versions -> Notes]
      /\ copy \in [Versions -> [pin : Copies, note : Copies]]
  BY DEF TableInv
<1>3. /\ kernels_' \in Seq(Row) /\ Len(kernels_') = Len(kernels_)
      /\ NotesOf(kernels_', v) = {} \/ text \in NotesOf(kernels_', v)
      /\ \A w : w # v => NotesOf(kernels_', w) = NotesOf(kernels_, w)
      /\ \A w : PinsOf(kernels_', w) = PinsOf(kernels_, w)
  BY <1>1, <1>2, NotedRows
<1>4. PICK how \in {"written", "apart"} :
          /\ copy' = [copy EXCEPT ![v].note = how]
          /\ how = "written" => isOpen /\ notes' = [notes EXCEPT ![v] = text]
          /\ how = "apart" => notes' = notes
  BY <1>1
<1>5. /\ copy' \in [Versions -> [pin : Copies, note : Copies]]
      /\ copy'[v].note = how
      /\ \A w \in Versions : copy'[w].pin = copy[w].pin /\ (w # v => copy'[w] = copy[w])
  <2>1. how \in Copies
    BY DEF Copies
  <2>2. copy' = NoteCopied(copy, v, how)
    BY <1>4 DEF NoteCopied
  <2> QED BY <1>2, <2>1, <2>2, CopyChanged
<1>6. /\ notes' \in [Versions -> Notes]
      /\ \A w \in Versions : w # v => notes'[w] = notes[w]
      /\ how = "written" => notes'[v] = text
  BY <1>2, <1>4
<1>7. NoteTold(kernels_', v, how, notes'[v])
  BY <1>3, <1>6, Told
<1>8. RowsShown'
  <2> SUFFICES ASSUME NEW w \in Versions
               PROVE  /\ PinTold(kernels_', w, copy'[w].pin, w \in pins')
                      /\ NoteTold(kernels_', w, copy'[w].note, notes'[w])
    BY DEF RowsShown
  <2>1. PinTold(kernels_, w, copy[w].pin, w \in pins) /\ NoteTold(kernels_, w, copy[w].note, notes[w])
    BY <1>2 DEF RowsShown
  <2>2. PinTold(kernels_', w, copy'[w].pin, w \in pins')
    BY <1>3, <1>5, <2>1, Told
  <2>3. NoteTold(kernels_', w, copy'[w].note, notes'[w])
    BY <1>3, <1>5, <1>6, <1>7, <2>1, Told
  <2> QED BY <2>2, <2>3
<1>9. NothingKnown'
  BY <1>2, <1>4, <1>5 DEF NothingKnown
<1> QED BY <1>3, <1>5, <1>6, <1>8, <1>9

\* What the panel then shows is what was read, nothing, or what the row has of a store
\* that is not open.
LEMMA PanelFilled ==
    ASSUME kernels_' \in Seq(Row), selected \in 0..Len(kernels_'),
           notes' \in [Versions -> Notes], copy' \in [Versions -> [pin : Copies, note : Copies]],
           RowsShown', NothingKnown', isOpen' = isOpen, ShowInPanel(selected)
    PROVE  /\ panel' \in [version : Versions \cup {NoVersion}, text : Notes, copy : Copies]
           /\ PanelShown'
<1>1. CASE selected = 0
  <2>1. panel' = NoPanel
    BY <1>1 DEF ShowInPanel
  <2> QED BY <2>1, EmptyTable DEF PanelShown
<1>2. CASE selected # 0
  <2> DEFINE row == kernels_'[selected]
             v == row.version
  <2>1. row \in Row /\ v \in Versions /\ row.notes \in Notes /\ selected \in RowsOf(kernels_', v)
    <3>1. selected \in DOMAIN kernels_' /\ kernels_'[selected] \in Row
      BY <1>2
    <3> QED BY <3>1 DEF Row, RowsOf
  <2>2. NoNote \in Notes /\ notes'[v] \in Notes /\ copy'[v].note \in Copies
    BY <2>1, WindowAssumption
  <2>3. PICK text \in Notes, how \in Copies :
            /\ panel' = Panel(v, text, how)
            /\ \/ how = "read" /\ text = notes'[v]
               \/ how = "unread" /\ text = NoNote
               \/ ~isOpen /\ how = copy'[v].note /\ text = row.notes
    <3>1. "read" \in Copies /\ "unread" \in Copies
      BY DEF Copies
    <3>2. \/ panel' = Panel(v, notes'[v], "read")
          \/ panel' = Panel(v, NoNote, "unread")
          \/ ~isOpen /\ panel' = Panel(v, row.notes, copy'[v].note)
      BY <1>2 DEF ShowInPanel
    <3> HIDE DEF row, v
    <3> QED BY <2>1, <2>2, <3>1, <3>2
  <2>4. row.notes \in NotesOf(kernels_', v)
    BY <2>1 DEF NotesOf
  <2>5. NoteTold(kernels_', v, copy'[v].note, notes'[v])
    BY <2>1 DEF RowsShown
  <2>6. ~isOpen => copy'[v].note \in {"unread", "apart"}
    BY <2>1 DEF NothingKnown
  <2> HIDE DEF row, v
  <2>7. Tells(how, {text}, notes'[v], NoNote)
    BY <2>3, <2>4, <2>5, <2>6 DEF NoteTold, Tells
  <2>8. panel'.version = v /\ panel'.text = text /\ panel'.copy = how
    BY <2>3 DEF Panel
  <2>9. panel' \in [version : Versions \cup {NoVersion}, text : Notes, copy : Copies]
    BY <2>1, <2>3 DEF Panel
  <2> QED BY <2>7, <2>8, <2>9 DEF PanelShown
<1> QED BY <1>1, <1>2

LEMMA TableShown ==
    ASSUME TableInv, showSelectedKernelDetails
    PROVE  TableInv'
<1>1. /\ ShowInPanel(selected)
      /\ UNCHANGED <<running, isOpen, pins, notes, kernels_, selected, copy, asking>>
  BY DEF showSelectedKernelDetails, table, rest
<1>2. RowsShown' /\ NothingKnown'
  BY <1>1 DEF TableInv, RowsShown, NothingKnown
<1>3. /\ kernels_' \in Seq(Row) /\ selected \in 0..Len(kernels_')
      /\ notes' \in [Versions -> Notes]
      /\ copy' \in [Versions -> [pin : Copies, note : Copies]]
  BY <1>1 DEF TableInv
<1>4. /\ panel' \in [version : Versions \cup {NoVersion}, text : Notes, copy : Copies]
      /\ PanelShown'
  BY <1>1, <1>2, <1>3, PanelFilled
<1> QED BY <1>1, <1>2, <1>4 DEF TableInv

LEMMA TableNoted ==
    ASSUME TableInv, NEW text \in Notes, saveNote(text)
    PROVE  TableInv'
<1> DEFINE v == panel.version
<1>1. /\ v # NoVersion /\ WriteNote(v, text)
      /\ panel' = Panel(v, text, copy'[v].note)
      /\ pins' = pins /\ selected' = selected /\ asking' = asking
      /\ running' = running /\ isOpen' = isOpen
  BY DEF saveNote, rest
<1>2. /\ panel \in [version : Versions \cup {NoVersion}, text : Notes, copy : Copies]
      /\ pins \subseteq Versions
      /\ asking = Nothing \/ asking \in [what : Questions, kernel : Row]
      /\ selected \in 0..Len(kernels_)
      /\ isOpen \in BOOLEAN
  BY DEF TableInv
<1>3. v \in Versions
  BY <1>1, <1>2
<1> HIDE DEF v
<1>4. /\ kernels_' \in Seq(Row) /\ Len(kernels_') = Len(kernels_)
      /\ notes' \in [Versions -> Notes]
      /\ copy' \in [Versions -> [pin : Copies, note : Copies]]
      /\ \/ copy'[v].note = "apart"
         \/ copy'[v].note = "written" /\ notes'[v] = text
      /\ RowsShown' /\ NothingKnown'
  BY <1>1, <1>3, NoteWritten
<1> DEFINE how == copy'[v].note
<1>5. how \in Copies
  BY <1>3, <1>4
<1>6. how = "apart" \/ (how = "written" /\ notes'[v] = text)
  BY <1>4
<1>7. panel' = Panel(v, text, how)
  BY <1>1
<1> HIDE DEF how
<1>8. /\ panel' \in [version : Versions \cup {NoVersion}, text : Notes, copy : Copies]
      /\ panel'.version = v /\ panel'.text = text /\ panel'.copy = how
  BY <1>3, <1>5, <1>7 DEF Panel
<1>9. PanelShown'
  BY <1>6, <1>8 DEF PanelShown, Tells
<1> QED BY <1>1, <1>2, <1>4, <1>8, <1>9 DEF TableInv

LEMMA TableEdited ==
    ASSUME TableInv, NEW text \in Notes, editSelectedKernelNote(text)
    PROVE  TableInv'
<1>1. /\ asking.what = "note" /\ WriteNote(asking.kernel.version, text)
      /\ ShowInPanel(selected) /\ asking' = Nothing
      /\ pins' = pins /\ selected' = selected /\ running' = running /\ isOpen' = isOpen
  BY DEF editSelectedKernelNote, rest
<1>2. /\ asking = Nothing \/ asking \in [what : Questions, kernel : Row]
      /\ pins \subseteq Versions /\ selected \in 0..Len(kernels_) /\ isOpen \in BOOLEAN
  BY DEF TableInv
<1>3. asking.kernel.version \in Versions
  <2>1. Nothing.what # "note"
    BY DEF Nothing
  <2>2. asking.kernel \in Row
    BY <1>1, <1>2, <2>1
  <2> QED BY <2>2 DEF Row
<1>4. /\ kernels_' \in Seq(Row) /\ Len(kernels_') = Len(kernels_)
      /\ notes' \in [Versions -> Notes]
      /\ copy' \in [Versions -> [pin : Copies, note : Copies]]
      /\ RowsShown' /\ NothingKnown'
  BY <1>1, <1>3, NoteWritten
<1>5. selected \in 0..Len(kernels_')
  BY <1>2, <1>4
<1>6. /\ panel' \in [version : Versions \cup {NoVersion}, text : Notes, copy : Copies]
      /\ PanelShown'
  BY <1>1, <1>4, <1>5, PanelFilled
<1> QED BY <1>1, <1>2, <1>4, <1>6 DEF TableInv

\* New priorities change the order of the rows and no row.
LEMMA TableSorted ==
    ASSUME TableInv, Complete(config_'), applyConfig,
           UNCHANGED <<running, isOpen, pins, notes, panel, copy, asking>>
    PROVE  TableInv'
<1>1. kernels_' = sortRows(kernels_, config_'["priorities"]) /\ selected' = 0
  BY DEF applyConfig, SelectedAfterReset
<1>2. config_'["priorities"] \in [Sources -> Int]
  BY DEF Complete, IsConfiguration, ConfigKeys
<1>3. kernels_ \in Seq(Row) /\ RowsShown /\ PanelShown /\ NothingKnown
  BY DEF TableInv
<1>4. kernels_' \in Seq(Row)
  BY <1>1, <1>2, <1>3, SortedRows
<1>5. RowsShown'
  <2> SUFFICES ASSUME NEW v \in Versions
               PROVE  /\ PinTold(kernels_', v, copy'[v].pin, v \in pins')
                      /\ NoteTold(kernels_', v, copy'[v].note, notes'[v])
    BY DEF RowsShown
  <2>1. PinTold(kernels_, v, copy[v].pin, v \in pins) /\ NoteTold(kernels_, v, copy[v].note, notes[v])
    BY <1>3 DEF RowsShown
  <2>2. PinsOf(kernels_', v) = PinsOf(kernels_, v) /\ NotesOf(kernels_', v) = NotesOf(kernels_, v)
    BY <1>1, <1>2, <1>3, SortedShow
  <2> QED BY <2>1, <2>2, Told
<1>6. PanelShown' /\ NothingKnown'
  BY <1>3 DEF PanelShown, NothingKnown
<1> QED BY <1>1, <1>4, <1>5, <1>6 DEF TableInv

\* Another process pins or unpins a version, or writes its note, which the window then
\* may show otherwise.
LEMMA TableWritten ==
    ASSUME TableInv, NEW v \in Versions, otherProcessWrites(v)
    PROVE  TableInv'
<1>1. UNCHANGED <<running, isOpen, kernels_, selected, asking>>
  BY DEF otherProcessWrites, table, rest
<1>2. /\ panel \in [version : Versions \cup {NoVersion}, text : Notes, copy : Copies]
      /\ pins \subseteq Versions /\ notes \in [Versions -> Notes]
      /\ copy \in [Versions -> [pin : Copies, note : Copies]]
      /\ RowsShown /\ PanelShown /\ NothingKnown
  BY DEF TableInv
<1>3. "apart" \in Copies
  BY DEF Copies
<1>4. \A w \in Versions : /\ PinTold(kernels_, w, copy[w].pin, w \in pins)
                          /\ NoteTold(kernels_, w, copy[w].note, notes[w])
  BY <1>2 DEF RowsShown
<1>5. CASE /\ pins' \in {pins \cup {v}, pins \ {v}}
           /\ copy' = [copy EXCEPT ![v].pin = "apart"]
           /\ UNCHANGED <<notes, panel>>
  <2>1. /\ copy' \in [Versions -> [pin : Copies, note : Copies]]
        /\ copy'[v].pin = "apart"
        /\ \A w \in Versions : copy'[w].note = copy[w].note /\ (w # v => copy'[w] = copy[w])
    <3> DEFINE how == "apart"
    <3>1. copy' = PinCopied(copy, v, how) /\ how \in Copies /\ how = "apart"
      BY <1>3, <1>5 DEF PinCopied
    <3> HIDE DEF how
    <3> QED BY <1>2, <3>1, CopyChanged
  <2>2. \A w \in Versions : PinTold(kernels_, w, copy'[w].pin, w \in pins')
    <3> SUFFICES ASSUME NEW w \in Versions PROVE PinTold(kernels_, w, copy'[w].pin, w \in pins')
      OBVIOUS
    <3>1. CASE w = v
      BY <2>1, <3>1, Told
    <3>2. CASE w # v
      <4>1. (w \in pins') <=> (w \in pins)
        BY <1>5, <3>2
      <4>2. (w \in pins') = (w \in pins)
        BY <4>1
      <4> QED BY <1>4, <2>1, <3>2, <4>2
    <3> QED BY <3>1, <3>2
  <2>3. RowsShown'
    BY <1>1, <1>4, <1>5, <2>1, <2>2 DEF RowsShown
  <2>4. PanelShown' /\ NothingKnown'
    BY <1>1, <1>2, <1>5, <2>1 DEF PanelShown, NothingKnown
  <2>5. pins' \subseteq Versions
    BY <1>2, <1>5
  <2> QED BY <1>1, <1>5, <2>1, <2>3, <2>4, <2>5 DEF TableInv
<1>6. ASSUME NEW text \in Notes, notes' = [notes EXCEPT ![v] = text], pins' = pins,
             copy' = [copy EXCEPT ![v].note = "apart"],
             panel' = IF panel.version = v THEN Panel(v, panel.text, "apart") ELSE panel
      PROVE  TableInv'
  <2>1. /\ copy' \in [Versions -> [pin : Copies, note : Copies]]
        /\ copy'[v].note = "apart"
        /\ \A w \in Versions : copy'[w].pin = copy[w].pin /\ (w # v => copy'[w] = copy[w])
    <3> DEFINE how == "apart"
    <3>1. copy' = NoteCopied(copy, v, how) /\ how \in Copies /\ how = "apart"
      BY <1>3, <1>6 DEF NoteCopied
    <3> HIDE DEF how
    <3> QED BY <1>2, <3>1, CopyChanged
  <2>2. /\ notes' \in [Versions -> Notes]
        /\ \A w \in Versions : w # v => notes'[w] = notes[w]
    BY <1>2, <1>6
  <2>3. \A w \in Versions : NoteTold(kernels_, w, copy'[w].note, notes'[w])
    BY <1>4, <2>1, <2>2, Told
  <2>4. RowsShown'
    BY <1>1, <1>4, <1>6, <2>1, <2>3 DEF RowsShown
  <2>5. NothingKnown'
    BY <1>1, <1>2, <2>1 DEF NothingKnown
  <2>6. /\ panel' \in [version : Versions \cup {NoVersion}, text : Notes, copy : Copies]
        /\ PanelShown'
    <3>1. CASE panel.version = v
      <4>1. panel' = Panel(v, panel.text, "apart") /\ panel.text \in Notes
        BY <1>2, <1>6, <3>1
      <4>2. panel' \in [version : Versions \cup {NoVersion}, text : Notes, copy : Copies]
        BY <1>3, <4>1 DEF Panel
      <4>3. panel'.copy = "apart"
        BY <4>1 DEF Panel
      <4> QED BY <4>2, <4>3 DEF PanelShown, Tells
    <3>2. CASE panel.version # v
      <4>1. panel' = panel
        BY <1>6, <3>2
      <4>2. panel.version # NoVersion => notes'[panel.version] = notes[panel.version]
        BY <1>2, <2>2, <3>2
      <4> QED BY <1>2, <4>1, <4>2 DEF PanelShown
    <3> QED BY <3>1, <3>2
  <2> QED BY <1>1, <1>2, <1>6, <2>1, <2>2, <2>4, <2>5, <2>6 DEF TableInv
<1> QED BY <1>5, <1>6 DEF otherProcessWrites

\* The rest of the window leaves rows, notes and panel alone.
LEMMA TableStays ==
    ASSUME \/ refreshKernels \/ decline \/ Packages \/ Boot \/ otherProcessLoads
           \/ settings /\ ~acceptSettings
           \/ \E mode \in Themes : chooseTheme(mode)
           \/ UNCHANGED vars
    PROVE  /\ UNCHANGED <<running, isOpen, pins, notes, table, panel, copy>>
           /\ asking' \in {asking, Nothing}
<1>1. CASE refreshKernels \/ decline \/ UNCHANGED vars
  BY <1>1 DEF refreshKernels, decline, vars, rest
<1>2. CASE Packages
  BY <1>2 DEF Packages, startPackageOperation, closeDialog, operationFinished, rest
<1>3. CASE Boot
  BY <1>3 DEF Boot, showBootOrderPanel, setSelectedKernelAsDefault, finishList, deliver, rest
<1>4. CASE \/ otherProcessLoads
           \/ settings /\ ~acceptSettings
           \/ \E mode \in Themes : chooseTheme(mode)
  BY <1>4 DEF otherProcessLoads, settings, chooseTheme, UNCHANGED_Window
<1> QED BY <1>1, <1>2, <1>3, <1>4

LEMMA TableStep ==
    ASSUME ConfigInv, TableInv, [Next]_vars
    PROVE  TableInv'
<1>1. CASE \/ refreshKernels \/ decline \/ Packages \/ Boot \/ otherProcessLoads
           \/ settings /\ ~acceptSettings
           \/ \E mode \in Themes : chooseTheme(mode)
           \/ UNCHANGED vars
  BY <1>1, TableStays, TableQuiet
<1>2. CASE start \/ quit
  BY <1>2, TableStart, TableQuit
<1>3. CASE settings /\ acceptSettings
  <2>1. Complete(config_')
    BY <1>3, ConfigParts, DialogSaves DEF acceptSettings
  <2>2. CASE applyConfig /\ UNCHANGED <<running, isOpen, pins, notes, panel, copy, asking>>
    BY <2>1, <2>2, TableSorted
  <2>3. CASE UNCHANGED <<running, isOpen, pins, notes, table, panel, copy, asking>>
    BY <2>3, TableQuiet
  <2> QED BY <1>3, <2>2, <2>3 DEF settings, UNCHANGED_Window
<1>4. ASSUME NEW row \in DOMAIN kernels_, select(row) PROVE TableInv'
  <2>1. row \in 0..Len(kernels_)
    BY DEF TableInv
  <2> QED BY <1>4, <2>1, TableCalm DEF select, TableInv, rest
<1>5. ASSUME NEW filter, setQuickFilter(filter) PROVE TableInv'
  <2>1. selected' \in 0..Len(kernels_)
    BY <1>5 DEF setQuickFilter, StaysSelected, TableInv
  <2> QED BY <1>5, <2>1, TableCalm DEF setQuickFilter, TableInv, rest
<1>6. ASSUME NEW what \in Questions, ask(what) PROVE TableInv'
  <2>1. asking' \in [what : Questions, kernel : Row]
    BY <1>6, SelectedRow DEF ask
  <2> QED BY <1>6, <2>1, TableCalm DEF ask, table, TableInv, rest
<1>7. ASSUME Table PROVE TableInv'
  BY <1>1, <1>4, <1>5, <1>7, TableListed, TablePinned, TableShown, TableNoted, TableEdited
  DEF Table
<1>8. ASSUME NEW v \in Versions, otherProcessWrites(v) PROVE TableInv'
  BY <1>8, TableWritten
<1> QED BY <1>1, <1>2, <1>3, <1>6, <1>7, <1>8 DEF Next, Questions

-----------------------------------------------------------------------------
(***************************************************************************)
(* The steps of the package operations.                                    *)
(***************************************************************************)

LEMMA PackagesInit == Init => PackagesInv
BY DEF Init, PackagesInv, RecordedAsReported

LEMMA PackagesQuiet ==
    ASSUME PackagesInv, UNCHANGED packages
    PROVE  PackagesInv'
BY DEF packages, PackagesInv, RecordedAsReported

LEMMA PackagesQuit ==
    ASSUME quit
    PROVE  PackagesInv'
BY DEF quit, PackagesInv, RecordedAsReported

\* An operation and its dialog in another state.
ClosedAs(op, s) == [op EXCEPT !.shown = s]

LEMMA ClosedOperation ==
    ASSUME NEW op \in Operation, NEW s \in {"closed", "closedEarly"}
    PROVE  /\ ClosedAs(op, s) \in Operation
           /\ ClosedAs(op, s).backend = op.backend
           /\ ClosedAs(op, s).shown = s
BY DEF Operation, ClosedAs

EndOf(op, b, s) == [op EXCEPT !.backend = b, !.shown = s]

LEMMA EndedOperation ==
    ASSUME NEW op \in Operation,
           NEW b \in {"refused", "running", "lost", "succeeded", "failed"},
           NEW s \in {"progress", "finished", "closed", "closedEarly"}
    PROVE  /\ EndOf(op, b, s) \in Operation
           /\ EndOf(op, b, s).backend = b
           /\ EndOf(op, b, s).shown = s
BY DEF Operation, EndOf

\* What begins has no record yet.
LEMMA PackagesBegin ==
    ASSUME TableInv, PackagesInv, startPackageOperation
    PROVE  PackagesInv'
<1>1. /\ operations \in Seq(Operation) /\ unrecorded \subseteq DOMAIN operations
      /\ \A r \in history : r.operation \in DOMAIN operations
      /\ \A k \in unrecorded : operations[k].shown \in {"finished", "closed"}
      /\ RecordedAsReported
  BY DEF PackagesInv
<1>2. PICK begins \in {"refused", "running", "lost"} :
          operations' = Append(operations, [kernel |-> asking.kernel, action |-> asking.what,
                                            backend |-> begins, shown |-> "progress"])
  BY DEF startPackageOperation, Begins
<1>3. asking.what \in {"install", "remove"} /\ history' = history /\ unrecorded' = unrecorded
  BY DEF startPackageOperation
<1>4. asking.kernel \in Row
  BY <1>3 DEF TableInv, Nothing
<1> DEFINE op == [kernel |-> asking.kernel, action |-> asking.what,
                  backend |-> begins, shown |-> "progress"]
<1>5. op \in Operation /\ op.shown = "progress"
  BY <1>3, <1>4 DEF Operation
<1> HIDE DEF op
<1>6. /\ operations' \in Seq(Operation)
      /\ DOMAIN operations' = DOMAIN operations \cup {Len(operations) + 1}
      /\ \A i \in DOMAIN operations : operations'[i] = operations[i]
      /\ operations'[Len(operations) + 1].shown = "progress"
  BY <1>1, <1>2, <1>5 DEF op
<1>7. Len(operations) + 1 \notin DOMAIN operations
  BY <1>1
<1>8. RecordedAsReported'
  BY <1>1, <1>3, <1>6, <1>7 DEF RecordedAsReported
<1> QED BY <1>1, <1>3, <1>6, <1>8 DEF PackagesInv

\* A dialog that is closed has seen the end, or sees none: nothing is recorded and
\* nothing needs to be.
LEMMA PackagesClose ==
    ASSUME PackagesInv, NEW i \in DOMAIN operations, closeDialog(i)
    PROVE  PackagesInv'
<1>1. /\ operations \in Seq(Operation) /\ unrecorded \subseteq DOMAIN operations
      /\ \A r \in history : r.operation \in DOMAIN operations
      /\ \A k \in unrecorded : operations[k].shown \in {"finished", "closed"}
      /\ RecordedAsReported
  BY DEF PackagesInv
<1> DEFINE s == IF operations[i].shown = "finished" THEN "closed" ELSE "closedEarly"
           op == ClosedAs(operations[i], s)
<1>2. /\ operations' = [operations EXCEPT ![i] = op]
      /\ history' = history /\ unrecorded' = unrecorded
      /\ operations[i].shown \in {"progress", "finished"}
  BY DEF closeDialog, ClosedAs
<1>3. op \in Operation /\ op.backend = operations[i].backend /\ op.shown = s
  <2>1. operations[i] \in Operation /\ s \in {"closed", "closedEarly"}
    BY <1>1
  <2> HIDE DEF s
  <2> QED BY <2>1, ClosedOperation
<1> HIDE DEF op
<1>4. /\ operations' \in Seq(Operation) /\ DOMAIN operations' = DOMAIN operations
      /\ operations'[i] = op
      /\ \A k \in DOMAIN operations : k # i => operations'[k] = operations[k]
  BY <1>1, <1>2, <1>3
<1>5. \A k \in DOMAIN operations :
          /\ operations'[k].backend = operations[k].backend
          /\ (operations'[k].shown \in {"finished", "closed"}) <=>
                (operations[k].shown \in {"finished", "closed"})
  BY <1>2, <1>3, <1>4
<1>6. RecordedAsReported'
  BY <1>1, <1>2, <1>4, <1>5 DEF RecordedAsReported
<1> QED BY <1>1, <1>2, <1>4, <1>5, <1>6 DEF PackagesInv

\* An operation that ends has no record, because it had not ended; its dialog makes
\* one if it still waits and the store takes it, and the other dialogs do nothing.
LEMMA PackagesEnd ==
    ASSUME PackagesInv, NEW i \in DOMAIN operations, NEW success \in BOOLEAN,
           operationFinished(i, success)
    PROVE  PackagesInv'
<1>1. /\ operations \in Seq(Operation) /\ unrecorded \subseteq DOMAIN operations
      /\ \A r \in history : r.operation \in DOMAIN operations
      /\ \A k \in unrecorded : operations[k].shown \in {"finished", "closed"}
      /\ RecordedAsReported
  BY DEF PackagesInv
<1> DEFINE result == IF success THEN "succeeded" ELSE "failed"
           listens == operations[i].shown = "progress"
<1>2. operations[i].backend \in {"running", "refused"}
  BY DEF operationFinished
<1>3. \A r \in history : r.operation # i
  BY <1>1, <1>2 DEF RecordedAsReported
<1>4. \A k \in DOMAIN operations : operations[k] \in Operation
  BY <1>1
<1>5. /\ DOMAIN operations' = DOMAIN operations
      /\ \A k \in DOMAIN operations :
            /\ operations'[k] \in Operation
            /\ operations'[k].backend = IF k = i THEN result ELSE operations[k].backend
            /\ operations'[k].shown = IF k = i /\ listens THEN "finished" ELSE operations[k].shown
  <2>1. operations' = [k \in DOMAIN operations |->
            [operations[k] EXCEPT
                !.backend = IF k = i THEN result ELSE @,
                !.shown = IF k \in Listening(i) THEN "finished" ELSE @]]
    BY DEF operationFinished
  <2>2. \A k \in DOMAIN operations : k \in Listening(i) <=> k = i /\ listens
    BY DEF Listening
  <2> SUFFICES ASSUME NEW k \in DOMAIN operations
               PROVE  /\ DOMAIN operations' = DOMAIN operations
                      /\ operations'[k] \in Operation
                      /\ operations'[k].backend = IF k = i THEN result ELSE operations[k].backend
                      /\ operations'[k].shown =
                            IF k = i /\ listens THEN "finished" ELSE operations[k].shown
    BY <2>1
  <2> DEFINE b == IF k = i THEN result ELSE operations[k].backend
             s == IF k \in Listening(i) THEN "finished" ELSE operations[k].shown
             changed == EndOf(operations[k], b, s)
  <2>3. /\ b \in {"refused", "running", "lost", "succeeded", "failed"}
        /\ s \in {"progress", "finished", "closed", "closedEarly"}
    BY <1>4 DEF Operation
  <2>4. operations'[k] = changed
    BY <2>1 DEF EndOf
  <2>5. s = IF k = i /\ listens THEN "finished" ELSE operations[k].shown
    BY <2>2
  <2> HIDE DEF b, s
  <2>6. changed \in Operation /\ changed.backend = b /\ changed.shown = s
    <3>1. operations[k] \in Operation
      BY <1>4
    <3> QED BY <2>3, <3>1, EndedOperation
  <2> HIDE DEF changed
  <2> QED BY <2>1, <2>4, <2>5, <2>6 DEF b
<1>6. operations' \in Seq(Operation)
  <2> DEFINE ended(k) ==
                 [operations[k] EXCEPT
                     !.backend = IF k = i THEN IF success THEN "succeeded" ELSE "failed" ELSE @,
                     !.shown = IF k \in Listening(i) THEN "finished" ELSE @]
  <2>1. operations' = [k \in 1..Len(operations) |-> operations'[k]]
    <3>1. operations' = [k \in DOMAIN operations |-> ended(k)]
      BY DEF operationFinished
    <3> HIDE DEF ended
    <3> QED BY <1>1, <3>1
  <2> QED BY <1>1, <1>5, <2>1
<1>7. PICK recorded \in SUBSET Listening(i) :
          /\ history' = history \cup {Record(k, success) : k \in recorded}
          /\ unrecorded' = unrecorded \cup (Listening(i) \ recorded)
  BY DEF operationFinished
<1>8. \A k \in Listening(i) : k = i /\ listens
  BY DEF Listening
<1>9. listens => i \in Listening(i)
  BY DEF Listening
<1>10. Record(i, success).operation = i /\ Record(i, success).success = success
  BY DEF Record
<1>11. /\ \A r \in history' : r \in history \/ (r = Record(i, success) /\ i \in recorded)
       /\ \A r \in history : r \in history'
       /\ i \in recorded => Record(i, success) \in history'
  BY <1>7, <1>8
<1>12. listens => i \notin unrecorded
  BY <1>1
<1> HIDE DEF listens
<1>13. /\ \A r \in history' : operations'[r.operation].backend =
                                  (IF r.success THEN "succeeded" ELSE "failed")
       /\ \A r \in history' : r.operation \in DOMAIN operations'
  BY <1>1, <1>3, <1>5, <1>10, <1>11 DEF RecordedAsReported
<1>14. \A q, r \in history' : q.operation = r.operation => q = r
  BY <1>1, <1>3, <1>10, <1>11 DEF RecordedAsReported
<1>15. /\ unrecorded' \subseteq DOMAIN operations'
       /\ \A k \in unrecorded' : operations'[k].shown \in {"finished", "closed"}
  BY <1>1, <1>5, <1>7, <1>8
<1>16. \A k \in DOMAIN operations' :
          (\E r \in history' : r.operation = k) <=>
             operations'[k].shown \in {"finished", "closed"} /\ k \notin unrecorded'
  <2> SUFFICES ASSUME NEW k \in DOMAIN operations
               PROVE  (\E r \in history' : r.operation = k) <=>
                         operations'[k].shown \in {"finished", "closed"} /\ k \notin unrecorded'
    BY <1>5
  <2>1. CASE k = i /\ listens
    <3>1. operations'[k].shown = "finished"
      BY <1>5, <2>1
    <3>2. k \notin unrecorded' <=> i \in recorded
      BY <1>7, <1>9, <1>12, <2>1
    <3>3. (\E r \in history' : r.operation = k) <=> i \in recorded
      BY <1>3, <1>10, <1>11, <2>1
    <3> QED BY <3>1, <3>2, <3>3
  <2>2. CASE ~(k = i /\ listens)
    <3>1. operations'[k].shown = operations[k].shown
      BY <1>5, <2>2
    <3>2. k \notin unrecorded' <=> k \notin unrecorded
      BY <1>7, <1>8, <2>2
    <3>3. (\E r \in history' : r.operation = k) <=> (\E r \in history : r.operation = k)
      BY <1>8, <1>10, <1>11, <2>2
    <3>4. (\E r \in history : r.operation = k) <=>
              operations[k].shown \in {"finished", "closed"} /\ k \notin unrecorded
      BY <1>1 DEF RecordedAsReported
    <3> QED BY <3>1, <3>2, <3>3, <3>4
  <2> QED BY <2>1, <2>2
<1>17. RecordedAsReported'
  BY <1>13, <1>14, <1>16 DEF RecordedAsReported
<1> QED BY <1>6, <1>13, <1>15, <1>17 DEF PackagesInv

LEMMA PackagesStep ==
    ASSUME TableInv, PackagesInv, [Next]_vars
    PROVE  PackagesInv'
<1>1. CASE UNCHANGED packages
  BY <1>1, PackagesQuiet
<1>2. CASE quit
  BY <1>2, PackagesQuit
<1>3. CASE Packages
  BY <1>3, PackagesBegin, PackagesClose, PackagesEnd DEF Packages
<1>4. ASSUME Table PROVE UNCHANGED packages
  BY <1>4 DEF Table, refreshKernels, onKernelListChanged, select, setQuickFilter,
              toggleSelectedKernelPin, showSelectedKernelDetails, saveNote,
              editSelectedKernelNote
<1>5. ASSUME Boot PROVE UNCHANGED packages
  BY <1>5 DEF Boot, showBootOrderPanel, setSelectedKernelAsDefault, finishList, deliver
<1>6. ASSUME \/ settings \/ otherProcessLoads \/ start \/ decline
             \/ (\E mode \in Themes : chooseTheme(mode))
             \/ UNCHANGED vars
      PROVE  UNCHANGED packages
  BY <1>6 DEF settings, otherProcessLoads, start, decline, chooseTheme, UNCHANGED_Window, vars
<1>7. ASSUME NEW what, ask(what) PROVE UNCHANGED packages
  BY <1>7 DEF ask
<1>8. ASSUME NEW v, otherProcessWrites(v) PROVE UNCHANGED packages
  BY <1>8 DEF otherProcessWrites
<1> QED BY <1>1, <1>2, <1>3, <1>4, <1>5, <1>6, <1>7, <1>8 DEF Next

-----------------------------------------------------------------------------
(***************************************************************************)
(* The steps of the boot entries.                                          *)
(***************************************************************************)

LEMMA BootInit == Init => BootInv
BY DEF Init, BootInv

LEMMA BootQuiet ==
    ASSUME BootInv, UNCHANGED boot
    PROVE  BootInv'
BY DEF boot, BootInv, Waiting, Answered

LEMMA BootQuit ==
    ASSUME quit
    PROVE  BootInv'
BY DEF quit, BootInv

\* A signal is left to be delivered to every request that waits.
LEMMA EmitReaches ==
    ASSUME NEW signal \in {"listed", "failed"}, NEW entries, NEW asked \in Seq(Request)
    PROVE  /\ \A r \in DOMAIN asked : Waiting(asked[r]) =>
                 \E d \in Emit(signal, entries, asked) : d.to = r
           /\ \A d \in Emit(signal, entries, asked) :
                 d \in deliveries \/ (d.to \in DOMAIN asked /\ d.signal = signal)
           /\ deliveries \subseteq Emit(signal, entries, asked)
<1> DEFINE to(r) == [to |-> r, signal |-> signal, entries |-> entries]
<1>1. Emit(signal, entries, asked) =
          deliveries \cup {to(r) : r \in {k \in DOMAIN asked : signal \in asked[k].connections}}
  BY DEF Emit
<1>2. \A r : to(r).to = r /\ to(r).signal = signal
  OBVIOUS
<1> HIDE DEF to
<1>3. \A r \in DOMAIN asked : Waiting(asked[r]) => signal \in asked[r].connections
  BY DEF Waiting
<1> QED BY <1>1, <1>2, <1>3

\* Asking for the list: it is under way, or everybody who waits hears that it is not.
LEMMA ListAsked ==
    ASSUME NEW asked \in Seq(Request), listBootEntries(asked),
           list_process_ \in {"nullptr", "running", "lost"}
    PROVE  /\ list_process_' \in {"nullptr", "running", "lost"}
           /\ \A r \in DOMAIN asked : Waiting(asked[r]) =>
                 list_process_' # "nullptr" \/ \E d \in deliveries' : d.to = r
           /\ \A d \in deliveries' :
                 d \in deliveries \/ (d.to \in DOMAIN asked /\ d.signal \in {"listed", "failed"})
<1>1. CASE deliveries' = Emit("failed", {}, asked) /\ list_process_' = list_process_
  BY <1>1, EmitReaches
<1>2. CASE list_process_' \in {"running", "lost"} /\ deliveries' = deliveries
  BY <1>2
<1> QED BY <1>1, <1>2 DEF listBootEntries

LEMMA BootShow ==
    ASSUME BootInv, showBootOrderPanel
    PROVE  BootInv'
<1>1. listBootEntries(requests) /\ requests' = requests
  BY DEF showBootOrderPanel
<1> QED BY <1>1, ListAsked DEF BootInv, Waiting, Answered

\* The new request waits, like the ones before it.
LEMMA BootAsk ==
    ASSUME TableInv, BootInv, setSelectedKernelAsDefault
    PROVE  BootInv'
<1> DEFINE request == [version |-> asking.kernel.version, connections |-> {"listed", "failed"},
                       answers |-> <<>>]
<1>1. requests' = Append(requests, request) /\ listBootEntries(requests')
  BY DEF setSelectedKernelAsDefault
<1>2. asking.kernel \in Row
  BY DEF setSelectedKernelAsDefault, TableInv, Nothing
<1>3. request \in Request /\ Waiting(request)
  <2>1. asking.kernel.version \in Versions
    BY <1>2 DEF Row
  <2> QED BY <2>1 DEF Request, Waiting
<1> HIDE DEF request
<1>4. requests \in Seq(Request)
  BY DEF BootInv
<1>5. /\ requests' \in Seq(Request)
      /\ DOMAIN requests' = DOMAIN requests \cup {Len(requests) + 1}
      /\ \A r \in DOMAIN requests : requests'[r] = requests[r]
      /\ requests'[Len(requests) + 1] = request
  BY <1>1, <1>3, <1>4
<1>6. \A r \in DOMAIN requests' : Waiting(requests'[r]) \/ Answered(requests'[r])
  BY <1>3, <1>5 DEF BootInv
<1>7. /\ list_process_' \in {"nullptr", "running", "lost"}
      /\ \A r \in DOMAIN requests' : Waiting(requests'[r]) =>
            list_process_' # "nullptr" \/ \E d \in deliveries' : d.to = r
      /\ \A d \in deliveries' :
            d \in deliveries \/ (d.to \in DOMAIN requests' /\ d.signal \in {"listed", "failed"})
  BY <1>1, <1>5, ListAsked DEF BootInv
<1>8. \A d \in deliveries' : d.to \in DOMAIN requests' /\ d.signal \in {"listed", "failed"}
  BY <1>5, <1>7 DEF BootInv
<1> QED BY <1>5, <1>6, <1>7, <1>8 DEF BootInv, Waiting, Answered

\* The list ends for everybody who waits.
LEMMA BootListed ==
    ASSUME BootInv, finishList
    PROVE  BootInv'
<1>1. requests \in Seq(Request) /\ requests' = requests /\ list_process_' = "nullptr"
  BY DEF BootInv, finishList
<1>2. PICK signal \in {"listed", "failed"}, entries \in SUBSET Versions :
          deliveries' = Emit(signal, entries, requests)
  BY DEF finishList
<1>3. /\ \A r \in DOMAIN requests : Waiting(requests[r]) => \E d \in deliveries' : d.to = r
      /\ \A d \in deliveries' : d \in deliveries \/ (d.to \in DOMAIN requests /\ d.signal = signal)
  BY <1>1, <1>2, EmitReaches
<1> QED BY <1>1, <1>2, <1>3 DEF BootInv, Waiting, Answered

\* A request that waits is answered and hears no more; one that was answered is not
\* answered again, and the others wait for what they waited for.
LEMMA BootDeliver ==
    ASSUME BootInv, NEW d \in deliveries, deliver(d)
    PROVE  BootInv'
<1>1. /\ requests \in Seq(Request)
      /\ d.to \in DOMAIN requests /\ d.signal \in {"listed", "failed"}
      /\ \A r \in DOMAIN requests : Waiting(requests[r]) \/ Answered(requests[r])
  BY DEF BootInv
<1>2. deliveries' = deliveries \ {d} /\ list_process_' = list_process_
  BY DEF deliver
<1> DEFINE request == requests[d.to]
           answered == [request EXCEPT !.connections = {},
                                       !.answers = Append(@, Answer(request, d))]
<1>3. request \in Request
  BY <1>1
<1>4. /\ answered \in Request
      /\ Waiting(request) => Answered(answered)
  <2>1. Answer(request, d) \in {"setDefaultEntry", "notFound", "error"}
    BY DEF Answer
  <2>2. request.answers \in Seq({"setDefaultEntry", "notFound", "error"})
    BY <1>3 DEF Request
  <2> DEFINE longer == Append(request.answers, Answer(request, d))
  <2>3. /\ longer \in Seq({"setDefaultEntry", "notFound", "error"})
        /\ Len(longer) = Len(request.answers) + 1
    BY <2>1, <2>2
  <2>4. answered = [request EXCEPT !.connections = {}, !.answers = longer]
    OBVIOUS
  <2> HIDE DEF longer, answered, request
  <2>5. answered \in Request /\ answered.connections = {} /\ answered.answers = longer
    BY <1>3, <2>3, <2>4 DEF Request
  <2>6. Waiting(request) => Len(longer) = 1
    BY <2>3 DEF Waiting
  <2> QED BY <2>5, <2>6 DEF Answered
<1>5. requests' = IF d.signal \in request.connections
                  THEN [requests EXCEPT ![d.to] = answered] ELSE requests
  BY DEF deliver, Disconnected
<1> HIDE DEF answered
<1>6. /\ requests' \in Seq(Request) /\ DOMAIN requests' = DOMAIN requests
      /\ \A r \in DOMAIN requests : r # d.to => requests'[r] = requests[r]
      /\ Waiting(request) => Answered(requests'[d.to])
      /\ ~Waiting(request) => requests'[d.to] = requests[d.to]
  <2>1. CASE Waiting(request)
    <3>1. requests' = [requests EXCEPT ![d.to] = answered]
      BY <1>1, <1>5, <2>1 DEF Waiting
    <3> QED BY <1>1, <1>4, <2>1, <3>1
  <2>2. CASE ~Waiting(request)
    <3>1. requests' = requests
      BY <1>1, <1>5, <2>2 DEF Answered
    <3> QED BY <1>1, <2>2, <3>1
  <2> QED BY <2>1, <2>2
<1>7. \A r \in DOMAIN requests' : Waiting(requests'[r]) \/ Answered(requests'[r])
  BY <1>1, <1>6
<1>8. \A r \in DOMAIN requests' : Waiting(requests'[r]) => r # d.to /\ Waiting(requests[r])
  BY <1>1, <1>6 DEF Waiting, Answered
<1>9. \A r \in DOMAIN requests' : Waiting(requests'[r]) =>
          list_process_' # "nullptr" \/ \E e \in deliveries' : e.to = r
  BY <1>2, <1>6, <1>8 DEF BootInv
<1>10. \A e \in deliveries' : e.to \in DOMAIN requests' /\ e.signal \in {"listed", "failed"}
  BY <1>2, <1>6 DEF BootInv
<1> QED BY <1>2, <1>6, <1>7, <1>9, <1>10 DEF BootInv, Waiting, Answered

LEMMA BootStep ==
    ASSUME TableInv, BootInv, [Next]_vars
    PROVE  BootInv'
<1>1. CASE UNCHANGED boot
  BY <1>1, BootQuiet
<1>2. CASE quit
  BY <1>2, BootQuit
<1>3. CASE Boot
  BY <1>3, BootShow, BootAsk, BootListed, BootDeliver DEF Boot
<1>4. ASSUME Table PROVE UNCHANGED boot
  BY <1>4 DEF Table, refreshKernels, onKernelListChanged, select, setQuickFilter,
              toggleSelectedKernelPin, showSelectedKernelDetails, saveNote,
              editSelectedKernelNote
<1>5. ASSUME Packages PROVE UNCHANGED boot
  BY <1>5 DEF Packages, startPackageOperation, closeDialog, operationFinished
<1>6. ASSUME \/ settings \/ otherProcessLoads \/ start \/ decline
             \/ (\E mode \in Themes : chooseTheme(mode))
             \/ UNCHANGED vars
      PROVE  UNCHANGED boot
  BY <1>6 DEF settings, otherProcessLoads, start, decline, chooseTheme, UNCHANGED_Window, vars
<1>7. ASSUME NEW what, ask(what) PROVE UNCHANGED boot
  BY <1>7 DEF ask
<1>8. ASSUME NEW v, otherProcessWrites(v) PROVE UNCHANGED boot
  BY <1>8 DEF otherProcessWrites
<1> QED BY <1>1, <1>2, <1>3, <1>4, <1>5, <1>6, <1>7, <1>8 DEF Next

-----------------------------------------------------------------------------
(***************************************************************************)
(* The theorems.                                                           *)
(***************************************************************************)

\* Every behaviour of the window keeps the invariant: whatever the user clicks, and
\* whatever answers late.
THEOREM InductiveInvariant == Spec => []IInv
<1>1. Init => IInv
  BY ConfigInit, TableInit, PackagesInit, BootInit DEF IInv
<1>2. IInv /\ [Next]_vars => IInv'
  BY ConfigStep, TableStep, PackagesStep, BootStep DEF IInv
<1> QED BY <1>1, <1>2, PTL DEF Spec

\* The state has its types: no row is selected that is not there, no signal is for a
\* request that was not made, and a configuration never loses a key.
THEOREM TypeCorrect == Spec => []TypeOK
<1>1. IInv => TypeOK
  BY DEF IInv, ConfigInv, TableInv, PackagesInv, BootInv, TypeOK
<1> QED BY <1>1, InductiveInvariant, PTL

\* What the window shows of a version nobody else wrote is what the store has, or
\* nothing where a read failed or the store is not open, however many rows the version
\* has and however often they are sorted anew.
THEOREM ShownIsStoredAlways == Spec => []ShownIsStored
<1>1. IInv => ShownIsStored
  BY DEF IInv, TableInv, RowsShown, PanelShown, PinTold, NoteTold, ShownIsStored
<1> QED BY <1>1, InductiveInvariant, PTL

\* The history has the result of every operation whose dialog was there, once, if the
\* store took it, and of no other.
THEOREM RecordedAsReportedAlways == Spec => []RecordedAsReported
<1>1. IInv => RecordedAsReported
  BY DEF IInv, PackagesInv
<1> QED BY <1>1, InductiveInvariant, PTL

\* Every "set as default" is answered at most once, and one that is not answered has
\* something to wait for.
THEOREM AnsweredOnceAlways == Spec => []AnsweredOnce
<1>1. IInv => AnsweredOnce
  <2> SUFFICES ASSUME IInv, NEW r \in DOMAIN requests
               PROVE  /\ Len(requests[r].answers) <= 1
                      /\ requests[r].answers = <<>> =>
                            \/ list_process_ # "nullptr"
                            \/ \E d \in deliveries : d.to = r
    BY DEF AnsweredOnce
  <2>1. Waiting(requests[r]) \/ Answered(requests[r])
    BY DEF IInv, BootInv
  <2>2. Waiting(requests[r]) =>
            list_process_ # "nullptr" \/ \E d \in deliveries : d.to = r
    BY DEF IInv, BootInv
  <2> DEFINE answers == requests[r].answers
  <2>3. answers = <<>> => Len(answers) = 0
    OBVIOUS
  <2> HIDE DEF answers
  <2>4. CASE Waiting(requests[r])
    <3>1. answers = <<>>
      BY <2>4 DEF Waiting, answers
    <3> QED BY <2>2, <2>3, <2>4, <3>1 DEF answers
  <2>5. CASE Answered(requests[r])
    <3>1. Len(answers) = 1
      BY <2>5 DEF Answered, answers
    <3> QED BY <2>3, <3>1 DEF answers
  <2> QED BY <2>1, <2>4, <2>5
<1> QED BY <1>1, InductiveInvariant, PTL

\* Accepting the settings changes what the user edited and nothing else, for any
\* sources and priorities, and for every file the window may have started with.
THEOREM AcceptChangesOnlyEditsAlways == Spec => AcceptChangesOnlyEdits
<1>1. IInv /\ [Next]_vars =>
        [(dialog # Closed /\ dialog' = Closed /\ running') =>
           /\ "priorities" \notin dialog.edited =>
                 KeepsOrder(config_["priorities"], config_'["priorities"])
           /\ "interval" \notin dialog.edited /\ config_["interval"] \in Intervals \ {0} =>
                 config_'["interval"] = config_["interval"]
           /\ "theme" \notin dialog.edited => config_'["theme"] = config_["theme"]
           /\ config_'["unshown"] = config_["unshown"]
           /\ loaded /\ "unshown" \in DOMAIN file =>
                 file'["unshown"] = file["unshown"]]_<<configuration, running>>
  <2> SUFFICES ASSUME IInv, [Next]_vars, dialog # Closed, dialog' = Closed, running'
               PROVE  EditsOnly
    BY DEF EditsOnly
  <2> QED BY ClosingStep DEF IInv
<1> QED BY <1>1, InductiveInvariant, PTL DEF Spec, AcceptChangesOnlyEdits

=============================================================================
