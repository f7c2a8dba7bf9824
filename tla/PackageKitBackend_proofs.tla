---------------------- MODULE PackageKitBackend_proofs ----------------------
(***************************************************************************)
(* Proofs about PackageKitBackend, for any sets of operations and queries. *)
(*                                                                         *)
(* An operation goes on only by what it waits for: a queued refusal, the   *)
(* reply to CreateTransaction, or a transaction.  Each step takes the one  *)
(* thing a request waits for and leaves another in its place, or emits the *)
(* last signal and leaves nothing.  So OneThingAwaited tells every action  *)
(* that the request it ends is not over, which is what LastSignalIsLast    *)
(* needs of it.                                                            *)
(***************************************************************************)
EXTENDS PackageKitBackend, SequenceTheorems, TLAPS

\* The two properties for one request and the signals emitted for it.
OverIn(emitted) == \E i \in DOMAIN emitted : emitted[i] \in Final

EndsWell(emitted) ==
    \A i \in DOMAIN emitted :
        /\ emitted[i] \in Final => i = Len(emitted)
        /\ emitted[i] = "operationFinished(false)" =>
               \E j \in 1..(i - 1) : emitted[j] = "operationFailed"

\* A path waits for its reply or is a transaction, not both.
Apart == creating \cap transactions_ = {}

IInv == TypeOK /\ Apart /\ OneThingAwaited /\ LastSignalIsLast

-----------------------------------------------------------------------------
(***************************************************************************)
(* Signals.                                                                *)
(***************************************************************************)

\* A last signal that says nothing of a failure.
LEMMA LastSignal ==
    ASSUME NEW s \in Seq(Emitted), ~OverIn(s), EndsWell(s),
           NEW x \in Final, x # "operationFinished(false)"
    PROVE  /\ s \o <<x>> \in Seq(Emitted)
           /\ OverIn(s \o <<x>>)
           /\ EndsWell(s \o <<x>>)
<1> DEFINE t == s \o <<x>>
<1>1. /\ t \in Seq(Emitted)
      /\ Len(t) = Len(s) + 1
      /\ t[Len(s) + 1] = x
      /\ \A i \in 1..Len(s) : t[i] = s[i]
      /\ DOMAIN t = 1..(Len(s) + 1) /\ DOMAIN s = 1..Len(s)
      /\ Len(s) \in Nat
  BY DEF Final
<1>2. OverIn(t)
  BY <1>1 DEF OverIn
<1>3. EndsWell(t)
  <2> SUFFICES ASSUME NEW i \in DOMAIN t
               PROVE  /\ t[i] \in Final => i = Len(t)
                      /\ t[i] = "operationFinished(false)" =>
                             \E j \in 1..(i - 1) : t[j] = "operationFailed"
    BY DEF EndsWell
  <2>1. CASE i = Len(s) + 1
    BY <2>1, <1>1
  <2>2. CASE i \in 1..Len(s)
    BY <2>2, <1>1 DEF OverIn, EndsWell
  <2> QED BY <2>1, <2>2, <1>1
<1> QED BY <1>1, <1>2, <1>3

\* The two signals of failOperation.
LEMMA FailureSignals ==
    ASSUME NEW s \in Seq(Emitted), ~OverIn(s), EndsWell(s)
    PROVE  LET t == s \o <<"operationFailed", "operationFinished(false)">>
           IN  t \in Seq(Emitted) /\ OverIn(t) /\ EndsWell(t)
<1> DEFINE e == <<"operationFailed", "operationFinished(false)">>
           t == s \o e
<1>1. /\ e \in Seq(Emitted) /\ Len(e) = 2
      /\ e[1] = "operationFailed" /\ e[2] = "operationFinished(false)"
  BY DEF Emitted
<1>2. /\ t \in Seq(Emitted)
      /\ Len(t) = Len(s) + 2
      /\ t[Len(s) + 1] = "operationFailed"
      /\ t[Len(s) + 2] = "operationFinished(false)"
      /\ \A i \in 1..Len(s) : t[i] = s[i]
      /\ DOMAIN t = 1..(Len(s) + 2) /\ DOMAIN s = 1..Len(s)
      /\ Len(s) \in Nat
  BY <1>1
<1>3. "operationFailed" \notin Final /\ "operationFinished(false)" \in Final
  BY DEF Final, Emitted
<1>4. OverIn(t)
  BY <1>2, <1>3 DEF OverIn
<1>5. EndsWell(t)
  <2> SUFFICES ASSUME NEW i \in DOMAIN t
               PROVE  /\ t[i] \in Final => i = Len(t)
                      /\ t[i] = "operationFinished(false)" =>
                             \E j \in 1..(i - 1) : t[j] = "operationFailed"
    BY DEF EndsWell
  <2>1. CASE i = Len(s) + 2
    BY <2>1, <1>2
  <2>2. CASE i = Len(s) + 1
    BY <2>2, <1>2, <1>3
  <2>3. CASE i \in 1..Len(s)
    BY <2>3, <1>2 DEF OverIn, EndsWell
  <2> QED BY <2>1, <2>2, <2>3, <1>2
<1> QED BY <1>2, <1>4, <1>5

\* The signal of an ErrorCode, which ends nothing.
LEMMA ErrorSignal ==
    ASSUME NEW s \in Seq(Emitted), ~OverIn(s), EndsWell(s)
    PROVE  LET t == s \o <<"operationFailed">>
           IN  t \in Seq(Emitted) /\ ~OverIn(t) /\ EndsWell(t)
<1> DEFINE t == s \o <<"operationFailed">>
<1>1. /\ t \in Seq(Emitted)
      /\ Len(t) = Len(s) + 1
      /\ t[Len(s) + 1] = "operationFailed"
      /\ \A i \in 1..Len(s) : t[i] = s[i]
      /\ DOMAIN t = 1..(Len(s) + 1) /\ DOMAIN s = 1..Len(s)
      /\ Len(s) \in Nat
  BY DEF Emitted
<1>2. ~OverIn(t)
  <2> SUFFICES ASSUME NEW i \in DOMAIN t PROVE t[i] \notin Final
    BY DEF OverIn
  <2>1. CASE i = Len(s) + 1
    BY <2>1, <1>1 DEF Final
  <2>2. CASE i \in 1..Len(s)
    BY <2>2, <1>1 DEF OverIn
  <2> QED BY <2>1, <2>2, <1>1
<1>3. EndsWell(t)
  BY <1>1, <1>2 DEF EndsWell, OverIn, Final, Emitted
<1> QED BY <1>1, <1>2, <1>3

-----------------------------------------------------------------------------
(***************************************************************************)
(* What a request waits for.                                               *)
(***************************************************************************)

\* The members of WaitsFor(id), one by one.
LEMMA Waits ==
    TypeOK =>
        \A id \in Requests : \A thing :
            thing \in WaitsFor(id) <=>
                \/ thing \in creating \cup transactions_ /\ thing[1] = id
                \/ id \in refused /\ thing = <<id, "refused">>
BY DEF TypeOK, WaitsFor

\* A request was made when it waits for something or was sent a signal.
LEMMA AskedMeans ==
    TypeOK =>
        \A id \in Requests : Asked(id) <=> WaitsFor(id) # {} \/ signals[id] # <<>>
<1> SUFFICES ASSUME TypeOK, NEW id \in Requests
             PROVE  Asked(id) <=> WaitsFor(id) # {} \/ signals[id] # <<>>
  OBVIOUS
<1>1. id \in refused => <<id, "refused">> \in WaitsFor(id)
  BY Waits
<1>2. ASSUME NEW role \in Roles, <<id, role>> \in creating \cup transactions_
      PROVE  WaitsFor(id) # {}
  <2>1. <<id, role>> \in WaitsFor(id)
    BY <1>2, Waits
  <2> QED BY <2>1
<1>3. ASSUME NEW thing \in WaitsFor(id)
      PROVE  Asked(id)
  <2>1. CASE id \in refused
    BY <2>1 DEF Asked
  <2>2. CASE thing \in creating \cup transactions_ /\ thing[1] = id
    <3>1. thing \in Paths
      BY <2>2 DEF TypeOK
    <3>2. thing = <<id, thing[2]>> /\ thing[2] \in Roles
      BY <3>1, <2>2 DEF Paths
    <3> QED BY <3>2, <2>2 DEF Asked
  <2> QED BY <1>3, <2>1, <2>2, Waits
<1> QED BY <1>1, <1>2, <1>3 DEF Asked

\* A request that waits for a path, or for its refusal, waits for nothing else
\* and is not over.
LEMMA WaitsForThis ==
    IInv =>
        /\ \A path \in creating \cup transactions_ :
              /\ path \in Paths
              /\ WaitsFor(path[1]) = {path}
              /\ ~Over(path[1])
        /\ \A id \in refused : WaitsFor(id) = {<<id, "refused">>} /\ ~Over(id)
<1> SUFFICES ASSUME IInv
             PROVE  /\ \A path \in creating \cup transactions_ :
                          path \in Paths /\ WaitsFor(path[1]) = {path} /\ ~Over(path[1])
                    /\ \A id \in refused : WaitsFor(id) = {<<id, "refused">>} /\ ~Over(id)
  OBVIOUS
<1>1. TypeOK /\ OneThingAwaited
  BY DEF IInv
<1>2. ASSUME NEW id \in Requests, NEW thing \in WaitsFor(id)
      PROVE  WaitsFor(id) = {thing} /\ ~Over(id)
  <2>1. ~Over(id)
    BY <1>1, <1>2 DEF OneThingAwaited
  <2>2. Asked(id)
    BY <1>1, <1>2, AskedMeans
  <2>3. PICK one \in WaitsFor(id) : WaitsFor(id) = {one}
    BY <1>1, <2>1, <2>2 DEF OneThingAwaited
  <2> QED BY <2>1, <2>3, <1>2
<1>3. ASSUME NEW path \in creating \cup transactions_
      PROVE  path \in Paths /\ WaitsFor(path[1]) = {path} /\ ~Over(path[1])
  <2>1. path \in Paths /\ path[1] \in Requests
    BY <1>1, <1>3 DEF TypeOK, Paths
  <2>2. path \in WaitsFor(path[1])
    BY <1>1, <1>3, <2>1, Waits
  <2> QED BY <2>1, <2>2, <1>2
<1>4. ASSUME NEW id \in refused
      PROVE  WaitsFor(id) = {<<id, "refused">>} /\ ~Over(id)
  <2>1. id \in Requests
    BY <1>1, <1>4 DEF TypeOK, Requests
  <2>2. <<id, "refused">> \in WaitsFor(id)
    BY <1>1, <1>4, <2>1, Waits
  <2> QED BY <2>1, <2>2, <1>2
<1> QED BY <1>3, <1>4

\* A step that touches one request only: it must leave that request over and
\* waiting for nothing, or not over and waiting for one thing.
LEMMA OneRequest ==
    ASSUME IInv, TypeOK', Apart', NEW id \in Requests,
           \A path \in Paths : path[1] # id =>
               /\ path \in creating' <=> path \in creating
               /\ path \in transactions_' <=> path \in transactions_,
           \A other \in Operations : other # id => (other \in refused' <=> other \in refused),
           \A other \in Requests : other # id => signals'[other] = signals[other],
           EndsWell(signals'[id]),
           \/ OverIn(signals'[id]) /\ WaitsFor(id)' = {}
           \/ ~OverIn(signals'[id]) /\ \E thing : WaitsFor(id)' = {thing}
    PROVE  IInv'
<1>1. TypeOK /\ OneThingAwaited /\ LastSignalIsLast
  BY DEF IInv
<1>2. \A other \in Requests : \A thing :
        thing \in WaitsFor(other)' <=>
            \/ thing \in creating' \cup transactions_' /\ thing[1] = other
            \/ other \in refused' /\ thing = <<other, "refused">>
  BY DEF TypeOK, WaitsFor
<1>3. ASSUME NEW other \in Requests, other # id
      PROVE  WaitsFor(other)' = WaitsFor(other)
  <2>1. \A thing : thing \in creating \cup transactions_ => thing \in Paths
    BY <1>1 DEF TypeOK
  <2>2. \A thing : thing \in creating' \cup transactions_' => thing \in Paths
    BY DEF TypeOK
  <2>3. other \in refused' <=> other \in refused
    BY <1>1, <1>3 DEF TypeOK
  <2>4. \A thing : thing \in WaitsFor(other)' <=> thing \in WaitsFor(other)
    BY <1>1, <1>2, <1>3, <2>1, <2>2, <2>3, Waits
  <2> QED BY <2>4
<1>4. ASSUME NEW other \in Requests, other # id
      PROVE  Asked(other)' <=> Asked(other)
  <2>1. other \in refused' <=> other \in refused
    BY <1>1, <1>4 DEF TypeOK
  <2>2. ASSUME NEW role \in Roles
        PROVE  <<other, role>> \in creating' \cup transactions_'
                   <=> <<other, role>> \in creating \cup transactions_
    <3>1. <<other, role>> \in Paths /\ <<other, role>>[1] = other
      BY DEF Paths
    <3> QED BY <3>1, <1>4
  <2> QED BY <2>1, <2>2, <1>4 DEF Asked
<1>5. OneThingAwaited'
  <2> SUFFICES ASSUME NEW other \in Requests
               PROVE  /\ Over(other)' => WaitsFor(other)' = {}
                      /\ ~Over(other)' /\ Asked(other)' =>
                            \E thing \in WaitsFor(other)' : WaitsFor(other)' = {thing}
    BY DEF OneThingAwaited
  <2>1. CASE other = id
    BY <2>1 DEF Over, OverIn
  <2>2. CASE other # id
    <3>1. WaitsFor(other)' = WaitsFor(other) /\ signals'[other] = signals[other]
      BY <2>2, <1>3
    <3>2. Over(other)' <=> Over(other)
      BY <3>1 DEF Over
    <3>3. Asked(other)' <=> Asked(other)
      BY <2>2, <1>4
    <3> QED BY <3>1, <3>2, <3>3, <1>1 DEF OneThingAwaited
  <2> QED BY <2>1, <2>2
<1>6. LastSignalIsLast'
  <2> SUFFICES ASSUME NEW other \in Requests PROVE EndsWell(signals'[other])
    BY DEF LastSignalIsLast, EndsWell
  <2>1. CASE other # id
    BY <2>1, <1>1 DEF LastSignalIsLast, EndsWell
  <2> QED BY <2>1
<1> QED BY <1>5, <1>6 DEF IInv

-----------------------------------------------------------------------------
(***************************************************************************)
(* The two ways a step leaves its request.                                 *)
(***************************************************************************)

\* What is emitted when a request ends.
LastSignals ==
    {<<"operationFailed", "operationFinished(false)">>, <<"operationFinished(true)">>,
     <<"installedQueryFinished">>, <<"installedQueryFailed">>}

\* The last signal of a request was emitted, and nothing for another.
Told(id) ==
    /\ signals' \in [Requests -> Seq(Emitted)]
    /\ OverIn(signals'[id])
    /\ EndsWell(signals'[id])
    /\ \A other \in Requests : other # id => signals'[other] = signals[other]

LEMMA EmitLast ==
    ASSUME TypeOK, LastSignalIsLast, NEW id \in Requests, ~Over(id),
           NEW last \in LastSignals, Emit(id, last)
    PROVE  Told(id)
<1>1. /\ signals \in [Requests -> Seq(Emitted)]
      /\ signals[id] \in Seq(Emitted)
      /\ ~OverIn(signals[id])
      /\ EndsWell(signals[id])
  BY DEF TypeOK, Over, OverIn, LastSignalIsLast, EndsWell
<1>2. /\ signals[id] \o last \in Seq(Emitted)
      /\ OverIn(signals[id] \o last)
      /\ EndsWell(signals[id] \o last)
  <2>1. CASE last = <<"operationFailed", "operationFinished(false)">>
    BY <1>1, <2>1, FailureSignals
  <2>2. ASSUME NEW x \in {"operationFinished(true)", "installedQueryFinished", "installedQueryFailed"},
               last = <<x>>
        PROVE  /\ signals[id] \o last \in Seq(Emitted)
               /\ OverIn(signals[id] \o last)
               /\ EndsWell(signals[id] \o last)
    <3>1. x \in Final /\ x # "operationFinished(false)"
      BY DEF Final, Emitted
    <3> QED BY <1>1, <2>2, <3>1, LastSignal
  <2> QED BY <2>1, <2>2 DEF LastSignals
<1>3. signals' = [signals EXCEPT ![id] = signals[id] \o last]
  BY DEF Emit
<1> QED BY <1>1, <1>2, <1>3 DEF Told

LEMMA FailTold ==
    ASSUME TypeOK, LastSignalIsLast, NEW id \in Requests, ~Over(id)
    PROVE  /\ failOperation(id) => Told(id)
           /\ \A role \in Roles : failRequest(id, role) => Told(id)
BY EmitLast DEF LastSignals, failOperation, failRequest

\* The rest of the state keeps its type.
RestTyped ==
    /\ refused' \subseteq Operations
    /\ transactions_' \subseteq Paths
    /\ resolved' \subseteq transactions_'
    /\ failing' \subseteq transactions_'
    /\ cancels' \subseteq Paths
    /\ packagekit' \in [Paths -> {"none", "working", "success", "failed", "cancelled", "lost"}]

\* Nothing but request id changes where it stands.
Only(id) ==
    /\ \A path \in Paths : path[1] # id =>
          /\ path \in creating' <=> path \in creating
          /\ path \in transactions_' <=> path \in transactions_
    /\ \A other \in Operations : other # id => (other \in refused' <=> other \in refused)

LEMMA EndsRequest ==
    ASSUME IInv, RestTyped, NEW id \in Requests, Told(id), Only(id),
           creating' \subseteq Paths, Apart', id \notin refused',
           \A path \in creating' \cup transactions_' : path[1] # id
    PROVE  IInv'
<1>1. TypeOK'
  BY DEF TypeOK, RestTyped, Told
<1>2. WaitsFor(id)' = {}
  BY DEF WaitsFor
<1> QED BY <1>1, <1>2, OneRequest DEF Told, Only

LEMMA Begins ==
    ASSUME IInv, RestTyped, NEW id \in Requests, ~Over(id), NEW role \in Roles, Only(id),
           createTransaction(id, role, creating), id \notin refused',
           \A path \in creating \cup transactions_' : path[1] # id,
           transactions_' \subseteq transactions_
    PROVE  IInv'
<1>1. TypeOK /\ LastSignalIsLast /\ Apart
  BY DEF IInv
<1>2. <<id, role>> \in Paths /\ <<id, role>>[1] = id
  BY DEF Paths
<1>3. CASE failRequest(id, role) /\ creating' = creating
  <2>1. Told(id)
    BY <1>1, <1>3, FailTold
  <2>2. creating' \subseteq Paths /\ Apart'
    BY <1>1, <1>3 DEF TypeOK, Apart
  <2> QED BY <2>1, <2>2, <1>3, EndsRequest
<1>4. CASE creating' = creating \cup {<<id, role>>} /\ UNCHANGED signals
  <2>1. TypeOK' /\ Apart'
    BY <1>1, <1>2, <1>4 DEF TypeOK, RestTyped, Apart
  <2>2. WaitsFor(id)' = {<<id, role>>}
    BY <1>2, <1>4 DEF WaitsFor
  <2>3. ~OverIn(signals'[id]) /\ EndsWell(signals'[id])
    BY <1>1, <1>4 DEF Over, OverIn, LastSignalIsLast, EndsWell
  <2>4. \A other \in Requests : other # id => signals'[other] = signals[other]
    BY <1>4
  <2> QED BY <2>1, <2>2, <2>3, <2>4, OneRequest DEF Only
<1> QED BY <1>3, <1>4 DEF createTransaction

-----------------------------------------------------------------------------
(***************************************************************************)
(* The actions.                                                            *)
(***************************************************************************)

LEMMA InitIInv == Init => IInv
<1> SUFFICES ASSUME Init PROVE IInv
  OBVIOUS
<1>1. TypeOK /\ Apart
  BY DEF Init, TypeOK, Apart
<1>2. \A id \in Requests : signals[id] = <<>> /\ ~Asked(id) /\ ~Over(id)
  BY DEF Init, Asked, Over
<1> QED BY <1>1, <1>2 DEF IInv, OneThingAwaited, LastSignalIsLast

\* A step that leaves every request where it stands.
LEMMA Elsewhere ==
    ASSUME IInv, RestTyped, UNCHANGED <<refused, creating, transactions_, signals>>
    PROVE  IInv'
<1>1. TypeOK' /\ Apart'
  BY DEF IInv, TypeOK, RestTyped, Apart
<1>2. OneThingAwaited'
  BY DEF IInv, OneThingAwaited, WaitsFor, Asked, Over
<1>3. LastSignalIsLast'
  BY DEF IInv, LastSignalIsLast
<1> QED BY <1>1, <1>2, <1>3 DEF IInv

\* queryInstalled, installKernel and removeKernel ask for a first transaction.
LEMMA FirstTransaction ==
    ASSUME IInv, NEW id \in Requests, ~Asked(id), NEW role \in Roles,
           createTransaction(id, role, creating),
           UNCHANGED <<refused, hash, cancels, packagekit>>
    PROVE  IInv'
<1>1. TypeOK
  BY DEF IInv
<1>2. /\ id \notin refused
      /\ signals[id] = <<>>
      /\ \A path \in creating \cup transactions_ : path[1] # id
  BY <1>1, AskedMeans, Waits DEF Asked
<1>3. ~Over(id)
  BY <1>2 DEF Over
<1>4. RestTyped
  BY <1>1 DEF TypeOK, RestTyped, hash
<1>5. Only(id)
  <2>1. creating' = creating \/ creating' = creating \cup {<<id, role>>}
    BY DEF createTransaction
  <2> QED BY <2>1 DEF Only, hash
<1> QED BY <1>2, <1>3, <1>4, <1>5, Begins DEF hash

LEMMA RemoveRefused ==
    ASSUME IInv, NEW id \in Operations, ~Asked(id), refused' = refused \cup {id},
           UNCHANGED <<creating, hash, cancels, packagekit, signals>>
    PROVE  IInv'
<1>1. TypeOK /\ Apart /\ id \in Requests
  BY DEF IInv, Requests
<1>2. /\ signals[id] = <<>>
      /\ \A path \in creating \cup transactions_ : path[1] # id
  BY <1>1, AskedMeans, Waits DEF Asked
<1>3. TypeOK' /\ Apart'
  BY <1>1 DEF TypeOK, Apart, hash
<1>4. WaitsFor(id)' = {<<id, "refused">>}
  BY <1>2 DEF WaitsFor, hash
<1>5. ~OverIn(signals'[id]) /\ EndsWell(signals'[id])
  BY <1>2 DEF OverIn, EndsWell
<1> QED BY <1>1, <1>3, <1>4, <1>5, OneRequest DEF hash

LEMMA RequestStep ==
    ASSUME IInv, Request
    PROVE  IInv'
<1>1. ASSUME NEW id \in Queries, queryInstalled(id)
      PROVE  IInv'
  <2>1. id \in Requests /\ "QueryInstalled" \in Roles
    BY DEF Requests, Roles
  <2> QED BY <1>1, <2>1, FirstTransaction DEF queryInstalled
<1>2. ASSUME NEW id \in Operations, installKernel(id)
      PROVE  IInv'
  <2>1. id \in Requests /\ "ResolveForInstall" \in Roles
    BY DEF Requests, Roles
  <2> QED BY <1>2, <2>1, FirstTransaction DEF installKernel
<1>3. ASSUME NEW id \in Operations, removeKernel(id)
      PROVE  IInv'
  <2>1. id \in Requests /\ "ResolveForRemove" \in Roles
    BY DEF Requests, Roles
  <2>2. CASE createTransaction(id, "ResolveForRemove", creating) /\ UNCHANGED refused
    BY <1>3, <2>1, <2>2, FirstTransaction DEF removeKernel
  <2>3. CASE refused' = refused \cup {id} /\ UNCHANGED <<creating, signals>>
    BY <1>3, <2>3, RemoveRefused DEF removeKernel
  <2> QED BY <1>3, <2>2, <2>3 DEF removeKernel
<1>4. ASSUME NEW id \in Operations, cancelOperation(id)
      PROVE  IInv'
  <2>1. RestTyped
    BY <1>4 DEF cancelOperation, IInv, TypeOK, RestTyped, messages, hash
  <2> QED BY <1>4, <2>1, Elsewhere DEF cancelOperation, messages, hash
<1> QED BY <1>1, <1>2, <1>3, <1>4 DEF Request

LEMMA ReplyStep ==
    ASSUME IInv, NEW id \in Requests, Reply(id)
    PROVE  IInv'
<1>1. TypeOK /\ Apart /\ LastSignalIsLast
  BY DEF IInv
<1>2. CASE deliverRefusal(id)
  <2>1. WaitsFor(id) = {<<id, "refused">>} /\ ~Over(id)
    BY <1>2, WaitsForThis DEF deliverRefusal
  <2>2. Told(id)
    BY <1>1, <1>2, <2>1, FailTold DEF deliverRefusal
  <2>3. RestTyped /\ Only(id) /\ creating' \subseteq Paths /\ Apart'
    BY <1>1, <1>2 DEF deliverRefusal, TypeOK, RestTyped, Only, Apart, hash
  <2>4. \A path \in creating \cup transactions_ : path[1] # id
    <3> SUFFICES ASSUME NEW path \in creating \cup transactions_, path[1] = id PROVE FALSE
      OBVIOUS
    <3>1. path \in Paths /\ path \in WaitsFor(id)
      BY <1>1, Waits DEF TypeOK
    <3>2. path[2] \in Roles /\ path = <<id, "refused">>
      BY <2>1, <3>1 DEF Paths
    <3> QED BY <3>2 DEF Roles
  <2> QED BY <1>2, <2>2, <2>3, <2>4, EndsRequest DEF deliverRefusal, hash
<1>3. ASSUME NEW role \in Roles, <<id, role>> \in creating
      PROVE  /\ WaitsFor(id) = {<<id, role>>} /\ ~Over(id)
             /\ <<id, role>> \in Paths /\ <<id, role>> \notin transactions_
             /\ id \notin refused
             /\ \A path \in creating \cup transactions_ :
                    path[1] = id => path = <<id, role>>
  <2>1. /\ WaitsFor(id) = {<<id, role>>} /\ ~Over(id)
        /\ <<id, role>> \in Paths /\ <<id, role>> \notin transactions_
    BY <1>1, <1>3, WaitsForThis DEF Apart
  <2>2. id \notin refused
    <3>1. <<id, "refused">> # <<id, role>>
      BY DEF Roles
    <3> QED BY <2>1, <3>1, <1>1, Waits
  <2> QED BY <1>1, <2>1, <2>2, Waits
<1>4. ASSUME NEW role \in Roles, createFails(id, role)
      PROVE  IInv'
  <2>1. Told(id)
    BY <1>1, <1>3, <1>4, FailTold DEF createFails
  <2>2. RestTyped /\ creating' \subseteq Paths /\ Apart'
    BY <1>1, <1>4 DEF createFails, TypeOK, RestTyped, Apart, hash
  <2>3. Only(id)
    BY <1>4 DEF createFails, Only, hash
  <2>4. id \notin refused' /\ \A path \in creating' \cup transactions_' : path[1] # id
    BY <1>3, <1>4 DEF createFails, hash
  <2> QED BY <2>1, <2>2, <2>3, <2>4, EndsRequest
<1>5. ASSUME NEW role \in Roles, created(id, role)
      PROVE  IInv'
  <2>1. /\ <<id, role>> \in creating
        /\ creating' = creating \ {<<id, role>>}
        /\ transactions_' = transactions_ \cup {<<id, role>>}
        /\ UNCHANGED <<refused, resolved, failing, cancels, signals>>
    BY <1>5 DEF created
  <2>2. packagekit' \in [Paths -> {"none", "working", "success", "failed", "cancelled", "lost"}]
    BY <1>1, <1>5 DEF created, Working, TypeOK
  <2>3. TypeOK' /\ Apart'
    BY <1>1, <1>3, <2>1, <2>2 DEF TypeOK, Apart
  <2>4. WaitsFor(id)' = {<<id, role>>}
    BY <1>3, <2>1 DEF WaitsFor
  <2>5. ~OverIn(signals'[id]) /\ EndsWell(signals'[id])
    BY <1>1, <1>3, <2>1 DEF Over, OverIn, LastSignalIsLast, EndsWell
  <2>6. \A path \in Paths : path[1] # id =>
               /\ path \in creating' <=> path \in creating
               /\ path \in transactions_' <=> path \in transactions_
    BY <2>1
  <2> QED BY <2>1, <2>3, <2>4, <2>5, <2>6, OneRequest
<1> QED BY <1>2, <1>4, <1>5 DEF Reply

LEMMA ErrorStep ==
    ASSUME IInv, NEW path \in Paths, onTransactionError(path)
    PROVE  IInv'
<1> DEFINE id == path[1]
<1>1. TypeOK /\ Apart /\ LastSignalIsLast /\ id \in Requests
  BY DEF IInv, Paths
<1>2. RestTyped
  BY <1>1 DEF onTransactionError, TypeOK, RestTyped, messages
<1>3. CASE UNCHANGED signals
  BY <1>2, <1>3, Elsewhere DEF onTransactionError, messages
<1>4. CASE Emit(id, <<"operationFailed">>)
  <2>1. WaitsFor(id) = {path} /\ ~Over(id)
    BY WaitsForThis DEF onTransactionError
  <2>2. /\ signals \in [Requests -> Seq(Emitted)]
        /\ ~OverIn(signals[id])
        /\ EndsWell(signals[id])
    BY <1>1, <2>1 DEF TypeOK, Over, OverIn, LastSignalIsLast, EndsWell
  <2>3. signals' = [signals EXCEPT ![id] = signals[id] \o <<"operationFailed">>]
    BY <1>4 DEF Emit
  <2>4. /\ signals[id] \o <<"operationFailed">> \in Seq(Emitted)
        /\ ~OverIn(signals[id] \o <<"operationFailed">>)
        /\ EndsWell(signals[id] \o <<"operationFailed">>)
    BY <1>1, <2>2, ErrorSignal
  <2>5. /\ signals' \in [Requests -> Seq(Emitted)]
        /\ ~OverIn(signals'[id])
        /\ EndsWell(signals'[id])
        /\ \A other \in Requests : other # id => signals'[other] = signals[other]
    BY <1>1, <2>2, <2>3, <2>4
  <2>6. UNCHANGED <<refused, creating, transactions_>>
    BY DEF onTransactionError, messages
  <2>7. TypeOK' /\ Apart'
    BY <1>1, <1>2, <2>5, <2>6 DEF TypeOK, RestTyped, Apart
  <2>8. WaitsFor(id)' = {path}
    BY <2>1, <2>6 DEF WaitsFor
  <2> QED BY <1>1, <2>5, <2>6, <2>7, <2>8, OneRequest
<1> QED BY <1>3, <1>4 DEF onTransactionError

\* The first transaction of an operation ends: the second is asked for, or the
\* operation fails.  The second ends, or a query does: that was all.
LEMMA FinishedStep ==
    ASSUME IInv, NEW path \in Paths, onTransactionFinished(path)
    PROVE  IInv'
<1> DEFINE id == path[1]
           role == path[2]
<1>1. /\ TypeOK /\ Apart /\ LastSignalIsLast
      /\ id \in Requests /\ role \in Roles /\ path = <<id, role>>
      /\ path \in transactions_ /\ path \notin creating
  BY DEF IInv, Paths, onTransactionFinished, Apart
<1>2. WaitsFor(id) = {path} /\ ~Over(id)
  BY <1>1, WaitsForThis
<1>3. /\ transactions_' = transactions_ \ {path}
      /\ resolved' = resolved \ {path}
      /\ failing' = failing \ {path}
      /\ UNCHANGED <<refused, cancels, packagekit>>
  BY DEF onTransactionFinished, forget
<1>4. RestTyped
  BY <1>1, <1>3 DEF TypeOK, RestTyped
<1>5. \A other \in creating \cup transactions_' : other[1] # id
  BY <1>1, <1>2, <1>3, Waits
<1>6. id \notin refused'
  <2>1. <<id, "refused">> # path
    BY <1>1 DEF Roles
  <2> QED BY <1>1, <1>2, <1>3, <2>1, Waits
<1>7. ASSUME UNCHANGED creating
      PROVE  Only(id) /\ creating' \subseteq Paths /\ Apart'
  BY <1>1, <1>3, <1>7 DEF Only, TypeOK, Apart
<1>8. CASE Told(id) /\ UNCHANGED creating
  BY <1>1, <1>4, <1>5, <1>6, <1>7, <1>8, EndsRequest
<1>9. ASSUME NEW last \in LastSignals, Emit(id, last), UNCHANGED creating
      PROVE  IInv'
  BY <1>1, <1>2, <1>8, <1>9, EmitLast
<1>10. CASE finishQuery(id, path \in failing)
  BY <1>9, <1>10 DEF finishQuery, LastSignals
<1>11. CASE failOperation(id) /\ UNCHANGED creating
  BY <1>9, <1>11 DEF failOperation, LastSignals
<1>12. CASE Emit(id, <<"operationFinished(true)">>) /\ UNCHANGED creating
  BY <1>9, <1>12 DEF LastSignals
<1>13. ASSUME NEW change \in Roles, callChange(id, change, path \in resolved)
       PROVE  IInv'
  <2>1. CASE createTransaction(id, change, creating)
    <3>1. creating' = creating \/ creating' = creating \cup {<<id, change>>}
      BY <2>1 DEF createTransaction
    <3>2. Only(id)
      BY <1>1, <1>3, <3>1 DEF Only
    <3> QED BY <1>1, <1>2, <1>3, <1>4, <1>5, <1>6, <2>1, <3>2, Begins
  <2> QED BY <1>11, <1>13, <2>1 DEF callChange
<1>14. "Install" \in Roles /\ "Remove" \in Roles
  BY DEF Roles
<1> QED BY <1>10, <1>11, <1>12, <1>13, <1>14 DEF onTransactionFinished

LEMMA DaemonStep ==
    ASSUME IInv, NEW path \in Paths, DaemonEnds(path) \/ Signal(path)
    PROVE  IInv'
<1>1. TypeOK
  BY DEF IInv
<1>2. ASSUME NEW end \in Ends, daemonEnds(path, end)
      PROVE  IInv'
  <2>1. RestTyped
    BY <1>1, <1>2 DEF daemonEnds, Ends, TypeOK, RestTyped, messages, hash
  <2> QED BY <1>2, <2>1, Elsewhere DEF daemonEnds, messages, hash
<1>3. CASE onTransactionPackage(path)
  <2>1. RestTyped
    BY <1>1, <1>3 DEF onTransactionPackage, TypeOK, RestTyped, messages
  <2> QED BY <1>3, <2>1, Elsewhere DEF onTransactionPackage, messages
<1> QED BY <1>2, <1>3, ErrorStep, FinishedStep DEF DaemonEnds, Signal

LEMMA NextIInv == IInv /\ [Next]_vars => IInv'
<1> SUFFICES ASSUME IInv, [Next]_vars PROVE IInv'
  OBVIOUS
<1>1. CASE UNCHANGED vars
  <2>1. RestTyped
    BY <1>1 DEF vars, IInv, TypeOK, RestTyped, messages, hash
  <2> QED BY <1>1, <2>1, Elsewhere DEF vars, messages, hash
<1>2. CASE Request
  BY <1>2, RequestStep
<1>3. ASSUME NEW id \in Requests, Reply(id)
      PROVE  IInv'
  BY <1>3, ReplyStep
<1>4. ASSUME NEW path \in Paths, DaemonEnds(path) \/ Signal(path)
      PROVE  IInv'
  BY <1>4, DaemonStep
<1> QED BY <1>1, <1>2, <1>3, <1>4 DEF Next

-----------------------------------------------------------------------------
(***************************************************************************)
(* The theorems.                                                           *)
(***************************************************************************)

\* The inductive invariant holds in every state, whatever the daemon does: it may
\* refuse calls, fail, go away and send signals in any number.
THEOREM InductiveInvariant == Spec => []IInv
BY InitIInv, NextIInv, PTL DEF Spec

\* The paths, the handles and the signals keep their types, and what is noted of a
\* transaction is noted of one that is in the hash.
THEOREM TypeCorrect == Spec => []TypeOK
<1>1. IInv => TypeOK
  BY DEF IInv
<1> QED BY <1>1, InductiveInvariant, PTL

\* A request that is under way waits for exactly one thing, and one that is over for
\* nothing: none is forgotten between its two transactions, none is ended twice.
THEOREM OneThingAwaitedAlways == Spec => []OneThingAwaited
<1>1. IInv => OneThingAwaited
  BY DEF IInv
<1> QED BY <1>1, InductiveInvariant, PTL

\* Nothing is emitted for a request after its last signal, and a failure has always
\* said why.
THEOREM LastSignalIsLastAlways == Spec => []LastSignalIsLast
<1>1. IInv => LastSignalIsLast
  BY DEF IInv
<1> QED BY <1>1, InductiveInvariant, PTL

-----------------------------------------------------------------------------
(***************************************************************************)
(* Every step is one that OperationPromise allows, or changes nothing of   *)
(* what it speaks of.                                                      *)
(***************************************************************************)

Changes == {"Install", "Remove"}

LastOf(id) == signals[id][Len(signals[id])]

\* What holds of one operation: its transactions are in the hash while the daemon
\* works on them, an error is noted only of a transaction that failed, a change was
\* attempted only by the transaction under way or by an operation that is over, an
\* operation that was said to fail is over or about to be, and one that is over was
\* reported as it went.
Faithful(id) ==
    /\ \A role \in Roles :
          /\ packagekit[<<id, role>>] \in {"working", "lost"} => <<id, role>> \in transactions_
          /\ <<id, role>> \in failing => packagekit[<<id, role>>] \in {"failed", "cancelled"}
          /\ role \in Changes /\ packagekit[<<id, role>>] # "none" =>
                <<id, role>> \in transactions_ \/ Over(id)
    /\ <<id, "QueryInstalled">> \notin creating \cup transactions_
    /\ ToldOf(id) => Over(id) \/ \E role \in Roles : <<id, role>> \in failing
    /\ Over(id) => (LastOf(id) = "operationFinished(true)" <=> ChangedOf(id))

PInv == IInv /\ \A id \in Operations : Faithful(id)

\* The cases of StateOf.
States ==
    \A id \in Operations :
        /\ ~Asked(id) => StateOf(id) = "none"
        /\ Asked(id) /\ Lost(id) => StateOf(id) = "lost"
        /\ Asked(id) /\ ~Lost(id) /\ ~Over(id) => StateOf(id) = "open"
        /\ Asked(id) /\ ~Lost(id) /\ Over(id) =>
              StateOf(id) = IF LastOf(id) = "operationFinished(true)" THEN "ok" ELSE "failed"

LEMMA StatesAre == States /\ States'
<1>1. States
  BY DEF States, StateOf, LastOf
<1> QED BY <1>1, PTL

\* ToldOf and ChangedOf are truth values.
Truths == \A id \in Operations : ToldOf(id) \in BOOLEAN /\ ChangedOf(id) \in BOOLEAN

LEMMA TruthsAre == Truths /\ Truths'
<1>1. Truths
  BY DEF Truths, ToldOf, ChangedOf
<1> QED BY <1>1, PTL

LEMMA PathsOf ==
    /\ \A id \in Requests : \A role \in Roles :
          <<id, role>> \in Paths /\ <<id, role>>[1] = id /\ <<id, role>>[2] = role
    /\ \A path \in Paths : path[1] \in Requests /\ path[2] \in Roles /\ path = <<path[1], path[2]>>
    /\ Operations \subseteq Requests
    /\ Changes \subseteq Roles
BY DEF Paths, Requests, Changes, Roles

LostIsOne ==
    TypeOK => \A id \in Operations :
        Lost(id) <=> \E role \in Roles : <<id, role>> \in transactions_ /\ packagekit[<<id, role>>] = "lost"

LEMMA LostMeans == LostIsOne /\ LostIsOne'
<1>1. LostIsOne
  <2>1. ASSUME TypeOK, NEW path \in transactions_, packagekit[path] = "lost"
        PROVE  \E role \in Roles : /\ <<path[1], role>> \in transactions_
                                   /\ packagekit[<<path[1], role>>] = "lost"
    <3>1. path[2] \in Roles /\ path = <<path[1], path[2]>>
      BY <2>1, PathsOf DEF TypeOK
    <3> QED BY <2>1, <3>1
  <2>2. ASSUME NEW id, NEW role \in Roles, <<id, role>> \in transactions_, packagekit[<<id, role>>] = "lost"
        PROVE  Lost(id)
    <3>1. <<id, role>>[1] = id
      OBVIOUS
    <3> QED BY <2>2, <3>1 DEF Lost
  <2> QED BY <2>1, <2>2 DEF LostIsOne, Lost
<1> QED BY <1>1, PTL

\* What it is for a step to touch no request but id.
Others(id) ==
    /\ Only(id)
    /\ \A path \in Paths : path[1] # id =>
          /\ path \in failing' <=> path \in failing
          /\ packagekit'[path] = packagekit[path]
    /\ \A other \in Requests : other # id => signals'[other] = signals[other]

Same(id) ==
    StateOf(id)' = StateOf(id) /\ ToldOf(id)' = ToldOf(id) /\ ChangedOf(id)' = ChangedOf(id)

\* An operation whose own state stays keeps what is shown of it.
LEMMA OwnState ==
    ASSUME TypeOK, TypeOK', NEW id \in Operations,
           id \in refused' <=> id \in refused,
           signals'[id] = signals[id],
           \A role \in Roles :
              /\ <<id, role>> \in creating' \cup transactions_' <=> <<id, role>> \in creating \cup transactions_
              /\ <<id, role>> \in transactions_' /\ packagekit'[<<id, role>>] = "lost" <=>
                    <<id, role>> \in transactions_ /\ packagekit[<<id, role>>] = "lost"
    PROVE  /\ StateOf(id)' = StateOf(id)
           /\ ToldOf(id)' = ToldOf(id)
           /\ Over(id)' <=> Over(id)
           /\ LastOf(id)' = LastOf(id)
<1>1. Asked(id)' <=> Asked(id)
  BY DEF Asked
<1>2. Lost(id)' <=> Lost(id)
  BY LostMeans DEF LostIsOne
<1>3. (Over(id)' <=> Over(id)) /\ LastOf(id)' = LastOf(id)
  BY DEF Over, LastOf
<1>4. ToldOf(id)' = ToldOf(id)
  BY DEF ToldOf
<1> QED BY <1>1, <1>2, <1>3, <1>4, StatesAre DEF States

LEMMA OthersStay ==
    ASSUME PInv, TypeOK', NEW id \in Requests, Others(id), NEW other \in Operations, other # id
    PROVE  Same(other) /\ Faithful(other)'
<1>1. TypeOK /\ Faithful(other) /\ other \in Requests
  BY PathsOf DEF PInv, IInv
<1>2. \A role \in Roles :
        /\ <<other, role>> \in creating' <=> <<other, role>> \in creating
        /\ <<other, role>> \in transactions_' <=> <<other, role>> \in transactions_
        /\ <<other, role>> \in failing' <=> <<other, role>> \in failing
        /\ packagekit'[<<other, role>>] = packagekit[<<other, role>>]
  BY <1>1, PathsOf DEF Others, Only
<1>3. /\ StateOf(other)' = StateOf(other) /\ ToldOf(other)' = ToldOf(other)
      /\ Over(other)' <=> Over(other)
      /\ LastOf(other)' = LastOf(other)
  BY <1>1, <1>2, OwnState DEF Others, Only
<1>4. ChangedOf(other)' = ChangedOf(other)
  <2>1. ChangedOf(other)' <=> ChangedOf(other)
    BY <1>2 DEF ChangedOf, Roles
  <2> QED BY <2>1, TruthsAre DEF Truths
<1>5. "QueryInstalled" \in Roles
  BY DEF Roles
<1>6. Faithful(other)'
  BY <1>1, <1>2, <1>3, <1>4, <1>5 DEF Faithful
<1> QED BY <1>3, <1>4, <1>6 DEF Same

\* Where the steps of the other requests leave an operation alone, one step changes
\* what the promise says of it.
LEMMA OneState ==
    ASSUME NEW id \in Operations, \A other \in Operations \ {id} : Same(other)
    PROVE  [other \in Operations |-> StateOf(other)]'
               = [[other \in Operations |-> StateOf(other)] EXCEPT ![id] = StateOf(id)']
BY DEF Same

LEMMA OneTold ==
    ASSUME NEW id \in Operations, \A other \in Operations \ {id} : Same(other)
    PROVE  [other \in Operations |-> ToldOf(other)]'
               = [[other \in Operations |-> ToldOf(other)] EXCEPT ![id] = ToldOf(id)']
BY DEF Same

LEMMA OneChanged ==
    ASSUME NEW id \in Operations, \A other \in Operations \ {id} : Same(other)
    PROVE  [other \in Operations |-> ChangedOf(other)]'
               = [[other \in Operations |-> ChangedOf(other)] EXCEPT ![id] = ChangedOf(id)']
BY DEF Same

\* What the signals of an operation say when it fails, succeeds, or an ErrorCode comes.
LEMMA SignalKinds ==
    /\ "operationFailed" \in Emitted \ Final
    /\ "operationFinished(true)" \in Final /\ "operationFinished(false)" \in Final
    /\ Final \subseteq Emitted
BY DEF Final, Emitted

LEMMA FailureEmitted ==
    ASSUME TypeOK, NEW id \in Requests, failOperation(id)
    PROVE  Over(id)' /\ LastOf(id)' = "operationFinished(false)" /\ ToldOf(id)'
<1> DEFINE s == signals[id]
           e == <<"operationFailed", "operationFinished(false)">>
           t == s \o e
<1>1. s \in Seq(Emitted) /\ signals'[id] = t
  BY DEF TypeOK, failOperation, Emit
<1>2. /\ e \in Seq(Emitted) /\ Len(e) = 2
      /\ e[1] = "operationFailed" /\ e[2] = "operationFinished(false)"
  BY SignalKinds
<1>3. /\ Len(t) = Len(s) + 2 /\ DOMAIN t = 1..(Len(s) + 2) /\ Len(s) \in Nat
      /\ t[Len(s) + 1] = "operationFailed" /\ t[Len(s) + 2] = "operationFinished(false)"
  BY <1>1, <1>2
<1>4. t[Len(t)] = "operationFinished(false)" /\ Len(t) \in DOMAIN t /\ Len(s) + 1 \in DOMAIN t
  BY <1>3
<1> HIDE DEF t
<1> QED BY <1>1, <1>3, <1>4, SignalKinds DEF LastOf, Over, ToldOf

LEMMA OneEmitted ==
    ASSUME TypeOK, NEW id \in Requests, NEW signal \in Emitted, Emit(id, <<signal>>)
    PROVE  /\ LastOf(id)' = signal
           /\ Over(id)' <=> Over(id) \/ signal \in Final
           /\ ToldOf(id)' <=> ToldOf(id) \/ signal = "operationFailed"
<1> DEFINE s == signals[id]
           t == s \o <<signal>>
<1>1. s \in Seq(Emitted) /\ signals'[id] = t
  BY DEF TypeOK, Emit
<1>2. /\ Len(t) = Len(s) + 1 /\ DOMAIN t = 1..(Len(s) + 1) /\ DOMAIN s = 1..Len(s)
      /\ Len(s) \in Nat
      /\ t[Len(s) + 1] = signal
      /\ \A n \in 1..Len(s) : t[n] = s[n]
  BY <1>1
<1>3. /\ \A n \in DOMAIN t : n \in DOMAIN s \/ n = Len(s) + 1
      /\ DOMAIN s \subseteq DOMAIN t /\ Len(s) + 1 \in DOMAIN t
      /\ Len(t) = Len(s) + 1
  BY <1>2
<1> HIDE DEF t, s
<1>4. signals[id] = s
  BY DEF s
<1>5. LastOf(id)' = signal
  BY <1>1, <1>2 DEF LastOf
<1>6. Over(id)' <=> Over(id) \/ signal \in Final
  BY <1>1, <1>2, <1>3, <1>4 DEF Over
<1>7. ToldOf(id)' <=> ToldOf(id) \/ signal = "operationFailed"
  BY <1>1, <1>2, <1>3, <1>4 DEF ToldOf
<1> QED BY <1>5, <1>6, <1>7

\* A change of one operation that the promise allows.
Allowed(id) ==
    \/ Same(id)
    \/ /\ StateOf(id) = "none" /\ StateOf(id)' = "open"
       /\ ToldOf(id)' = ToldOf(id) /\ ChangedOf(id)' = ChangedOf(id)
    \/ /\ StateOf(id) = "none" /\ StateOf(id)' = "failed"
       /\ ToldOf(id)' = TRUE /\ ChangedOf(id)' = ChangedOf(id)
    \/ /\ StateOf(id) = "open" /\ ~ChangedOf(id) /\ StateOf(id)' = "failed"
       /\ ToldOf(id)' = TRUE /\ ChangedOf(id)' = ChangedOf(id)
    \/ /\ StateOf(id) = "open" /\ ChangedOf(id) /\ StateOf(id)' = "ok"
       /\ ToldOf(id)' = ToldOf(id) /\ ChangedOf(id)' = ChangedOf(id)
    \/ /\ StateOf(id) = "open" /\ ~ToldOf(id) /\ ChangedOf(id)' = TRUE
       /\ StateOf(id)' = StateOf(id) /\ ToldOf(id)' = ToldOf(id)
    \/ /\ StateOf(id) = "open" /\ ~ChangedOf(id) /\ ToldOf(id)' = TRUE
       /\ StateOf(id)' = StateOf(id) /\ ChangedOf(id)' = ChangedOf(id)
    \/ /\ StateOf(id) = "open" /\ StateOf(id)' = "lost"
       /\ ToldOf(id)' = ToldOf(id) /\ ChangedOf(id)' = ChangedOf(id)

LEMMA PromiseAllows ==
    ASSUME NEW id \in Operations, \A other \in Operations \ {id} : Same(other), Allowed(id)
    PROVE  [Promise!Next]_(Promise!vars)
<1> DEFINE state == [other \in Operations |-> StateOf(other)]
           told == [other \in Operations |-> ToldOf(other)]
           changed == [other \in Operations |-> ChangedOf(other)]
<1>1. /\ state' = [state EXCEPT ![id] = StateOf(id)']
      /\ told' = [told EXCEPT ![id] = ToldOf(id)']
      /\ changed' = [changed EXCEPT ![id] = ChangedOf(id)']
  BY OneState, OneTold, OneChanged
<1>2. state[id] = StateOf(id) /\ told[id] = ToldOf(id) /\ changed[id] = ChangedOf(id)
  OBVIOUS
<1>3. /\ StateOf(id)' = StateOf(id) => state' = state
      /\ ToldOf(id)' = ToldOf(id) => told' = told
      /\ ChangedOf(id)' = ChangedOf(id) => changed' = changed
  BY DEF Same
<1> HIDE DEF state, told, changed
<1>4. CASE Same(id)
  BY <1>3, <1>4 DEF Same, Promise!vars, state, told, changed
<1>5. CASE ~Same(id)
  <2>1. \/ Promise!Ask(id) \/ Promise!Change(id) \/ Promise!Tell(id)
        \/ Promise!End(id) \/ Promise!Lose(id)
    <3>1. CASE StateOf(id) = "none"
      <4>1. Promise!Ask(id)
        BY <1>1, <1>2, <1>3, <1>5, <3>1 DEF Allowed, Promise!Ask, Promise!Fail, state, told, changed
      <4> QED BY <4>1
    <3>2. CASE StateOf(id) = "open"
      BY <1>1, <1>2, <1>3, <1>5, <3>2
         DEF Allowed, Promise!Change, Promise!Tell, Promise!End, Promise!Lose, Promise!Fail, state, told, changed
    <3> QED BY <1>5, <3>1, <3>2 DEF Allowed
  <2> QED BY <2>1 DEF Promise!Next
<1> QED BY <1>4, <1>5

\* An operation that waits for a path.
LEMMA Awaiting ==
    ASSUME PInv, NEW id \in Operations, NEW role \in Roles,
           <<id, role>> \in creating \cup transactions_
    PROVE  /\ ~Over(id) /\ Asked(id) /\ id \notin refused /\ role # "QueryInstalled"
           /\ \A path \in creating \cup transactions_ : path[1] = id => path = <<id, role>>
           /\ \A r \in Changes : packagekit[<<id, r>>] # "none" =>
                  r = role /\ <<id, role>> \in transactions_
           /\ \A r \in Roles : r # role =>
                  packagekit[<<id, r>>] \notin {"working", "lost"} /\ <<id, r>> \notin failing
           /\ ToldOf(id) => <<id, role>> \in failing
           /\ Lost(id) <=> <<id, role>> \in transactions_ /\ packagekit[<<id, role>>] = "lost"
<1>1. IInv /\ TypeOK /\ Apart /\ Faithful(id) /\ id \in Requests
  BY PathsOf DEF PInv, IInv
<1>2. WaitsFor(id) = {<<id, role>>} /\ ~Over(id)
  BY <1>1, WaitsForThis, PathsOf
<1>3. \A path \in creating \cup transactions_ : path[1] = id => path = <<id, role>>
  BY <1>1, <1>2, Waits
<1>4. id \notin refused
  <2>1. <<id, "refused">> # <<id, role>>
    BY DEF Roles
  <2> QED BY <1>1, <1>2, <2>1, Waits
<1>5. \A r \in Roles : r # role => <<id, r>> \notin creating \cup transactions_
  BY <1>3, PathsOf, <1>1
<1>6. role # "QueryInstalled"
  BY <1>1 DEF Faithful
<1>7. \A r \in Changes : packagekit[<<id, r>>] # "none" => r = role /\ <<id, role>> \in transactions_
  BY <1>1, <1>2, <1>5, PathsOf DEF Faithful
<1>8. \A r \in Roles : r # role =>
          packagekit[<<id, r>>] \notin {"working", "lost"} /\ <<id, r>> \notin failing
  BY <1>1, <1>5 DEF Faithful, TypeOK
<1>9. ToldOf(id) => <<id, role>> \in failing
  BY <1>1, <1>2, <1>8 DEF Faithful
<1>10. Lost(id) <=> <<id, role>> \in transactions_ /\ packagekit[<<id, role>>] = "lost"
  BY <1>1, <1>8, LostMeans DEF LostIsOne
<1>11. Asked(id)
  BY DEF Asked
<1> QED BY <1>2, <1>3, <1>4, <1>6, <1>7, <1>8, <1>9, <1>10, <1>11

\* One that was not asked for, or whose refusal is queued.
LEMMA NoPath ==
    ASSUME PInv, NEW id \in Operations, id \in refused \/ ~Asked(id)
    PROVE  /\ ~Over(id) /\ ~ToldOf(id) /\ ~Lost(id)
           /\ \A path \in creating \cup transactions_ : path[1] # id
           /\ \A r \in Changes : packagekit[<<id, r>>] = "none"
           /\ \A r \in Roles :
                  packagekit[<<id, r>>] \notin {"working", "lost"} /\ <<id, r>> \notin failing
<1>1. IInv /\ TypeOK /\ Faithful(id) /\ id \in Requests
  BY PathsOf DEF PInv, IInv
<1>2. \A path \in creating \cup transactions_ : path[1] # id
  <2> SUFFICES ASSUME NEW path \in creating \cup transactions_, path[1] = id PROVE FALSE
    OBVIOUS
  <2>1. path = <<id, path[2]>> /\ path[2] \in Roles
    BY <1>1, PathsOf DEF TypeOK
  <2> QED BY <2>1, Awaiting
<1>3. ~Over(id)
  <2>1. CASE id \in refused
    BY <1>1, <2>1, WaitsForThis
  <2>2. CASE ~Asked(id)
    BY <2>2 DEF Asked, Over
  <2> QED BY <2>1, <2>2
<1>4. \A r \in Roles : <<id, r>> \notin creating \cup transactions_
  BY <1>2, <1>1, PathsOf
<1>5. /\ \A r \in Changes : packagekit[<<id, r>>] = "none"
      /\ \A r \in Roles :
            packagekit[<<id, r>>] \notin {"working", "lost"} /\ <<id, r>> \notin failing
  BY <1>1, <1>3, <1>4, PathsOf DEF Faithful, TypeOK
<1>6. ~ToldOf(id)
  BY <1>1, <1>3, <1>5 DEF Faithful
<1>7. ~Lost(id)
  BY <1>1, <1>4, LostMeans DEF LostIsOne
<1> QED BY <1>2, <1>3, <1>5, <1>6, <1>7

\* An operation fails that changed nothing and that the daemon does not work for.
LEMMA Fails ==
    ASSUME PInv, TypeOK', NEW id \in Operations, failOperation(id),
           StateOf(id) \in {"none", "open"}, UNCHANGED packagekit,
           \A r \in Changes : packagekit[<<id, r>>] # "success",
           \A r \in Roles : packagekit[<<id, r>>] \notin {"working", "lost"},
           \A path \in creating' \cup transactions_' : path[1] # id
    PROVE  Faithful(id)' /\ Allowed(id)
<1>1. TypeOK /\ id \in Requests
  BY PathsOf DEF PInv, IInv
<1>2. Over(id)' /\ LastOf(id)' = "operationFinished(false)" /\ ToldOf(id)'
  BY <1>1, FailureEmitted
<1>3. ~ChangedOf(id) /\ ~ChangedOf(id)'
  BY DEF ChangedOf, Changes
<1>4. \A r \in Roles : <<id, r>> \notin creating' \cup transactions_' /\ <<id, r>> \notin failing'
  BY <1>1, PathsOf DEF TypeOK
<1>5. ~Lost(id)' /\ Asked(id)'
  <2>1. ~Lost(id)'
    BY <1>4, LostMeans DEF LostIsOne
  <2>2. signals'[id] # <<>>
    BY <1>2 DEF Over
  <2> QED BY <2>1, <2>2 DEF Asked
<1>6. StateOf(id)' = "failed"
  BY <1>2, <1>5, StatesAre DEF States
<1>7. Faithful(id)'
  <2>1. "QueryInstalled" \in Roles
    BY DEF Roles
  <2> QED BY <1>2, <1>3, <1>4, <2>1 DEF Faithful
<1>8. ToldOf(id)' = TRUE /\ ChangedOf(id)' = ChangedOf(id)
  BY <1>2, <1>3, TruthsAre DEF Truths
<1> QED BY <1>3, <1>6, <1>7, <1>8 DEF Allowed

\* A first or second transaction is asked for, or the operation fails at once.
LEMMA Creates ==
    ASSUME PInv, TypeOK', NEW id \in Operations, NEW role \in Roles, role # "QueryInstalled",
           createTransaction(id, role, creating),
           StateOf(id) \in {"none", "open"}, UNCHANGED packagekit,
           ~Over(id), ~ToldOf(id),
           \A r \in Changes : packagekit[<<id, r>>] = "none",
           \A r \in Roles : packagekit[<<id, r>>] \notin {"working", "lost"},
           \A path \in creating \cup transactions_' : path[1] # id
    PROVE  Faithful(id)' /\ Allowed(id)
<1>1. TypeOK /\ id \in Requests
  BY PathsOf DEF PInv, IInv
<1>2. CASE failRequest(id, role) /\ creating' = creating
  BY <1>2, Fails DEF failRequest
<1>3. CASE creating' = creating \cup {<<id, role>>} /\ UNCHANGED signals
  <2>1. ~Over(id)' /\ (ToldOf(id)' <=> ToldOf(id))
    BY <1>3 DEF Over, ToldOf
  <2>2. ~ChangedOf(id) /\ ~ChangedOf(id)'
    BY DEF ChangedOf, Changes
  <2>3. \A r \in Roles : <<id, r>> \notin creating \cup transactions_' /\ <<id, r>> \notin failing'
    BY <1>1, PathsOf DEF TypeOK
  <2>4. ~Lost(id)' /\ Asked(id)'
    <3>1. ~Lost(id)'
      BY <2>3, LostMeans DEF LostIsOne
    <3> QED BY <1>3, <3>1 DEF Asked
  <2>5. StateOf(id)' = "open"
    BY <2>1, <2>4, StatesAre DEF States
  <2>6. Faithful(id)'
    <3>1. "QueryInstalled" \in Roles
      BY DEF Roles
    <3>2. <<id, "QueryInstalled">> \notin creating' \cup transactions_'
      BY <1>3, <2>3, <3>1
    <3> QED BY <2>1, <2>2, <2>3, <3>2 DEF Faithful
  <2>7. ToldOf(id)' = ToldOf(id) /\ ChangedOf(id)' = ChangedOf(id)
    BY <2>1, <2>2, TruthsAre DEF Truths
  <2> QED BY <2>5, <2>6, <2>7 DEF Allowed, Same
<1> QED BY <1>2, <1>3 DEF createTransaction

\* A step of one request, which the promise allows if it is an operation.
StepOf(id) == Others(id) /\ (id \in Operations => Faithful(id)' /\ Allowed(id))

Kept == (\A id \in Operations : Faithful(id)') /\ [Promise!Next]_(Promise!vars)

LEMMA StepKeeps ==
    ASSUME PInv, TypeOK', NEW id \in Requests, StepOf(id)
    PROVE  Kept
<1>1. \A other \in Operations : other # id => Same(other) /\ Faithful(other)'
  BY OthersStay DEF StepOf
<1>2. CASE id \in Operations
  BY <1>1, <1>2, PromiseAllows DEF StepOf, Kept
<1>3. CASE id \notin Operations
  <2>1. \A other \in Operations : Same(other) /\ Faithful(other)'
    BY <1>1, <1>3
  <2>2. UNCHANGED Promise!vars
    BY <2>1 DEF Promise!vars, Same
  <2> QED BY <2>1, <2>2 DEF Kept
<1> QED BY <1>2, <1>3

\* A step that changes nothing of any operation.
LEMMA QuietKeeps ==
    ASSUME PInv, TypeOK',
           UNCHANGED <<refused, creating, transactions_, failing, signals, packagekit>>
    PROVE  Kept
<1>1. TypeOK
  BY DEF PInv, IInv
<1>2. ASSUME NEW id \in Operations
      PROVE  Same(id) /\ Faithful(id)'
  <2>1. /\ StateOf(id)' = StateOf(id) /\ ToldOf(id)' = ToldOf(id)
        /\ Over(id)' <=> Over(id)
        /\ LastOf(id)' = LastOf(id)
    BY <1>1, OwnState
  <2>2. ChangedOf(id)' = ChangedOf(id)
    BY DEF ChangedOf
  <2>3. Faithful(id)
    BY DEF PInv
  <2> QED BY <2>1, <2>2, <2>3 DEF Same, Faithful
<1>3. UNCHANGED Promise!vars
  BY <1>2 DEF Promise!vars, Same
<1> QED BY <1>2, <1>3 DEF Kept

LEMMA EmitsAlone ==
    ASSUME TypeOK, NEW id \in Requests,
           \/ UNCHANGED signals
           \/ \E emitted : Emit(id, emitted)
           \/ failOperation(id)
           \/ \E role \in Roles : failRequest(id, role)
    PROVE  \A other \in Requests : other # id => signals'[other] = signals[other]
BY DEF TypeOK, Emit, failOperation, failRequest

\* The first transaction of a request.
LEMMA FirstPromise ==
    ASSUME PInv, TypeOK', NEW id \in Requests, ~Asked(id), NEW role \in Roles,
           id \in Operations => role # "QueryInstalled",
           createTransaction(id, role, creating),
           UNCHANGED <<refused, hash, packagekit>>
    PROVE  StepOf(id)
<1>1. TypeOK
  BY DEF PInv, IInv
<1>2. Others(id)
  <2>1. creating' = creating \/ creating' = creating \cup {<<id, role>>}
    BY DEF createTransaction
  <2>2. \A other \in Requests : other # id => signals'[other] = signals[other]
    BY <1>1, EmitsAlone DEF createTransaction
  <2> QED BY <2>1, <2>2 DEF Others, Only, hash
<1>3. ASSUME id \in Operations PROVE Faithful(id)' /\ Allowed(id)
  <2>1. StateOf(id) = "none"
    BY <1>3, StatesAre DEF States
  <2>2. \A path \in creating \cup transactions_' : path[1] # id
    BY <1>3, NoPath DEF hash
  <2> QED BY <1>3, <2>1, <2>2, NoPath, Creates
<1> QED BY <1>2, <1>3 DEF StepOf

LEMMA RequestPromise ==
    ASSUME PInv, TypeOK', Request
    PROVE  Kept
<1>1. TypeOK
  BY DEF PInv, IInv
<1>2. ASSUME NEW id \in Queries, queryInstalled(id)
      PROVE  Kept
  <2>1. id \in Requests /\ id \notin Operations /\ "QueryInstalled" \in Roles
    BY DaemonAssumption DEF Requests, Roles
  <2> QED BY <1>2, <2>1, FirstPromise, StepKeeps DEF queryInstalled
<1>3. ASSUME NEW id \in Operations, installKernel(id)
      PROVE  Kept
  <2>1. id \in Requests /\ "ResolveForInstall" \in Roles
    BY DEF Requests, Roles
  <2> QED BY <1>3, <2>1, FirstPromise, StepKeeps DEF installKernel
<1>4. ASSUME NEW id \in Operations, removeKernel(id)
      PROVE  Kept
  <2>1. id \in Requests /\ "ResolveForRemove" \in Roles
    BY DEF Requests, Roles
  <2>2. CASE createTransaction(id, "ResolveForRemove", creating) /\ UNCHANGED refused
    BY <1>4, <2>1, <2>2, FirstPromise, StepKeeps DEF removeKernel
  <2>3. CASE refused' = refused \cup {id} /\ UNCHANGED <<creating, signals>>
    <3>1. UNCHANGED <<hash, packagekit>> /\ ~Asked(id)
      BY <1>4 DEF removeKernel
    <3>2. Others(id)
      BY <2>3, <3>1 DEF Others, Only, hash
    <3>3. StateOf(id) = "none" /\ StateOf(id)' = "open"
      <4>1. ~Lost(id)' /\ ~Over(id)'
        BY <2>3, <3>1, NoPath DEF Lost, Over, hash
      <4>2. Asked(id)'
        BY <2>3 DEF Asked
      <4> QED BY <3>1, <4>1, <4>2, StatesAre DEF States
    <3>4. ToldOf(id)' = ToldOf(id) /\ ChangedOf(id)' = ChangedOf(id)
      BY <2>3, <3>1 DEF ToldOf, ChangedOf
    <3>5. Faithful(id)'
      <4>1. Faithful(id)
        BY DEF PInv
      <4> QED BY <2>3, <3>1, <3>4, <4>1 DEF Faithful, hash, Over, LastOf
    <3> QED BY <2>1, <3>2, <3>3, <3>4, <3>5, StepKeeps DEF StepOf, Allowed
  <2> QED BY <1>4, <2>2, <2>3 DEF removeKernel
<1>5. ASSUME NEW id \in Operations, cancelOperation(id)
      PROVE  Kept
  BY <1>5, QuietKeeps DEF cancelOperation, messages, hash
<1> QED BY <1>2, <1>3, <1>4, <1>5 DEF Request

LEMMA ReplyPromise ==
    ASSUME PInv, TypeOK', NEW id \in Requests, Reply(id)
    PROVE  Kept
<1>1. TypeOK
  BY DEF PInv, IInv
<1>2. CASE deliverRefusal(id)
  <2>1. id \in Operations /\ id \in refused
    BY <1>1, <1>2 DEF deliverRefusal, TypeOK
  <2>2. /\ failOperation(id) /\ refused' = refused \ {id}
        /\ UNCHANGED <<creating, transactions_, resolved, failing, packagekit>>
    BY <1>2 DEF deliverRefusal, hash
  <2>3. Others(id)
    <3>1. \A other \in Requests : other # id => signals'[other] = signals[other]
      BY <1>1, <2>2, EmitsAlone
    <3> QED BY <2>2, <3>1 DEF Others, Only
  <2>4. StateOf(id) = "open"
    <3>1. Asked(id)
      BY <2>1 DEF Asked
    <3> QED BY <2>1, <3>1, NoPath, StatesAre DEF States
  <2>5. Faithful(id)' /\ Allowed(id)
    <3>1. \A path \in creating' \cup transactions_' : path[1] # id
      BY <2>1, <2>2, NoPath
    <3>2. \A r \in Changes : packagekit[<<id, r>>] # "success"
      BY <2>1, NoPath
    <3> QED BY <2>1, <2>2, <2>4, <3>1, <3>2, NoPath, Fails
  <2> QED BY <2>3, <2>5, StepKeeps DEF StepOf
<1>3. ASSUME NEW role \in Roles, createFails(id, role)
      PROVE  Kept
  <2>1. /\ <<id, role>> \in creating /\ creating' = creating \ {<<id, role>>}
        /\ failRequest(id, role)
        /\ UNCHANGED <<refused, transactions_, resolved, failing, packagekit>>
    BY <1>3 DEF createFails, hash
  <2>2. Others(id)
    <3>1. \A other \in Requests : other # id => signals'[other] = signals[other]
      BY <1>1, <2>1, EmitsAlone
    <3> QED BY <2>1, <3>1 DEF Others, Only
  <2>3. ASSUME id \in Operations PROVE Faithful(id)' /\ Allowed(id)
    <3>1. <<id, role>> \notin transactions_ /\ Faithful(id)
      BY <2>1, <2>3 DEF PInv, IInv, Apart
    <3>2. ~Over(id) /\ Asked(id) /\ role # "QueryInstalled" /\ ~Lost(id)
      BY <2>1, <2>3, <3>1, Awaiting
    <3>3. StateOf(id) = "open" /\ failOperation(id)
      BY <2>1, <2>3, <3>2, StatesAre DEF States, failRequest
    <3>4. \A r \in Changes : packagekit[<<id, r>>] # "success"
      BY <2>1, <2>3, <3>1, Awaiting
    <3>5. \A r \in Roles : packagekit[<<id, r>>] \notin {"working", "lost"}
      BY <2>1, <2>3, <3>1, Awaiting DEF Faithful
    <3>6. \A path \in creating' \cup transactions_' : path[1] # id
      BY <2>1, <2>3, <3>1, Awaiting
    <3> QED BY <2>1, <2>3, <3>3, <3>4, <3>5, <3>6, Fails
  <2> QED BY <2>2, <2>3, StepKeeps DEF StepOf
<1>4. ASSUME NEW role \in Roles, created(id, role)
      PROVE  Kept
  <2> DEFINE path == <<id, role>>
  <2>1. /\ path \in creating /\ creating' = creating \ {path}
        /\ transactions_' = transactions_ \cup {path}
        /\ UNCHANGED <<refused, resolved, failing, signals>>
        /\ path \in Paths
    BY <1>4, PathsOf DEF created
  <2>2. PICK work \in {"working", "lost"} : packagekit' = [packagekit EXCEPT ![path] = work]
    BY <1>4 DEF created, Working
  <2>3. packagekit'[path] = work /\ \A other \in Paths : other # path => packagekit'[other] = packagekit[other]
    BY <1>1, <2>1, <2>2 DEF TypeOK
  <2>4. Others(id)
    BY <2>1, <2>3 DEF Others, Only
  <2>5. ASSUME id \in Operations PROVE Faithful(id)' /\ Allowed(id)
    <3>1. path \notin transactions_ /\ path \notin failing /\ Faithful(id)
      BY <1>1, <2>1, <2>5 DEF PInv, IInv, Apart, TypeOK
    <3>2. ~Over(id) /\ Asked(id) /\ role # "QueryInstalled" /\ ~Lost(id) /\ ~ToldOf(id)
      BY <2>1, <2>5, <3>1, Awaiting
    <3>3. ~Over(id)' /\ ToldOf(id)' = ToldOf(id)
      BY <2>1, <3>2 DEF Over, ToldOf
    <3>4. \A r \in Roles : r # role =>
            packagekit'[<<id, r>>] = packagekit[<<id, r>>]
      BY <2>3, PathsOf
    <3>5. \A r \in Changes : packagekit[<<id, r>>] = "none"
      BY <2>1, <2>5, <3>1, Awaiting
    <3>6. ~ChangedOf(id) /\ ~ChangedOf(id)'
      <4>1. \A r \in Changes : packagekit'[<<id, r>>] # "success"
        BY <2>3, <3>4, <3>5, PathsOf
      <4> QED BY <3>5, <4>1 DEF ChangedOf, Changes
    <3>7. Asked(id)' /\ StateOf(id)' \in {"open", "lost"}
      <4>1. Asked(id)'
        BY <2>1 DEF Asked
      <4> QED BY <2>5, <3>3, <4>1, StatesAre DEF States
    <3>8. StateOf(id) = "open" /\ ChangedOf(id)' = ChangedOf(id)
      BY <2>5, <3>2, <3>6, StatesAre, TruthsAre DEF States, Truths
    <3>9. Faithful(id)'
      <4>1. "QueryInstalled" \in Roles
        BY DEF Roles
      <4>2. <<id, "QueryInstalled">> \notin creating' \cup transactions_'
        BY <2>1, <3>1, <3>2 DEF Faithful
      <4>3. \A r \in Roles : r # role =>
              /\ packagekit'[<<id, r>>] \notin {"working", "lost"}
              /\ <<id, r>> \notin failing'
        BY <2>1, <2>5, <3>4, Awaiting
      <4>4. \A r \in Changes : r # role => packagekit'[<<id, r>>] = "none"
        BY <3>4, <3>5, PathsOf
      <4> QED BY <2>1, <3>1, <3>2, <3>3, <4>2, <4>3, <4>4 DEF Faithful
    <3> QED BY <3>3, <3>7, <3>8, <3>9 DEF Allowed, Same
  <2> QED BY <2>4, <2>5, StepKeeps DEF StepOf
<1> QED BY <1>2, <1>3, <1>4 DEF Reply

LEMMA DaemonPromise ==
    ASSUME PInv, TypeOK', NEW path \in Paths, NEW end \in Ends, daemonEnds(path, end)
    PROVE  Kept
<1> DEFINE id == path[1]
           role == path[2]
<1>1. /\ TypeOK /\ id \in Requests /\ role \in Roles /\ path = <<id, role>>
      /\ packagekit[path] = "working" /\ packagekit' = [packagekit EXCEPT ![path] = end]
      /\ UNCHANGED <<refused, creating, transactions_, resolved, failing, signals>>
  BY PathsOf DEF PInv, IInv, daemonEnds, messages, hash
<1>2. /\ packagekit'[path] = end
      /\ \A other \in Paths : other # path => packagekit'[other] = packagekit[other]
      /\ end \in {"success", "failed", "cancelled", "lost"}
  BY <1>1 DEF TypeOK, Ends
<1>3. Others(id)
  BY <1>1, <1>2 DEF Others, Only
<1>4. ASSUME id \in Operations PROVE Faithful(id)' /\ Allowed(id)
  <2>1. Faithful(id) /\ path \in transactions_ /\ path \notin failing
    <3>1. Faithful(id)
      BY <1>4 DEF PInv
    <3>2. path \in transactions_ /\ path \notin failing
      BY <1>1, <3>1 DEF Faithful
    <3> QED BY <3>1, <3>2
  <2>2. /\ ~Over(id) /\ Asked(id) /\ ~Lost(id) /\ ~ToldOf(id)
        /\ \A r \in Changes : r # role => packagekit[<<id, r>>] = "none"
    BY <1>1, <1>4, <2>1, Awaiting
  <2>3. ~ChangedOf(id)
    BY <1>1, <2>2 DEF ChangedOf, Changes
  <2>4. ~Over(id)' /\ ToldOf(id)' = ToldOf(id) /\ Asked(id)'
    BY <1>1, <2>2 DEF Over, ToldOf, Asked
  <2>5. \A r \in Roles : r # role => packagekit'[<<id, r>>] = packagekit[<<id, r>>]
    BY <1>1, <1>2, PathsOf
  <2>6. Faithful(id)'
    <3>1. \A r \in Roles : r # role => packagekit'[<<id, r>>] \notin {"working", "lost"}
      BY <1>1, <1>4, <2>1, <2>5, Awaiting
    <3>2. \A r \in Roles : <<id, r>> \notin failing'
      BY <1>1, <1>4, <2>1, Awaiting
    <3>3. \A r \in Changes : r # role => packagekit'[<<id, r>>] = "none"
      BY <2>2, <2>5, PathsOf
    <3> QED BY <1>1, <2>1, <2>2, <2>4, <3>1, <3>2, <3>3 DEF Faithful
  <2>7. StateOf(id) = "open"
    BY <1>4, <2>2, StatesAre DEF States
  <2>8. CASE end = "lost"
    <3>1. Lost(id)'
      BY <1>1, <1>2, <2>1, <2>8 DEF Lost
    <3>2. StateOf(id)' = "lost"
      BY <1>4, <2>4, <3>1, StatesAre DEF States
    <3>3. ~ChangedOf(id)'
      BY <1>1, <1>2, <2>2, <2>5, <2>8, PathsOf DEF ChangedOf, Changes
    <3> QED BY <1>4, <2>3, <2>4, <2>6, <2>7, <3>2, <3>3, TruthsAre DEF Allowed, Truths
  <2>9. CASE end # "lost"
    <3>1. ~Lost(id)'
      <4>1. \A r \in Roles : packagekit'[<<id, r>>] # "lost"
        BY <1>1, <1>2, <1>4, <2>1, <2>5, <2>9, Awaiting
      <4> QED BY <1>4, <4>1, LostMeans DEF LostIsOne
    <3>2. StateOf(id)' = StateOf(id)
      BY <1>4, <2>4, <2>7, <3>1, StatesAre DEF States
    <3> QED BY <1>4, <2>2, <2>3, <2>4, <2>6, <2>7, <3>2, TruthsAre DEF Allowed, Same, Truths
  <2> QED BY <2>8, <2>9
<1> QED BY <1>1, <1>3, <1>4, StepKeeps DEF StepOf

LEMMA ErrorPromise ==
    ASSUME PInv, TypeOK', NEW path \in Paths, onTransactionError(path)
    PROVE  Kept
<1> DEFINE id == path[1]
           role == path[2]
<1>1. /\ TypeOK /\ id \in Requests /\ role \in Roles /\ path = <<id, role>>
      /\ path \in transactions_ /\ packagekit[path] \in {"failed", "cancelled"}
      /\ failing' = failing \cup {path}
      /\ IF role = "QueryInstalled" THEN UNCHANGED signals ELSE Emit(id, <<"operationFailed">>)
      /\ UNCHANGED <<refused, creating, transactions_, packagekit>>
  BY PathsOf DEF PInv, IInv, onTransactionError, messages
<1>2. Others(id)
  <2>1. \A other \in Requests : other # id => signals'[other] = signals[other]
    BY <1>1, EmitsAlone
  <2> QED BY <1>1, <2>1 DEF Others, Only
<1>3. ASSUME id \in Operations PROVE Faithful(id)' /\ Allowed(id)
  <2>1. Faithful(id)
    BY <1>3 DEF PInv
  <2>2. /\ ~Over(id) /\ Asked(id) /\ ~Lost(id) /\ role # "QueryInstalled"
        /\ \A r \in Changes : r # role => packagekit[<<id, r>>] = "none"
    BY <1>1, <1>3, Awaiting
  <2>3. Over(id)' <=> FALSE
    BY <1>1, <2>2, OneEmitted, SignalKinds
  <2>4. ToldOf(id)' = TRUE
    <3>1. ToldOf(id)'
      BY <1>1, <2>2, OneEmitted, SignalKinds
    <3> QED BY <1>3, <3>1, TruthsAre DEF Truths
  <2>5. ~ChangedOf(id) /\ ChangedOf(id)' = ChangedOf(id)
    BY <1>1, <2>2 DEF ChangedOf, Changes
  <2>6. Asked(id)' /\ ~Lost(id)'
    BY <1>1, <2>2 DEF Asked, Lost
  <2>7. StateOf(id) = "open" /\ StateOf(id)' = "open"
    BY <1>3, <2>2, <2>3, <2>6, StatesAre DEF States
  <2>8. Faithful(id)'
    BY <1>1, <2>1, <2>2, <2>3 DEF Faithful
  <2> QED BY <2>4, <2>5, <2>7, <2>8 DEF Allowed
<1> QED BY <1>1, <1>2, <1>3, StepKeeps DEF StepOf

LEMMA FinishedPromise ==
    ASSUME PInv, TypeOK', NEW path \in Paths, onTransactionFinished(path)
    PROVE  Kept
<1> DEFINE id == path[1]
           role == path[2]
<1>1. /\ TypeOK /\ id \in Requests /\ role \in Roles /\ path = <<id, role>>
      /\ path \in transactions_ /\ path \notin creating
      /\ packagekit[path] \in {"success", "failed", "cancelled"}
      /\ transactions_' = transactions_ \ {path}
      /\ failing' = failing \ {path}
      /\ UNCHANGED <<refused, packagekit>>
  BY PathsOf DEF PInv, IInv, Apart, onTransactionFinished, forget
<1>2. Others(id)
  <2>1. \A other \in Requests : other # id => signals'[other] = signals[other]
    <3> DEFINE Alone == \A other \in Requests : other # id => signals'[other] = signals[other]
    <3>1. ASSUME NEW change \in Roles, createTransaction(id, change, creating) PROVE Alone
      BY <1>1, <3>1, EmitsAlone DEF createTransaction
    <3>2. "Install" \in Roles /\ "Remove" \in Roles
      BY DEF Roles
    <3>3. ASSUME failOperation(id) \/ Emit(id, <<"operationFinished(true)">>) PROVE Alone
      BY <1>1, <3>3, EmitsAlone
    <3>4. ASSUME finishQuery(id, path \in failing) PROVE Alone
      BY <1>1, <3>4, EmitsAlone DEF finishQuery
    <3>5. ASSUME NEW change \in {"Install", "Remove"}, callChange(id, change, path \in resolved)
          PROVE  Alone
      BY <3>1, <3>2, <3>3, <3>5 DEF callChange
    <3> HIDE DEF Alone
    <3>6. Alone
      BY <3>3, <3>4, <3>5, Zenon DEF onTransactionFinished
    <3> QED BY <3>6 DEF Alone
  <2>2. \/ creating' = creating
        \/ creating' = creating \cup {<<id, "Install">>}
        \/ creating' = creating \cup {<<id, "Remove">>}
    BY DEF onTransactionFinished, finishQuery, callChange, createTransaction
  <2> QED BY <1>1, <2>1, <2>2 DEF Others, Only
<1>3. ASSUME id \in Operations PROVE Faithful(id)' /\ Allowed(id)
  <2>1. Faithful(id)
    BY <1>3 DEF PInv
  <2>2. /\ ~Over(id) /\ Asked(id) /\ ~Lost(id) /\ role # "QueryInstalled"
        /\ \A r \in Changes : r # role => packagekit[<<id, r>>] = "none"
        /\ ToldOf(id) => path \in failing
    BY <1>1, <1>3, Awaiting
  <2>3. StateOf(id) = "open"
    BY <1>3, <2>2, StatesAre DEF States
  <2>4. \A r \in Roles : packagekit[<<id, r>>] \notin {"working", "lost"}
    BY <1>1, <1>3, Awaiting
  <2>5. \A other \in creating \cup transactions_' : other[1] # id
    BY <1>1, <1>3, Awaiting
  <2>6. CASE failOperation(id) /\ creating' = creating /\ ~(role \in Changes /\ Succeeded(path))
    <3>1. \A r \in Changes : packagekit[<<id, r>>] # "success"
      <4>1. path \in failing => packagekit[path] # "success"
        BY <1>1, <2>1 DEF Faithful
      <4> QED BY <1>1, <2>2, <2>6, <4>1 DEF Succeeded
    <3> QED BY <1>1, <1>3, <2>3, <2>4, <2>5, <2>6, <3>1, Fails
  <2>7. ASSUME NEW change \in Changes, createTransaction(id, change, creating),
               role \notin Changes, Succeeded(path)
        PROVE  Faithful(id)' /\ Allowed(id)
    <3>1. change \in Roles /\ change # "QueryInstalled"
      BY DEF Changes, Roles
    <3>2. \A r \in Changes : packagekit[<<id, r>>] = "none"
      BY <2>2, <2>7
    <3>3. ~ToldOf(id)
      BY <2>2, <2>7 DEF Succeeded
    <3> QED BY <1>1, <1>3, <2>2, <2>3, <2>4, <2>5, <2>7, <3>1, <3>2, <3>3, Creates
  <2>8. CASE /\ role \in Changes /\ Succeeded(path)
             /\ Emit(id, <<"operationFinished(true)">>) /\ creating' = creating
    <3>1. /\ Over(id)' /\ LastOf(id)' = "operationFinished(true)"
          /\ ToldOf(id)' <=> ToldOf(id)
      BY <1>1, <2>8, OneEmitted, SignalKinds
    <3>2. ChangedOf(id) /\ ChangedOf(id)'
      BY <1>1, <2>8 DEF ChangedOf, Changes, Succeeded
    <3>3. \A r \in Roles : <<id, r>> \notin creating' \cup transactions_' /\ <<id, r>> \notin failing'
      BY <1>1, <2>5, <2>8, PathsOf DEF TypeOK
    <3>4. ~Lost(id)' /\ Asked(id)'
      <4>1. ~Lost(id)'
        BY <1>3, <3>3, LostMeans DEF LostIsOne
      <4>2. signals'[id] # <<>>
        BY <3>1 DEF Over
      <4> QED BY <4>1, <4>2 DEF Asked
    <3>5. StateOf(id)' = "ok"
      BY <1>3, <3>1, <3>4, StatesAre DEF States
    <3>6. Faithful(id)'
      <4>1. "QueryInstalled" \in Roles
        BY DEF Roles
      <4> QED BY <1>1, <2>4, <3>1, <3>2, <3>3, <4>1 DEF Faithful
    <3>7. ToldOf(id)' = ToldOf(id) /\ ChangedOf(id)' = ChangedOf(id)
      BY <1>3, <3>1, <3>2, TruthsAre DEF Truths
    <3> QED BY <2>3, <3>2, <3>5, <3>6, <3>7 DEF Allowed
  <2> QED BY <2>2, <2>6, <2>7, <2>8 DEF onTransactionFinished, callChange, Changes
<1> QED BY <1>1, <1>2, <1>3, StepKeeps DEF StepOf

LEMMA InitPromise == Init => PInv /\ Promise!Init
<1> SUFFICES ASSUME Init PROVE PInv /\ Promise!Init
  OBVIOUS
<1>1. \A id \in Operations :
        /\ ~Asked(id) /\ ~Over(id)
        /\ ToldOf(id) = FALSE /\ ChangedOf(id) = FALSE
  <2>1. \A id \in Operations : \A role \in Roles : packagekit[<<id, role>>] = "none"
    BY PathsOf DEF Init
  <2>2. \A id \in Operations : signals[id] = <<>>
    BY PathsOf DEF Init
  <2>3. \A id \in Operations : ~ChangedOf(id)
    <3>1. "Install" \in Roles /\ "Remove" \in Roles
      BY DEF Roles
    <3> QED BY <2>1, <3>1 DEF ChangedOf
  <2>4. \A id \in Operations : ~Asked(id) /\ ~Over(id) /\ ~ToldOf(id)
    <3>1. ASSUME NEW id \in Operations PROVE ~Over(id) /\ ~ToldOf(id)
      <4>1. \A i \in DOMAIN signals[id] : FALSE
        BY <2>2
      <4> QED BY <4>1, Zenon DEF Over, ToldOf
    <3>2. ASSUME NEW id \in Operations PROVE ~Asked(id)
      BY <2>2, Zenon DEF Init, Asked
    <3> QED BY <3>1, <3>2
  <2> QED BY <2>3, <2>4, TruthsAre DEF Truths
<1>2. \A id \in Operations : Faithful(id)
  BY <1>1, PathsOf DEF Init, Faithful
<1>3. Promise!Init
  BY <1>1, StatesAre DEF Promise!Init, States
<1> QED BY <1>2, <1>3, InitIInv DEF PInv

LEMMA NextPromise == PInv /\ [Next]_vars => PInv' /\ [Promise!Next]_(Promise!vars)
<1> SUFFICES ASSUME PInv, [Next]_vars PROVE PInv' /\ [Promise!Next]_(Promise!vars)
  OBVIOUS
<1>1. IInv' /\ TypeOK'
  BY NextIInv DEF PInv, IInv
<1>2. CASE UNCHANGED vars
  BY <1>1, <1>2, QuietKeeps DEF vars, messages, hash, Kept, PInv
<1>3. CASE Request
  BY <1>1, <1>3, RequestPromise DEF Kept, PInv
<1>4. ASSUME NEW id \in Requests, Reply(id)
      PROVE  PInv' /\ [Promise!Next]_(Promise!vars)
  BY <1>1, <1>4, ReplyPromise DEF Kept, PInv
<1>5. ASSUME NEW path \in Paths, DaemonEnds(path) \/ Signal(path)
      PROVE  PInv' /\ [Promise!Next]_(Promise!vars)
  <2>1. CASE onTransactionPackage(path)
    BY <1>1, <2>1, QuietKeeps DEF onTransactionPackage, messages, Kept, PInv
  <2>2. ASSUME NEW end \in Ends, daemonEnds(path, end)
        PROVE  PInv' /\ [Promise!Next]_(Promise!vars)
    BY <1>1, <2>2, DaemonPromise DEF Kept, PInv
  <2>3. CASE onTransactionError(path)
    BY <1>1, <2>3, ErrorPromise DEF Kept, PInv
  <2>4. CASE onTransactionFinished(path)
    BY <1>1, <2>4, FinishedPromise DEF Kept, PInv
  <2> QED BY <1>5, <2>1, <2>2, <2>3, <2>4 DEF DaemonEnds, Signal
<1> QED BY <1>2, <1>3, <1>4, <1>5 DEF Next

\* The backend implements OperationPromise: success is reported exactly of the
\* operations whose packages the daemon changed, failure only after it was said, and
\* nothing once it was reported (the safety part of KeepsPromise).
THEOREM ImplementsPromise == Spec => Promise!Spec
BY InitPromise, NextPromise, PTL DEF Spec, Promise!Spec

=============================================================================
