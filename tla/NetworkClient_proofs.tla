----------------------- MODULE NetworkClient_proofs -----------------------
(***************************************************************************)
(* What holds of NetworkClient for any number of requests, any retry       *)
(* limits and any supply of addresses.                                     *)
(*                                                                         *)
(* OneThingGoingOn is the heart of the inductive invariant: it makes the   *)
(* comparison of addresses in finishReply exact, although the comparison   *)
(* in timeoutRequest is not.  To it come that a number not yet given out   *)
(* is not in the hash and that a request in the hash has not been answered *)
(* (NotAnsweredBefore), which the promise needs.                           *)
(***************************************************************************)
EXTENDS NetworkClient, SequenceTheorems, TLAPS

NotAnsweredBefore ==
    \A id \in Ids :
        /\ id >= next_request_id_ => ~InHash(id)
        /\ id >= next_request_id_ => signals[id] = <<>>
        /\ InHash(id) => signals[id] = <<>>
        /\ id < next_request_id_ /\ ~InHash(id) => signals[id] # <<>>

IInv ==
    TypeOK /\ OneThingGoingOn /\ WithinRetryLimit /\ RunningAttemptIsTimed /\ NotAnsweredBefore

LEMMA InitIInv == Init => IInv
<1> SUFFICES ASSUME Init PROVE IInv
  OBVIOUS
<1>1. \A id \in Ids : ~InHash(id)
  BY DEF Init, InHash, NotInHash
<1>2. \A a \in Addresses, id \in Ids : ~IsRunningReplyOf(a, id)
  BY DEF Init, IsRunningReplyOf, Deleted
<1>3. TypeOK
  BY NetworkAssumption DEF Init, TypeOK
<1>4. OneThingGoingOn /\ WithinRetryLimit /\ RunningAttemptIsTimed
  BY <1>1, <1>2 DEF Init, OneThingGoingOn, WithinRetryLimit, RunningAttemptIsTimed
<1>5. NotAnsweredBefore
  BY <1>1 DEF Init, NotAnsweredBefore, Ids
<1> QED
  BY <1>3, <1>4, <1>5 DEF IInv

-----------------------------------------------------------------------------
(***************************************************************************)
(* Starting an attempt.                                                    *)
(***************************************************************************)

\* A request for which nothing is going on once its backoff is over gets an
\* attempt: from then on the attempt is what is going on.
LEMMA StartAttempt ==
    ASSUME IInv, NEW id \in Ids, NEW maxRetries \in RetryLimits, NEW n \in Nat \ {0},
           n <= maxRetries + 1,
           \A a \in Addresses : ~IsRunningReplyOf(a, id),
           backoffs' = backoffs \ {id},
           startAttempt(id, maxRetries, n)
    PROVE  /\ requests_' \in [Ids -> {NotInHash} \cup
                             [maxRetries : RetryLimits, attempt : Nat \ {0}, reply : Addresses]]
           /\ replies' \in [Addresses -> {Deleted} \cup [state : {"running", "finished"}, request : Ids]]
           /\ timers' \subseteq [request : Ids, reply : Addresses, attempt : Nat \ {0}]
           /\ OneThingGoingOn' /\ WithinRetryLimit' /\ RunningAttemptIsTimed'
           /\ \A i \in Ids : InHash(i)' <=> (i = id \/ InHash(i))
<1>0. TypeOK /\ OneThingGoingOn /\ WithinRetryLimit /\ RunningAttemptIsTimed
  BY DEF IInv
<1> DEFINE new(a) == Request(maxRetries, n, a)
<1>1. PICK a \in Addresses :
          /\ replies[a].state = "deleted"
          /\ requests_' = [requests_ EXCEPT ![id] = new(a)]
          /\ replies' = [replies EXCEPT ![a] = [state |-> "running", request |-> id]]
          /\ timers' = timers \cup {Timeout(id, a, n)}
  BY DEF startAttempt
<1>3. /\ new(a) \in [maxRetries : RetryLimits, attempt : Nat \ {0}, reply : Addresses]
      /\ new(a).maxRetries = maxRetries /\ new(a).attempt = n /\ new(a).reply = a
  BY DEF Request
<1> HIDE DEF new
<1>4. /\ requests_' \in [Ids -> {NotInHash} \cup
                             [maxRetries : RetryLimits, attempt : Nat \ {0}, reply : Addresses]]
      /\ replies' \in [Addresses -> {Deleted} \cup [state : {"running", "finished"}, request : Ids]]
  BY <1>0, <1>1, <1>3 DEF TypeOK
<1>5. timers' \subseteq [request : Ids, reply : Addresses, attempt : Nat \ {0}]
  BY <1>0, <1>1 DEF TypeOK, Timeout
<1>6. \A i \in Ids : requests_'[i] = IF i = id THEN new(a) ELSE requests_[i]
  BY <1>0, <1>1 DEF TypeOK
<1>7. \A b \in Addresses :
         replies'[b] = IF b = a THEN [state |-> "running", request |-> id] ELSE replies[b]
  BY <1>0, <1>1 DEF TypeOK
<1>8. \A i \in Ids : InHash(i)' <=> (i = id \/ InHash(i))
  BY <1>3, <1>6 DEF InHash
<1>9. \A i \in Ids, b \in Addresses :
         IsRunningReplyOf(b, i)' <=> (IF b = a THEN i = id ELSE IsRunningReplyOf(b, i))
  BY <1>7 DEF IsRunningReplyOf
<1>10. \A i \in Ids : ~IsRunningReplyOf(a, i)
  BY <1>1 DEF IsRunningReplyOf
<1>11. OneThingGoingOn'
  <2> SUFFICES ASSUME NEW i \in Ids
               PROVE  /\ InHash(i)' => (i \in backoffs' <=> ~IsRunningReplyOf(requests_[i].reply, i)')
                      /\ i \in backoffs' => InHash(i)'
                      /\ \A b \in Addresses :
                            IsRunningReplyOf(b, i)' => InHash(i)' /\ requests_'[i].reply = b
    BY DEF OneThingGoingOn
  <2>1. CASE i = id
    <3>1. requests_'[i].reply = a
      BY <1>3, <1>6, <2>1
    <3>2. IsRunningReplyOf(a, i)' /\ i \notin backoffs'
      BY <1>9, <2>1
    <3> QED
      BY <1>8, <1>9, <2>1, <3>1, <3>2
  <2>2. CASE i # id
    <3>1. requests_'[i] = requests_[i] /\ (InHash(i)' <=> InHash(i))
          /\ (i \in backoffs' <=> i \in backoffs)
      BY <1>6, <1>8, <2>2
    <3>2. \A b \in Addresses : IsRunningReplyOf(b, i)' <=> IsRunningReplyOf(b, i)
      BY <1>9, <1>10, <2>2
    <3>3. InHash(i) => requests_[i].reply \in Addresses
      BY <1>0 DEF TypeOK, InHash, NotInHash
    <3> QED
      BY <1>0, <3>1, <3>2, <3>3 DEF OneThingGoingOn
  <2> QED
    BY <2>1, <2>2
<1>12. WithinRetryLimit'
  BY <1>0, <1>3, <1>6, <1>8 DEF WithinRetryLimit, MayRetry
<1>13. RunningAttemptIsTimed'
  BY <1>0, <1>1, <1>3, <1>6, <1>9, <1>10 DEF RunningAttemptIsTimed
<1> QED
  BY <1>4, <1>5, <1>8, <1>11, <1>12, <1>13

-----------------------------------------------------------------------------
(***************************************************************************)
(* Ending an attempt.                                                      *)
(***************************************************************************)

\* The reply that finishes is always the current one of a request in the hash:
\* the comparison in finishReply never takes its early return.
LEMMA FinishedReplyIsCurrent ==
    ASSUME IInv, NEW a \in Addresses, replies[a].state = "running"
    PROVE  /\ replies[a].request \in Ids
           /\ InHash(replies[a].request)
           /\ requests_[replies[a].request].reply = a
           /\ replies[a].request \notin backoffs
           /\ signals[replies[a].request] = <<>>
           /\ replies[a].request < next_request_id_
<1> DEFINE id == replies[a].request
<1>1. id \in Ids
  BY DEF IInv, TypeOK, Deleted
<1>2. IsRunningReplyOf(a, id)
  BY DEF IsRunningReplyOf
<1> HIDE DEF id
<1>3. InHash(id) /\ requests_[id].reply = a /\ id \notin backoffs
  BY <1>1, <1>2 DEF IInv, OneThingGoingOn
<1>4. signals[id] = <<>> /\ ~(id >= next_request_id_)
  BY <1>1, <1>3 DEF IInv, NotAnsweredBefore
<1>5. id < next_request_id_
  BY <1>1, <1>4 DEF IInv, TypeOK, Ids
<1> QED
  BY <1>1, <1>3, <1>4, <1>5 DEF id

\* After a reply finished, its request is either answered, with nothing going on
\* for it, or waits for a retry it is entitled to.
LEMMA FinishReply ==
    ASSUME IInv, NEW a \in Addresses, NEW outcome \in Outcomes,
           finishReply(a, outcome),
           timers' \subseteq timers,
           \A t \in timers : t.reply # a => t \in timers',
           UNCHANGED next_request_id_
    PROVE  /\ requests_' \in [Ids -> {NotInHash} \cup
                             [maxRetries : RetryLimits, attempt : Nat \ {0}, reply : Addresses]]
           /\ replies' \in [Addresses -> {Deleted} \cup [state : {"running", "finished"}, request : Ids]]
           /\ backoffs' \subseteq Ids
           /\ signals' \in [Ids -> Seq(Signals)]
           /\ OneThingGoingOn' /\ WithinRetryLimit' /\ RunningAttemptIsTimed' /\ NotAnsweredBefore'
<1>0. /\ TypeOK /\ OneThingGoingOn /\ WithinRetryLimit /\ RunningAttemptIsTimed
      /\ NotAnsweredBefore
  BY DEF IInv
<1>id. PICK id \in Ids : id = replies[a].request
  BY FinishedReplyIsCurrent DEF finishReply
<1>1. /\ InHash(id) /\ requests_[id].reply = a /\ id \notin backoffs
      /\ signals[id] = <<>> /\ id < next_request_id_
  BY <1>id, FinishedReplyIsCurrent DEF finishReply
<1>2. /\ replies[a].state = "running"
      /\ replies' = [replies EXCEPT ![a].state = "finished"]
      /\ \/ Settle(id, "requestFinished") \/ Settle(id, "requestFailed")
         \/ MayRetry(id) /\ retryLater(id)
  BY <1>id, <1>1 DEF finishReply
<1>3. /\ replies' \in [Addresses -> {Deleted} \cup [state : {"running", "finished"}, request : Ids]]
      /\ \A b \in Addresses :
            IF b = a THEN replies'[b].state = "finished" ELSE replies'[b] = replies[b]
  <2>1. replies[a] \in [state : {"running", "finished"}, request : Ids]
    BY <1>0, <1>2 DEF TypeOK, Deleted
  <2>2. [replies[a] EXCEPT !.state = "finished"] \in [state : {"running", "finished"}, request : Ids]
    BY <2>1
  <2>3. [replies[a] EXCEPT !.state = "finished"].state = "finished"
    BY <2>1
  <2>4. replies' = [replies EXCEPT ![a] = [replies[a] EXCEPT !.state = "finished"]]
    BY <1>2
  <2> DEFINE done == [replies[a] EXCEPT !.state = "finished"]
  <2> HIDE DEF done
  <2> QED
    BY <1>0, <2>2, <2>3, <2>4 DEF TypeOK, done
<1>4. \A i \in Ids, b \in Addresses : IsRunningReplyOf(b, i)' <=> (b # a /\ IsRunningReplyOf(b, i))
  BY <1>3 DEF IsRunningReplyOf
<1>5. \A b \in Addresses : IsRunningReplyOf(b, id) => b = a
  BY <1>0, <1>1 DEF OneThingGoingOn
<1>6. \A i \in Ids : i # id => ~IsRunningReplyOf(a, i)
  BY <1>id DEF IsRunningReplyOf
<1>9. \A i \in Ids, b \in Addresses :
         IsRunningReplyOf(b, i)' <=> (i # id /\ IsRunningReplyOf(b, i))
  BY <1>4, <1>5, <1>6
<1>10. ASSUME NEW i \in Ids, i # id,
              requests_'[i] = requests_[i], i \in backoffs' <=> i \in backoffs
       PROVE  /\ InHash(i)' => (i \in backoffs' <=> ~IsRunningReplyOf(requests_[i].reply, i)')
              /\ i \in backoffs' => InHash(i)'
              /\ \A b \in Addresses :
                    IsRunningReplyOf(b, i)' => InHash(i)' /\ requests_'[i].reply = b
  <2>1. InHash(i)' <=> InHash(i)
    BY <1>10 DEF InHash
  <2>2. InHash(i) => requests_[i].reply \in Addresses
    BY <1>0 DEF TypeOK, InHash, NotInHash
  <2> QED
    BY <1>0, <1>9, <1>10, <2>1, <2>2 DEF OneThingGoingOn
<1>7. ASSUME NEW signal \in Signals, Settle(id, signal)
      PROVE  /\ requests_' \in [Ids -> {NotInHash} \cup
                                [maxRetries : RetryLimits, attempt : Nat \ {0}, reply : Addresses]]
             /\ backoffs' \subseteq Ids /\ signals' \in [Ids -> Seq(Signals)]
             /\ OneThingGoingOn' /\ WithinRetryLimit' /\ RunningAttemptIsTimed' /\ NotAnsweredBefore'
  <2>1. /\ \A i \in Ids : requests_'[i] = IF i = id THEN NotInHash ELSE requests_[i]
        /\ \A i \in Ids : signals'[i] = IF i = id THEN <<signal>> ELSE signals[i]
        /\ backoffs' = backoffs
    BY <1>0, <1>1, <1>7 DEF Settle, TypeOK
  <2>2. \A i \in Ids : InHash(i)' <=> (i # id /\ InHash(i))
    BY <2>1 DEF InHash, NotInHash
  <2>3. /\ requests_' \in [Ids -> {NotInHash} \cup
                           [maxRetries : RetryLimits, attempt : Nat \ {0}, reply : Addresses]]
        /\ backoffs' \subseteq Ids
    BY <1>0, <1>1, <1>7 DEF Settle, TypeOK
  <2>4. signals' \in [Ids -> Seq(Signals)]
    BY <1>0, <1>1, <1>7 DEF Settle, TypeOK
  <2>5. OneThingGoingOn'
    <3>1. /\ ~InHash(id)' /\ id \notin backoffs'
          /\ \A b \in Addresses : ~IsRunningReplyOf(b, id)'
      BY <1>1, <1>9, <2>1, <2>2
    <3> QED
      BY <1>10, <2>1, <3>1 DEF OneThingGoingOn
  <2>6. WithinRetryLimit'
    BY <1>0, <2>1, <2>2 DEF WithinRetryLimit, MayRetry
  <2>7. RunningAttemptIsTimed'
    BY <1>0, <1>4, <1>5, <2>1 DEF RunningAttemptIsTimed, Timeout
  <2>8. NotAnsweredBefore'
    <3>1. <<signal>> # <<>> /\ ~(id >= next_request_id_)
      BY <1>0, <1>1 DEF TypeOK, Ids
    <3> QED
      BY <1>0, <1>1, <2>1, <2>2, <3>1 DEF NotAnsweredBefore
  <2> QED
    BY <2>3, <2>4, <2>5, <2>6, <2>7, <2>8
<1>8. ASSUME MayRetry(id), retryLater(id)
      PROVE  /\ requests_' \in [Ids -> {NotInHash} \cup
                                [maxRetries : RetryLimits, attempt : Nat \ {0}, reply : Addresses]]
             /\ backoffs' \subseteq Ids /\ signals' \in [Ids -> Seq(Signals)]
             /\ OneThingGoingOn' /\ WithinRetryLimit' /\ RunningAttemptIsTimed' /\ NotAnsweredBefore'
  <2>1. /\ requests_' = requests_ /\ signals' = signals /\ backoffs' = backoffs \cup {id}
        /\ \A i \in Ids : InHash(i)' <=> InHash(i)
        /\ \A i \in Ids : MayRetry(i)' <=> MayRetry(i)
    BY <1>8 DEF retryLater, InHash, MayRetry
  <2>2. OneThingGoingOn'
    <3>1. /\ InHash(id)' /\ id \in backoffs'
          /\ \A b \in Addresses : ~IsRunningReplyOf(b, id)'
          /\ ~IsRunningReplyOf(requests_[id].reply, id)'
      <4>1. requests_'[id].reply = a /\ ~IsRunningReplyOf(a, id)'
        BY <1>1, <1>9, <2>1
      <4> QED
        BY <1>1, <1>9, <2>1, <4>1
    <3> QED
      BY <1>10, <2>1, <3>1 DEF OneThingGoingOn
  <2>3. WithinRetryLimit'
    BY <1>0, <1>8, <2>1 DEF WithinRetryLimit
  <2>4. RunningAttemptIsTimed'
    BY <1>0, <1>4, <1>5, <2>1 DEF RunningAttemptIsTimed, Timeout
  <2>5. NotAnsweredBefore'
    BY <1>0, <2>1 DEF NotAnsweredBefore
  <2> QED
    BY <1>0, <1>1, <2>1, <2>2, <2>3, <2>4, <2>5 DEF TypeOK
<1> QED
  BY <1>2, <1>3, <1>7, <1>8 DEF Signals

-----------------------------------------------------------------------------
(***************************************************************************)
(* The inductive invariant.                                                *)
(***************************************************************************)

LEMMA NextIInv == IInv /\ [Next]_vars => IInv'
<1> SUFFICES ASSUME IInv, [Next]_vars PROVE IInv'
  OBVIOUS
<1>0. /\ TypeOK /\ OneThingGoingOn /\ WithinRetryLimit /\ RunningAttemptIsTimed
      /\ NotAnsweredBefore
  BY DEF IInv
<1>1. CASE UNCHANGED vars
  BY <1>0, <1>1 DEF vars, IInv, TypeOK, OneThingGoingOn, WithinRetryLimit, RunningAttemptIsTimed,
                    NotAnsweredBefore, InHash, MayRetry, IsRunningReplyOf
<1>2. ASSUME NEW maxRetries \in RetryLimits, get(maxRetries) PROVE IInv'
  <2>1. PICK id \in Ids : id = next_request_id_
    BY <1>0, <1>2, NetworkAssumption DEF get, TypeOK, Ids
  <2>2. ~InHash(id) /\ id \notin backoffs /\ \A a \in Addresses : ~IsRunningReplyOf(a, id)
    BY <1>0, <2>1 DEF NotAnsweredBefore, OneThingGoingOn, Ids
  <2>3. 1 <= maxRetries + 1
    BY NetworkAssumption
  <2>4. backoffs' = backoffs \ {id} /\ startAttempt(id, maxRetries, 1)
        /\ next_request_id_' = id + 1 /\ UNCHANGED <<signals, alive>>
    BY <1>2, <2>1, <2>2 DEF get
  <2>5. next_request_id_' \in 1..(MaxRequests + 1)
    BY <2>4, NetworkAssumption DEF Ids
  <2>6. \A i \in Ids : InHash(i)' <=> (i = id \/ InHash(i))
    BY <2>2, <2>3, <2>4, StartAttempt
  <2>7. NotAnsweredBefore'
    <3> SUFFICES ASSUME NEW i \in Ids
                 PROVE  /\ i >= id + 1 => ~InHash(i)'
                        /\ i >= id + 1 => signals[i] = <<>>
                        /\ InHash(i)' => signals[i] = <<>>
                        /\ i < id + 1 /\ ~InHash(i)' => signals[i] # <<>>
      BY <2>4 DEF NotAnsweredBefore
    <3>1. /\ i >= id + 1 => i >= id /\ i # id
          /\ i < id + 1 => i < id \/ i = id
          /\ id >= id
      BY DEF Ids
    <3> QED
      BY <1>0, <2>1, <2>6, <3>1 DEF NotAnsweredBefore
  <2>8. TypeOK' /\ OneThingGoingOn' /\ WithinRetryLimit' /\ RunningAttemptIsTimed'
    BY <1>0, <2>2, <2>3, <2>4, <2>5, StartAttempt DEF TypeOK
  <2> QED
    BY <2>7, <2>8 DEF IInv
<1>3. ASSUME NEW id \in Ids, startRequest(id) PROVE IInv'
  <2>1. InHash(id) /\ requests_[id].reply \in Addresses /\ requests_[id].maxRetries \in RetryLimits
        /\ requests_[id].attempt \in Nat \ {0}
    BY <1>0, <1>3 DEF startRequest, OneThingGoingOn, TypeOK, InHash, NotInHash
  <2>2. \A a \in Addresses : ~IsRunningReplyOf(a, id)
    BY <1>0, <1>3, <2>1 DEF startRequest, OneThingGoingOn
  <2>3. PICK n \in Nat \ {0} : n = requests_[id].attempt + 1
    BY <2>1
  <2>4. n <= requests_[id].maxRetries + 1
    BY <1>0, <1>3, <2>1, <2>3, NetworkAssumption DEF startRequest, WithinRetryLimit, MayRetry
  <2>5. startAttempt(id, requests_[id].maxRetries, n) /\ backoffs' = backoffs \ {id}
        /\ UNCHANGED <<next_request_id_, signals, alive>>
    BY <1>3, <2>1, <2>3 DEF startRequest
  <2>6. \A i \in Ids : InHash(i)' <=> InHash(i)
    BY <2>1, <2>2, <2>4, <2>5, StartAttempt
  <2>7. NotAnsweredBefore'
    BY <1>0, <2>5, <2>6 DEF NotAnsweredBefore
  <2>8. TypeOK' /\ OneThingGoingOn' /\ WithinRetryLimit' /\ RunningAttemptIsTimed'
    BY <1>0, <2>1, <2>2, <2>4, <2>5, StartAttempt DEF TypeOK
  <2> QED
    BY <2>7, <2>8 DEF IInv
<1>4. ASSUME NEW a \in Addresses, networkEnds(a) PROVE IInv'
  <2>1. PICK outcome \in Outcomes : finishReply(a, outcome)
    BY <1>4 DEF networkEnds
  <2>2. UNCHANGED <<next_request_id_, timers, alive>>
    BY <1>4 DEF networkEnds
  <2>3. /\ OneThingGoingOn' /\ WithinRetryLimit' /\ RunningAttemptIsTimed' /\ NotAnsweredBefore'
    BY <2>1, <2>2, FinishReply
  <2>4. TypeOK'
    BY <1>0, <2>1, <2>2, FinishReply DEF TypeOK
  <2> QED
    BY <2>3, <2>4 DEF IInv
<1>5. ASSUME NEW a \in Addresses, deleteReply(a) PROVE IInv'
  <2>1. \A i \in Ids, b \in Addresses : IsRunningReplyOf(b, i)' <=> IsRunningReplyOf(b, i)
    BY <1>0, <1>5 DEF deleteReply, TypeOK, IsRunningReplyOf, Deleted
  <2>2. \A i \in Ids : InHash(i) => requests_[i].reply \in Addresses
    BY <1>0 DEF TypeOK, InHash, NotInHash
  <2>3. /\ UNCHANGED <<next_request_id_, requests_, timers, backoffs, signals, alive>>
        /\ \A i \in Ids : (InHash(i)' <=> InHash(i)) /\ (MayRetry(i)' <=> MayRetry(i))
    BY <1>5 DEF deleteReply, InHash, MayRetry
  <2>4. TypeOK'
    BY <1>0, <1>5 DEF deleteReply, TypeOK
  <2>5. OneThingGoingOn'
    BY <1>0, <2>1, <2>2, <2>3 DEF OneThingGoingOn
  <2>6. WithinRetryLimit' /\ RunningAttemptIsTimed' /\ NotAnsweredBefore'
    BY <1>0, <2>1, <2>3 DEF WithinRetryLimit, RunningAttemptIsTimed, NotAnsweredBefore
  <2> QED
    BY <2>4, <2>5, <2>6 DEF IInv
<1>6. ASSUME NEW t \in timers, timeoutRequest(t) PROVE IInv'
  <2>1. /\ t.request \in Ids /\ t.reply \in Addresses
        /\ timers' = timers \ {t} /\ UNCHANGED next_request_id_
    BY <1>0, <1>6 DEF timeoutRequest, TypeOK
  <2>2. CASE UNCHANGED <<requests_, replies, backoffs, signals>> /\ alive' \in BOOLEAN
             /\ ~(StillCurrent(t) /\ replies[t.reply].state = "running")
    <3>1. \A i \in Ids : (InHash(i)' <=> InHash(i)) /\ (MayRetry(i)' <=> MayRetry(i))
      BY <2>2 DEF InHash, MayRetry
    <3>2. \A i \in Ids, b \in Addresses : IsRunningReplyOf(b, i)' <=> IsRunningReplyOf(b, i)
      BY <2>2 DEF IsRunningReplyOf
    <3>3. TypeOK'
      BY <1>0, <2>1, <2>2 DEF TypeOK
    <3>4. OneThingGoingOn'
      <4>1. \A i \in Ids : InHash(i) => requests_[i].reply \in Addresses
        BY <1>0 DEF TypeOK, InHash, NotInHash
      <4> QED
        BY <1>0, <2>2, <3>1, <3>2, <4>1 DEF OneThingGoingOn
    <3>5. WithinRetryLimit' /\ NotAnsweredBefore'
      BY <1>0, <2>1, <2>2, <3>1 DEF WithinRetryLimit, NotAnsweredBefore
    <3>6. RunningAttemptIsTimed'
      <4> SUFFICES ASSUME NEW i \in Ids, NEW b \in Addresses, IsRunningReplyOf(b, i)
                   PROVE  Timeout(i, b, requests_[i].attempt) \in timers'
        BY <2>2, <3>2 DEF RunningAttemptIsTimed
      <4>1. Timeout(i, b, requests_[i].attempt) \in timers
        BY <1>0 DEF RunningAttemptIsTimed
      <4>2. InHash(i) /\ requests_[i].reply = b
        BY <1>0 DEF OneThingGoingOn
      <4>3. t # Timeout(i, b, requests_[i].attempt)
        BY <2>2, <4>2 DEF StillCurrent, Timeout, IsRunningReplyOf
      <4> QED
        BY <2>1, <4>1, <4>3
    <3> QED
      BY <3>3, <3>4, <3>5, <3>6 DEF IInv
  <2>3. CASE replies[t.reply].state = "running" /\ StillCurrent(t)
    <3>1. PICK outcome \in Aborted : finishReply(t.reply, outcome)
      BY <1>6, <2>3 DEF timeoutRequest
    <3>2. outcome \in Outcomes /\ UNCHANGED alive
      BY <1>6, <2>3 DEF timeoutRequest, Aborted, Outcomes
    <3>3. timers' \subseteq timers /\ \A u \in timers : u.reply # t.reply => u \in timers'
      BY <2>1
    <3>4. /\ OneThingGoingOn' /\ WithinRetryLimit' /\ RunningAttemptIsTimed' /\ NotAnsweredBefore'
      BY <2>1, <3>1, <3>2, <3>3, FinishReply
    <3>5. TypeOK'
      BY <1>0, <2>1, <3>1, <3>2, <3>3, FinishReply DEF TypeOK
    <3> QED
      BY <3>4, <3>5 DEF IInv
  <2> QED
    BY <1>0, <1>6, <2>2, <2>3 DEF timeoutRequest, TypeOK
<1> QED
  BY <1>1, <1>2, <1>3, <1>4, <1>5, <1>6 DEF Next

-----------------------------------------------------------------------------
(***************************************************************************)
(* The theorems.                                                           *)
(***************************************************************************)

\* The strengthened invariant of the client.
THEOREM InductiveInvariant == Spec => []IInv
<1>1. Init => IInv
  BY InitIInv
<1>2. IInv /\ [Next]_vars => IInv'
  BY NextIInv
<1> QED
  BY <1>1, <1>2, PTL DEF Spec

\* The hash, the replies and the armed timers keep their types.
THEOREM TypeCorrect == Spec => []TypeOK
<1>1. IInv => TypeOK
  BY DEF IInv
<1> QED
  BY <1>1, InductiveInvariant, PTL

\* A request of the hash has exactly one attempt or retry going on, one that was
\* answered has none, whatever addresses later replies are created at.
THEOREM OneThingGoingOnAlways == Spec => []OneThingGoingOn
<1>1. IInv => OneThingGoingOn
  BY DEF IInv
<1> QED
  BY <1>1, InductiveInvariant, PTL

\* No request is sent more than maxRetries + 1 times.
THEOREM RetriesAreBounded == Spec => []WithinRetryLimit
<1>1. IInv => WithinRetryLimit
  BY DEF IInv
<1> QED
  BY <1>1, InductiveInvariant, PTL

\* Every attempt on its way still has its own timeout armed.
THEOREM AttemptsAreTimed == Spec => []RunningAttemptIsTimed
<1>1. IInv => RunningAttemptIsTimed
  BY DEF IInv
<1> QED
  BY <1>1, InductiveInvariant, PTL

\* A reply that finishes answers its own request, for the first time, or leaves
\* all answers alone.
LEMMA FinishReplyAnswers ==
    ASSUME IInv, NEW a \in Addresses, NEW outcome, finishReply(a, outcome), alive,
           UNCHANGED <<next_request_id_, alive>>
    PROVE  [Promise!Next]_(Promise!vars)
<1>1. PICK id \in Ids : id = replies[a].request
  BY FinishedReplyIsCurrent DEF finishReply
<1>2. InHash(id) /\ requests_[id].reply = a /\ signals[id] = <<>> /\ id < next_request_id_
  BY <1>1, FinishedReplyIsCurrent DEF finishReply
<1>3. CASE UNCHANGED signals
  BY <1>3 DEF Promise!vars
<1>4. ASSUME NEW signal \in {"requestFinished", "requestFailed"}, Settle(id, signal)
      PROVE  Promise!Answer(id)
  <2>1. id <= next_request_id_ - 1
    BY <1>2 DEF IInv, TypeOK, Ids
  <2>2. Append(signals[id], signal) = <<signal>>
    BY <1>2
  <2>3. signals' = [signals EXCEPT ![id] = <<signal>>]
    BY <1>4, <2>2 DEF Settle
  <2> QED
    BY <1>2, <2>1, <2>3 DEF Promise!Answer
<1> QED
  BY <1>1, <1>2, <1>3, <1>4
     DEF finishReply, retryLater, Promise!Next, Promise!Ids, Ids

LEMMA NextPromise == IInv /\ [Next]_vars => [Promise!Next]_(Promise!vars)
<1> SUFFICES ASSUME IInv, [Next]_vars PROVE [Promise!Next]_(Promise!vars)
  OBVIOUS
<1>1. ASSUME UNCHANGED <<next_request_id_, signals, alive>> PROVE UNCHANGED Promise!vars
  BY <1>1 DEF Promise!vars
<1>2. CASE UNCHANGED vars
  BY <1>1, <1>2 DEF vars
<1>3. ASSUME NEW maxRetries \in RetryLimits, get(maxRetries) PROVE Promise!Make
  BY <1>3, NetworkAssumption DEF get, Promise!Make, IInv, TypeOK
<1>4. ASSUME NEW id \in Ids, startRequest(id) PROVE UNCHANGED Promise!vars
  BY <1>1, <1>4 DEF startRequest
<1>5. ASSUME NEW a \in Addresses, networkEnds(a) PROVE [Promise!Next]_(Promise!vars)
  BY <1>5, FinishReplyAnswers DEF networkEnds
<1>6. ASSUME NEW a \in Addresses, deleteReply(a) PROVE UNCHANGED Promise!vars
  BY <1>1, <1>6 DEF deleteReply
<1>7. ASSUME NEW t \in timers, timeoutRequest(t) PROVE [Promise!Next]_(Promise!vars)
  <2>1. t.reply \in Addresses /\ alive /\ UNCHANGED next_request_id_
    BY <1>7 DEF timeoutRequest, IInv, TypeOK
  <2>2. CASE UNCHANGED <<signals, alive>>
    BY <1>1, <2>1, <2>2
  <2>3. CASE UNCHANGED signals /\ alive' = FALSE
    BY <2>1, <2>3 DEF Promise!Die, Promise!Next
  <2>4. ASSUME NEW outcome, finishReply(t.reply, outcome), UNCHANGED alive
        PROVE  [Promise!Next]_(Promise!vars)
    BY <2>1, <2>4, FinishReplyAnswers
  <2> QED
    BY <1>7, <2>1, <2>2, <2>3, <2>4 DEF timeoutRequest
<1> QED
  BY <1>2, <1>3, <1>4, <1>5, <1>6, <1>7 DEF Next, Promise!Next

\* The client implements the promise: each get() is answered by at most one
\* signal, for any number of requests, retries and reused addresses.  (That the
\* signal comes is liveness: KeepsPromise adds it.)
THEOREM ImplementsPromise == Spec => Promise!Spec
<1>1. Init => Promise!Init
  BY DEF Init, Promise!Init, Promise!Ids, Ids
<1>2. IInv /\ [Next]_vars => [Promise!Next]_(Promise!vars)
  BY NextPromise
<1> QED
  BY <1>1, <1>2, InductiveInvariant, PTL DEF Spec, Promise!Spec

=============================================================================
