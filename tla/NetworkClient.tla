--------------------------- MODULE NetworkClient ---------------------------
(***************************************************************************)
(* NetworkClient (core/net): HTTP requests with a timeout per attempt and  *)
(* retries with a backoff.  The client lives on one thread, so a slot or a *)
(* timer runs to its end before the next; what interleaves is the network, *)
(* the timers and the deferred deletion of replies.                        *)
(*                                                                         *)
(* The client knows a reply by its address alone.  A reply is deleted some *)
(* time after it finished, its request and the timeout of its attempt keep *)
(* the address, and a later reply may be created at it.  Addresses are     *)
(* therefore part of the model, and reading a deleted reply either does    *)
(* nothing or ends the program.                                            *)
(*                                                                         *)
(* Time is left out: a timeout or a backoff fires at any moment after it   *)
(* was armed, and in any order (a timer of 30 s is a coarse timer).        *)
(***************************************************************************)
EXTENDS Integers, Sequences

CONSTANTS
    MaxRequests,    \* bound on the requests of a behaviour
    RetryLimits,    \* the values callers pass as max_retries
    Addresses,      \* where replies can be allocated; bounds the replies at a time
    NullReply       \* nullptr

ASSUME NetworkAssumption ==
    /\ MaxRequests \in Nat
    /\ RetryLimits \subseteq Nat
    /\ NullReply \notin Addresses

VARIABLES
    next_request_id_,
    requests_,      \* the hash; a request that is not in it has attempt 0
    replies,        \* what is at each address, and the request it was made for
    timers,         \* the armed timeouts
    backoffs,       \* the requests whose retry is armed
    signals,        \* the signals emitted for each request
    alive           \* whether the program still runs

vars == <<next_request_id_, requests_, replies, timers, backoffs, signals, alive>>

Ids == 1..MaxRequests

NotInHash == [maxRetries |-> 0, attempt |-> 0, reply |-> NullReply]

InHash(id) == requests_[id].attempt > 0

Deleted == [state |-> "deleted", request |-> 0]

-----------------------------------------------------------------------------

Init ==
    /\ next_request_id_ = 1
    /\ requests_ = [id \in Ids |-> NotInHash]
    /\ replies = [a \in Addresses |-> Deleted]
    /\ timers = {}
    /\ backoffs = {}
    /\ signals = [id \in Ids |-> <<>>]
    /\ alive = TRUE

(***************************************************************************)
(* An attempt.                                                             *)
(***************************************************************************)

\* The lambda of the timeout captures the request and the reply; the attempt
\* says whose timeout it is and is not known to the code.
Timeout(id, a, attempt) == [request |-> id, reply |-> a, attempt |-> attempt]

Request(maxRetries, attempt, a) == [maxRetries |-> maxRetries, attempt |-> attempt, reply |-> a]

\* Mutant: the hash keeps the reply of the attempt before.
startAttempt_ReplyNotStored(id, maxRetries, attempt) ==
    \E a \in Addresses :
        /\ replies[a].state = "deleted"
        /\ requests_' = [requests_ EXCEPT ![id] = Request(maxRetries, attempt, @.reply)]
        /\ replies' = [replies EXCEPT ![a] = [state |-> "running", request |-> id]]
        /\ timers' = timers \cup {Timeout(id, a, attempt)}

\* Mutant: no timeout is armed for a retry.
startAttempt_RetryUntimed(id, maxRetries, attempt) ==
    \E a \in Addresses :
        /\ replies[a].state = "deleted"
        /\ requests_' = [requests_ EXCEPT ![id] = Request(maxRetries, attempt, a)]
        /\ replies' = [replies EXCEPT ![a] = [state |-> "running", request |-> id]]
        /\ timers' = IF attempt > 1 THEN timers ELSE timers \cup {Timeout(id, a, attempt)}

\* What startRequest does with a request of the hash: the attempt is counted and
\* sent, and its timeout armed.
startAttempt(id, maxRetries, attempt) ==
    \E a \in Addresses :
        /\ replies[a].state = "deleted"
        /\ requests_' = [requests_ EXCEPT ![id] = Request(maxRetries, attempt, a)]
        /\ replies' = [replies EXCEPT ![a] = [state |-> "running", request |-> id]]
        /\ timers' = timers \cup {Timeout(id, a, attempt)}

get(maxRetries) ==
    /\ alive
    /\ next_request_id_ <= MaxRequests
    /\ next_request_id_' = next_request_id_ + 1
    /\ startAttempt(next_request_id_, maxRetries, 1)
    /\ UNCHANGED <<backoffs, signals, alive>>

\* A backoff ends.
startRequest(id) ==
    /\ alive
    /\ id \in backoffs
    /\ backoffs' = backoffs \ {id}
    /\ IF InHash(id)
       THEN startAttempt(id, requests_[id].maxRetries, requests_[id].attempt + 1)
       ELSE UNCHANGED <<requests_, replies, timers>>
    /\ UNCHANGED <<next_request_id_, signals, alive>>

(***************************************************************************)
(* The end of an attempt.                                                  *)
(***************************************************************************)

\* ok: no error and a status below 400.  transient: a status of 500 or more, or
\* an error without a status.  fatal: everything else, an answer that breaks off
\* after its headers included.
Outcomes == {"ok", "transient", "fatal"}

\* What abort() ends an attempt with: no status yet, or the headers are there.
Aborted == {"transient", "fatal"}

\* Mutant: a failed request stays in the hash.
Settle_FailureKept(id, signal) ==
    /\ requests_' = IF signal = "requestFailed"
                    THEN requests_
                    ELSE [requests_ EXCEPT ![id] = NotInHash]
    /\ signals' = [signals EXCEPT ![id] = Append(@, signal)]
    /\ UNCHANGED backoffs

\* The request leaves the hash and its caller is told.
Settle(id, signal) ==
    /\ requests_' = [requests_ EXCEPT ![id] = NotInHash]
    /\ signals' = [signals EXCEPT ![id] = Append(@, signal)]
    /\ UNCHANGED backoffs

\* Mutant: the retry is armed, and the caller told of the failure as well.
retryLater_AlsoFails(id) ==
    /\ backoffs' = backoffs \cup {id}
    /\ signals' = [signals EXCEPT ![id] = Append(@, "requestFailed")]
    /\ UNCHANGED requests_

retryLater(id) ==
    /\ backoffs' = backoffs \cup {id}
    /\ UNCHANGED <<requests_, signals>>

\* Mutant: one attempt more than the limit.
MayRetry_OneMore(id) == requests_[id].attempt <= requests_[id].maxRetries + 1

\* it->attempt <= it->maxRetries
MayRetry(id) == requests_[id].attempt <= requests_[id].maxRetries

\* The reply at an address finishes, and with it finishReply runs.  The reply is
\* deleted later in any case; it counts only as the current one of its request.
finishReply(a, outcome) ==
    LET id == replies[a].request IN
    /\ replies[a].state = "running"
    /\ replies' = [replies EXCEPT ![a].state = "finished"]
    /\ IF ~InHash(id) \/ requests_[id].reply # a
       THEN UNCHANGED <<requests_, backoffs, signals>>
       ELSE \/ outcome = "ok" /\ Settle(id, "requestFinished")
            \/ outcome = "transient" /\ MayRetry(id) /\ retryLater(id)
            \/ outcome = "transient" /\ ~MayRetry(id) /\ Settle(id, "requestFailed")
            \/ outcome = "fatal" /\ Settle(id, "requestFailed")

networkEnds(a) ==
    /\ alive
    /\ \E outcome \in Outcomes : finishReply(a, outcome)
    /\ UNCHANGED <<next_request_id_, timers, alive>>

\* The event loop carries out deleteLater().
deleteReply(a) ==
    /\ alive
    /\ replies[a].state = "finished"
    /\ replies' = [replies EXCEPT ![a] = Deleted]
    /\ UNCHANGED <<next_request_id_, requests_, timers, backoffs, signals, alive>>

(***************************************************************************)
(* A timeout fires.                                                        *)
(***************************************************************************)

\* The check of timeoutRequest: the request still has this address as its reply.
StillCurrent(t) == InHash(t.request) /\ requests_[t.request].reply = t.reply

timeoutRequest(t) ==
    /\ alive
    /\ t \in timers
    /\ timers' = timers \ {t}
    /\ UNCHANGED next_request_id_
    /\ IF ~StillCurrent(t)
       THEN UNCHANGED <<requests_, replies, backoffs, signals, alive>>
       ELSE \/ /\ replies[t.reply].state = "running"
               /\ \E outcome \in Aborted : finishReply(t.reply, outcome)
               /\ UNCHANGED alive
            \/ /\ replies[t.reply].state = "finished"
               /\ UNCHANGED <<requests_, replies, backoffs, signals, alive>>
            \/ /\ replies[t.reply].state = "deleted"
               /\ alive' \in BOOLEAN
               /\ UNCHANGED <<requests_, replies, backoffs, signals>>

-----------------------------------------------------------------------------

Next ==
    \/ \E maxRetries \in RetryLimits : get(maxRetries)
    \/ \E id \in Ids : startRequest(id)
    \/ \E a \in Addresses : networkEnds(a)
    \/ \E a \in Addresses : deleteReply(a)
    \/ \E t \in timers : timeoutRequest(t)

Spec == Init /\ [][Next]_vars

\* Timers fire and deleteLater() is carried out for as long as the event loop
\* runs.  Nothing is assumed of the network.
Fairness ==
    /\ \A id \in Ids : WF_vars(startRequest(id))
    /\ \A id \in Ids : WF_vars(\E t \in timers : t.request = id /\ timeoutRequest(t))
    /\ \A a \in Addresses : WF_vars(deleteReply(a))

FairSpec == Spec /\ Fairness

-----------------------------------------------------------------------------
(***************************************************************************)
(* Properties.                                                             *)
(***************************************************************************)

Signals == {"requestFinished", "requestFailed"}

TypeOK ==
    /\ next_request_id_ \in 1..(MaxRequests + 1)
    /\ requests_ \in [Ids -> {NotInHash} \cup
                             [maxRetries : RetryLimits, attempt : Nat \ {0}, reply : Addresses]]
    /\ replies \in [Addresses -> {Deleted} \cup [state : {"running", "finished"}, request : Ids]]
    /\ timers \subseteq [request : Ids, reply : Addresses, attempt : Nat \ {0}]
    /\ backoffs \subseteq Ids
    /\ signals \in [Ids -> Seq(Signals)]
    /\ alive \in BOOLEAN

IsRunningReplyOf(a, id) == replies[a].state = "running" /\ replies[a].request = id

\* A request in the hash has exactly one thing going on for it, the attempt the
\* hash points to or an armed retry, and a request that left the hash has
\* nothing: no late reply and no late retry can revive it, through every order
\* of network, timeouts (stale ones too), deletions and reused addresses.
OneThingGoingOn ==
    \A id \in Ids :
        /\ InHash(id) => (id \in backoffs <=> ~IsRunningReplyOf(requests_[id].reply, id))
        /\ id \in backoffs => InHash(id)
        /\ \A a \in Addresses :
              IsRunningReplyOf(a, id) => InHash(id) /\ requests_[id].reply = a

\* A request is sent at most maxRetries + 1 times, and a retry that is armed is
\* one it is still entitled to, also when attempts are cut short by the timeouts
\* of earlier ones.
WithinRetryLimit ==
    \A id \in Ids : InHash(id) =>
        /\ requests_[id].attempt <= requests_[id].maxRetries + 1
        /\ id \in backoffs => MayRetry(id)

\* No attempt can hang: the timeout armed for it is still to fire, whichever
\* timeouts of earlier attempts have fired at its address.
RunningAttemptIsTimed ==
    \A id \in Ids, a \in Addresses :
        IsRunningReplyOf(a, id) => Timeout(id, a, requests_[id].attempt) \in timers

\* A timeout ends the attempt it was armed for and no other.
TimeoutEndsOwnAttempt ==
    [][\A t \in timers :
          (t \notin timers' /\ StillCurrent(t) /\ replies'[t.reply].state # replies[t.reply].state)
             => replies[t.reply].request = t.request /\ requests_[t.request].attempt = t.attempt]_vars

Promise == INSTANCE RequestPromise WITH made <- next_request_id_ - 1

\* Every get() is answered by exactly one signal; and it is answered, however
\* the network behaves, because every attempt is timed and the retries end.
KeepsPromise == Promise!FairSpec

=============================================================================
